------------------------------ MODULE TimerQueue ------------------------------
(***************************************************************************)
(* The TimerQueue of one Reactor (src/flute/net/TimerQueue.cc, Timer.cc,   *)
(* TimerId.h).                                                              *)
(*                                                                         *)
(* Actors:                                                                 *)
(*   - the loop thread: it runs queued add_timer_in_reactor /              *)
(*     cancel_in_reactor tasks, reads the timerfd when it is readable,     *)
(*     runs the expired timers' callbacks one by one and then reset()s;    *)
(*   - a user thread other than the loop thread calling add_timer and      *)
(*     remove, which queue their work onto the loop (run_asap_in_reactor); *)
(*   - the monotonic clock.                                                *)
(* Timer objects live at addresses 1..NumAddrs that `new` may reuse once   *)
(* `delete`d; a TimerId is the pair <<address, global id>>.  Callbacks may *)
(* cancel a timer or add one from inside the loop.                         *)
(***************************************************************************)
EXTENDS Naturals, Sequences, SequencesExt, FiniteSets

CONSTANTS
  NumAddrs,        \* addresses the allocator may hand out for a Timer
  MaxTimers,       \* add_timer calls, i.e. values of g_global_timer_id
  MaxTime,         \* last tick of the clock
  Delays,          \* run_after delays: expiration = now + delay
  Intervals,       \* intervals; 0 is a one-shot timer
  CallbackCancels  \* what a callback may remove(): "none", "self" (its own
                   \* TimerId) or "any" (any TimerId handed out)

ASSUME /\ NumAddrs \in Nat \ {0}
       /\ MaxTimers \in Nat \ {0}
       /\ MaxTime \in Nat
       /\ Delays \subseteq Nat /\ Intervals \subseteq Nat
       /\ CallbackCancels \in {"none", "self", "any"}

Addrs == 1..NumAddrs
Ids == 1..MaxTimers
Times == 0..(MaxTime + Max(Delays \cup Intervals))
\* The heap slot of an address no Timer occupies.
FreeTimer == [seq |-> 0, exp |-> 0, ivl |-> 0]

VARIABLES
  heap,         \* address -> the Timer there (m_global_timer_id, m_time_expire,
                \* m_interval); seq = 0 when free
  timers_set,   \* m_timers_set: set of <<expiration, address>>
  active_set,   \* m_active_timers_set: set of <<address, global id>>
  canceling,    \* m_canceling_timers
  calling,      \* m_is_calling_expired_timers
  expired,      \* the batch of handle_timerfd_read, sorted
  cb_next,      \* index in `expired` of the next callback to run
  batch_now,    \* the `now` of handle_timerfd_read
  lpc,          \* loop thread: "idle" or "callbacks"
  tfd,          \* time the timerfd is armed for; 0 when disarmed
  clock,        \* Timestamp::now() / CLOCK_MONOTONIC, in ticks
  q,            \* the reactor's pending tasks for this TimerQueue
  next_seq,     \* g_global_timer_id
  issued,       \* TimerIds returned by add_timer
  user_removed, \* TimerIds the user thread has passed to remove
  cancelled,    \* history: ids whose cancel_in_reactor has run
  killed,       \* history: ids deleted by cancel_in_reactor
  late_fires    \* history: ids whose callback ran after their cancel ran

vars == <<heap, timers_set, active_set, canceling, calling, expired, cb_next,
          batch_now, lpc, tfd, clock, q, next_seq, issued, user_removed,
          cancelled, killed, late_fires>>

(* The order of std::set<Entry>: by expiration, then by address.          *)
EntryLT(a, b) == a[1] < b[1] \/ (a[1] = b[1] /\ a[2] < b[2])

(* reset_timer_fd: how_long_from_now clamps the delay to 100us, below the *)
(* clock's tick: a due expiration arms the timerfd for now.               *)
ArmTimerfd(when) == IF when > clock THEN when ELSE clock

(* The timers the Reactor asks for: run_after(delay) is one-shot at      *)
(* now + delay; run_every(interval) first expires at now + interval.      *)
TimerArgs == {[dly |-> d, ivl |-> 0] : d \in Delays}
               \cup {[dly |-> i, ivl |-> i] : i \in Intervals \ {0}}

(* The first expiration in m_timers_set, for a non-empty set.              *)
Earliest(S) == Min({e[1] : e \in S})

\* Mutant: get_and_increment instead of increment_and_get.
IdBeforeIncrement == next_seq

(* The Timer constructor: g_global_timer_id.increment_and_get().           *)
IncrementAndGet == next_seq + 1

(* new Timer(cb, now + delay, interval): m_time_expire, m_interval (the    *)
(* timer repeats when it is > 0) and m_global_timer_id.                    *)
NewTimer(x) == [seq |-> IncrementAndGet, exp |-> clock + x.dly, ivl |-> x.ivl]

(* Timer::restart: a repeating timer expires one interval after now; any  *)
(* other gets Timestamp::invalid() (0).                                    *)
Restart(t, now) == [t EXCEPT !.exp = IF t.ivl > 0 THEN now + t.ivl ELSE 0]

-----------------------------------------------------------------------------
\* Mutant: the earliest expiration only "changes" for an empty set.
InsertNoEarlierRearm(a, t) ==
  /\ timers_set' = timers_set \cup {<<t.exp, a>>}
  /\ active_set' = active_set \cup {<<a, t.seq>>}
  /\ tfd' = IF timers_set = {} THEN ArmTimerfd(t.exp) ELSE tfd

(* insert, followed by add_timer_in_reactor's reset_timer_fd when the new  *)
(* timer is earlier than every timer in m_timers_set.                      *)
Insert(a, t) ==
  /\ timers_set' = timers_set \cup {<<t.exp, a>>}
  /\ active_set' = active_set \cup {<<a, t.seq>>}
  /\ tfd' = IF timers_set = {} \/ t.exp < Earliest(timers_set)
              THEN ArmTimerfd(t.exp) ELSE tfd

\* Mutant: the lookup ignores the sequence: any timer at that address.
CancelByAddress(id) ==
  LET a == id[1] IN
  /\ IF heap[a].seq # 0 /\ <<a, heap[a].seq>> \in active_set
       THEN /\ timers_set' = timers_set \ {<<heap[a].exp, a>>}
            /\ active_set' = active_set \ {<<a, heap[a].seq>>}
            /\ heap' = [heap EXCEPT ![a] = FreeTimer]
            /\ killed' = killed \cup {heap[a].seq}
            /\ UNCHANGED canceling
       ELSE /\ canceling' = IF calling THEN canceling \cup {id} ELSE canceling
            /\ UNCHANGED <<timers_set, active_set, heap, killed>>
  /\ cancelled' = cancelled \cup {id[2]}

\* Mutant: the found timer is erased from m_active_timers_set only.
CancelEraseActiveOnly(id) ==
  /\ IF id \in active_set
       THEN /\ active_set' = active_set \ {id}
            /\ heap' = [heap EXCEPT ![id[1]] = FreeTimer]
            /\ killed' = killed \cup {heap[id[1]].seq}
            /\ UNCHANGED <<canceling, timers_set>>
       ELSE /\ canceling' = IF calling THEN canceling \cup {id} ELSE canceling
            /\ UNCHANGED <<timers_set, active_set, heap, killed>>
  /\ cancelled' = cancelled \cup {id[2]}

(* cancel_in_reactor: a timer found in m_active_timers_set is erased from  *)
(* both sets and deleted; otherwise, during the callbacks, the TimerId is  *)
(* remembered in m_canceling_timers so that reset() does not restart it.   *)
CancelInReactor(id) ==
  LET a == id[1] IN
  /\ IF id \in active_set
       THEN /\ timers_set' = timers_set \ {<<heap[a].exp, a>>}
            /\ active_set' = active_set \ {id}
            /\ heap' = [heap EXCEPT ![a] = FreeTimer]
            /\ killed' = killed \cup {heap[a].seq}
            /\ UNCHANGED canceling
       ELSE /\ canceling' = IF calling THEN canceling \cup {id} ELSE canceling
            /\ UNCHANGED <<timers_set, active_set, heap, killed>>
  /\ cancelled' = cancelled \cup {id[2]}

-----------------------------------------------------------------------------
(* The user thread.                                                        *)

(* add_timer: `new Timer` (a free address, the next global id), queue      *)
(* add_timer_in_reactor and return the TimerId at once.                    *)
add_timer ==
  /\ next_seq < MaxTimers
  /\ \E a \in Addrs, x \in TimerArgs :
       /\ heap[a].seq = 0
       /\ heap' = [heap EXCEPT ![a] = NewTimer(x)]
       /\ q' = Append(q, [op |-> "add", id |-> <<a, IncrementAndGet>>])
       /\ issued' = issued \cup {<<a, IncrementAndGet>>}
  /\ next_seq' = next_seq + 1
  /\ UNCHANGED <<timers_set, active_set, canceling, calling, expired, cb_next,
                 batch_now, lpc, tfd, clock, user_removed, cancelled, killed,
                 late_fires>>

(* remove: queue cancel_in_reactor with the TimerId, stale or not.         *)
remove ==
  \E id \in issued \ user_removed :
    /\ user_removed' = user_removed \cup {id}
    /\ q' = Append(q, [op |-> "cancel", id |-> id])
    /\ UNCHANGED <<heap, timers_set, active_set, canceling, calling, expired,
                   cb_next, batch_now, lpc, tfd, clock, next_seq, issued,
                   cancelled, killed, late_fires>>

-----------------------------------------------------------------------------
(* The loop thread.                                                        *)

(* do_queueing_tasks runs add_timer_in_reactor.                            *)
add_timer_in_reactor ==
  /\ lpc = "idle"
  /\ q # <<>> /\ Head(q).op = "add"
  /\ q' = Tail(q)
  /\ Insert(Head(q).id[1], heap[Head(q).id[1]])
  /\ UNCHANGED <<heap, canceling, calling, expired, cb_next, batch_now, lpc,
                 clock, next_seq, issued, user_removed, cancelled, killed,
                 late_fires>>

(* do_queueing_tasks runs cancel_in_reactor.                               *)
cancel_in_reactor ==
  /\ lpc = "idle"
  /\ q # <<>> /\ Head(q).op = "cancel"
  /\ q' = Tail(q)
  /\ CancelInReactor(Head(q).id)
  /\ UNCHANGED <<calling, expired, cb_next, batch_now, lpc, tfd, clock,
                 next_seq, issued, user_removed, late_fires>>

(* handle_timerfd_read: read the timerfd (disarming it), take out every    *)
(* entry up to the sentry <<now, UINTPTR_MAX>> from both sets, clear       *)
(* m_canceling_timers and start calling.                                   *)
handle_timerfd_read ==
  /\ lpc = "idle"
  /\ tfd # 0 /\ clock >= tfd
  /\ LET due == {e \in timers_set : e[1] <= clock} IN
     /\ expired' = SetToSortSeq(due, EntryLT)
     /\ timers_set' = timers_set \ due
     /\ active_set' = active_set \ {<<e[2], heap[e[2]].seq>> : e \in due}
  /\ tfd' = 0
  /\ batch_now' = clock
  /\ calling' = TRUE
  /\ canceling' = {}
  /\ cb_next' = 1
  /\ lpc' = "callbacks"
  /\ UNCHANGED <<heap, clock, q, next_seq, issued, user_removed, cancelled,
                 killed, late_fires>>

(* Timer::alarm for the next expired entry.  The callback may do nothing, *)
(* remove a TimerId (inline: this is the loop thread) or add a timer       *)
(* (inline insert).                                                        *)
run_callback ==
  /\ lpc = "callbacks"
  /\ cb_next <= Len(expired)
  /\ LET a == expired[cb_next][2]
         me == <<a, heap[a].seq>>
     IN
     /\ late_fires' = IF me[2] \in cancelled THEN late_fires \cup {me[2]}
                                               ELSE late_fires
     /\ cb_next' = cb_next + 1
     /\ \/ UNCHANGED <<heap, timers_set, active_set, canceling, tfd, next_seq,
                       issued, cancelled, killed>>
        \/ /\ CallbackCancels # "none"
           /\ \E id \in IF CallbackCancels = "self" THEN {me} ELSE issued :
                CancelInReactor(id)
           /\ UNCHANGED <<tfd, next_seq, issued>>
        \/ /\ next_seq < MaxTimers
           /\ \E b \in Addrs, x \in TimerArgs :
                LET t == NewTimer(x) IN
                /\ heap[b].seq = 0
                /\ heap' = [heap EXCEPT ![b] = t]
                /\ Insert(b, t)
                /\ issued' = issued \cup {<<b, t.seq>>}
           /\ next_seq' = next_seq + 1
           /\ UNCHANGED <<canceling, cancelled, killed>>
  /\ UNCHANGED <<calling, expired, batch_now, lpc, clock, q, user_removed>>

\* Mutant: reset() restarts repeating timers without consulting
\* m_canceling_timers.
ResetIgnoresCanceling ==
  LET batch == {e[2] : e \in Range(expired)}
      keep  == {a \in batch : heap[a].ivl > 0}
      restarted == {<<batch_now + heap[a].ivl, a>> : a \in keep}
  IN
  /\ heap' = [a \in Addrs |->
                IF a \in keep THEN Restart(heap[a], batch_now)
                ELSE IF a \in batch THEN FreeTimer ELSE heap[a]]
  /\ timers_set' = timers_set \cup restarted
  /\ active_set' = active_set \cup {<<a, heap[a].seq>> : a \in keep}
  /\ tfd' = IF timers_set' # {} THEN ArmTimerfd(Earliest(timers_set')) ELSE tfd

(* reset: restart and re-insert each repeating timer of the batch that is *)
(* not in m_canceling_timers, delete the others, and arm the timerfd for  *)
(* the first expiration left, if any.                                      *)
Reset ==
  LET batch == {e[2] : e \in Range(expired)}
      keep  == {a \in batch : heap[a].ivl > 0
                              /\ <<a, heap[a].seq>> \notin canceling}
      restarted == {<<batch_now + heap[a].ivl, a>> : a \in keep}
  IN
  /\ heap' = [a \in Addrs |->
                IF a \in keep THEN Restart(heap[a], batch_now)
                ELSE IF a \in batch THEN FreeTimer ELSE heap[a]]
  /\ timers_set' = timers_set \cup restarted
  /\ active_set' = active_set \cup {<<a, heap[a].seq>> : a \in keep}
  /\ tfd' = IF timers_set' # {} THEN ArmTimerfd(Earliest(timers_set')) ELSE tfd

(* After the last callback: m_is_calling_expired_timers = false, reset().  *)
finish_callbacks ==
  /\ lpc = "callbacks"
  /\ cb_next > Len(expired)
  /\ calling' = FALSE
  /\ Reset
  /\ lpc' = "idle"
  /\ expired' = <<>>
  /\ UNCHANGED <<canceling, cb_next, batch_now, clock, q, next_seq, issued,
                 user_removed, cancelled, killed, late_fires>>

(* Time passes.                                                             *)
tick ==
  /\ clock < MaxTime
  /\ clock' = clock + 1
  /\ UNCHANGED <<heap, timers_set, active_set, canceling, calling, expired,
                 cb_next, batch_now, lpc, tfd, q, next_seq, issued,
                 user_removed, cancelled, killed, late_fires>>

-----------------------------------------------------------------------------
(* create_timer_fd: timerfd_create gives a disarmed timerfd (a failure is  *)
(* LOG_SYSFATAL, which aborts).                                             *)
CreateTimerFd == 0

Init ==
  /\ heap = [a \in Addrs |-> FreeTimer]
  /\ timers_set = {} /\ active_set = {} /\ canceling = {}
  /\ calling = FALSE
  /\ expired = <<>> /\ cb_next = 1 /\ batch_now = 0
  /\ lpc = "idle"
  /\ tfd = CreateTimerFd
  /\ clock = 1
  /\ q = <<>>
  /\ next_seq = 0
  /\ issued = {} /\ user_removed = {}
  /\ cancelled = {} /\ killed = {} /\ late_fires = {}

LoopNext ==
  \/ add_timer_in_reactor \/ cancel_in_reactor \/ handle_timerfd_read
  \/ run_callback \/ finish_callbacks

Next == LoopNext \/ add_timer \/ remove \/ tick

(* The loop thread keeps being scheduled and the clock keeps running.      *)
Fairness == WF_vars(LoopNext) /\ WF_vars(tick)

Spec == Init /\ [][Next]_vars /\ Fairness

-----------------------------------------------------------------------------
(* Properties.                                                             *)

TypeOK ==
  /\ heap \in [Addrs -> [seq : 0..MaxTimers, exp : Times, ivl : Intervals \cup {0}]]
  /\ timers_set \subseteq Times \X Addrs
  /\ active_set \subseteq Addrs \X Ids
  /\ canceling \subseteq Addrs \X Ids
  /\ calling \in BOOLEAN
  /\ expired \in Seq(Times \X Addrs)
  /\ lpc \in {"idle", "callbacks"}
  /\ tfd \in Times
  /\ clock \in 0..MaxTime
  /\ next_seq \in 0..MaxTimers
  /\ issued \subseteq Addrs \X Ids /\ user_removed \subseteq issued
  /\ cancelled \subseteq Ids /\ killed \subseteq Ids /\ late_fires \subseteq Ids

(* The two indexes of the queue describe the same timers: m_active_timers_set *)
(* holds <<address, id>> of exactly the Timers entered in m_timers_set, each  *)
(* under its current expiration (what the size asserts of insert,          *)
(* cancel_in_reactor and retrieve_expired_timers rely on), across adds,     *)
(* cancels, batches and restarts.                                          *)
IndexesAgree ==
  /\ active_set = {<<e[2], heap[e[2]].seq>> : e \in timers_set}
  /\ \A e \in timers_set : heap[e[2]].seq # 0 /\ heap[e[2]].exp = e[1]

(* A timer whose cancel_in_reactor has run is never again in m_timers_set: *)
(* not re-inserted by reset() after a cancel from its own callback, and    *)
(* not inserted by an add_timer_in_reactor that runs after the cancel.     *)
CancelledNeverRearmed ==
  \A e \in timers_set : heap[e[2]].seq \notin cancelled

(* A TimerId whose Timer was deleted and whose address was reused by a new *)
(* Timer cancels nothing: cancel_in_reactor only deletes the Timer it was  *)
(* given the id of.                                                        *)
KilledOnlyCancelled == killed \subseteq cancelled

(* No callback runs after cancel_in_reactor for its timer has run.         *)
NoFireAfterCancel == late_fires = {}

(* A timer whose expiration has passed is eventually taken out of         *)
(* m_timers_set and called: the timerfd is always armed for the earliest  *)
(* expiration (add_timer_in_reactor's rearm, reset's rearm).             *)
Due(s) == \E e \in timers_set : heap[e[2]].seq = s /\ e[1] <= clock
DueTimerFires == \A s \in Ids : Due(s) ~> ~Due(s)

=============================================================================
