---------------------------- MODULE AsyncLogging ----------------------------
(***************************************************************************)
(* AsyncLogging (src/flute/common/AsyncLogging.h, AsyncLogging.cc): front *)
(* threads append log lines under m_mutex into the current buffer; a full *)
(* buffer is moved to m_used_buffers and the reserved (or a new) buffer    *)
(* becomes current.  The backend thread swaps the used buffers, plus the   *)
(* current one, out under the mutex, writes at most two of them, drops the *)
(* rest, and keeps two written buffers as its spares.  The owner starts    *)
(* the backend (waiting on its latch) and stops it.                        *)
(* Buffers are numbers 1..MaxBuffers, 0 is a null BufferPtr; a line is     *)
(* <<writer, i>> with a length in 1..Cap-1 (a LogStream line is always     *)
(* shorter than a buffer).  The notify of append and stop only shortens   *)
(* the backend's wait_for_seconds, which ends by itself after              *)
(* m_flush_interval, so waking is one step that may always be taken.       *)
(***************************************************************************)
EXTENDS Integers, Sequences, SequencesExt, FiniteSets, LogFile

CONSTANTS
  Writers,     \* front threads calling append
  Lines,       \* lines each writer appends
  Cap,         \* kLogBufferSize
  MaxBuffers,  \* buffers that can be allocated (new Buffer)
  DropLen,     \* length of the "Dropped log messages" line
  MaxTime      \* last second of ::time(NULL) explored

None == 0
BufferIds == 1..MaxBuffers
Line == Writers \X (1..Lines)

VARIABLES
  cur, reserve, used,  \* m_cur_buffer_ptr, m_reserved_buffer_ptr, m_used_buffers
  content, fill,       \* the lines in each buffer and its length()
  free,                \* buffers not allocated
  bpc,                 \* backend thread: "unstarted", "begin", "check", "lock",
                       \* "wait", "write", "exited", "crashed"
  nb1, nb2, btw,       \* new_buffer_ptr1, new_buffer_ptr2, buffers_to_write
  running, latch,      \* m_is_running, m_backend_latch counted down
  opc,                 \* owner: "idle", "starting", "running", "joining", "done"
  sent,                \* lines appended by each writer
  written, dropped,    \* lines in the LogFile, lines dropped as excess buffers
  bad,                 \* a backend assert has failed
  before_stop,         \* the lines appended when stop() began
  now,                 \* ::time(NULL) when the backend last read it
  output               \* the backend's LogFile

vars == <<cur, reserve, used, content, fill, free, bpc, nb1, nb2, btw,
          running, latch, opc, sent, written, dropped, bad, before_stop,
          now, output>>
log_vars == <<now, output>>

Appended == {<<w, i>> \in Line : i <= sent[w]}
LinesOf(bs) == UNION {ToSet(content[bs[i]]) : i \in DOMAIN bs}

-----------------------------------------------------------------------------
\* Mutant: avail() measured from m_data instead of m_cur.
AvailFromStart(b) == Cap

(* FixedBuffer::avail: the bytes between m_cur and the end of m_data.     *)
Avail(b) == Cap - fill[b]

(* FixedBuffer::append: copy the line in and advance m_cur when it fits   *)
(* (avail() > len); a line that does not fit is silently left out.        *)
FixedAppend(b, l, len) ==
  IF Avail(b) > len
    THEN /\ content' = [content EXCEPT ![b] = Append(@, l)]
         /\ fill' = [fill EXCEPT ![b] = @ + len]
    ELSE UNCHANGED <<content, fill>>

(* The test of append: the current buffer has room, avail() > len.        *)
Roomy(b, len) == Avail(b) > len

(* append: under m_mutex, into the current buffer if avail() > len, else   *)
(* archive it to m_used_buffers and continue in the reserved buffer, or in *)
(* a new one.                                                               *)
append(w) ==
  /\ sent[w] < Lines /\ cur # None
  /\ \E len \in 1..Cap - 1 :
       LET l == <<w, sent[w] + 1>>
           roomy == Roomy(cur, len)
           nc == IF roomy THEN cur
                 ELSE IF reserve # None THEN reserve ELSE Min(free)
       IN  /\ roomy \/ reserve # None \/ free # {}
           /\ FixedAppend(nc, l, len)
           /\ cur' = nc
           /\ used' = IF roomy THEN used ELSE Append(used, cur)
           /\ reserve' = IF roomy THEN reserve ELSE None
           /\ free' = free \ {nc}
  /\ sent' = [sent EXCEPT ![w] = @ + 1]
  /\ UNCHANGED <<bpc, nb1, nb2, btw, running, latch, opc, written, dropped,
                 bad, before_stop>>
  /\ UNCHANGED log_vars

-----------------------------------------------------------------------------
(* The owner.                                                               *)

(* start: set m_is_running, start the backend thread, wait on the latch.   *)
start ==
  /\ opc = "idle"
  /\ running' = TRUE /\ bpc' = "begin" /\ opc' = "starting"
  /\ UNCHANGED <<cur, reserve, used, content, fill, free, nb1, nb2, btw,
                 latch, sent, written, dropped, bad, before_stop>>
  /\ UNCHANGED log_vars

start_return ==
  /\ opc = "starting" /\ latch
  /\ opc' = "running"
  /\ UNCHANGED <<cur, reserve, used, content, fill, free, bpc, nb1, nb2, btw,
                 running, latch, sent, written, dropped, bad, before_stop>>
  /\ UNCHANGED log_vars

(* stop (also run by the destructor): clear m_is_running, notify, join.    *)
stop ==
  /\ opc = "running"
  /\ running' = FALSE /\ opc' = "joining"
  /\ before_stop' = Appended
  /\ UNCHANGED <<cur, reserve, used, content, fill, free, bpc, nb1, nb2, btw,
                 latch, sent, written, dropped, bad>>
  /\ UNCHANGED log_vars

join ==
  /\ opc = "joining" /\ bpc = "exited"
  /\ opc' = "done"
  /\ UNCHANGED <<cur, reserve, used, content, fill, free, bpc, nb1, nb2, btw,
                 running, latch, sent, written, dropped, bad, before_stop>>
  /\ UNCHANGED log_vars

-----------------------------------------------------------------------------
(* The backend thread, backend_thread_func.                                 *)

(* Entry: assert m_is_running, count the latch down, allocate the two      *)
(* spare buffers.                                                           *)
backend_begin ==
  /\ bpc = "begin" /\ Cardinality(free) >= 2
  /\ LET b1 == Min(free)
          b2 == Min(free \ {b1})
     IN  /\ nb1' = b1 /\ nb2' = b2
         /\ free' = free \ {b1, b2}
  /\ bad' = (bad \/ ~running)
  /\ latch' = TRUE /\ bpc' = "check"
  /\ \E t \in now..MaxTime : now' = t /\ output' = NewLogFile(t)
  /\ UNCHANGED <<cur, reserve, used, content, fill, btw, running, opc, sent,
                 written, dropped, before_stop>>

(* The loop test while (m_is_running) with the asserts of its body, or the *)
(* exit and final output.flush().                                          *)
backend_check ==
  /\ bpc = "check"
  /\ IF running
       THEN /\ bad' = (bad \/ nb1 = None \/ nb2 = None \/ btw # <<>>
                       \/ fill[nb1] # 0 \/ fill[nb2] # 0)
            /\ bpc' = "lock"
       ELSE /\ bpc' = "exited" /\ UNCHANGED bad
  /\ UNCHANGED <<cur, reserve, used, content, fill, free, nb1, nb2, btw,
                 running, latch, opc, sent, written, dropped, before_stop>>
  /\ UNCHANGED log_vars

(* Under m_mutex: the used buffers and the current one go to               *)
(* buffers_to_write, new_buffer_ptr1 becomes current, new_buffer_ptr2 the  *)
(* reserve if there is none.                                                *)
SwapCurFirst ==
  /\ btw' = <<cur>> \o used
  /\ used' = <<>>
  /\ cur' = nb1 /\ nb1' = None
  /\ reserve' = IF reserve = None THEN nb2 ELSE reserve
  /\ nb2' = IF reserve = None THEN None ELSE nb2
  /\ bpc' = "write"
Swap ==
  /\ btw' = Append(used, cur)
  /\ used' = <<>>
  /\ cur' = nb1 /\ nb1' = None
  /\ reserve' = IF reserve = None THEN nb2 ELSE reserve
  /\ nb2' = IF reserve = None THEN None ELSE nb2
  /\ bpc' = "write"

(* Lock taken and m_used_buffers empty: wait_for_seconds(m_flush_interval). *)
backend_lock_wait ==
  /\ bpc = "lock" /\ used = <<>>
  /\ bpc' = "wait"
  /\ UNCHANGED <<cur, reserve, used, content, fill, free, nb1, nb2, btw,
                 running, latch, opc, sent, written, dropped, bad, before_stop>>
  /\ UNCHANGED log_vars

backend_lock_swap ==
  /\ bpc = "lock" /\ used # <<>>
  /\ Swap
  /\ UNCHANGED <<content, fill, free, running, latch, opc, sent, written,
                 dropped, bad, before_stop>>
  /\ UNCHANGED log_vars

(* The wait ends, by a notify or by its timeout, with the lock retaken.    *)
backend_wake_untimed ==
  /\ bpc = "wait" /\ used # <<>>
  /\ Swap
  /\ UNCHANGED <<content, fill, free, running, latch, opc, sent, written,
                 dropped, bad, before_stop>>
  /\ UNCHANGED log_vars
backend_wake ==
  /\ bpc = "wait"
  /\ Swap
  /\ UNCHANGED <<content, fill, free, running, latch, opc, sent, written,
                 dropped, bad, before_stop>>
  /\ UNCHANGED log_vars

(* The refill of lines 109-121: a null new_buffer_ptr takes the last kept  *)
(* buffer, which is reset_cur()-ed; what is left is deleted by clear().    *)
RefillNoReset(kept) ==
  LET n1 == IF nb1 = None THEN Last(kept) ELSE nb1
      rest1 == IF nb1 = None THEN Front(kept) ELSE kept
      n2 == IF nb2 = None THEN Last(rest1) ELSE nb2
  IN  [n1 |-> n1, n2 |-> n2,
       rest |-> IF nb2 = None THEN Front(rest1) ELSE rest1,
       reset |-> {}]
Refill(kept) ==
  LET n1 == IF nb1 = None THEN Last(kept) ELSE nb1
      rest1 == IF nb1 = None THEN Front(kept) ELSE kept
      n2 == IF nb2 = None THEN Last(rest1) ELSE nb2
  IN  [n1 |-> n1, n2 |-> n2,
       rest |-> IF nb2 = None THEN Front(rest1) ELSE rest1,
       reset |-> {n1, n2} \ {nb1, nb2}]

(* The excess buffers erased when there are more than two, and the kept.  *)
Kept(bs) == SubSeq(bs, 1, IF Len(bs) > 2 THEN 2 ELSE Len(bs))
ExtraOffByOne(bs) == SubSeq(bs, 4, Len(bs))
Extra(bs) == SubSeq(bs, 3, Len(bs))

(* Outside the lock: keep the first two buffers and drop the rest, write   *)
(* the kept ones, refill the spare buffers, delete the others, flush.      *)
backend_write ==
  /\ bpc = "write"
  /\ LET kept == Kept(btw)
          extra == Extra(btw)
          need == (IF nb1 = None THEN 1 ELSE 0) + (IF nb2 = None THEN 1 ELSE 0)
          r == Refill(kept)
          gone == ToSet(r.rest) \cup ToSet(extra)
          cleared == gone \cup r.reset
      IN  IF btw = <<>> \/ Len(kept) < need
            THEN /\ bad' = TRUE /\ bpc' = "crashed"
                 /\ UNCHANGED <<content, fill, free, nb1, nb2, btw, written,
                                dropped, now, output>>
            ELSE /\ written' = written \o
                        FlattenSeq([i \in DOMAIN kept |-> content[kept[i]]])
                 /\ dropped' = dropped \cup LinesOf(extra)
                 /\ nb1' = r.n1 /\ nb2' = r.n2
                 /\ content' = [b \in BufferIds |->
                                  IF b \in cleared THEN <<>> ELSE content[b]]
                 /\ fill' = [b \in BufferIds |->
                               IF b \in cleared THEN 0 ELSE fill[b]]
                 /\ free' = free \cup gone
                 /\ \E t \in now..MaxTime :
                      /\ now' = t
                      /\ output' = AppendAll(output,
                           (IF extra # <<>> THEN <<DropLen>> ELSE <<>>)
                           \o [i \in DOMAIN kept |-> fill[kept[i]]], t)
                 /\ btw' = <<>> /\ bpc' = "check" /\ UNCHANGED bad
  /\ UNCHANGED <<cur, reserve, used, running, latch, opc, sent, before_stop>>

-----------------------------------------------------------------------------
(* The constructor: two reset buffers, the backend not started.            *)
Init ==
  /\ cur = 1 /\ reserve = 2 /\ used = <<>>
  /\ content = [b \in BufferIds |-> <<>>]
  /\ fill = [b \in BufferIds |-> 0]
  /\ free = BufferIds \ {1, 2}
  /\ bpc = "unstarted" /\ nb1 = None /\ nb2 = None /\ btw = <<>>
  /\ running = FALSE /\ latch = FALSE /\ opc = "idle"
  /\ sent = [w \in Writers |-> 0]
  /\ written = <<>> /\ dropped = {} /\ bad = FALSE /\ before_stop = {}
  /\ now = 1
  /\ output = [count |-> 0, last_roll |-> 0, last_flush |-> 0,
               start_time |-> 0, files |-> <<>>]

Backend == backend_begin \/ backend_check \/ backend_lock_wait
           \/ backend_lock_swap \/ backend_wake \/ backend_write

Next == \/ \E w \in Writers : append(w)
        \/ start \/ start_return \/ stop \/ join
        \/ Backend

(* The backend thread runs whenever it can (its wait is timed); the owner  *)
(* returns from start() and join() once they may; writers and stop() are   *)
(* left to the program.                                                     *)
Spec == Init /\ [][Next]_vars /\ WF_vars(Backend)
        /\ WF_vars(start_return) /\ WF_vars(join)

-----------------------------------------------------------------------------
(* Properties.                                                              *)

BufPtr == BufferIds \cup {None}

TypeOK ==
  /\ cur \in BufPtr /\ reserve \in BufPtr /\ nb1 \in BufPtr /\ nb2 \in BufPtr
  /\ used \in Seq(BufferIds) /\ btw \in Seq(BufferIds)
  /\ content \in [BufferIds -> Seq(Line)]
  /\ fill \in [BufferIds -> 0..Cap]
  /\ free \subseteq BufferIds
  /\ bpc \in {"unstarted", "begin", "check", "lock", "wait", "write",
              "exited", "crashed"}
  /\ running \in BOOLEAN /\ latch \in BOOLEAN
  /\ opc \in {"idle", "starting", "running", "joining", "done"}
  /\ sent \in [Writers -> 0..Lines]
  /\ written \in Seq(Line) /\ dropped \subseteq Line
  /\ bad \in BOOLEAN /\ before_stop \subseteq Line

(* None of the asserts of backend_thread_func fails: the spare buffers are *)
(* there and empty at the top of every loop, buffers_to_write is empty     *)
(* there, and the refill always finds a kept buffer to take.               *)
BackendAssertsHold == ~bad

(* The buffers some pointer of the logger holds, and their lines.         *)
Held == ({cur, reserve, nb1, nb2} \cup ToSet(used) \cup ToSet(btw)) \ {None}
InBuffers == UNION {ToSet(content[b]) : b \in Held}

(* Every line append() accepted is in exactly one place: a buffer one of   *)
(* the logger's pointers holds, the file, or a dropped buffer; no buffer   *)
(* is lost on the way, and one reused as a spare never carries a written   *)
(* line back into the file.                                                 *)
NoLineLostOrDuplicated ==
  /\ Appended = InBuffers \cup ToSet(written) \cup dropped
  /\ Len(written) = Cardinality(ToSet(written))
  /\ InBuffers \cap (ToSet(written) \cup dropped) = {}
  /\ ToSet(written) \cap dropped = {}

(* The file receives each writer's lines in the order that writer appended *)
(* them, across buffer archiving, the swap and the drop of excess buffers. *)
WrittenInAppendOrder ==
  \A i, j \in DOMAIN written :
    i < j /\ written[i][1] = written[j][1] => written[i][2] < written[j][2]

(* While the logger runs, the lines held in its buffers always eventually *)
(* reach the file or are dropped, unless stop() begins: even when no      *)
(* buffer fills, the timed wait of the backend swaps the current buffer   *)
(* out.  With the writers' lines bounded and NoLineLostOrDuplicated,     *)
(* every line appended while the logger runs is thus written or dropped.  *)
AppendedLineFlushed ==
  opc = "running" ~> (InBuffers = {} \/ opc \in {"joining", "done"})

(* What stop() would be expected to give: once it has returned, every line *)
(* appended before it began is in the file or was dropped.                 *)
StopWritesAll ==
  opc = "done" => before_stop \subseteq ToSet(written) \cup dropped

=============================================================================
