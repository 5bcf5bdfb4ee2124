------------------------------ MODULE TaskDeque ------------------------------
(***************************************************************************)
(* TaskDeque (src/flute/common/TaskDeque.cc): a pool of worker threads     *)
(* taking tasks from a bounded deque guarded by one mutex and two          *)
(* condition variables.                                                    *)
(*                                                                         *)
(* Each step of a thread is one critical section of the code (the mutex    *)
(* makes it atomic) or one unlocked statement.  A condition variable is    *)
(* the set of threads whose pc is "wait": only workers wait on             *)
(* m_cond_not_empty and only producers on m_cond_not_full.  notify         *)
(* (pthread_cond_signal) wakes one waiter, notify_all every waiter, and a  *)
(* woken thread ("woke") re-takes the mutex and re-tests its loop          *)
(* condition in its next step.                                             *)
(*                                                                         *)
(* The model starts after start(num_threads > 0).  The constructor fills   *)
(* the deque with kMaxTaskDequeSize default-constructed (empty) Tasks, and *)
(* m_max_queue_size is never initialised unless set_max_deque_size is      *)
(* called: Init lets it take any value of MaxSizes.                        *)
(***************************************************************************)
EXTENDS Naturals, Sequences, FiniteSets

CONSTANTS
  Workers,          \* the worker threads
  Producers,        \* threads calling push_task_back / push_task_front
  TasksPerProducer, \* pushes each producer makes
  InitNulls,        \* the kMaxTaskDequeSize empty Tasks of the constructor
  MaxSizes,         \* values m_max_queue_size may have; 0 is unbounded
  StopAnyTime       \* FALSE: the owner calls stop once every push returned

ASSUME /\ Workers # {} /\ Producers # {}
       /\ TasksPerProducer \in Nat /\ InitNulls \in Nat
       /\ MaxSizes \subseteq Nat /\ MaxSizes # {}
       /\ StopAnyTime \in BOOLEAN

\* The empty std::function the constructor puts in the deque.
NullTask == <<"null", 0>>
Tasks == {<<p, k>> : p \in Producers, k \in 1..TasksPerProducer}

VARIABLES
  dq,       \* m_task_deque
  max_size, \* m_max_queue_size
  running,  \* m_is_running
  wpc,      \* worker -> "loop" | "take" | "wait" | "woke" | "run" | "done"
  wtask,    \* worker -> the task it took, or NullTask
  ppc,      \* producer -> "push" | "wait" | "woke" | "done"
  pushed,   \* producer -> pushes that returned
  opc,      \* owner: "run" | "joining" | "joined"
  executed  \* history: the tasks run, in order

vars == <<dq, max_size, running, wpc, wtask, ppc, pushed, opc, executed>>

(* Condition::wait: the holder is unassigned and pthread_cond_wait        *)
(* releases the mutex and blocks thread t until a notify; the woken thread *)
(* re-takes the mutex and its holder is assigned again ("woke").           *)
Wait(pc, t) == [pc EXCEPT ![t] = "wait"]

(* Condition::notify: the pc functions pthread_cond_signal may leave:      *)
(* one waiter woken, or no change when nobody waits.                       *)
WakeOne(pc) ==
  LET waiting == {t \in DOMAIN pc : pc[t] = "wait"} IN
  IF waiting = {} THEN {pc} ELSE {[pc EXCEPT ![t] = "woke"] : t \in waiting}

(* Condition::notify_all                                                   *)
WakeAll(pc) == [t \in DOMAIN pc |-> IF pc[t] = "wait" THEN "woke" ELSE pc[t]]

(* is_full                                                                  *)
IsFull == max_size > 0 /\ Len(dq) >= max_size

-----------------------------------------------------------------------------
\* Mutant: `if (is_full()) wait();` instead of the while loop: a woken
\* producer pushes without testing again.
PushIfNotWhile(p) ==
  /\ ppc[p] \in {"push", "woke"}
  /\ IF ppc[p] = "push" /\ IsFull
       THEN /\ ppc' = Wait(ppc, p)
            /\ UNCHANGED <<dq, wpc, pushed>>
       ELSE /\ LET t == <<p, pushed[p] + 1>> IN
                 \/ dq' = Append(dq, t)        \* push_task_back
                 \/ dq' = <<t>> \o dq          \* push_task_front
            /\ wpc' \in WakeOne(wpc)
            /\ pushed' = [pushed EXCEPT ![p] = @ + 1]
            /\ ppc' = [ppc EXCEPT ![p] =
                         IF pushed[p] + 1 = TasksPerProducer THEN "done"
                                                            ELSE "push"]
  /\ UNCHANGED <<max_size, running, wtask, opc, executed>>

(* A producer: push_task with m_threads non-empty.  The while loop waits   *)
(* on m_cond_not_full while full; otherwise the task goes to the back or   *)
(* the front and one worker waiting on m_cond_not_empty is woken.          *)
push_task(p) ==
  /\ ppc[p] \in {"push", "woke"}
  /\ IF IsFull
       THEN /\ ppc' = Wait(ppc, p)
            /\ UNCHANGED <<dq, wpc, pushed>>
       ELSE /\ LET t == <<p, pushed[p] + 1>> IN
                 \/ dq' = Append(dq, t)        \* push_task_back
                 \/ dq' = <<t>> \o dq          \* push_task_front
            /\ wpc' \in WakeOne(wpc)
            /\ pushed' = [pushed EXCEPT ![p] = @ + 1]
            /\ ppc' = [ppc EXCEPT ![p] =
                         IF pushed[p] + 1 = TasksPerProducer THEN "done"
                                                            ELSE "push"]
  /\ UNCHANGED <<max_size, running, wtask, opc, executed>>

-----------------------------------------------------------------------------
(* A worker: worker_loop and take_one.                                      *)

(* while (m_is_running), read without the mutex.                           *)
worker_check(w) ==
  /\ wpc[w] = "loop"
  /\ wpc' = [wpc EXCEPT ![w] = IF running THEN "take" ELSE "done"]
  /\ UNCHANGED <<dq, max_size, running, wtask, ppc, pushed, opc, executed>>

\* Mutant: take_one never wakes a producer waiting on m_cond_not_full.
TakeOneNoNotify(w) ==
  /\ wpc[w] \in {"take", "woke"}
  /\ IF dq = <<>> /\ running
       THEN /\ wpc' = Wait(wpc, w)
            /\ UNCHANGED <<dq, wtask, ppc>>
       ELSE /\ wtask' = [wtask EXCEPT ![w] = IF dq = <<>> THEN NullTask
                                                          ELSE Head(dq)]
            /\ dq' = IF dq = <<>> THEN dq ELSE Tail(dq)
            /\ wpc' = [wpc EXCEPT ![w] = "run"]
            /\ UNCHANGED ppc
  /\ UNCHANGED <<max_size, running, pushed, opc, executed>>

(* take_one: wait on m_cond_not_empty while the deque is empty and the     *)
(* pool runs; then pop the front, if any, and wake one producer waiting on *)
(* m_cond_not_full when the deque is bounded.                               *)
take_one(w) ==
  /\ wpc[w] \in {"take", "woke"}
  /\ IF dq = <<>> /\ running
       THEN /\ wpc' = Wait(wpc, w)
            /\ UNCHANGED <<dq, wtask, ppc>>
       ELSE /\ wtask' = [wtask EXCEPT ![w] = IF dq = <<>> THEN NullTask
                                                          ELSE Head(dq)]
            /\ dq' = IF dq = <<>> THEN dq ELSE Tail(dq)
            /\ wpc' = [wpc EXCEPT ![w] = "run"]
            /\ IF dq # <<>> /\ max_size > 0 THEN ppc' \in WakeOne(ppc)
                                            ELSE UNCHANGED ppc
  /\ UNCHANGED <<max_size, running, pushed, opc, executed>>

\* Mutant: the `if (task)` test is dropped; the empty Task is called.
RunTaskUnchecked(w) ==
  /\ wpc[w] = "run"
  /\ executed' = Append(executed, wtask[w])
  /\ wpc' = [wpc EXCEPT ![w] = "loop"]
  /\ UNCHANGED <<dq, max_size, running, wtask, ppc, pushed, opc>>

(* if (task) task();                                                        *)
run_task(w) ==
  /\ wpc[w] = "run"
  /\ executed' = IF wtask[w] = NullTask THEN executed
                                        ELSE Append(executed, wtask[w])
  /\ wpc' = [wpc EXCEPT ![w] = "loop"]
  /\ UNCHANGED <<dq, max_size, running, wtask, ppc, pushed, opc>>

-----------------------------------------------------------------------------
(* The owner (the destructor or a direct call).                             *)

\* Mutant: stop wakes one worker instead of all of them.
StopNotifyOne ==
  /\ opc = "run"
  /\ StopAnyTime \/ \A p \in Producers : ppc[p] = "done"
  /\ running' = FALSE
  /\ wpc' \in WakeOne(wpc)
  /\ opc' = "joining"
  /\ UNCHANGED <<dq, max_size, wtask, ppc, pushed, executed>>

(* stop: under the mutex clear m_is_running and notify_all                  *)
(* m_cond_not_empty; then join every worker.                                *)
stop ==
  /\ opc = "run"
  /\ StopAnyTime \/ \A p \in Producers : ppc[p] = "done"
  /\ running' = FALSE
  /\ wpc' = WakeAll(wpc)
  /\ opc' = "joining"
  /\ UNCHANGED <<dq, max_size, wtask, ppc, pushed, executed>>

(* for (auto& thr : m_threads) thr->join();                                 *)
join ==
  /\ opc = "joining"
  /\ \A w \in Workers : wpc[w] = "done"
  /\ opc' = "joined"
  /\ UNCHANGED <<dq, max_size, running, wpc, wtask, ppc, pushed, executed>>

-----------------------------------------------------------------------------
Init ==
  /\ dq = [i \in 1..InitNulls |-> NullTask]
  /\ max_size \in MaxSizes
  /\ running = TRUE
  /\ wpc = [w \in Workers |-> "loop"]
  /\ wtask = [w \in Workers |-> NullTask]
  /\ ppc = [p \in Producers |-> IF TasksPerProducer = 0 THEN "done" ELSE "push"]
  /\ pushed = [p \in Producers |-> 0]
  /\ opc = "run"
  /\ executed = <<>>

(* Every thread has returned: the program ends.                             *)
Terminated ==
  /\ opc = "joined" /\ \A p \in Producers : ppc[p] = "done"
  /\ UNCHANGED vars

Next ==
  \/ \E p \in Producers : push_task(p)
  \/ \E w \in Workers : worker_check(w) \/ take_one(w) \/ run_task(w)
  \/ stop \/ join
  \/ Terminated

(* Every thread that can take its next step eventually does.  A thread in  *)
(* "wait" is not enabled: it needs a notify.                               *)
Fairness ==
  /\ \A p \in Producers : WF_vars(push_task(p))
  /\ \A w \in Workers : WF_vars(worker_check(w) \/ take_one(w) \/ run_task(w))
  /\ WF_vars(stop) /\ WF_vars(join)

Spec == Init /\ [][Next]_vars /\ Fairness

-----------------------------------------------------------------------------
(* Properties.                                                             *)

TypeOK ==
  /\ dq \in Seq(Tasks \cup {NullTask})
  /\ max_size \in MaxSizes
  /\ running \in BOOLEAN
  /\ wpc \in [Workers -> {"loop", "take", "wait", "woke", "run", "done"}]
  /\ wtask \in [Workers -> Tasks \cup {NullTask}]
  /\ ppc \in [Producers -> {"push", "wait", "woke", "done"}]
  /\ pushed \in [Producers -> 0..TasksPerProducer]
  /\ opc \in {"run", "joining", "joined"}
  /\ executed \in Seq(Tasks)

(* A push never takes a bounded deque past m_max_queue_size (the assert    *)
(* after the wait loop of push_task), whichever producer a pop wakes and   *)
(* whichever producer takes the mutex first.                               *)
PushWithinBound ==
  [][Len(dq') > Len(dq) => max_size = 0 \/ Len(dq') <= max_size]_vars

(* A producer blocked in push_task on a full deque eventually returns:     *)
(* every pop of take_one wakes a waiting producer.                         *)
PushReturns == \A p \in Producers : ppc[p] = "wait" ~> ppc[p] # "wait"

(* stop() returns: every worker, waiting on m_cond_not_empty or not, sees  *)
(* m_is_running false and leaves worker_loop, and the joins complete.      *)
JoinReturns == opc = "joining" ~> opc = "joined"

=============================================================================
