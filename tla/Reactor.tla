------------------------------- MODULE Reactor -------------------------------
(***************************************************************************)
(* The event loop of flute (src/flute/net/Reactor.cc) together with the    *)
(* ReactorThread that runs it (src/flute/net/ReactorThread.cc).            *)
(*                                                                         *)
(* Threads:                                                                *)
(*   - the loop thread: reactor_thread_loop_func constructs the Reactor,   *)
(*     publishes its pointer, runs loop() and clears the pointer;          *)
(*   - the owner: start_reactor() and later ~ReactorThread (mark_quit,     *)
(*     join);                                                              *)
(*   - Submitters: other threads calling queue_in_reactor.                 *)
(* Channels of the loop are abstracted to the wakeup eventfd channel and   *)
(* one I/O channel whose read callback may queue a task from the loop      *)
(* thread.  A task is identified by its position in the push order.        *)
(***************************************************************************)
EXTENDS Naturals, Sequences, SequencesExt, FiniteSets

CONSTANTS
  Submitters,   \* threads other than the loop thread that queue tasks
  MaxTasks      \* bound on the number of tasks ever queued

ASSUME MaxTasks \in Nat \ {0}

VARIABLES
  lpc,                      \* program counter of the loop thread
  opc,                      \* program counter of the owner of the ReactorThread
  spc,                      \* per submitter: task pushed, not yet woken (0: none)
  reactor_ptr,              \* ReactorThread::m_reactor # NULL
  is_looping,               \* Reactor::m_is_looping
  going_to_quit,            \* Reactor::m_going_to_quit
  is_calling_pending_tasks, \* Reactor::m_is_calling_pending_tasks
  pending_tasks,            \* Reactor::m_pending_tasks
  tasks,                    \* local `tasks` of do_queueing_tasks, still to run
  wakeup_fd,                \* counter of the eventfd m_wakeup_fd
  io_ready,                 \* the I/O channel's fd is readable
  active_channels,          \* Reactor::m_active_channels
  num_tasks,                \* number of tasks pushed so far (= last task id)
  executed,                 \* history: ids of the tasks run, in order
  announced,                \* history: tasks whose queue_in_reactor returned
  queued_before_quit,       \* history: announced when mark_quit set the flag
  latch                     \* m_thread's m_countdown_latch count

vars == <<lpc, opc, spc, reactor_ptr, is_looping, going_to_quit,
          is_calling_pending_tasks, pending_tasks, tasks, wakeup_fd, io_ready,
          active_channels, num_tasks, executed, announced, queued_before_quit,
          latch>>

LoopPcs == {"unstarted", "starter", "construct", "init", "check", "poll", "handle", "tasks",
            "exited", "finished"}
OwnerPcs == {"start", "thread_start", "waiting", "running", "quitting", "joining", "joined"}
Channels == {"wakeup", "io"}

-----------------------------------------------------------------------------
(* Mutant: the id is taken before the count is incremented.               *)
PushTaskIdBeforeIncrement ==
  /\ num_tasks < MaxTasks
  /\ num_tasks' = num_tasks + 1
  /\ pending_tasks' = Append(pending_tasks, num_tasks)

(* m_pending_tasks.push_back under m_mutexlock: the new task's id is the    *)
(* number of tasks pushed so far.                                           *)
PushTask == /\ num_tasks < MaxTasks
            /\ num_tasks' = num_tasks + 1
            /\ pending_tasks' = Append(pending_tasks, num_tasks + 1)

(* wakeup_from_waiting_pool: write 1 to the eventfd.                        *)
Wakeup == wakeup_fd' = wakeup_fd + 1

(* Mutant: queue_in_reactor without `|| m_is_calling_pending_tasks`.       *)
QueueInLoopNeverWakes ==
  /\ PushTask
  /\ UNCHANGED wakeup_fd
  /\ announced' = announced \cup {num_tasks + 1}

(* queue_in_reactor called on the loop thread: push, and write the eventfd  *)
(* only when called from within do_queueing_tasks.                          *)
queue_in_reactor_in_loop ==
  /\ PushTask
  /\ IF is_calling_pending_tasks THEN Wakeup ELSE UNCHANGED wakeup_fd
  /\ announced' = announced \cup {num_tasks + 1}

-----------------------------------------------------------------------------
(* The loop thread.                                                         *)

(* CountdownLatch::countdown and the loop condition of CountdownLatch::wait *)
(* (the waiter is woken by notify_all when the count reaches 0).            *)
Countdown(c) == c - 1
LatchOpen(c) == c <= 0

(* Thread::starter and Thread::run: record the tid, name the thread, count  *)
(* m_countdown_latch down, and call m_func, reactor_thread_loop_func.       *)
thread_run ==
  /\ lpc = "starter"
  /\ lpc' = "construct"
  /\ latch' = Countdown(latch)
  /\ UNCHANGED <<opc, spc, reactor_ptr, is_looping, going_to_quit,
                 is_calling_pending_tasks, pending_tasks, tasks, wakeup_fd,
                 io_ready, active_channels, num_tasks, executed, announced,
                 queued_before_quit>>

(* reactor_thread_loop_func: construct the Reactor (the wakeup channel is   *)
(* read-armed), run the init callback and publish m_reactor under the      *)
(* mutex, notifying the owner waiting in start_reactor.                     *)
publish_reactor ==
  /\ lpc = "construct"
  /\ lpc' = "init"
  /\ reactor_ptr' = TRUE
  /\ UNCHANGED <<opc, spc, is_looping, going_to_quit, is_calling_pending_tasks,
                 pending_tasks, tasks, wakeup_fd, io_ready, active_channels,
                 num_tasks, executed, announced, queued_before_quit, latch>>

(* Reactor::loop entry: m_is_looping = true and m_going_to_quit = false,    *)
(* erasing a mark_quit that happened before loop() (the FIXME at line 95). *)
loop_start ==
  /\ lpc = "init"
  /\ ~is_looping
  /\ lpc' = "check"
  /\ is_looping' = TRUE
  /\ going_to_quit' = FALSE
  /\ UNCHANGED <<opc, spc, reactor_ptr, is_calling_pending_tasks, pending_tasks,
                 tasks, wakeup_fd, io_ready, active_channels, num_tasks,
                 executed, announced, queued_before_quit, latch>>

(* while (!m_going_to_quit): either clear m_active_channels and block in    *)
(* poll, or leave the loop with m_is_looping = false.                       *)
loop_check ==
  /\ lpc = "check"
  /\ IF going_to_quit
       THEN /\ lpc' = "exited"
            /\ is_looping' = FALSE
            /\ UNCHANGED active_channels
       ELSE /\ lpc' = "poll"
            /\ active_channels' = {}
            /\ UNCHANGED is_looping
  /\ UNCHANGED <<opc, spc, reactor_ptr, going_to_quit, is_calling_pending_tasks,
                 pending_tasks, tasks, wakeup_fd, io_ready, num_tasks,
                 executed, announced, queued_before_quit, latch>>

(* Poller::poll returns the channels whose fds are ready.                   *)
ReadyChannels == {c \in Channels : \/ c = "wakeup" /\ wakeup_fd > 0
                                   \/ c = "io" /\ io_ready}

poll_return ==
  /\ lpc = "poll"
  /\ ReadyChannels # {}
  /\ lpc' = "handle"
  /\ active_channels' = ReadyChannels
  /\ UNCHANGED <<opc, spc, reactor_ptr, is_looping, going_to_quit,
                 is_calling_pending_tasks, pending_tasks, tasks, wakeup_fd,
                 io_ready, num_tasks, executed, announced, queued_before_quit, latch>>

(* poll times out after m_timeout_ms (kPollTimeMs) with no fd ready.        *)
poll_timeout ==
  /\ lpc = "poll"
  /\ ReadyChannels = {}
  /\ lpc' = "handle"
  /\ UNCHANGED <<opc, spc, reactor_ptr, is_looping, going_to_quit,
                 is_calling_pending_tasks, pending_tasks, tasks, wakeup_fd,
                 io_ready, active_channels, num_tasks, executed, announced,
                 queued_before_quit, latch>>

(* Reactor::handle_wakeup: read the eventfd, which resets its counter.      *)
handle_wakeup ==
  /\ lpc = "handle"
  /\ "wakeup" \in active_channels
  /\ active_channels' = active_channels \ {"wakeup"}
  /\ wakeup_fd' = 0
  /\ UNCHANGED <<lpc, opc, spc, reactor_ptr, is_looping, going_to_quit,
                 is_calling_pending_tasks, pending_tasks, tasks, io_ready,
                 num_tasks, executed, announced, queued_before_quit, latch>>

(* The I/O channel's read callback consumes the data and may queue a task   *)
(* with queue_in_reactor from the loop thread: outside do_queueing_tasks it *)
(* does not write the eventfd.                                              *)
handle_io ==
  /\ lpc = "handle"
  /\ "io" \in active_channels
  /\ active_channels' = active_channels \ {"io"}
  /\ io_ready' = FALSE
  /\ \/ queue_in_reactor_in_loop
     \/ UNCHANGED <<pending_tasks, num_tasks, announced, wakeup_fd>>
  /\ UNCHANGED <<lpc, opc, spc, reactor_ptr, is_looping, going_to_quit,
                 is_calling_pending_tasks, tasks, executed, queued_before_quit, latch>>

(* Mutant: m_pending_tasks is never swapped out; an empty batch runs.      *)
DoQueueingTasksNoSwap ==
  /\ lpc = "handle"
  /\ active_channels = {}
  /\ lpc' = "tasks"
  /\ is_calling_pending_tasks' = TRUE
  /\ tasks' = <<>>
  /\ UNCHANGED pending_tasks
  /\ UNCHANGED <<opc, spc, reactor_ptr, is_looping, going_to_quit, wakeup_fd,
                 io_ready, active_channels, num_tasks, executed, announced,
                 queued_before_quit, latch>>

(* do_queueing_tasks entry: m_is_calling_pending_tasks = true, then swap    *)
(* m_pending_tasks out under the mutex.                                     *)
do_queueing_tasks ==
  /\ lpc = "handle"
  /\ active_channels = {}
  /\ lpc' = "tasks"
  /\ is_calling_pending_tasks' = TRUE
  /\ tasks' = pending_tasks
  /\ pending_tasks' = <<>>
  /\ UNCHANGED <<opc, spc, reactor_ptr, is_looping, going_to_quit, wakeup_fd,
                 io_ready, active_channels, num_tasks, executed, announced,
                 queued_before_quit, latch>>

(* Mutant: a task submitted by a running task is run inline (as           *)
(* run_asap_in_reactor does on the loop thread) instead of being queued.    *)
RunTaskFollowUpInline ==
  /\ lpc = "tasks"
  /\ tasks # <<>>
  /\ tasks' = Tail(tasks)
  /\ \/ /\ num_tasks < MaxTasks
        /\ num_tasks' = num_tasks + 1
        /\ executed' = executed \o <<Head(tasks), num_tasks + 1>>
        /\ announced' = announced \cup {num_tasks + 1}
     \/ /\ executed' = Append(executed, Head(tasks))
        /\ UNCHANGED <<num_tasks, announced>>
  /\ UNCHANGED <<lpc, opc, spc, reactor_ptr, is_looping, going_to_quit,
                 is_calling_pending_tasks, pending_tasks, wakeup_fd, io_ready,
                 active_channels, queued_before_quit, latch>>

(* Run the next swapped-out functor.  It may itself queue_in_reactor from   *)
(* the loop thread; then, as m_is_calling_pending_tasks holds, the eventfd *)
(* is written so the next poll does not block.                              *)
run_task ==
  /\ lpc = "tasks"
  /\ tasks # <<>>
  /\ tasks' = Tail(tasks)
  /\ executed' = Append(executed, Head(tasks))
  /\ \/ queue_in_reactor_in_loop
     \/ UNCHANGED <<pending_tasks, num_tasks, announced, wakeup_fd>>
  /\ UNCHANGED <<lpc, opc, spc, reactor_ptr, is_looping, going_to_quit,
                 is_calling_pending_tasks, io_ready, active_channels,
                 queued_before_quit, latch>>

finish_tasks ==
  /\ lpc = "tasks"
  /\ tasks = <<>>
  /\ lpc' = "check"
  /\ is_calling_pending_tasks' = FALSE
  /\ UNCHANGED <<opc, spc, reactor_ptr, is_looping, going_to_quit,
                 pending_tasks, tasks, wakeup_fd, io_ready, active_channels,
                 num_tasks, executed, announced, queued_before_quit, latch>>

(* After loop() returns, reactor_thread_loop_func sets m_reactor = NULL and *)
(* the stack Reactor is destroyed with whatever m_pending_tasks still holds.*)
thread_finish ==
  /\ lpc = "exited"
  /\ lpc' = "finished"
  /\ reactor_ptr' = FALSE
  /\ UNCHANGED <<opc, spc, is_looping, going_to_quit, is_calling_pending_tasks,
                 pending_tasks, tasks, wakeup_fd, io_ready, active_channels,
                 num_tasks, executed, announced, queued_before_quit, latch>>

-----------------------------------------------------------------------------
(* The owner of the ReactorThread.                                          *)

(* start_reactor: m_thread.start() sets m_started and pthread_create's the *)
(* thread (its failure is LOG_SYSFATAL, which aborts) ...                  *)
start_reactor ==
  /\ opc = "start"
  /\ opc' = "thread_start"
  /\ lpc' = "starter"
  /\ UNCHANGED <<spc, reactor_ptr, is_looping, going_to_quit,
                 is_calling_pending_tasks, pending_tasks, tasks, wakeup_fd,
                 io_ready, active_channels, num_tasks, executed, announced,
                 queued_before_quit, latch>>

(* ... and Thread::start waits on m_countdown_latch until the thread has    *)
(* begun to run ...                                                         *)
thread_start_return ==
  /\ opc = "thread_start"
  /\ LatchOpen(latch)
  /\ opc' = "waiting"
  /\ UNCHANGED <<lpc, spc, reactor_ptr, is_looping, going_to_quit,
                 is_calling_pending_tasks, pending_tasks, tasks, wakeup_fd,
                 io_ready, active_channels, num_tasks, executed, announced,
                 queued_before_quit, latch>>

(* ... then wait on m_cond until m_reactor is published, and return it.     *)
start_reactor_return ==
  /\ opc = "waiting"
  /\ reactor_ptr
  /\ opc' = "running"
  /\ UNCHANGED <<lpc, spc, reactor_ptr, is_looping, going_to_quit,
                 is_calling_pending_tasks, pending_tasks, tasks, wakeup_fd,
                 io_ready, active_channels, num_tasks, executed, announced,
                 queued_before_quit, latch>>

(* ~ReactorThread: m_reactor != NULL (the loop only ends through this very  *)
(* mark_quit, so the pointer is still set), so mark_quit() stores           *)
(* m_going_to_quit = true ...                                               *)
mark_quit ==
  /\ opc = "running"
  /\ reactor_ptr
  /\ opc' = "quitting"
  /\ going_to_quit' = TRUE
  /\ queued_before_quit' = announced
  /\ UNCHANGED <<lpc, spc, reactor_ptr, is_looping, is_calling_pending_tasks,
                 pending_tasks, tasks, wakeup_fd, io_ready, active_channels,
                 num_tasks, executed, announced, latch>>

(* ... and, not being on the loop thread, writes the eventfd.               *)
mark_quit_wakeup ==
  /\ opc = "quitting"
  /\ opc' = "joining"
  /\ Wakeup
  /\ UNCHANGED <<lpc, spc, reactor_ptr, is_looping, going_to_quit,
                 is_calling_pending_tasks, pending_tasks, tasks, io_ready,
                 active_channels, num_tasks, executed, announced,
                 queued_before_quit, latch>>

(* Thread::join on a started thread not yet joined: m_joined is set and    *)
(* pthread_join returns once the thread's function has returned.           *)
ThreadJoined == lpc = "finished"

(* m_thread.join() of ~ReactorThread.                                       *)
join ==
  /\ opc = "joining"
  /\ ThreadJoined
  /\ opc' = "joined"
  /\ UNCHANGED <<lpc, spc, reactor_ptr, is_looping, going_to_quit,
                 is_calling_pending_tasks, pending_tasks, tasks, wakeup_fd,
                 io_ready, active_channels, num_tasks, executed, announced,
                 queued_before_quit, latch>>

-----------------------------------------------------------------------------
(* Other threads.                                                           *)

(* queue_in_reactor from another thread: push under the mutex ...           *)
queue_push(s) ==
  /\ spc[s] = 0
  /\ reactor_ptr
  /\ PushTask
  /\ spc' = [spc EXCEPT ![s] = num_tasks + 1]
  /\ UNCHANGED <<lpc, opc, reactor_ptr, is_looping, going_to_quit,
                 is_calling_pending_tasks, tasks, wakeup_fd, io_ready,
                 active_channels, executed, announced, queued_before_quit, latch>>

(* ... then, !is_in_reactor_thread(), wakeup_from_waiting_pool.             *)
queue_wakeup(s) ==
  /\ spc[s] # 0
  /\ Wakeup
  /\ announced' = announced \cup {spc[s]}
  /\ spc' = [spc EXCEPT ![s] = 0]
  /\ UNCHANGED <<lpc, opc, reactor_ptr, is_looping, going_to_quit,
                 is_calling_pending_tasks, pending_tasks, tasks, io_ready,
                 active_channels, num_tasks, executed, queued_before_quit, latch>>

(* A peer makes the I/O channel's fd readable.                              *)
io_arrive ==
  /\ reactor_ptr
  /\ ~io_ready
  /\ io_ready' = TRUE
  /\ UNCHANGED <<lpc, opc, spc, reactor_ptr, is_looping, going_to_quit,
                 is_calling_pending_tasks, pending_tasks, tasks, wakeup_fd,
                 active_channels, num_tasks, executed, announced,
                 queued_before_quit, latch>>

-----------------------------------------------------------------------------
(* create_event_fd: eventfd(0, ...) starts its counter at 0 (a failure     *)
(* aborts).                                                                 *)
CreateEventFd == 0

(* Thread::Thread: not started (m_started = false), m_countdown_latch(1). *)
ThreadInit == lpc = "unstarted" /\ latch = 1

(* ReactorThread::ReactorThread: m_reactor = NULL, m_thread constructed    *)
(* around reactor_thread_loop_func; the owner is about to start it.        *)
ReactorThreadInit == opc = "start" /\ reactor_ptr = FALSE /\ ThreadInit

Init ==
  /\ ReactorThreadInit
  /\ spc = [s \in Submitters |-> 0]
  /\ is_looping = FALSE
  /\ going_to_quit = FALSE
  /\ is_calling_pending_tasks = FALSE
  /\ pending_tasks = <<>>
  /\ tasks = <<>>
  /\ wakeup_fd = CreateEventFd
  /\ io_ready = FALSE
  /\ active_channels = {}
  /\ num_tasks = 0
  /\ executed = <<>>
  /\ announced = {}
  /\ queued_before_quit = {}

LoopNext ==
  \/ thread_run \/ publish_reactor \/ loop_start \/ loop_check \/ poll_return
  \/ poll_timeout \/ handle_wakeup \/ handle_io \/ do_queueing_tasks
  \/ run_task \/ finish_tasks \/ thread_finish

OwnerNext ==
  \/ start_reactor \/ thread_start_return \/ start_reactor_return \/ mark_quit \/ mark_quit_wakeup
  \/ join

Next ==
  \/ LoopNext
  \/ OwnerNext
  \/ \E s \in Submitters : queue_push(s) \/ queue_wakeup(s)
  \/ io_arrive

(* The loop thread is never descheduled forever, but poll's timeout       *)
(* (kPollTimeMs) is left out of its fairness: a task must be reached by    *)
(* the eventfd wakeup, not by waiting out the timeout.  The owner finishes *)
(* start_reactor and, once it has called mark_quit, its wakeup and join;   *)
(* whether ~ReactorThread runs at all is up to the program, so mark_quit   *)
(* is not forced.  Peers are not obliged to act; a submitter that pushed   *)
(* a task finishes its queue_in_reactor.                                    *)
LoopWithoutTimeout == LoopNext /\ ~poll_timeout

Fairness ==
  /\ WF_vars(LoopWithoutTimeout)
  /\ WF_vars(start_reactor \/ thread_start_return \/ start_reactor_return
             \/ mark_quit_wakeup \/ join)
  /\ \A s \in Submitters : WF_vars(queue_wakeup(s))

Spec == Init /\ [][Next]_vars /\ Fairness

-----------------------------------------------------------------------------
(* Properties.                                                              *)

ExecutedSet == Range(executed)

TypeOK ==
  /\ lpc \in LoopPcs
  /\ opc \in OwnerPcs
  /\ spc \in [Submitters -> 0..MaxTasks]
  /\ reactor_ptr \in BOOLEAN /\ is_looping \in BOOLEAN
  /\ going_to_quit \in BOOLEAN /\ is_calling_pending_tasks \in BOOLEAN
  /\ pending_tasks \in Seq(1..MaxTasks) /\ tasks \in Seq(1..MaxTasks)
  /\ wakeup_fd \in Nat /\ io_ready \in BOOLEAN
  /\ active_channels \subseteq Channels
  /\ num_tasks \in 0..MaxTasks
  /\ executed \in Seq(1..MaxTasks)
  /\ announced \subseteq 1..MaxTasks
  /\ queued_before_quit \subseteq 1..MaxTasks
  /\ latch \in 0..1

(* No lost wakeup: whenever the loop thread is blocked in poll while a task *)
(* whose queue_in_reactor call has returned is still in m_pending_tasks,    *)
(* the eventfd is readable, so the task does not wait for a poll timeout.   *)
(* This is what the `|| m_is_calling_pending_tasks` of queue_in_reactor and *)
(* the order "set the flag, then swap" in do_queueing_tasks are for.        *)
NoLostWakeup ==
  (lpc = "poll" /\ \E i \in DOMAIN pending_tasks : pending_tasks[i] \in announced)
    => wakeup_fd > 0

(* Tasks run in the order they were pushed onto m_pending_tasks, across the *)
(* batches of do_queueing_tasks and with tasks queued by running tasks.      *)
TaskFifo == executed = [i \in 1..Len(executed) |-> i]

(* A task whose queue_in_reactor call returned is eventually run without   *)
(* the poll timeout's help -- the eventfd write of queue_in_reactor, made  *)
(* from another thread or from inside do_queueing_tasks, wakes the loop    *)
(* for it -- unless the owner's mark_quit ended the loop first (which may  *)
(* drop it: QuitDrainsQueue).                                               *)
AnnouncedTaskRuns ==
  \A t \in 1..MaxTasks :
    (t \in announced) ~> (t \in ExecutedSet \/ lpc \in {"exited", "finished"})

(* Every task queued (queue_in_reactor returned) before ~ReactorThread      *)
(* called mark_quit has run by the time loop() returns.  TcpServer's        *)
(* destructor relies on this: it queues connect_destroyed on each worker    *)
(* reactor and then destroys the pool, whose ReactorThreads mark_quit.      *)
QuitDrainsQueue ==
  lpc \in {"exited", "finished"} => queued_before_quit \subseteq ExecutedSet

(* ~ReactorThread's join() returns: once mark_quit has been called, the    *)
(* loop thread ends.                                                        *)
JoinReturns == (opc = "joining") ~> (opc = "joined")

=============================================================================
