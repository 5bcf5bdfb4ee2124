\* Reactor loop with ReactorThread: wakeups and task liveness.
CONSTANTS
  s1 = s1
  s2 = s2
  Submitters <- MCSubmitters
  MaxTasks <- MCMaxTasks
SPECIFICATION Spec
INVARIANT TypeOK
INVARIANT NoLostWakeup
PROPERTY AnnouncedTaskRuns
\* The program ends once the ReactorThread has been joined.
CHECK_DEADLOCK FALSE
