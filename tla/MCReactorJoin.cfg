\* mark_quit from the owner thread may come before loop() starts.
CONSTANTS
  s1 = s1
  s2 = s2
  Submitters <- MCSubmitters
  MaxTasks <- MCMaxTasks
SPECIFICATION Spec
PROPERTY JoinReturns
\* A join that never returns leaves every thread stopped.
CHECK_DEADLOCK FALSE
