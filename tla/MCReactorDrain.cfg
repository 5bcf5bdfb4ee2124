\* Tasks queued before mark_quit and the loop exiting.
CONSTANTS
  s1 = s1
  s2 = s2
  Submitters <- MCSubmitters
  MaxTasks <- MCMaxTasks
SPECIFICATION Spec
INVARIANT QuitDrainsQueue
\* Once joined the program stops.
CHECK_DEADLOCK FALSE
