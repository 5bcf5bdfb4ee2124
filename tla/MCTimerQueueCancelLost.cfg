\* A callback removes a TimerId whose add_timer_in_reactor is still queued.
CONSTANTS
  NumAddrs <- MCNumAddrs
  MaxTimers <- MCMaxTimers
  MaxTime <- MCMaxTime
  Delays <- MCDelays
  Intervals <- MCIntervals
  CallbackCancels = "any"
SPECIFICATION Spec
INVARIANT CancelledNeverRearmed
\* The clock stops at MaxTime; the loop then idles.
CHECK_DEADLOCK FALSE
