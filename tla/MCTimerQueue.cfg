\* Foreign add/remove; callbacks that cancel themselves or add timers.
CONSTANTS
  NumAddrs <- MCNumAddrs
  MaxTimers <- MCMaxTimers
  MaxTime <- MCMaxTime
  Delays <- MCDelays
  Intervals <- MCIntervals
  CallbackCancels = "self"
SPECIFICATION Spec
INVARIANTS TypeOK IndexesAgree CancelledNeverRearmed KilledOnlyCancelled
PROPERTIES DueTimerFires
\* The clock stops at MaxTime; the loop then idles.
CHECK_DEADLOCK FALSE
