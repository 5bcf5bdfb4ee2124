\* The owner stops the pool once its producers have returned.
CONSTANTS
  w1 = w1  w2 = w2  p1 = p1  p2 = p2
  Workers <- MCWorkers
  Producers <- MCProducers
  TasksPerProducer <- MCTasksPerProducer
  InitNulls <- MCInitNulls
  MaxSizes <- MCMaxSizes
  StopAnyTime = FALSE
SPECIFICATION Spec
INVARIANT TypeOK
PROPERTIES PushWithinBound PushReturns JoinReturns
