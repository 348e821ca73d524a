CONSTANTS
  Tasks <- ThreeTasks
  Modulus = 4
  LockLevels <- Levels31
  LockPath <- LockPaths
  NodeModulus = 3
  BarrierTasks <- FourTasks
  NbRounds = 3
  BarrierLevels <- Levels21
  BarrierPath <- BarrierPaths
  HeapMinIndex = 2
  HeapIndexes = {2, 3, 4, 5}
  HeapRequests = {1, 5, 16, 17, 40}
SPECIFICATION MCSpec
INVARIANT SqtArrivalsCounted
CHECK_DEADLOCK FALSE
