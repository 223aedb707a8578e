CONSTANTS
  b1 = b1
  b2 = b2
  w1 = w1
  w2 = w2
  Batches <- MCBatches
  Workers <- MCWorkers
  MaxJobs = 2
  MaxThreads = 2
  Requests <- MixedLimits
SPECIFICATION Spec
SYMMETRY WorkerSymmetry
INVARIANTS
  HostBudgetRespected
  ReservationsAccounted
  JobsAccounted
  NothingBorrowedAfterReturn
  OutcomeIsTrue
  PoolPrepared
