CONSTANTS
  b1 = b1
  b2 = b2
  w1 = w1
  w2 = w2
  Batches <- MCBatches
  Workers <- MCWorkers
  MaxJobs = 1
  MaxThreads = 2
  Requests <- WholeLimit
SPECIFICATION FairSpec
PROPERTIES
  EveryCallReturns
  WorkersJoin
