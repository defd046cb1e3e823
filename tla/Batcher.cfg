SPECIFICATION FairSpec
CONSTANTS
  c1 = c1
  c2 = c2
  Clients <- Clients2
  QueueDepth = 2
  MaxBatch = 2
  MaxSubmits = 3
INVARIANTS QueueOrder MetricsBalance
PROPERTIES SubmitReturns ImplementsService
