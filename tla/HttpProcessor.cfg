SPECIFICATION Spec
CONSTANTS
  HashBase = 5
  HashPrime = 3
  HashRange = 16
  WordBytes = 2
  Routers <- MCRouters
  Batches <- MCBatches
  MaxBatches = 2
  MaxBatch = 3
  MaxRequestBytes = 13
  SlotBytes = 48
INVARIANTS AnswersAsDeclared ContentLengthHolds SlotSuffices DiesOnlyAbandoned
CHECK_DEADLOCK FALSE
