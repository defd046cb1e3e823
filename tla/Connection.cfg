SPECIFICATION FairSpec
CONSTANTS
  c1 = c1
  c2 = c2
  Clients <- Clients2
  Scripts <- MCScripts
  MaxSubmits = 3
  MaxRequest = 5
  MaxChunk = 7
  MaxConnections = 1
INVARIANTS SlotsAccounted PipelineOrder ClosingAnswerLast LegalRequestsServed SubmittedWithinLimit
PROPERTY EveryConnectionEnds
