SPECIFICATION FairSpec
CONSTANTS
  SeqSpace = 12
  Lens = {0, 1, 2}
  Responses = {1, 2}
  ResponseLength <- MCResponseLength
  Isn = 9
  ClientIsn = 9
  Requests <- MCRequests
  FinOnLast = FALSE
  InFlight = 2
INVARIANTS AnswersMatch InStep
PROPERTIES EveryRequestAnswered SlotReleased
