SPECIFICATION EnginesSpec
CONSTANTS
  SeqSpace = 4
  Lens = {0, 1, 2}
  Responses = {1, 2}
  ResponseLength <- MCResponseLength
  Isn = 2
  Segments <- MCSegments
  SynRst = FALSE
  NewIsn = TRUE
INVARIANT SameReplies
