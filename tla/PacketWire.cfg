SPECIFICATION Spec
CONSTANTS
  NoKey = NoKey
  NoFlow = NoFlow
  Responses <- MCResponses
  ListenPort <- MCPort
  Keys <- MCKeys
  Hash <- MCHash
  GenMod = 3
  MaxExpected = 3
  Traffic <- MCTraffic
  Garbage <- MCGarbage
INVARIANTS ProbeEnds SameReading OneOfAFlow RepliesOnTheWire
PROPERTY ImplementsSet
