SPECIFICATION DaemonFairSpec
CONSTANTS
  f1 = f1
  f2 = f2
  Flows <- MCFlows
  NoFlow = NoFlow
  PacketWords = 2
  WordSizes = {1, 2}
  MaxPackets = 3
  MaxBatch = 2
  DeviceWords = {2, 3, 4}
  MaxArrivals = 4
INVARIANTS FlowOrder OnePacketPerFlow WaveFits ExactlyOnce OutputsFollowDispatch
           AnswersInOrder AtMostABatchLost
PROPERTY DaemonReturns
CHECK_DEADLOCK FALSE
