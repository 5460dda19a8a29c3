CONSTANTS
  p1 = p1
  p2 = p2
  Packets <- MCPackets
  ModeVals <- MCModeVals
  QueueSizes <- MCQueueSizes
  ExpirySecs <- MCExpirySecs
  TickMs <- MCTickMs
  MaxTime <- MCMaxTime
  StackLimit <- MCStackLimit
SPECIFICATION Spec
INVARIANT QueueHoldsLivePackets
