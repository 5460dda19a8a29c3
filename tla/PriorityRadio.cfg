CONSTANTS
  p1 = p1
  p2 = p2
  p3 = p3
  p4 = p4
  Packets <- MCPackets
  Priority <- MCPriority
  ZeroLen <- MCZeroLen
  QueueCapacity <- MCQueueCapacity
  ExpiryTicks <- MCExpiry
  MinInterval <- MCMinInterval
  MaxPerCycle <- MCMaxPerCycle
  MaxTime <- MCMaxTime
  ModeVals <- MCModeVals
SYMMETRY MCSymmetry
SPECIFICATION Spec
INVARIANT TypeOK
PROPERTY PriorityOrderRespected
INVARIANT NoStaleTransmission
