CONSTANTS
  p1 = p1
  p2 = p2
  p3 = p3
  p4 = p4
  Packets <- MCPackets
  ZeroLen <- MCZeroLen
  QueueCapacity <- MCQueueCapacity
  QueueSizes <- MCQueueSizes
  ExpiryTicks <- MCExpiry
  MaxTime <- MCMaxTime
  ModeVals <- MCModeVals
SPECIFICATION Spec
SYMMETRY MCSymmetry
INVARIANT TypeOK
INVARIANT NoLeak
INVARIANT NoStaleTransmission
INVARIANT StatsAverageBounded
