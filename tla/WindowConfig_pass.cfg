CONSTANTS
  Hours <- MCHours
  Minutes <- MCMinutes
  ModeVals <- MCModeVals
  QueueSizes <- MCQueueSizes
  ExpirySecs <- MCExpirySecs
SPECIFICATION Spec
INVARIANT TypeOK
PROPERTY InvalidBoundsOnlyFromDisabledAdmin
