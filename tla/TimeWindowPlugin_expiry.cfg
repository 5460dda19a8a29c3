CONSTANTS
  Durations <- MCDurations
  QueueTimes <- MCQueueTimes
  Counts <- MCCounts
  MaxTime <- MCMaxTime
  MaxCount <- MCMaxCount
SPECIFICATION Spec
INVARIANT OverrideExpires
