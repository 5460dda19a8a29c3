CONSTANTS
  HourSet <- MCHours
  MinuteSet <- MCMinutes
  TickMs <- MCTick
  ClockHorizon <- MCDayHorizon
SPECIFICATION FairSpec
INVARIANT TypeOK
INVARIANT AllowedMatchesReference
PROPERTY WindowOpens
