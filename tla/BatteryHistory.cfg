SPECIFICATION FairSpec
CONSTANTS
  Devices = {battery, other}
  NoDevice = none
  Durations = {day, week}
  DefaultDuration = day
  Replies <- MCReplies
  MaxCalls = 3
INVARIANTS TypeOK SettledOnCurrent StaleOnlyAfterError
  PointsBetweenLimits
PROPERTY ImplementsLatestAnswer
