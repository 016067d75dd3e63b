SPECIFICATION FairSpec
CONSTANTS
  Steps <- TwoSteps
  Plans <- OnePlan
  Invalid = Invalid
  Idle = Idle
  MaxFailures = 2
  CacheMayLag = TRUE
  Snapshots <- WithSnapshot
  Acts <- ApiActs
  MaxActs = 2
  MaxFaults = 1
PROPERTIES DeletionEnds ApplyEnds RetryServed
CHECK_DEADLOCK FALSE
