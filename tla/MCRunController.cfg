SPECIFICATION FairSpec
CONSTANTS
  Steps <- TwoSteps
  Plans <- EitherPlan
  Invalid = Invalid
  Idle = Idle
  MaxFailures = 2
  CacheMayLag = FALSE
  Snapshots <- EitherSnapshot
  Acts <- AllActs
  MaxActs = 2
  MaxFaults = 2
INVARIANTS TypeOK FinalizerGuards StatusIsTrue NothingForgotten
PROPERTIES SuccessIsKept RetryAfterReset KeepsRunSpec RollbackEnds
CHECK_DEADLOCK FALSE
