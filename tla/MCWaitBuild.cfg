SPECIFICATION FairSpec
CONSTANTS
  Builds <- MCBuilds
  Ours <- MCOurs
  NoBuild = NoBuild
  Never = Never
  Idle = Idle
  Timeout = 1
  ListSize = 2
  MaxFailures = 2
  MaxFaults = 2
  MaxRetries = 1
  MaxDeletes = 1
INVARIANTS TypeOK RetryHasTime OnlyOwnBuilds
PROPERTIES FollowsBuild WaitingEnds
