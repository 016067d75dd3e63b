SPECIFICATION FairSpec
CONSTANTS
  runA = runA
  runB = runB
  stepA = stepA
  stepB = stepB
  buildA = buildA
  buildB = buildB
  tag = tag
  watcherA = watcherA
  tagA = tagA
  watcherB = watcherB
  tagB = tagB
  shared = shared
  watcher = watcher
  artifact = artifact
  Sweeper = Sweeper
  NoHash = NoHash
  NoId = NoId
  NoEntry = NoEntry
  Absent = Absent
  NoStep = NoStep
  NoItem = NoItem
  Idle = Idle
  Pending = Pending
  Invalid = Invalid
  Strings <- MCStrings
  Numbers = {"80"}
  Ports = {"80"}
  PinnedImages = {"x"}
  EntrypointName <- MCEntrypointName
  Numeral <- MCNumeral
  Urls = {"http://f/", "http://i", "http://w"}
  Durations = {"5s", "10m"}
  ResourceTexts = {"small", "big"}
  BaseUrl <- MCBaseUrl
  Written <- MCWritten
  DefaultOf <- MCDefaults
  Object <- MCObject
  Identity <- MCIdentity
  Same <- MCSame
  TwoCalls <- MCTwoCalls
  FiresAtOnce <- MCFiresAtOnce
  OnlyDefaults <- MCOnlyDefaults
  RunOf <- MCRunOf
  KeyOf <- MCKeyOf
  After <- MCAfter
  Rank <- MCRank
  Feeder <- MCFeeder
  ArtifactOf <- MCArtifactOf
  Runs = {runA, runB}
  MaxAttempts = 2
  Steps = {stepA, stepB, watcherA, buildA, tagA, watcherB, buildB, tagB}
  Keys = {shared, watcher, artifact, tag}
  KindOf <- MCKind
  Cases <- SharedAndBuild
  Configs <- TwoConfigs
  Premade <- ObjectsByPeople
  Workers = 1
  SweepOverlaps = FALSE
  PeopleCreate = FALSE
  PeopleDelete = FALSE
  MaxPeople = 0
  MaxEdits = 1
  MaxFaults <- MCMaxFaults
  MaxId = 2
INVARIANTS UsersGetWhatTheyWant EffectsOnce ClaimedIsCurrent RollbackCanDelete
PROPERTIES DefaultsNeverConflict NeverDeletesPeoples WatcherGoesFirst RollbackEnds DeletionEnds
CHECK_DEADLOCK FALSE
