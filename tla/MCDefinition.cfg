SPECIFICATION Spec
CONSTANTS
  Strings <- MCStrings
  Pending = Pending
  Numbers = {"80"}
  Ports = {"80"}
  PinnedImages = {"img:1"}
  EntrypointName <- MCEntrypointName
  Definitions <- MCDefinitions
  Edits <- MCEdits
  Inputs <- MCInputs
  ConfigKeys = {"runnerImage"}
  Made <- MCMade
  NoDefinition = NoDefinition
  NoRun = NoRun
  NoItem = NoItem
INVARIANTS TypeOK CreateAgrees OnlyOmittedLack RefusalsAreRight
CHECK_DEADLOCK FALSE
