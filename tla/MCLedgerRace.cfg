SPECIFICATION Spec
CONSTANTS
  runA = runA
  runB = runB
  sweeper = sweeper
  refA = refA
  refB = refB
  NoId = NoId
  NoEntry = NoEntry
  NoRef = NoRef
  Idle = Idle
  Callers = {runA, runB, sweeper}
  Keys = {k1}
  Refs = {refA, refB}
  Ids = {}
  Owner <- MCOwner
  Steps = 2
  MaxVersion = 4
  CacheMayLag = TRUE
  SweepOverlaps = TRUE
INVARIANT TerminatingHasNoRefs
