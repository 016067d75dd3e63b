SPECIFICATION Spec
CONSTANTS
  runA = runA
  runB = runB
  sweeper = sweeper
  refA = refA
  refB = refB
  NoId = NoId
  NoEntry = NoEntry
  NoRef = NoRef
  Idle = Idle
  Callers = {runA, runB, sweeper}
  Keys = {k1}
  Refs = {refA, refB}
  Ids = {id1}
  Owner <- MCOwner
  Steps = 2
  MaxVersion = 6
  CacheMayLag = FALSE
  SweepOverlaps = TRUE
INVARIANT NeverDeletedInUse
