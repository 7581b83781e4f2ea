SPECIFICATION MCSpec
CONSTANTS
  Files = {f1, f2}
  Jobs = {j1, j2, j3}
  MaxAsks = 3
  g1 = g1
  g2 = g2
  s1 = s1
  s2 = s2
  s3 = s3
  Fixers = {s1, s2, s3}
  Fixable = {g1, g2}
  Fixes <- AllFixes
  Cancels = TRUE
INVARIANTS
  TypeOK
  CountersMatchHolders
  Exclusion
  NoLostWakeup
  CountsTellOfWriters
  NoTornAdd
  NothingLeftUnstaged
PROPERTIES
  KeepsPromise
  WakesInOrder
  WaitersServed
  EveryStepEnds
