SPECIFICATION MCSpec
CONSTANTS
  f1 = f1
  f2 = f2
  a = a
  b = b
  c = c
  Files = {f1, f2}
  Jobs = {a, b, c}
  MaxRetries = 1
  Setups <- AllSetups
  Crew = {1, 2}
  MinShare = 2
  AheadMax = 2
  FixLists <- FileLists
  Filterers = {1, 2}
  MaxHelpers = 2
  MinItems = 1
  Filterings <- SomeFilterings
INVARIANTS
  PatchAlone
  PatchFresh
  NoTornReads
  ListsInOrder
PROPERTIES
  EveryJobEnds
