SPECIFICATION StraySpec
CONSTANTS
  f1 = f1
  f2 = f2
  a = a
  b = b
  c = c
  Files = {f1, f2}
  Jobs = {a, b, c}
  MaxRetries = 1
  Setups <- TwoSetups
  Crew = {}
  MinShare = 2
  AheadMax = 2
  FixLists = {}
  Filterers = {}
  MaxHelpers = 2
  MinItems = 1
  Filterings = {}
INVARIANTS
  PatchNeverStale
