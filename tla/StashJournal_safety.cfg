SPECIFICATION MCSpec
CONSTANTS
  p1 = p1
  p2 = p2
  p3 = p3
  f1 = f1
  f2 = f2
  Procs = {p1, p2, p3}
  Files = {f1, f2}
  NewFiles <- SomeNew
  MaxFixes = 1
  Scenarios <- Scenes
  Names = {1, 2}
  Trees <- TwoPaths
SYMMETRY Symmetry
INVARIANTS
  NothingLost
  CleanRuns
  StashTakesAll
PROPERTIES
  LeftoversAreTold
  LiveJournalUntouched
