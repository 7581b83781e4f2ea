SPECIFICATION MCSpec
CONSTANTS
  Agent = 2
  Hook = 3
  Other = 4
  Check = 5
  Late = {6, 7}
  HkNum = 9
  Nums = {1, 2}
  MaxBorn = 4
  Rescans = 1
  RunIds = {1, 2}
  PipeSize = 1
  Settings <- TwoSettings
  CompletedLimit = 1
  Loaders = {"p1", "p2"}
  Modules = {1, 2}
  Instances <- LoadInstances
  Installers = {"i1", "i2"}
  Events = {"pre-commit", "pre-push"}
  Scopes = {"local", "global"}
  Commands <- Installs
  Paths = {1, 2, 3}
  Patches <- SomePatches
  Branches = {"main", "topic"}
  Clones <- SomeClones
INVARIANTS EndsJustItsOwn RunsAreTold ConfigIsCurrent InstallsKeepOrder PatchUndone
  NewIsChecked
PROPERTY StopsEnd
CHECK_DEADLOCK FALSE
