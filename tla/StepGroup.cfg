SPECIFICATION FairSpec
CONSTANTS
  a = a
  b = b
  a1 = a1
  a2 = a2
  b1 = b1
  Steps = {a, b}
  Jobs = {a1, a2, b1}
  StepOf <- JobStep
  Deps <- BWaitsForA
  Scenes <- AllScenes
INVARIANTS
  FinishedIsComplete
  NoFailureHidden
  DependsFinishUnlessSkipped
PROPERTIES
  NoStartAfterFailure
  GroupEnds
