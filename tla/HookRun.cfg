SPECIFICATION Spec
CONSTANTS
    a = a
    b = b
    n = n
    Files = {a, b, n}
    Tasks <- AllTasks
    NL = NL
    NoText = NoText
    Blank = Blank
    Return = Return
    FixTexts <- SomeTexts
    p1 = p1
    p2 = p2
    Scenes <- AllScenes
INVARIANTS
    NothingMissed
    PlanTellsTheRun
    SafeUnlessStaging
    OnlyNamedIsStaged
    EveryFileRuns
    BothAreKept
    FixersAgree
CHECK_DEADLOCK FALSE
