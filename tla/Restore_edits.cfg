SPECIFICATION RestoreSpec
CONSTANTS
    NL = NL
    NoText = NoText
    p1 = p1
    p2 = p2
    Scenes <- RaggedScenes
INVARIANT EveryEditKept
CHECK_DEADLOCK FALSE
