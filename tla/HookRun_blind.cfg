SPECIFICATION StageSpec
CONSTANTS
    a = a
    b = b
    n = n
    Files = {a, b, n}
    Tasks = {}
    NL = NL
    NoText = NoText
    Blank = Blank
    Return = Return
    FixTexts = {}
    p1 = p1
    p2 = p2
    Scenes = {}
INVARIANT OnlyToldIsStaged
CHECK_DEADLOCK FALSE
