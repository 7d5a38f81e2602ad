SPECIFICATION Spec
CONSTANTS
    MaxLine = 2
    MaxData = 2
    RwTries = 3
    CanTries = 2
    JkTries = 2
    FrameTries = 2
    NCmu = 2
    CmuCells = 4
    NFrames = 2
    PackCells = 7
    Looks = 2
    Setups <- MCSetups
INVARIANTS
    BrokenPipeIsIgnored
