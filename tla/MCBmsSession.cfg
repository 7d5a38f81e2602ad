SPECIFICATION Spec
CONSTANTS
    MaxLine = 3
    MaxData = 2
    RwTries = 3
    CanTries = 2
    JkTries = 2
    FrameTries = 2
    NCmu = 2
    CmuCells = 4
    NFrames = 2
    PackCells = 5
    Looks = 2
    Setups <- MCSetups
INVARIANTS
    SessionTypeOK
    NoSessionKept
    AnswersBelong
    AnswersAreNew
    RemoteUpdatesAreMadeUp
    CellsInPlace
PROPERTIES
    UpdateReturns
