SPECIFICATION PacksSpec
CONSTANTS
    t1 = t1
    t2 = t2
    t3 = t3
    t4 = t4
    None = None
    NSlots = 2
    NPacks = 2
    Items <- MCItems
    Threads = {t1, t2, t3, t4}
    Prompt = TRUE
    Timely = FALSE
SYMMETRY ThreadSymmetry
INVARIANTS
    PacksTypeOK
    QuiescentBetweenRounds
    ClosedBetweenRounds
    FreshBetweenRounds
    PoolReadyAfterKill
    BusyWhileWorking
PROPERTIES
    UpdatedOncePerRound
    ImplementsRound
CHECK_DEADLOCK FALSE
