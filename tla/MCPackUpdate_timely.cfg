SPECIFICATION PacksSpec
CONSTANTS
    t1 = t1
    t2 = t2
    t3 = t3
    t4 = t4
    None = None
    NSlots = 2
    NPacks = 2
    Items <- MCItems
    Threads = {t1, t2}
    Prompt = FALSE
    Timely = TRUE
INVARIANTS
    NoUpdateLost
PROPERTIES
    RoundsRecur
