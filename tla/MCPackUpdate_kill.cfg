SPECIFICATION PacksSpec
CONSTANTS
    t1 = t1
    t2 = t2
    t3 = t3
    t4 = t4
    None = None
    NSlots = 1
    NPacks = 1
    Items <- MCItems
    Threads = {t1, t2, t3}
    Prompt = TRUE
    Timely = FALSE
PROPERTIES
    KilledSlotIsRecreated
CHECK_DEADLOCK FALSE
