SPECIFICATION Spec
CONSTANTS
    t1 = t1
    t2 = t2
    t3 = t3
    t4 = t4
    i1 = i1
    i2 = i2
    None = None
    NSlots = 1
    Items = {i1, i2}
    Threads = {t1, t2, t3}
    Prompt = FALSE
    Timely = FALSE
SYMMETRY PoolSymmetry
INVARIANTS
    TypeOK
    SlotMutex
    OneWorkerPerSlot
CHECK_DEADLOCK FALSE
