SPECIFICATION Spec
CONSTANTS
    NNeeded = 2
    NWanted = 3
    Retries = 2
INVARIANTS
    LinkTypeOK
    ClosedOutside
    StaleOnlyIfMuted
PROPERTIES
    InverterReturns
