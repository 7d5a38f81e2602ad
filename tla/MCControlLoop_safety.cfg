SPECIFICATION Spec
CONSTANTS
    Cells = 2
    CellCritLow = 200
    CellMin = 250
    CellLow = 250
    CellHigh = 358
    CellMax = 365
    CellCritHigh = 370
    Rate = 10
    ERate = 10
    UserCapacity <- Unset
    UserChargeVoltage <- Unset
    UserChargeMaxVoltage <- Unset
    UserChargeAmps <- Unset
    UserDischargeVoltage <- Unset
    ChargeAtMax = FALSE
    MaxCuts = 2
    CVTime = 3
    NPacks = 1
    NProbes = 2
    HasFile = TRUE
    HasInverter = TRUE
    UsePackVoltage = FALSE
    UserSoC <- Unset
    PackReadings <- AllReadings
    InvReadings <- AnyInverter
    MaxTick = 2
INVARIANTS
    TypeOK
    ChargingNeedsCapacity
    IdleIsTrickle
    VoltageWithinMax
    SaturationBounded
    CritStateIsCurrent
