SPECIFICATION Spec
CONSTANTS
    NoCfg = NoCfg
    NoInverter = NoInverter
    Upcase <- MCUpcase
    Files <- MCFiles
    Options <- MCOptions
    ModuleType <- MCModuleType
    Controls = {"jbd"}
    Uuids = {"u0", "u1", "u2", "u3", "u4", "u5", "u6", "u7", "u8", "u9"}
    PackNames <- MCPackNames
INVARIANTS
    ConfTypeOK
    ReadsWhatIsSaid
    WrittenIsReadBack
    UuidsAreSaved
    SlotForEveryPack
    PacksListedOnce
PROPERTIES
    WriteKeepsItems
