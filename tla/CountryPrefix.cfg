SPECIFICATION Spec
CONSTANTS
    Digits = {"1", "2"}
    Portable <- AfterCall
    MainParts <- HomeAndIsland
    PrefixNames <- OfCty
    MaxEntities = 2
INVARIANT
    PrefixUsed
CHECK_DEADLOCK FALSE
