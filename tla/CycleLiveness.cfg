SPECIFICATION FairSpec
CONSTANTS
    Bases = {b1}
    NoBase = NoBase
    MaxRows = 3
    MaxLegs = 2
    MaxOpen = 1
    Qty = 1
    LossSizes = {}
    ModeStates <- Toggled
    Faults = {}
    Dedup = FALSE
    HedgeCheck = TRUE
PROPERTIES
    NakedResolved
    MaintenanceDrains
