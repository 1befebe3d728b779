SPECIFICATION Spec
CONSTANTS
    Bases = {b1}
    NoBase = NoBase
    MaxRows = 2
    MaxLegs = 1
    MaxOpen = 1
    Qty = 1
    LossSizes = {}
    ModeStates <- Toggled
    Faults = {}
    Dedup = FALSE
    HedgeCheck = TRUE
PROPERTY ClosedIsFlat
