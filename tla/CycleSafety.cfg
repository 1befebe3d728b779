SPECIFICATION Spec
CONSTANTS
    Bases = {b1}
    NoBase = NoBase
    MaxRows = 3
    MaxLegs = 2
    MaxOpen = 2
    Qty = 1
    LossSizes = {1}
    ModeStates <- Toggled
    Faults = {"lost_answer", "bad_read", "read_error", "lost_session"}
    Dedup = FALSE
    HedgeCheck = TRUE
INVARIANTS
    TypeOK
    HeldLegsTracked
    NeverDoubled
    NakedLegIsAlone
    OneRowPerBase
