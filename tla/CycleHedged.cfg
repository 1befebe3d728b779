SPECIFICATION Spec
CONSTANTS
    Bases = {b1, b2}
    NoBase = NoBase
    MaxRows = 2
    MaxLegs = 2
    MaxOpen = 2
    Qty = 1
    LossSizes = {}
    ModeStates <- Trading
    Faults = {"read_error", "lost_session"}
    Dedup = FALSE
    HedgeCheck = TRUE
SYMMETRY Symmetry
INVARIANT PhaseAHedges
PROPERTY ClosedIsFlat
