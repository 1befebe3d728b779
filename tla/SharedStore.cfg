SPECIFICATION FairSpec
CONSTANTS
    Workers = {w1, w2}
    Bases = {b1, b2}
    NoWorker = none
    MaxOpen = 2
    MaxPairs = 1
INVARIANTS CapExceededByOthersOnly RecordsMatchLegs
PROPERTIES WorkersAreIsolated LockedCheckIsExact CyclesEnd
