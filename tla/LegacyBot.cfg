SPECIFICATION FairSpec
CONSTANTS
    Bases = {b1}
    Target = 3
    SpotMin = 2
    MaxCoins = 3
    MaxShort = 4
    MaxOpen = 1
    AutoTransfer = FALSE
    KeepsCache = TRUE
    Priced = {b1}
    DefaultIsOwn = FALSE
    MaxFaults = 1
INVARIANT BooksMatchLegs
PROPERTIES NoSecondEntry NakedShortsEnd PhantomsAreRecorded ExitAllIsServed
