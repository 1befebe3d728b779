SPECIFICATION Spec
SYMMETRY Symmetry
CONSTANTS
    b1 = b1
    b2 = b2
    Bases = {b1, b2}
    Quotes <- MCQuotes
    One = 100
    Safety = 95
    Lot = 3
    SubNum = 3
    SubDen = 4
    MaxPct = 50
    MinPct = 1
    Leverage = 1
    Start = 900
    Slip = 1
    Fee = 1
    MaxOpen = 1
    EntryNet = 900
    ExitNet = 10
    ScanFees = 20
    Multiple = 2
    MaxExitBasis = 250
    Dislocation = 750
    Stop = 15
INVARIANTS SizedEntriesFill SpotSizeIsLargest ForecastIsConservative SpotIsLedger FuturesIsLedger CoinsMatchRows NoChurn
