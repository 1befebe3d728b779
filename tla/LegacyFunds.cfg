SPECIFICATION Spec
CONSTANTS
    Venues = {"binance", "kucoin"}
    Movements = {transfer}
    Kind <- TheKind
    Shuttle = shuttle
    Quotes = {usdt, usdc}
    Home = usdt
    Pairs <- ThePairs
    Funds <- TheFunds
    Lot = 2
    MinPct = 25
    MaxPct = 30
    BufferPct = 50
    MaxOpen = 2
    AutoTransfer = TRUE
    MaxFaults = 1
INVARIANTS
    InjectionsOnce
    SizedIsFunded
PROPERTY TransfersSettle
