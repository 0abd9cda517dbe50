SPECIFICATION Spec
CONSTANTS
    FeePercent = 5
    SlippagePercent = 10
    MinNotionalUsdt = 250
    LotStep = 2
    LotsPerUnit = 4
    Requests = {r1, r2}
    Symbols = {BTC}
    OtherSymbols = {XYZ}
    RawQuantities = {3}
    TickerPrices = {2011}
    DefaultBalance = 1508
    Operations = {"buy", "sell"}
    Faults = FALSE
    MaxRequests = 3
    NoRow = NoRow
    Nobody = Nobody
SYMMETRY Symmetry
INVARIANTS
    NoOrderDeadlock
