SPECIFICATION Spec
CONSTANTS
    FeePercent = 5
    SlippagePercent = 10
    MinNotionalUsdt = 250
    LotStep = 2
    LotsPerUnit = 4
    Requests = {r1, r2}
    Symbols = {BTC}
    OtherSymbols = {XYZ}
    RawQuantities = {1, 3, 4}
    TickerPrices = {1003, 2011}
    DefaultBalance = 1000
    Operations = {"buy", "sell", "reset"}
    Faults = FALSE
    MaxRequests = 4
    NoRow = NoRow
    Nobody = Nobody
SYMMETRY Symmetry
INVARIANTS
    BalanceExplained
    AverageWithinFills
PROPERTIES
    FillsNeverPay
