SPECIFICATION Spec
CONSTANTS
    FeePercent = 5
    SlippagePercent = 10
    MinNotionalUsdt = 250
    LotStep = 2
    LotsPerUnit = 4
    Requests = {r1, r2, r3}
    Symbols = {BTC, ETH}
    OtherSymbols = {XYZ}
    RawQuantities = {1, 3, 4}
    TickerPrices = {1003, 2011}
    DefaultBalance = 1000
    Operations = {"buy", "sell", "reset", "wallet"}
    Faults = TRUE
    MaxRequests = 3
    NoRow = NoRow
    Nobody = Nobody
SYMMETRY Symmetry
INVARIANTS
    NoOverdraft
    NoShortSelling
    ReadStillCurrent
    WalletOpenBeforeTrading
    HoldingsExplained
PROPERTIES
    AtomicLedger
