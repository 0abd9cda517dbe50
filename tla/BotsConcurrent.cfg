SPECIFICATION Spec
CONSTANTS
    Requests = {r1, r2, r3}
    Bots = {b1, b2, b3, b4}
    Accounts = {a1}
    MaxBotsPerUser = 1
    MaxRequests = 6
    None = None
SYMMETRY Symmetry
INVARIANTS
    AccountsExist
    OvershootBounded
PROPERTIES
    NoResurrection
    BotLimit
    PauseOnlyFromActive
    DeleteOnlyStopped
    DisconnectStopsUndisturbed
