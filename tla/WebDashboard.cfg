SPECIFICATION Spec
CONSTANTS
    u1 = u1
    u2 = u2
    b1 = b1
    b2 = b2
    Tabs = {t1}
    Accounts = {u1, u2}
    Bots = {b1, b2}
    BotOwner <- Owners
    MaxAsks = 2
    MaxSent = 4
    MaxTrades = 2
    None = None
INVARIANTS
    CardsAreTrue
    PendingIsAwaited

    
