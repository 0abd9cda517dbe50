SPECIFICATION SessionSpec
CONSTANTS
    Tabs = {t1}
    Accounts = {u1}
    MaxFetches = 3
    MaxTokens = 2
    MaxLoads = 3
    Verified = {}
    Forms = {"login", "register", "verify"}
    None = None
INVARIANTS
    TokensAgree
    LogoutFinal
    ConfirmedBeforeShown
PROPERTIES
    HydrationEnds
    KeepsView
