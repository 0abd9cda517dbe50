SPECIFICATION Spec
CONSTANTS
    Requests = {r1, r2}
    Bots = {b1}
    Accounts = {a1}
    MaxBotsPerUser = 1
    MaxRequests = 5
    None = None
SYMMETRY Symmetry
PROPERTY
    DisconnectStopsBots
