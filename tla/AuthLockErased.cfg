SPECIFICATION Spec
CONSTANTS
    Requests = {r1, r2}
    Passwords = {p1, p2}
    Codes = {c1, c2}
    OtpTtl = 1
    OtpMaxAttempts = 2
    LoginMaxAttempts = 2
    LockoutTime = 2
    Operations = {"login"}
    Faults = FALSE
    Found = TRUE
    MaxTime = 2
    MaxRequests = 3
    None = None
SYMMETRY Symmetry
PROPERTIES
    LockoutHolds
