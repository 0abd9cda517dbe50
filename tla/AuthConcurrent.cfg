SPECIFICATION Spec
CONSTANTS
    Requests = {r1, r2}
    Passwords = {p1, p2}
    Codes = {c1, c2}
    OtpTtl = 1
    OtpMaxAttempts = 2
    LoginMaxAttempts = 2
    LockoutTime = 2
    Operations = {"register", "verifyOtp", "login"}
    Faults = TRUE
    Found = FALSE
    MaxTime = 3
    MaxRequests = 5
    None = None
SYMMETRY Symmetry
INVARIANTS
    VerifiedIsActive
    AttemptsBounded
    LockoutOnTime
PROPERTIES
    ActiveStays
    ActivationPairsPassword
    LockoutHoldsAlone
