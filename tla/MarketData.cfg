SPECIFICATION Spec
CONSTANTS
    Requests = {r1, r2}
    Keys = {k1}
    OtherKeys = {k2}
    CacheTtl = 1
    Timeout = 2
    MaxRetries = 1
    Backoff = 1
    MaxTime = 8
    None = None
SYMMETRY Symmetry
INVARIANTS
    EndsInTime
PROPERTIES
    FreshAnswers
    RegressionBounded
