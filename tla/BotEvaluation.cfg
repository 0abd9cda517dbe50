SPECIFICATION Spec
CONSTANTS
    Parameters <- ShortPeriod
    Requests = {r1, r2}
    Bots = {b1}
    Limits = {3}
    Closes = {1, 2, 4}
    MaxOwnLots = 1
    None = None
SYMMETRY Symmetry
INVARIANTS
    TypeOK
    RsiIsNetChange
    ExposureBounded
    StoppedBotsSettle
PROPERTIES
    LimitRespected
