SPECIFICATION Spec
CONSTANTS
    r1 = r1
    r2 = r2
    Rcpts = {r1, r2}
    NotifyChoices <- Silent
    Relays = 1
    DelayWarnAfter = 1
    MaxLifetime = 1
    DSNEnabled = TRUE
    MaxAge = 2
    MaxCrashes = 0
    MaxLost = 0
    MaxFaults = 0
INVARIANTS
    RejectionsReported
