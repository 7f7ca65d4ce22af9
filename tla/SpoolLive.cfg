SPECIFICATION FairSpec
CONSTANTS
    e1 = e1
    e2 = e2
    b1 = b1
    b2 = b2
    w1 = w1
    w2 = w2
    NoEnv = NoEnv
    NoBody = NoBody
    Envs = {e1, e2}
    Workers = {w1, w2}
    Operators <- NoOperators
    Bodies = {b1}
    BodyOf <- OneSplitMessage
    Spooled0 <- Nothing
    MaxTime = 1
    MaxRestarts = 1
    MaxFaults = 1
    MinBackoff = 1
    SlowDisk = FALSE
INVARIANTS
    NoMailLost
    OneAttempt
    InflightOwned
    NoOrphans
    SpoolInv
PROPERTIES
    EventuallySettled
    ImplementsQueue
