SPECIFICATION Spec
CONSTANTS
    e1 = e1
    e2 = e2
    b1 = b1
    b2 = b2
    w1 = w1
    w2 = w2
    NoEnv = NoEnv
    NoBody = NoBody
    Envs = {e1, e2}
    Workers = {w1, w2}
    Operators <- NoOperators
    Bodies = {b1, b2}
    BodyOf <- TwoMessages
    Spooled0 = {e1, e2}
    MaxTime = 1
    MaxRestarts = 1
    MaxFaults = 0
    MinBackoff = 0
    SlowDisk = FALSE
SYMMETRY WorkerSymmetry
INVARIANT NoMailLost
