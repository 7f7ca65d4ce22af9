SPECIFICATION MailqSpec
CONSTANTS
    e1 = e1
    e2 = e2
    b1 = b1
    b2 = b2
    w1 = w1
    w2 = w2
    o1 = o1
    NoEnv = NoEnv
    NoBody = NoBody
    Envs = {e1}
    Workers = {w1, w2}
    Operators = {o1}
    Bodies = {b1}
    BodyOf <- OneMessage
    Spooled0 <- Nothing
    MaxTime = 1
    MaxRestarts = 0
    MaxFaults = 1
    MinBackoff = 1
    SlowDisk = TRUE
    MaxCommands = 3
SYMMETRY WorkerSymmetry
INVARIANTS
    MailqTypeOK
    MailqNoMailLost
    MailqInv
