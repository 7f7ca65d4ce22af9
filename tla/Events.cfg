SPECIFICATION Spec
CONSTANTS
    e1 = e1
    e2 = e2
    AuditEvents = {e1, e2}
    Verdicts <- MCVerdicts
    Senders = {s1, s2}
    BufferSize = 1
    Retries = 1
    MaxFails = 2
    MaxFaults = 1
    NoEvent = NoEvent
INVARIANTS TypeOK NoSilentLoss OneFate DuplicatesOwed EventsInv
PROPERTIES CloseReturns SpillsResolve
