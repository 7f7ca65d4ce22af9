SPECIFICATION FairSpec
CONSTANTS
    r1 = r1
    r2 = r2
    Rcpts = {r1, r2}
    NotifyChoices <- SilentNeverSuccess
    Relays = 2
    DelayWarnAfter = 1
    MaxLifetime = 3
    DSNEnabled = TRUE
    MaxAge = 4
    MaxCrashes = 1
    MaxLost = 1
    MaxFaults = 1
INVARIANTS
    TypeOK
    DuplicatesExplained
    FailuresReported
    ReportedOnce
    DistinctReports
    NotifyRespected
PROPERTIES
    StatusIsFinal
    EventuallySettled
