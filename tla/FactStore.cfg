SPECIFICATION FairSpec
CONSTANTS
    Client = {c1}
    Id = {1, 2, 3}
    RetentionDays = 1
    MaxEntries = 1
    BatchSize = 1
    RetentionJob = {rj}
    HistoryJob = {hj1, hj2}
    MaxClock = 2
CHECK_DEADLOCK FALSE
INVARIANTS
    TypeOK
    NewestKept
PROPERTIES
    CleanupComplete
    ImplementsFactRetention
    JobEnds
    ExpiredPurged
