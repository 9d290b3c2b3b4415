SPECIFICATION FairSpec
CONSTANTS
    Run = {r1}
    Other = {o1}
    Address = {a1}
    AddressOf <- MCAddressOf
    Worker = {w1}
    NoWorker = NoWorker
    JobSession = {j1}
    MaxRequests = 1
    PoolSize = 1
CHECK_DEADLOCK FALSE
INVARIANTS
    TypeOK
    ConnectionsAccounted
    VerdictHonest
PROPERTIES
    
    ImplementsFactLog
    RequestEnds
    RunEnds
