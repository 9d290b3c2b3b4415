SPECIFICATION Spec
CONSTANTS
    Worker = {w1, w2}
    Token = {t1, t2, t3}
    NoToken = NoToken
    Interval = 1
    MaxDelay = 1
    MaxSkew = 1
    Ahead <- OneAhead
    MaxClock = 10
SYMMETRY TokenSymmetry
CHECK_DEADLOCK FALSE
INVARIANTS
    TypeOK
    LeaseHonoured
    StandsDown
    Exclusion
    ReleasedAfterWork
PROPERTIES
    Fencing
    AcquiredAtAdvances
    ImplementsJobLease
    OwnerlessRowYields
