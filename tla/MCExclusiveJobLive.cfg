SPECIFICATION FairSpec
CONSTANTS
    Worker = {w1, w2}
    Token = {t1, t2}
    NoToken = NoToken
    Interval = 1
    MaxDelay = 1
    MaxSkew = 1
    Ahead <- OneAhead
    MaxClock = 4
CHECK_DEADLOCK FALSE
PROPERTIES
    LeaseLossEndsInvocation
    AbandonedLockRecovers
