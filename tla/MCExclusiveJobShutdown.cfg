SPECIFICATION Spec
CONSTANTS
    Worker = {w1, w2}
    Token = {t1, t2, t3}
    NoToken = NoToken
    Interval = 1
    MaxDelay = 0
    MaxSkew = 0
    Ahead <- Synchronous
    MaxClock = 5
SYMMETRY WorkerSymmetry
CHECK_DEADLOCK FALSE
INVARIANT OneInstance
