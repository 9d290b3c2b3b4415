SPECIFICATION PluginSpec
CONSTANTS
    Worker = {w1}
    Token = {t1, t2}
    NoToken = NoToken
    Interval = 1
    MaxDelay = 1
    MaxSkew = 0
    Ahead <- OneClock
    MaxClock = 3
    Jitter = 1
CHECK_DEADLOCK FALSE
INVARIANT CancelEndsLoop
