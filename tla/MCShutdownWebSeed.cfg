\* One web seed loop.
SPECIFICATION ShutdownLiveSpec
CONSTANTS
    c1 = c1 c2 = c2 v1 = v1 a1 = a1 a2 = a2 k1 = k1 k2 = k2
    Conn = {}
    Verifier = {v1}
    Caller = {a1}
    WebSeed = {a1}
    Stopper = {k1}
    RunQueueLength = 1
PROPERTY StopReturns
CHECK_DEADLOCK FALSE
