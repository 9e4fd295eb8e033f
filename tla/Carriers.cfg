CONSTANTS
    Evaluations = {e1, e2}
    Threads = {t1, t2}
    IdSpace = 4
SPECIFICATION MCSpec
INVARIANTS
    CarriersKeepOrder
    HostDecides
 
CHECK_DEADLOCK FALSE
