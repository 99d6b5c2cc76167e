SPECIFICATION Spec
CONSTANTS
    t1 = t1
    t2 = t2
    K = K
    U = U
    Workers <- MCWorkers
INVARIANTS UserGsBaseKept
CHECK_DEADLOCK FALSE
