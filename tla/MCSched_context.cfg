SPECIFICATION Spec
CONSTANTS
    t1 = t1
    t2 = t2
    K = K
    U = U
    Workers <- MCWorkers
PROPERTIES ContextKept
CHECK_DEADLOCK FALSE
