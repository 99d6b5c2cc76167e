SPECIFICATION FairSpec
CONSTANTS
    t1 = t1
    t2 = t2
    K = K
    U = U
    Workers <- MCWorkers
INVARIANTS TypeOK BasesNameCurrent RunQueueOk RebootMeansDeath
PROPERTIES KernelContextKept DeadStaysDead KernelTasksRun DeathEndsInReboot
CHECK_DEADLOCK FALSE
