SPECIFICATION Spec
CONSTANTS
    t1 = t1
    kt = kt
    u = u
    Tasks <- MCTasks
    kernel_thread = kt
    user = u
    NoTask = NoTask
    PageSize = 2
    HeapPages = 2
    ProgramPages = 2
    MmapLengths <- MCLengths
    MaxRanges = 2
INVARIANTS PagesServeOnce KernelVisible InnerLocksKeepProcessor HeapFaultsAreServed
PROPERTIES BackedOnce
CHECK_DEADLOCK FALSE
