SPECIFICATION Spec
CONSTANTS
    t1 = t1
    kt = kt
    u = u
    Tasks <- NoTestTasks
    kernel_thread = kt
    user = u
    NoTask = NoTask
    PageSize = 2
    HeapPages = 2
    ProgramPages = 2
    MmapLengths <- MCLengths
    MaxRanges = 1
INVARIANT NeverSpinsTooMuch
CHECK_DEADLOCK FALSE
