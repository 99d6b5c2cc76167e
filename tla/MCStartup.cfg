SPECIFICATION Spec
CONSTANTS
    CpuCount = 3
    NoCpu = 0
    LastVector = 36
    FirstVector = 32
    Firmwares <- MCFirmwares
    BspIds = {0, 1}
    Measured = {1, 2}
    Word = 1024
    MHz = 100
    StallTicks = 2
    PageSize = 4
    Programs <- MCPrograms
    StackPages = 2
    Features <- MCFeatures
    ResponseSets <- MCResponseSets
INVARIANTS OwnTss InterruptsReachHandlers ProgramIsLoaded
PROPERTIES BootEnds
CHECK_DEADLOCK FALSE
