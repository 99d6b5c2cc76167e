SPECIFICATION FairSpec
CONSTANTS
    buffer_size = 3
    Counts = {1, 2}
    Keys <- MCKeys
INVARIANTS TypeOK LoadedIsHead NoStuckShift
PROPERTIES ImplementsLineInput DropsOnlyWhenFull BytesAreTaken ReadReturns
CHECK_DEADLOCK FALSE
