SPECIFICATION Spec
CONSTANTS
    Names <- MCNames
    Hash <- MCHash
    Archives <- MCArchives
    Paths <- MCPaths
    BlockSize = 2
    InitialCapacity = 4
    Offsets = {3, 9}
    Counts = {1, 15}
    Word = 16
    HeapLimit = 5
    Unending = {8, 9, 10, 11, 12, 13, 14}
    MaxDescriptors = 5
    MaxCalls = 3
INVARIANTS LookupIsResolve ArchiveLoaded CountIsActual CwdSpelled
PROPERTIES DescriptorsKeepFile
CHECK_DEADLOCK FALSE
