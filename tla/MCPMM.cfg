SPECIFICATION FairSpec
CONSTANTS
    CPUs = {c1, c2, c3}
    NoCPU = NoCPU
    MemMaps <- MCMemMaps
    Requests = {1, 2, 3}
    PageBytes = 2
    ByteBits = 4
INVARIANTS TypeOK NoPageGrantedTwice GrantsAreRam OutOfMemoryIsReal MemoryIsAccounted IndInv
PROPERTIES ImplementsPageAllocator CallsEnd
CHECK_DEADLOCK FALSE
