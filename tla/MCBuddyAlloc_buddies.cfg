SPECIFICATION Spec
CONSTANTS
    alignment = 2
    HeaderSize = 2
    HeapSize = 32
    Sizes <- MCSizes
    HalfWord = 64
INVARIANTS NoBuddiesLeft
CHECK_DEADLOCK FALSE
