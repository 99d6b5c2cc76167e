SPECIFICATION Spec
CONSTANTS
    alignment = 2
    HeaderSize = 2
    HeapSize = 32
    Sizes <- MCSizes
    HalfWord = 64
INVARIANTS OperationsEnd HeadersTell
PROPERTIES ImplementsHeap
CHECK_DEADLOCK FALSE
