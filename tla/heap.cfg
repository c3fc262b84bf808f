SPECIFICATION Spec
CONSTANTS
    NULL = NULL
    HEAP_SIZE = 18
    HEADER = 2
    ALIGN = 2
    WORD = 64
    Requests = {0, 1, 3, 4}
INVARIANTS TypeOK ListCoversHeap NoFreeNeighbours HeldIsUsed AllFreedIsInitial
PROPERTY RefinesAllocator
