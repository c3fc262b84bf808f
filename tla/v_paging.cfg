SPECIFICATION Spec
CHECK_DEADLOCK FALSE
CONSTANTS
    ENTRIES = 64
    DIRS = 4
    HEAP_PAGE = 32
    HeapSizes = {16384}
    HEAP_WORDS = 210
    OldContents = {0, 263}
    KERNEL = 16
    VGA = 11
INVARIANT KernelReachable
