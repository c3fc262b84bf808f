SPECIFICATION Spec
CHECK_DEADLOCK FALSE
CONSTANTS
    ENTRIES = 64
    DIRS = 4
    HEAP_PAGE = 32
    HeapSizes = {256, 280, 400, 16384}
    HEAP_WORDS = 210
    OldContents = {0, 263}
    KERNEL = 16
    VGA = 11
INVARIANTS TypeOK TablesOffDirectory WalkSafe StrayStoresMiss EnablingStops
