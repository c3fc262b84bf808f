SPECIFICATION Spec
CHECK_DEADLOCK FALSE
CONSTANTS
    MAX_PROCESSES = 4
    MAX_CHILDREN = 2
    MAX_SPOILED = 1
    NULL = NULL
INVARIANTS
    TypeOK
    LiveOwnsStack
    FamilyTree
