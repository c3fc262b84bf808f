SPECIFICATION Spec
CONSTANTS
    NULL = NULL
    MAX_PROCESSES = 3
    QUANTUM = 2
    YIELD_EVERY = 2
    ITERATIONS = 4
    UserCode = "test"
    Commands = {"ps create", "sched start"}
    TYPE_AHEAD = 1
    CreateWhileEnabled = FALSE
INVARIANT NoPanic
CHECK_DEADLOCK FALSE
