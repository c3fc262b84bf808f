SPECIFICATION Spec
CONSTANTS
    NULL = NULL
    MAX_PROCESSES = 5
    QUANTUM = 2
    YIELD_EVERY = 2
    ITERATIONS = 4
    UserCode = "any"
    Commands = {"usermode test", "sched start"}
    TYPE_AHEAD = 1
    CreateWhileEnabled = TRUE
INVARIANT NoLostProcess
CHECK_DEADLOCK FALSE
