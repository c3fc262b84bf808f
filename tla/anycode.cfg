SPECIFICATION Spec
CONSTANTS
    NULL = NULL
    MAX_PROCESSES = 3
    QUANTUM = 2
    YIELD_EVERY = 2
    ITERATIONS = 4
    UserCode = "any"
    Commands = {"usermode test", "sched start", "sched stop", "sched yield"}
    TYPE_AHEAD = 2
    CreateWhileEnabled = FALSE
INVARIANTS NoNestedTick NoLostProcess OwnKernelStack
PROPERTIES RefinesRoundRobin ExitIsFinal
CHECK_DEADLOCK FALSE
