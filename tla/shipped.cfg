SPECIFICATION FairSpec
CONSTANTS
    NULL = NULL
    MAX_PROCESSES = 4
    QUANTUM = 2
    YIELD_EVERY = 2
    ITERATIONS = 4
    UserCode = "test"
    Commands = {"ps create", "usermode test", "sched start", "sched stop", "sched yield", "exit"}
    TYPE_AHEAD = 2
    CreateWhileEnabled = FALSE
INVARIANTS TypeOK NoNestedTick NoLostProcess EoiNotLost OwnKernelStack
PROPERTIES PreemptedOnceAcknowledged RefinesRoundRobin
CHECK_DEADLOCK FALSE
