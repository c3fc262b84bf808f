SPECIFICATION FairSpec
CONSTANTS
    NULL = NULL
    MAX_PROCESSES = 3
    QUANTUM = 2
    YIELD_EVERY = 2
    ITERATIONS = 4
    UserCode = "test"
    Commands = {"usermode test", "sched start"}
    TYPE_AHEAD = 1
    CreateWhileEnabled = FALSE
PROPERTY EveryReadyProcessRuns
CHECK_DEADLOCK FALSE
