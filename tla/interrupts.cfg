SPECIFICATION Spec
CONSTANTS
    BITS = 3
    HZ = 100
    BOOT_TICKS = 2
    BOOT_SLEEP = 20
    Sleeps = {5, 20}
    Lines = {0, 1, 14}
INVARIANTS TypeOK InterruptsInOrder SleepLength
PROPERTIES SleepEnds BootReachesShell KeyIsServed
