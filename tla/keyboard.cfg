SPECIFICATION Spec
CONSTANTS
    BUFFER = 3
    MAX_LEN = 4
    Keys = {"letter", "enter", "backspace", "function", "shift down", "shift up", "ctrl down", "ctrl up", "alt down", "alt up", "caps"}
    MAX_SLIPS = 2
INVARIANTS TypeOK NoPhantomCharacter RingHoldsAccepted
PROPERTY InputIsRead
