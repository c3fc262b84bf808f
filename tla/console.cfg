SPECIFICATION Spec
CONSTANTS
    WIDTH = 3
    HEIGHT = 3
    TAB = 2
    BELOW = 2
    BITS = 5
    Words = {0, 9, 10, 16, 17, 22, 31}
    LENGTH = 2
    NONE = NONE
INVARIANTS TypeOK CursorOnScreen BlankAfterCursor NumberReadsBack
