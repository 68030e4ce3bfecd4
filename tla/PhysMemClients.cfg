CONSTANTS
    NUM_PAGES = 6
    BITS = 2
    LOW = 2
SPECIFICATION ClientSpec
INVARIANTS
    HandedOutOnce
