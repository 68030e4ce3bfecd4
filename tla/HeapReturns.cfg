CONSTANTS
    HEAP_START = 4
    HEAP_SIZE = 31
    HEADER = 3
    SLACK = 8
    WORD = 64
    Sizes = {2, 9}
SPECIFICATION FairSpec
PROPERTIES
    KmallocReturns
