CONSTANTS
    NUM_PAGES = 12
    BITS = 3
    LOW = 4
SPECIFICATION Spec
INVARIANTS
    TypeOK
    BitmapMatchesHeld
    FailsOnlyWhenFull
PROPERTIES
    AllocatorSpec
