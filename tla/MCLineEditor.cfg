CONSTANTS
    BUFFER_SIZE = 3
    HISTORY_SIZE = 2
    Letters = {30}
    Silent = {29}
    VGA_WIDTH = 4
    VGA_HEIGHT = 2
    Prompts = {1, 2}
    Outputs <- MCOutputs
SPECIFICATION Spec
INVARIANTS
    TypeOK
    ScreenShowsLine
    CursorOnScreen
    BrowsedLineIsRow
    ShiftOnlyWhileHeld
PROPERTIES
    ExtendedKeysNeverType
    LineDisciplineSpec
