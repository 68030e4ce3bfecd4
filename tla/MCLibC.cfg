CONSTANTS
    BITS = 8
    PRINTF_BUFFER = 3
    UINT_BUFFER = 3
    Char <- MCChar
    Formats <- MCFormats
    Texts <- MCTexts
SPECIFICATION Spec
INVARIANTS
    TypeOK
    PrintsWhatIsAsked
    AtoiReadsPrintf
PROPERTIES
    CallsReturn
