CONSTANTS
    MAX_FILES = 2
    NAME_SIZE = 3
    DATA_SIZE = 4
    Char <- MCChar
    Separator <- MCSeparator
    Dot = "."
    NUL = NUL
    Paths <- MCPaths
    Texts <- MCTexts
    NULLPTR = NULLPTR
SPECIFICATION Spec
INVARIANTS
    TypeOK
    SlotsCompact
    NamesReachFiles
    SizeIsTextLength
PROPERTIES
    FailureKeepsFiles
    FileStoreSpec
