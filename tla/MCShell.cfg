CONSTANTS
    MAX_FILES = 2
    NAME_SIZE = 3
    DATA_SIZE = 3
    Char <- MCChar
    Separator <- MCSeparator
    Dot = "."
    Slash = "/"
    Space = " "
    NUL = NUL
    NULLPTR = NULLPTR
    MAX_APPS = 3
    CONTAINER_SIZE = 9
    PREFIX = 2
    SafePermissions = {"console", "file_read", "file_write"}
    ZhNames <- MCZhNames
    EnNames <- MCEnNames
    Builtin <- MCBuiltin
    Lines <- MCLines
SPECIFICATION Spec
INVARIANTS
    TypeOK
    IdentifiersUnique
    ContainersDistinct
PROPERTIES
    RecStoresText
    AppendAddsText
    RecNeverEmpties
    OneFileAtATime
