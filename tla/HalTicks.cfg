CONSTANTS
    WORD = 3
    MaxScancodes = 3
    Delays = {1, 2}
    HasApic = FALSE
    ReadModes = {TRUE}
SPECIFICATION Spec
PROPERTIES
    MsleepLasts
