CONSTANTS
    WORD = 3
    MaxScancodes = 3
    Delays = {1, 2}
    HasApic = TRUE
    ReadModes = {TRUE}
SPECIFICATION FairSpec
PROPERTIES
    MsleepReturns
