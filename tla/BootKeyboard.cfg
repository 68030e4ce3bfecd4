CONSTANTS
    WORD = 3
    MaxScancodes = 2
    Delays = {}
    HasApic = FALSE
    ReadModes = {}
    Programs = {"kernel_main"}
SPECIFICATION BootFairSpec
PROPERTIES
    EveryKeyReachesEditor
