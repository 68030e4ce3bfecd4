CONSTANTS
    WORD = 3
    MaxScancodes = 3
    Delays = {1, 2}
    HasApic = FALSE
    ReadModes = {TRUE, FALSE}
    Programs = {"client", "kernel_main"}
SPECIFICATION BootFairSpec
INVARIANTS
    BootTypeOK
    UnreadIsRequested
PROPERTIES
    ScancodesInOrder
    MsleepReturns
    ScancodesReachLatch
    HaltLoopWakes
