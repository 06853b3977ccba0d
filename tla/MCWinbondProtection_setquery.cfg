CONSTANTS
    Params <- Q16
    Regions <- MCRegions
    SetModes = {"PRESERVE", "REBOOT"}
    InitImages <- MCInitImages
    MaxCalls = 3
    MaxBusFaults = 1
    MaxTimeouts = 1
    MaxPowerCycles = 0
SPECIFICATION Spec
INVARIANT SpecSetThenQuery
CHECK_DEADLOCK FALSE
