CONSTANTS
    Params <- Q256
    Regions <- MCRegions
    SetModes = {"PRESERVE", "REBOOT"}
    InitImages <- MCInitImages
    MaxCalls = 3
    MaxBusFaults = 0
    MaxTimeouts = 0
    MaxPowerCycles = 1
SPECIFICATION Spec
INVARIANT NonVolatileSetPersists
CHECK_DEADLOCK FALSE
