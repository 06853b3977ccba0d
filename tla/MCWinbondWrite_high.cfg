CONSTANTS
    Params <- Q256
    MaxXfer = 64
    DeductCmdLen = TRUE
    Requests <- MCHighRequests
    MaxCalls = 1
    MaxBusFaults = 0
    MaxTimeouts = 0
SPECIFICATION Spec
INVARIANT WriteCommitsExactly
CHECK_DEADLOCK FALSE
