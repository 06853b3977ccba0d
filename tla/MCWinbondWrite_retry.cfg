CONSTANTS
    Params <- Q16
    MaxXfer = 64
    DeductCmdLen = TRUE
    Requests <- MCRequests
    MaxCalls = 2
    MaxBusFaults = 0
    MaxTimeouts = 1
SPECIFICATION Spec
INVARIANT WriteCommitsExactly
CHECK_DEADLOCK FALSE
