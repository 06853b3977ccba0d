CONSTANTS
    Params <- Q16
    MaxXfer = 64
    DeductCmdLen = TRUE
    Requests <- MCRequests
    MaxCalls = 1
    MaxBusFaults = 1
    MaxTimeouts = 1
SPECIFICATION Spec
INVARIANT TypeOK
INVARIANT WriteCommitsExactly
PROPERTY WriteReturns
CHECK_DEADLOCK FALSE
PROPERTY WriteRefinesAbstract
