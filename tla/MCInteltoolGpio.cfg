CONSTANTS
    LpcIds <- MCLpcIds
    PcrPorts <- MCPcrPorts
    PadBaseValues <- MCPadBaseValues
    PortRegs = 5
    RegValues = {0, 1, 2}
    SizeBits = 64
SPECIFICATION Spec
INVARIANT TypeOK
INVARIANT NoAssertFailure
INVARIANT P2sbRestored
INVARIANT GpioChipsetKnownToPcr
INVARIANT PadReadsInPort
INVARIANT PadNamesInArray
INVARIANT DumpReadsBack
CHECK_DEADLOCK FALSE
