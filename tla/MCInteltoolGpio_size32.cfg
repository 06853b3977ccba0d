CONSTANTS
    LpcIds <- MCLpcIds
    PcrPorts <- MCPcrPorts
    PadBaseValues <- MCPadBaseValues
    PortRegs = 5
    RegValues = {0, 1, 2}
    SizeBits = 32
SPECIFICATION Spec
INVARIANT PadReadsInPort
CHECK_DEADLOCK FALSE
