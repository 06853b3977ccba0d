CONSTANTS
    Skus <- MCSkus
    DtPatterns <- MCDtPatternsFunc0
SPECIFICATION Spec
INVARIANT
    PortsFollowHardware
CHECK_DEADLOCK FALSE
