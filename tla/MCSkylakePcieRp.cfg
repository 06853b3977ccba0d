CONSTANTS
    Skus <- MCSkus
    DtPatterns <- MCDtPatterns
SPECIFICATION Spec
INVARIANTS
    TypeOK
    NodesStayInDevice
    SwappedPortsFollowHardware
\* The fix-up runs once per boot; soc_init_pre_device does not return to it.
CHECK_DEADLOCK FALSE
