CONSTANT IdCodes <- MCIdCodes
SPECIFICATION MCSpec
INVARIANT TypeOK
INVARIANT ProbeIdentifiesPart
INVARIANT ProbedGeometry
INVARIANT EncodeDecodeRoundTrip
INVARIANT EncoderComplete
INVARIANT DecodedReEncodes
CHECK_DEADLOCK FALSE
