SPECIFICATION Spec
INVARIANT SpecBpZeroUnprotected
