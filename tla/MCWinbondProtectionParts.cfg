SPECIFICATION Spec
INVARIANT TypeOK
INVARIANT QueryReflectsLastSet
PROPERTY Idempotent
CHECK_DEADLOCK FALSE
