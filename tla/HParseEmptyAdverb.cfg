SPECIFICATION Spec
CONSTANT Hands <- EmptyAdverbHands
INVARIANT NoAbort
CHECK_DEADLOCK FALSE
