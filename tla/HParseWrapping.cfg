SPECIFICATION Spec
CONSTANT Hands <- WrappingHands
INVARIANT NoWrapping
CHECK_DEADLOCK FALSE
