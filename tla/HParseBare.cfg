SPECIFICATION Spec
CONSTANT Hands <- BareHands
INVARIANT Recognises
CHECK_DEADLOCK FALSE
