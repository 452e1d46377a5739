SPECIFICATION Spec
CONSTANT Hands <- HeadlessHands
INVARIANT FindsAllParses
CHECK_DEADLOCK FALSE
