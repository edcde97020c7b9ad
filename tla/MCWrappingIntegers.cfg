CONSTANT Mod = 8
SPECIFICATION Spec
INVARIANTS UnwrapIsClosest DifferenceIsShortest
CHECK_DEADLOCK FALSE
