SPECIFICATION Spec
CONSTANT Finding = "no live"
INVARIANT SumsAreTrue
CHECK_DEADLOCK FALSE
