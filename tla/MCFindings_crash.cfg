SPECIFICATION Spec
CONSTANT Finding = "crash"
INVARIANT FinishedIsWhole
