SPECIFICATION Spec
CONSTANT Finding = "cdn"
INVARIANT PrefixesComplete
CHECK_DEADLOCK FALSE
