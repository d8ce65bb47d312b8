SPECIFICATION Spec
CONSTANT Finding = "race"
PROPERTY FinishedIsLeftAlone
