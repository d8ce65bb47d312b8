SPECIFICATION FairSpec
CONSTANTS
  Total = 2
  Offset = 0
  MinSplit = 1
  MaxSpan = 2
  MaxChunk = 1
  Conns = {c1, c2}
  c1 = c1
  c2 = c2
  NServers = 2
  Refusing = {1}
  Fickle = {1, 2}
  Faults = {"drop"}
INVARIANTS
  RestartsAreSafe
PROPERTIES
  RunEnds
CHECK_DEADLOCK FALSE
