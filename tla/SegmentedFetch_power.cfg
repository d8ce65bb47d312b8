SPECIFICATION Spec
CONSTANTS
  Total = 4
  Offset = 0
  MinSplit = 1
  MaxSpan = 3
  MaxChunk = 2
  Conns = {c1, c2}
  c1 = c1
  c2 = c2
  NServers = 1
  Refusing = {}
  Fickle = {}
  Faults = {"drop", "disk", "sync", "save", "kill", "power"}
INVARIANTS
  TypeOK
  CompleteWhenOk
  OneFetcher
  UnwrittenNeverDone
  DroppedIsDurable
PROPERTIES
  MissingShrinks
  IsResumableFile
SYMMETRY Symmetry
CHECK_DEADLOCK FALSE
