SPECIFICATION LibrarySpec
CONSTANTS
  p1 = p1
  p2 = p2
  Profiles <- Both
  Slots <- TwoJobs
  MaxVersion = 2
  MaxOps = 2
  Faults <- Kills
INVARIANTS
  TypesOK
  CatalogueIsCurrent
  LibraryIsCurrent
  PanelsServe
  TunnelHolds
PROPERTIES
  EnrichmentKept
CHECK_DEADLOCK FALSE
