SPECIFICATION Spec
CONSTANTS
  u1 = u1
  u2 = u2
  u3 = u3
  Urls = {u1, u2, u3}
  MaxParallel = 1
  NGens = 2
  MaxInbox = 2
  Again = TRUE
INVARIANTS
  QueueInStep
  SlotsUsed
SYMMETRY Symmetry
