SPECIFICATION Spec
CONSTANTS
  u1 = u1
  u2 = u2
  Urls = {u1, u2}
  MaxParallel = 1
  NGens = 2
  MaxInbox = 2
  Again = TRUE
INVARIANTS
  AtMostMaxTransfers
