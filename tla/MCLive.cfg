SPECIFICATION LiveSpec
CONSTANTS
  c1 = c1
  c2 = c2
  u1 = u1
  u2 = u2
  Conns <- TwoConns
  MaxTokens = 3
  Limit = 1
  RenewWait = 15
  MaxWait = 300
  MaxContested = 2
  Faults = {"rival", "connect", "status", "lost", "cancel", "refuse", "direct", "error"}
PROPERTIES
  TokensSpared
  SendEnds
  QueuedStarts
  FocusSettles
  SlotComesFree
  NeverHangs
CHECK_DEADLOCK FALSE
