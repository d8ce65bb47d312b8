SPECIFICATION Cases
CONSTANTS
  w1 = w1
  w2 = w2
  f1 = f1
  f2 = f2
  t1 = t1
  t2 = t2
  Start = 1
  Max = 2
  Streams <- OneStream
  Fetchers <- TwoFetchers
  Titles <- TwoTitles
  TitleOf <- OfFirst
  Patient <- FirstWaits
  MaxRate = 1
INVARIANTS
  FilesSound
  CountsSound
  NoLostWakeup
  LimitRespected
PROPERTIES
  TrialJudgedAtItsCount
SYMMETRY Symmetry
