SPECIFICATION FairSpec
CONSTANTS
  m1 = m1
  m2 = m2
  Message = {m1, m2}
  Empty = Empty
  MaxFrames = 3
  PullHwm = 2
INVARIANTS
  TypeOK
  MutualExclusion
  FilteredOnce
  RelayedInOrder
  AtMostOneAfterQuit
  CleanEnd
PROPERTIES
  QuitLeadsToEnd
  StopLeadsToEnd
  RelaySpec
