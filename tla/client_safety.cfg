SPECIFICATION UserFairSpec
CONSTANTS
  MaxLines = 4
  MaxFrames = 2
  SndHwm = 2
INVARIANTS
  TypeOK
  SentOnceInOrder
  NothingSentUnchecked
  AtMostOneAfterQuit
  CleanEnd
PROPERTIES
  QuitLeadsToEnd
  FailureLeadsToEnd
