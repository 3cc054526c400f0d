SPECIFICATION FairSpec
CONSTANTS
  c1 = c1
  c2 = c2
  Client <- TwoClients
  MaxLines <- Lines
  MaxFaults = 1
  SndHwm = 1
  PullHwm = 1
  SubHwm = 1
INVARIANT TypeOK
INVARIANT NoGapSinceSubscribed
PROPERTY ConversationSpec
PROPERTY EveryLineHeard
CHECK_DEADLOCK FALSE
