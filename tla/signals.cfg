SPECIFICATION CalmSpec
CONSTANTS
  Code <- BothPrograms
  Holding <- Scopes
  MaxSignals = 3
INVARIANT TypeOK
INVARIANT OneHolder
INVARIANT StuckOnlyByHandler
PROPERTY SignalRaisesFlag
PROPERTY FlagEndsLoops
CHECK_DEADLOCK FALSE
