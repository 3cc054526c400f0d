CONSTANTS
  MaxFd = 5
  Given <- FromTerminal
SPECIFICATION Spec
INVARIANTS DaemonPrintsNothing
CHECK_DEADLOCK FALSE
