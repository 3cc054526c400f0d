CONSTANTS
  MaxFd = 5
  Given <- FromTerminal
SPECIFICATION Spec
INVARIANTS TypeOK RecordsReachLog ServesDetached PrintsSpareTerminalAndLog
CHECK_DEADLOCK FALSE
