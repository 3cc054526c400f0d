CONSTANTS
  Process = {p1}
  Thread = {t1, t2}
  Limits = {0, 4}
  m_maxFileSize = 1
  MaxRecords = 3
  MaxKills = 2
  MaxFaults = 1
SPECIFICATION Spec
INVARIANTS TypeOK SizeBounded KeepsEnough
PROPERTY KeepsNewest
CHECK_DEADLOCK FALSE
