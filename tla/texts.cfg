CONSTANTS
  t1 = t1
  t2 = t2
  Thread <- Threads
  FileName <- FileNames
  Severities <- Levels
  Operand <- Operands
  Signature <- Functions
  MaxOperands <- OperandsEach
  MaxStatements <- StatementsEach
  MaxTime = 1
  kMaxMessageSize = 2
  ChainLevels <- ColorLevels
  ChainRecords = 2
  ChainLimits <- InfoLimits
  m_isatty = TRUE
  Letter <- Letters
  MaxName = 3
  MaxText = 3
  MaxAfter = 1
  MaxDigits = 4
  MaxDots = 4
SPECIFICATION TextsSpec
INVARIANTS ReadsBack ThreadOrder OwnColor SameRecords OneWordNameShown NoWordLost AcceptsExactlyAddresses
CHECK_DEADLOCK FALSE
