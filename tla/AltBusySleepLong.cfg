CONSTANTS
  WordMod = 1024
  Factor = 5
  Requests <- MCAll
SPECIFICATION SleepSpec
INVARIANT Calibrated
CHECK_DEADLOCK FALSE
