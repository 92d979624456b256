\* A behaviour may end: the bounds stop the callers, and the text ends.
CONSTANTS
  Depth = 3
  Text <- MCText
  MaxResets = 2
  BUF_LEN = 3
  FifoDepth = 1
  AlmostEmpty = 0
  JTAG_INT_MAX = 4
  DEFAULT_TIMEOUT = 2
  HasClock = TRUE
  JtagChars = 4
  JtagMaxLen = 2
  ALT_AVALON_UART_BUF_LEN = 3
  UartChars = 4
  UartMaxLen = 2
  SpiSlaves = {0, 1}
  SpiMaxLen = 2
  SpiMaxCalls = 2
SPECIFICATION ConsoleSpec
INVARIANTS ConsoleTypeOK NoOverflow JtagSafe UartSafe SpiSafe
PROPERTIES ImplementsConsole CharactersInOrder
CHECK_DEADLOCK FALSE
