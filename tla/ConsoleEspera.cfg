\* A behaviour may end: the bounds stop the callers, and the text ends.
CONSTANTS
  Depth = 3
  Text <- MCText
  MaxResets = 2
  BUF_LEN = 2
  FifoDepth = 1
  AlmostEmpty = 0
  JTAG_INT_MAX = 4
  DEFAULT_TIMEOUT = 2
  HasClock = TRUE
  JtagChars = 3
  JtagMaxLen = 1
  ALT_AVALON_UART_BUF_LEN = 2
  UartChars = 2
  UartMaxLen = 1
  SpiSlaves = {0, 1}
  SpiMaxLen = 2
  SpiMaxCalls = 2
SPECIFICATION ConsoleSpec
PROPERTIES PolledDelivers ConsoleLive
CHECK_DEADLOCK FALSE
