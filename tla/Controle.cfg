CONSTANTS
  TextLen = 3
  DEFAULT_SPEED = 3
  Step = 1
  MinLimit = 1
  MaxLimit = 4
  CounterTop = 5
  CounterMod = 8
  SpeedWrites = {2}
  PanelLen = 2
  Window = 2
  PanelData <- MCPanelData
  Addresses = {0, 1, 2, 3}
SPECIFICATION BlocksSpec
INVARIANTS SpeedLocks DwellBounded ActsOncePerPress PanelReadable
PROPERTY ImplementsMarquee
