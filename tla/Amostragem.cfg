CONSTANTS
  TextLen = 2
  DEFAULT_SPEED = 2
  Step = 1
  MinLimit = 1
  MaxLimit = 2
  CounterTop = 3
  CounterMod = 4
  SpeedWrites = {1}
SPECIFICATION SpecM
INVARIANT ActsOncePerPress
