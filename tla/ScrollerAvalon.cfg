CONSTANTS
  TextLen = 4
  Window = 3
  DEFAULT_SPEED = 2
  Step = 1
  MinLimit = 1
  MaxLimit = 2
  CounterTop = 3
  CounterMod = 4
  WordMod = 512
  BusWrites <- MCBusWrites
SPECIFICATION Spec
PROPERTIES ImplementsControl TurnsSmoothly
