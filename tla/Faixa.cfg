CONSTANTS
  TextLen = 3
  DEFAULT_SPEED = 4
  Step = 2
  MinLimit = 2
  MaxLimit = 6
  CounterTop = 7
  CounterMod = 10
  SpeedWrites = {1, 2, 5, 7}
SPECIFICATION Spec
INVARIANTS TypeOK LimitInWindow CounterInRange
PROPERTY ScrollKeepsMoving
