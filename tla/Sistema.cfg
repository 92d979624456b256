CONSTANTS
  TextLen = 3
  Window = 2
  DEFAULT_SPEED = 2
  Step = 1
  MinLimit = 1
  MaxLimit = 3
  CounterTop = 4
  CounterMod = 8
  WordMod = 512
  velocidade_inicial = 1
  frase <- MCFrase
  Depth = 2
  InicioLen = 1
  FimLen = 3
  UserButtons = {0}
SPECIFICATION Spec
INVARIANTS TypeOK TextLoaded
PROPERTIES ImplementsScroller SpeedConfigured PauseLeftAlone TextEventuallyStays TextNeverStops
