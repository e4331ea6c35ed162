SPECIFICATION Spec
CONSTANTS
  N = 3
  Ops = {"other", "jump", "call"}
  Addr <- Words
  Succ <- Ring
  ResetAddr = 0
  mtvec = 1
  None = None
  Programs <- CarefulPrograms
  FullStalls = TRUE
  Switches = {}
  Freezes = "quiet"
PROPERTIES
  InOrder
