SPECIFICATION Spec
CONSTANTS
  N = 3
  Ops = {"other", "jump", "mul"}
  Addr <- Words
  Succ <- Ring
  ResetAddr = 0
  mtvec = 1
  None = None
  Programs <- BootPrograms
  FullStalls = FALSE
  Switches = {}
  Freezes = "quiet"
PROPERTIES
  InOrder
