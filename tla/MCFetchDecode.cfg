SPECIFICATION Spec
CONSTANTS
  N = 4
  Ops = {"other", "jump", "call", "ret", "ecall", "mret", "wmepc", "mul"}
  Addr <- Words
  Succ <- Ring
  ResetAddr = 0
  mtvec = 1
  None = None
  Programs <- CarefulPrograms
  FullStalls = FALSE
  Switches = {"debug"}
  Freezes = "quiet"
INVARIANTS
  TypeOK
  SeenOnce
PROPERTIES
  InOrder
