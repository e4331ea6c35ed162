SPECIFICATION Spec
CONSTANTS
  a1 = a1  a2 = a2  a3 = a3  a4 = a4  a5 = a5  a6 = a6  a7 = a7  a8 = a8  a9 = a9  a10 = a10
  b1 = b1  b2 = b2
  Word = {zero, junk, evil, a1, a2, a3, a4, a5, a6, a7, a8, a9, a10, b1, b2}
  Plain = {zero, junk, evil, a1, a2, a3, a4, a5, a6, a7, a8, a9, a10, b1, b2}
  Zero = zero
  Junk = junk
  Sites <- DepthSites
  Gadgets = {}
  Key = {k0}
  key0 = k0
  Base = {b0}
  base0 = b0
  DEPTH = 7
  FILL_THRESH = 5
  EMPTY_THRESH = 1
  N_ROUNDS = 1
  MaxPages = 5
  Ports = {"free"}
  Cfgs <- NoCfgs
  Careful = TRUE
  CallBurst = 3
  RetBurst = 2
  MaxDepth = 10
INVARIANTS
  NoFalseAlarm
