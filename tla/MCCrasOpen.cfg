SPECIFICATION FairSpec
CONSTANTS
  Word = {zero, a1}
  Plain = {zero, a1}
  Zero = zero
  Junk = zero
  Addr = {a1}
  Key = {k0}
  key0 = k0
  Base = {b0}
  base0 = b0
  DEPTH = 7
  FILL_THRESH = 6
  EMPTY_THRESH = 3
  N_ROUNDS = 3
  MaxPages = 5
  Ports = {"free", "core"}
  Cfgs <- EnaCfgs
  Resets = TRUE
INVARIANTS
  CrasTypeOK
  PageAccounting
  SpillHasEntries
  Lockstep
  Confidential
PROPERTIES
  FullClears
  EmptyRefills
  Settles
