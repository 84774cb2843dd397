SPECIFICATION Spec
CONSTANTS
  c1 = c1
  c2 = c2
  None = None
  Chans = {c1, c2}
  Free = {c1}
  FRAMES = 1
  MSGS = 1
  SMP = TRUE
INVARIANTS
  TypeOK
  EngineOwner
  OffIsQuiet
VIEW View
