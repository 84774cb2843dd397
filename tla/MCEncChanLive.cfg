SPECIFICATION FairSpec
CONSTANTS
  c1 = c1
  c2 = c2
  None = None
  Chans = {c1}
  Free = {c1}
  FRAMES = 2
  MSGS = 1
  SMP = FALSE
INVARIANTS
  HeadComes
  ReaderKeepsFrame
PROPERTIES
  IsStream
  CallReturns
  EnabledEncodes
