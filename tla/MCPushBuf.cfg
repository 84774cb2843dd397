SPECIFICATION Spec
CONSTANTS
  c1 = c1
  c2 = c2
  Chans <- MCChans
  PREVIEW_BUF_CNT = 3
SYMMETRY ChanSymmetry
INVARIANTS
  TypeOK
  NoOverlap
  ReleaseFinds
  MapExact
  AllOrNothing
