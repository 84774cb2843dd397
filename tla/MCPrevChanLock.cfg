SPECIFICATION Spec
CONSTANTS
  CHAN_CNT = 2
  CPUS = {2}
  SmpChans = {1, 2}
INVARIANTS
  VpExclusive
CHECK_DEADLOCK FALSE
