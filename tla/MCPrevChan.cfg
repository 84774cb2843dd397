SPECIFICATION FairSpec
CONSTANTS
  CHAN_CNT = 2
  CPUS = {1, 2}
  SmpChans = {1}
INVARIANTS
  TypeOK
  EnabledHasBufs
  EnableExact
  StoppedIsOff
PROPERTY CallReturns
CHECK_DEADLOCK FALSE
