SPECIFICATION FairSpec
CONSTANTS
  c1 = c1 c2 = c2 c3 = c3 w1 = w1 w2 = w2
  Calls <- MCCalls
  Workers <- MCWorkers
  MaxThreads = 2
INVARIANTS
  TypeOK
  CountNeverTooLow
  FreedOnlyAfterExit
PROPERTIES
  IsCallOnce
  CallsReturn
CHECK_DEADLOCK FALSE
