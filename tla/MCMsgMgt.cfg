SPECIFICATION FairSpec
CONSTANTS
  c1 = c1
  c2 = c2
  c3 = c3
  Calls <- MCCalls
INVARIANTS
  TypeOK
  FreedAfterUse
PROPERTIES
  IsCallOnce
  QueuedIsAnswered
CHECK_DEADLOCK FALSE
