SPECIFICATION FairSpec
CONSTANTS
  f1 = f1 f2 = f2 p1 = p1 p2 = p2 c1 = c1 c2 = c2
  Frames <- MCFrames
  Packets <- MCPackets
  Consumers <- MCConsumers
  MaxPerFrame = 2
INVARIANT PoolExact
PROPERTY FramesCirculate
CHECK_DEADLOCK FALSE
