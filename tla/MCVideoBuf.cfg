SPECIFICATION FairSpec
CONSTANTS
    f1 = f1
    f2 = f2
    p1 = p1
    p2 = p2
    p3 = p3
    None = None
    Frames <- TwoFrames
    Packets <- ThreePackets
    Rooms <- SmallAndLarge
    MaxLen = 2
    MaxCalls = 2
INVARIANTS
    Conserved
    DeliveredWhole
PROPERTY GoesOn
