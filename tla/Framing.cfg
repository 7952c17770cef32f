CONSTANTS
  Base = 3
  Commands = {1, 4}
  Lengths = {0, 2, 3, 4}
  Stale = {0, 5}
  Overrunning <- MCOverrunning
  MaxPackets = 2
SPECIFICATION FairSpec
INVARIANT TypeOK
INVARIANT FramesIntact
INVARIANT ValidMeansWhole
PROPERTY EverythingArrives
CHECK_DEADLOCK FALSE
