CONSTANTS
  c1 = c1
  c2 = c2
  c3 = c3
  w1 = w1
  Conns = {c1, c2, c3}
  Workers = {w1}
  MaxPackets = 1
  Asking = {c1}
  NoConn = NoConn
SPECIFICATION FairSpec
INVARIANT TypeOK
INVARIANT HandlesAreExclusive
INVARIANT AskersAreServed
 
PROPERTY ImplementsPool
PROPERTY LiveAskersGetTheirs
CHECK_DEADLOCK FALSE
