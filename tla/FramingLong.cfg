CONSTANTS
  Base = 128
  Commands = {48}
  Lengths = {200}
  Stale = {0}
  Overrunning = {}
  MaxPackets = 1
SPECIFICATION Spec
INVARIANT EntireMessages
CHECK_DEADLOCK FALSE
