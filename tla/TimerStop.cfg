CONSTANTS
  user = user
  Callers = {user}
  Owner = user
  Interval = 1
SPECIFICATION FairSpec
PROPERTY StopReturns
CHECK_DEADLOCK FALSE
