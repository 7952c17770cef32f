CONSTANTS
  user = user
  sender = sender
  Callers = {user, sender}
  Owner = user
  Interval = 2
SPECIFICATION FairSpec
INVARIANT TypeOK
INVARIANT KeepAlive
INVARIANT SingleShot
PROPERTY ImplementsTimer
PROPERTY SettledStopEnds
PROPERTY FinishEnds
CHECK_DEADLOCK FALSE
