CONSTANTS
  w1 = w1
  w2 = w2
  a1 = a1
  a2 = a2
  r1 = r1
  r2 = r2
  Workers = {w1, w2}
  Adders = {a1, a2}
  Requests = {r1, r2}
  NoRequest = NoRequest
  NoThread = NoThread
SPECIFICATION FairSpec
INVARIANT TypeOK
INVARIANT ExactlyOnePlace
INVARIANT IdleOnce
INVARIANT ReadyMeansRequest
PROPERTY NeverOverwritten
PROPERTY ImplementsPool
PROPERTY HandedIsExecuted
PROPERTY QueueDrainsBehindWork
PROPERTY StopReturns
CHECK_DEADLOCK FALSE
