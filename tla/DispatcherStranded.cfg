CONSTANTS
  w1 = w1
  a1 = a1
  a2 = a2
  r1 = r1
  r2 = r2
  Workers = {w1}
  Adders = {a1, a2}
  Requests = {r1, r2}
  NoRequest = NoRequest
  NoThread = NoThread
SPECIFICATION Spec
INVARIANT NoStrandedRequest
CHECK_DEADLOCK FALSE
