CONSTANTS
  c1 = c1
  c2 = c2
  w1 = w1
  Conns = {c1, c2}
  Workers = {w1}
  MaxPackets = 1
  Asking = {c1, c2}
  NoConn = NoConn
SPECIFICATION Spec
INVARIANT AnswersAsker
CHECK_DEADLOCK FALSE
