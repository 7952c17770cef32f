CONSTANTS
  w1 = w1
  MaxConnects = 2
  Workers = {w1}
  Publishing = {1}
SPECIFICATION Spec
INVARIANT ConnackReachesConnect
CHECK_DEADLOCK FALSE
