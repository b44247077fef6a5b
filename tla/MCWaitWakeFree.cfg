SPECIFICATION Spec
CONSTANTS
  t1 = t1
  t2 = t2
  w1 = w1
  None = None
  Threads = {t1, t2}
  Wakers = {w1}
  Usages = {"one"}
  MaxEvents = 1
SYMMETRY Symmetry
INVARIANT WokenThreadAlive
CHECK_DEADLOCK FALSE
