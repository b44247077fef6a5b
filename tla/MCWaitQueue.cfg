SPECIFICATION FairSpec
CONSTANTS
  t1 = t1
  t2 = t2
  w1 = w1
  w2 = w2
  None = None
  Threads = {t1, t2}
  Wakers = {w1, w2}
  Usages = {"all", "one", "handoff"}
  MaxEvents = 2
INVARIANTS
  NoDanglingEntry
  HandoffUsesLiveMemory
  NoLostWakeup
  
PROPERTY SleeperReleased
CHECK_DEADLOCK FALSE
