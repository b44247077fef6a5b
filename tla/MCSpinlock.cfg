CONSTANTS
  CPUs = {c1, c2}
  NLocks = 2
SPECIFICATION FairSpec
INVARIANTS MutualExclusion NoSelfDeadlock IrqStateRestored
PROPERTY LockProgress
