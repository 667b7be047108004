CONSTANTS
  Threads = {t1, t2, t3, t4}
  Conds = {c1, c2}
  Mutex = m
  NoCond = none
SPECIFICATION Spec
SYMMETRY Symmetry
INVARIANTS MutualExclusion SpinlockExclusion TestedStillHolds BlockedIffQueued NoLostWakeup NoDeadlock
PROPERTY MesaSpec
CHECK_DEADLOCK FALSE
