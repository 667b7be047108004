CONSTANTS
  p1 = p1
  p2 = p2
  p3 = p3
  Pcbs = {p1, p2, p3, p4}
  NULL = null
  Boot <- ThreeThreads
  Clock = p2
SPECIFICATION FairSpec
INVARIANTS RingIntact PcbsAccounted
PROPERTY EveryoneRuns
