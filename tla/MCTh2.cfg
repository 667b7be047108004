CONSTANTS
  thread2 = thread2
  thread3 = thread3
  Threads = {thread2, thread3}
  c0mod3 = c0mod3
  cnot0mod3 = cnot0mod3
  Conds = {c0mod3, cnot0mod3}
  Mutex = l
  NoCond = none
  Rounds = 3
  SignalBelow = 5
SPECIFICATION Th2Spec
PROPERTY BothReportOK
CHECK_DEADLOCK FALSE
