CONSTANTS
  Threads = {s1, s2, r}
  Senders = {s1, s2}
  Receivers = {r}
  Conds = {moreSpace, moreData}
  moreSpace = moreSpace
  moreData = moreData
  Mutex = m
  NoCond = none
  BufferSize = 4
  HeaderSize = 2
  Radix = 2
  Messages <- SmallAndLarge
SPECIFICATION MboxSpec
SYMMETRY SenderSymmetry
INVARIANTS AccountingExact SleepingSendersHaveNoRoom
PROPERTY QueueSpec
CHECK_DEADLOCK FALSE
