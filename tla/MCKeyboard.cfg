CONSTANTS
  Threads = {t1, t2, t3}
  Senders = {t1, t2, t3}
  Receivers = {t1, t2, t3}
  Conds = {moreSpace, moreData}
  moreSpace = moreSpace
  moreData = moreData
  Mutex = m
  NoCond = none
  BufferSize = 7
  HeaderSize = 2
  Radix = 2
  Messages <- Characters
SPECIFICATION KSpec
SYMMETRY Symmetry
INVARIANTS OnlyReadersBlock SleepingReceiversHaveNoMessage
CHECK_DEADLOCK FALSE
