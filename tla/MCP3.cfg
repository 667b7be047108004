CONSTANTS
  Threads = {barrier1, barrier2, barrier3}
  leader = barrier1
  Iterations = 3
  num_th = num_th
  caps_th = caps_th
  scroll_th = scroll_th
SPECIFICATION P3Spec
INVARIANTS CountsAgree CounterIsWaiting OneEats ForksAccounted
PROPERTIES AllOK EverybodyEats
