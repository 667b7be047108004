CONSTANTS
  Nodes = {1, 3, 5}
  First = 3
  Leavers = {1}
  Keys = {6}
  Client = client
  Nobody = nobody
SPECIFICATION Spec
INVARIANTS NobodyLost OneOrderedRing GetFindsPut
PROPERTIES RingConverges LookupsEnd
CHECK_DEADLOCK FALSE
