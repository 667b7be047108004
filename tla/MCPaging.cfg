CONSTANTS
  NProcs = 3
  Pages = {v1, v2}
  Values = {0, 1}
  Zero = 0
  Loader = loader
  None = none
  Frames = 4
  KernelFrames = 1
  TableFrames = 1
  VPages <- MCVPages
  Flaky <- MCFlaky
  v1 = v1
  v2 = v2
SPECIFICATION Spec
INVARIANTS Coherent StoresHitTheirPage MapAgrees StopsOnlyWhenAllPinned
PROPERTY FaultsEnd
CHECK_DEADLOCK FALSE
