CONSTANTS
  NInodes = 4
  NBlocks = 4
  BlockSize = 7
  NDirect = 2
  Straddling = {2}
  Spilled = {3}
  AtLast = {1}
  DirNames = {x}
  FileNames = {y}
  Dot = dot
  DotDot = dotdot
  Data = data
  Unset = unset
  Sizes = {5}
SPECIFICATION Spec
INVARIANTS MarksCoverUse ReturnedCallsAreSaved EntriesNameInodes NothingOverwritten
CHECK_DEADLOCK FALSE
CONSTRAINT NoTrouble
