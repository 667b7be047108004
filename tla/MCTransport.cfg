CONSTANTS
  a = a
  b = b
  Ends = {a, b}
  NumPackets = 4
  Settings <- MCSettings
  MaxFlight = 4
SPECIFICATION FairSpec
INVARIANTS InOrder StopAndWait EndsWell
PROPERTY AllDelivered
CHECK_DEADLOCK FALSE
