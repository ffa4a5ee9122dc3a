\* The module loaded with a ring larger than the 4 MB the agent maps: twice as
\* large here.
CONSTANTS
  p1 = p1
  p2 = p2
  a1 = a1
  a2 = a2
  None = None
  Producers <- MCProducers
  NmiProducers <- MCNmi
  Agents <- MCOneAgent
  KWords = 8
  UWords = 4
  Lens = {4, 12}
  WakeFlags = {"force"}
  WeakLoads = FALSE
  MaxRecs = 4
  MaxExits = 0
SPECIFICATION Spec
INVARIANTS CallbackGetsWholeRecords
\* Once MaxRecs reports were made the agent sleeps in poll() for good.
CHECK_DEADLOCK FALSE
