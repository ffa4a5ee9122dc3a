\* Two reporting contexts, one of them an NMI, and two agents of which one may
\* crash.  Six words hold two records, not three: the ring fills and wraps.
CONSTANTS
  p1 = p1
  p2 = p2
  a1 = a1
  a2 = a2
  None = None
  Producers <- MCProducers
  NmiProducers <- MCNmi
  Agents <- MCAgents
  KWords = 6
  UWords = 6
  Lens = {4, 12}
  WakeFlags = {"force"}
  WeakLoads = FALSE
  MaxRecs = 4
  MaxExits = 1
SPECIFICATION Spec
SYMMETRY MCSymmetry
INVARIANTS TypeOK NoOverrun LiveRecordsIntact CallbackGetsWholeRecords
  OneConsumer
PROPERTIES ImplementsChannel
\* Once MaxRecs reports were made the agent sleeps in poll() for good.
CHECK_DEADLOCK FALSE
