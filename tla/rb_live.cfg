\* Every accepted report reaches the callback of an agent that keeps running,
\* whichever of its two wake-up policies ringbuf_commit follows.
CONSTANTS
  p1 = p1
  p2 = p2
  a1 = a1
  a2 = a2
  None = None
  Producers <- MCProducers
  NmiProducers <- MCNmi
  Agents <- MCOneAgent
  KWords = 6
  UWords = 6
  Lens = {4}
  WakeFlags = {"force", "adaptive"}
  WeakLoads = FALSE
  MaxRecs = 4
  MaxExits = 1
SPECIFICATION FairSpec
PROPERTIES AcceptedIsHanded
\* Once MaxRecs reports were made the agent sleeps in poll() for good.
CHECK_DEADLOCK FALSE
