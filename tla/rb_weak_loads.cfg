\* A CPU that reorders loads (aarch64), which the agent's smp_load_acquire does
\* not prevent.
CONSTANTS
  p1 = p1
  p2 = p2
  a1 = a1
  a2 = a2
  None = None
  Producers <- MCProducers
  NmiProducers <- MCNmi
  Agents <- MCOneAgent
  KWords = 6
  UWords = 6
  Lens = {4, 12}
  WakeFlags = {"force"}
  WeakLoads = TRUE
  MaxRecs = 2
  MaxExits = 0
SPECIFICATION Spec
INVARIANTS CallbackGetsWholeRecords
\* Once MaxRecs reports were made the agent sleeps in poll() for good.
CHECK_DEADLOCK FALSE
