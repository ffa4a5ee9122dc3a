\* What the reordering of loads leaves intact: the wake-ups, forced or adaptive,
\* also when the callback's error ends the agent and another takes its place.
CONSTANTS
  p1 = p1
  p2 = p2
  a1 = a1
  a2 = a2
  None = None
  Producers <- MCProducers
  NmiProducers <- MCNmi
  Agents <- MCAgents
  KWords = 6
  UWords = 6
  Lens = {4, 12}
  WakeFlags = {"force", "adaptive"}
  WeakLoads = TRUE
  MaxRecs = 2
  MaxExits = 1
SPECIFICATION Spec
SYMMETRY MCSymmetry
INVARIANTS NoLostWakeup
\* Once MaxRecs reports were made the agent sleeps in poll() for good.
CHECK_DEADLOCK FALSE
