\* Two applications, one connection, windows that fill: what must happen in the end.
CONSTANTS
  c1 = c1
  c2 = c2
  c3 = c3
  t1 = t1
  t2 = t2
  None = None
  Clients <- MCPair
  Leavers <- MCLeavers
  Mortals <- MCSecond
  TopicsOf <- MCPairTopics
  Topics <- MCTopics
  Probes <- MCProbes
  MaxConn = 1
  Window = 2
  MaxPubs = 1
SPECIFICATION FairSpec
PROPERTIES UnsubReturns SlotFreed AgentStops
\* An agent that has exited does nothing more.
CHECK_DEADLOCK FALSE
