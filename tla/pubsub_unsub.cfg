\* One application that stops reading to unsubscribe, as its window fills.
CONSTANTS
  c1 = c1
  c2 = c2
  c3 = c3
  t1 = t1
  t2 = t2
  None = None
  Clients <- MCOne
  Leavers <- MCOne
  Mortals <- MCNobody
  TopicsOf <- MCOneTopics
  Topics <- MCTopics
  Probes <- MCProbes
  MaxConn = 1
  Window = 2
  MaxPubs = 2
SPECIFICATION FairSpec
PROPERTIES UnsubAlwaysReturns
\* An agent that has exited does nothing more.
CHECK_DEADLOCK FALSE
