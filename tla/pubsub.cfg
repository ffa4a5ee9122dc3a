\* Three applications of which one leaves and two may die, for two connections;
\* the third wants a topic that the agent does not publish.
CONSTANTS
  c1 = c1
  c2 = c2
  c3 = c3
  t1 = t1
  t2 = t2
  None = None
  Clients <- MCClients
  Leavers <- MCLeavers
  Mortals <- MCMortals
  TopicsOf <- MCTopicsOf
  Topics <- MCTopics
  Probes <- MCProbes
  MaxConn = 2
  Window = 2
  MaxPubs = 1
SPECIFICATION Spec
INVARIANTS TypeOK ConnectionsCounted WritersAliveUntilKilled
PROPERTIES PublishedToAll NothingAfterUnsubscribe ImplementsService
\* An agent that has exited does nothing more.
CHECK_DEADLOCK FALSE
