\* Two modules that share a kprobe and a timer come and go while handlers and
\* work items run; nothing fails.
CONSTANTS
  A = A
  B = B
  kp = kp
  tm = tm
  lsm = lsm
  c1 = c1
  c2 = c2
  None = None
  Modules <- MCModules
  Kprobes <- MCKprobes
  Timers <- MCTimers
  OtherHooks <- MCOther
  Workflows <- MCShared
  Params <- MCParams
  TriesMutex <- MCTries
  Cpus <- MCCpus
  Unavailable = {}
  MaxLoads = 3
SPECIFICATION FairSpec
INVARIANTS TypeOK WorkflowsInMemory TimersInMemory HandlersHaveProbe
  HooksMatchLists
PROPERTIES NoWorkflowMissed ModulesReturn
\* Once every load is used up nothing needs to happen.
CHECK_DEADLOCK FALSE
