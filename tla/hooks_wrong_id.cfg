\* One module's register fails while another one is registered.
CONSTANTS
  A = A
  B = B
  kp = kp
  tm = tm
  lsm = lsm
  c1 = c1
  c2 = c2
  None = None
  Modules <- MCModules
  Kprobes <- MCKprobes
  Timers <- MCTimers
  OtherHooks <- MCOther
  Workflows <- MCApart
  Params <- MCParams
  TriesMutex <- MCTries
  Cpus <- MCCpus
  Unavailable <- MCNoKprobe
  MaxLoads = 3
SPECIFICATION Spec
INVARIANTS WorkflowsInMemory
\* Once every load is used up nothing needs to happen.
CHECK_DEADLOCK FALSE
