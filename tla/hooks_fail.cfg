\* Two modules that share a kprobe and a timer, with two handlers running;
\* their registers may fail at every step, but under no id other than 0.
CONSTANTS
  A = A
  B = B
  kp = kp
  tm = tm
  lsm = lsm
  c1 = c1
  c2 = c2
  None = None
  Modules <- MCModules
  Kprobes <- MCKprobes
  Timers <- MCTimers
  OtherHooks <- MCOther
  Workflows <- MCShared
  Params <- MCParams
  TriesMutex <- MCTries
  Cpus <- MCTwoCpus
  Unavailable <- MCAnything
  MaxLoads = 3
SPECIFICATION Spec
ACTION_CONSTRAINT FailsUnderOwnId
INVARIANTS NothingLeftBehind RegisteredKeepId
\* Once every load is used up nothing needs to happen.
CHECK_DEADLOCK FALSE
