\* The driver's core with two writers, a reader and two cleaners of its log;
\* a preset workflow over two switches; the two loaders with their programs;
\* the resource monitor through a restart; the handlers of two case modules.
CONSTANTS
  w1 = w1
  w2 = w2
  r1 = r1
  k1 = k1
  k2 = k2
  c1 = c1
  LogWriters = {w1, w2}
  LogReaders = {r1}
  LogCleaners = {k1, k2}
  FifoSize = 2
  CoreFailures = {"dir", "fifo", "alarm", "ring", "chrdev", "class", "device"}
  MaxWrites = 3
  MaxStarts = 1
  Switches <- MCSwitches
  PresetFails = TRUE
  Kinds = {"process", "file"}
  RingSlots = 1
  ArgvSize = 4
  MaxArgs = 2
  ArgLists <- MCArgLists
  ProbeFailures = {"opening", "loading", "attaching", "ringing"}
  MaxEvents = 2
  Worlds <- MCWorlds
  MaxParts = 2
  CounterMod = 16
  MaxSamples = 3
  MaxRuns = 2
  Callers = {c1}
  ModuleLists <- MCModuleLists
  NameLength <- MCNameLength
  TextRoom = 10
  CaseFails = TRUE
SPECIFICATION Spec
INVARIANTS UnitsTypeOK CoreMemory LoneWriteKept ReportsExact RunsCleanUp
  AttachedMatchMask PublishedWanted TextsOwn ReaderFailuresExplained SamplesRight
  CasesLeaveNothing BaselineReported
PROPERTIES LogReopens BaselineUnloads
\* The bounded units stop: a driver that cannot start again, a log that has
\* taken its last record, a program that has ended.
CHECK_DEADLOCK FALSE
