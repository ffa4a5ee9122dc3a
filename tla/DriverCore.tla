---------------------------- MODULE DriverCore ----------------------------
(***************************************************************************)
(* The kernel driver's own life (secDetector_main.c) and the proc log it   *)
(* owns (secDetector_proc.c): a kfifo of records that case modules write    *)
(* from any context, that readers of /proc/secDetector/alarm empty one      *)
(* record at a time, and that writing to the same file clears.  The fifo's  *)
(* spinlock covers single operations; every decision is made outside it.    *)
(* A record is the number of the write that allocated it.                   *)
(***************************************************************************)
EXTENDS Naturals, Sequences, FiniteSets

CONSTANTS
  LogWriters,   \* contexts that call write_log
  LogReaders,   \* processes that read the proc file
  LogCleaners,  \* processes that write to the proc file
  FifoSize,     \* log_size
  CoreFailures, \* steps of starting that may fail
  MaxWrites,    \* bound: records allocated
  MaxStarts     \* bound: times the driver is loaded

LogTasks == LogWriters \cup LogReaders \cup LogCleaners
StartSteps == {"dir", "fifo", "alarm", "ring", "chrdev", "class", "device"}
NoRec == 0

\* secDetector_init_log refuses a size of one or less.
ASSUME CoreAssumption ==
  /\ FifoSize \in Nat /\ FifoSize > 1
  /\ MaxWrites \in Nat /\ MaxStarts \in Nat
  /\ CoreFailures \subseteq StartSteps
  /\ LogWriters \cap LogReaders = {} /\ LogCleaners \cap (LogWriters \cup LogReaders) = {}

VARIABLES
  dpc,      \* the driver: the step init or exit is at, "out", "up" or "oops"
  have,     \* what init has set up and nothing has taken down
  starts,
  fifo, inflag,
  mem,      \* records allocated and not yet freed
  written,  \* records allocated so far
  tpc, rec, \* per task: its step, and the record it alone holds
  raced,    \* history: another task changed the fifo during this write
  lost      \* writers whose last record was refused for want of room

logVars == <<fifo, inflag, mem, written, tpc, rec, raced, lost>>
coreVars == <<dpc, have, starts, logVars>>

CoreInit ==
  /\ dpc = "out" /\ have = {} /\ starts = 0
  /\ fifo = <<>> /\ inflag = FALSE
  /\ mem = {} /\ written = 0
  /\ tpc = [t \in LogTasks |-> "idle"]
  /\ rec = [t \in LogTasks |-> NoRec]
  /\ raced = {} /\ lost = {}

----------------------------------------------------------------------------
(* Starting and stopping.                                                   *)

\* The steps of init in order, each with the state it leads to.
StartOrder == <<"dir", "fifo", "alarm", "ring", "chrdev", "class", "device">>
StepAfter(s) ==
  LET i == CHOOSE j \in DOMAIN StartOrder : StartOrder[j] = s
  IN IF i = Len(StartOrder) THEN "up" ELSE StartOrder[i + 1]

Load ==
  /\ dpc = "out" /\ starts < MaxStarts
  /\ dpc' = "dir" /\ starts' = starts + 1
  /\ UNCHANGED <<have, logVars>>

\* Mutant: the device's parts are left behind.
UndoNoDevice(s) == IF s = "alarm" THEN {"fifo"} ELSE {}

\* What a failure at s takes down at once, and what of it is left to
\* secDetector_destroy_log.  A kfifo or a proc entry that fails is undone by
\* create_log itself, the device's parts by secDetector_ringbuf_dev_init.
Undo(s) ==
  CASE s \in {"dir", "fifo"} -> {}
    [] s = "alarm" -> {"fifo"}
    [] s \in {"ring", "chrdev"} -> {"ring"}
    [] s = "class" -> {"ring", "chrdev"}
    [] s = "device" -> {"ring", "chrdev", "class"}

StartOk(s) ==
  /\ dpc = s /\ s \in StartSteps
  /\ have' = have \cup {s}
  /\ dpc' = StepAfter(s)
  /\ inflag' = (inflag \/ s = "fifo")
  /\ UNCHANGED <<starts, fifo, mem, written, tpc, rec, raced, lost>>

\* ringbuf_alloc reports a failed allocation with ERR_PTR and
\* secDetector_ringbuf_dev_init tests for NULL: init goes on without a ring.
RingFails ==
  /\ dpc = "ring" /\ "ring" \in CoreFailures
  /\ dpc' = StepAfter("ring")
  /\ UNCHANGED <<have, starts, logVars>>

StartFails(s) ==
  /\ dpc = s /\ s \in CoreFailures \ {"ring"}
  \* The error path frees g_rb, which is not NULL even if it is no ring.
  /\ dpc' = IF s \in {"chrdev", "class", "device"}
            THEN IF "ring" \in have THEN "destroy" ELSE "oops"
            ELSE IF s = "dir" THEN "out" ELSE "rmdir"
  /\ have' = have \ Undo(s)
  /\ inflag' = (inflag /\ s # "alarm")
  /\ UNCHANGED <<starts, fifo, mem, written, tpc, rec, raced, lost>>

\* rmmod: no case module uses the core's symbols any more.
Unload ==
  /\ dpc = "up"
  /\ \A t \in LogWriters : tpc[t] = "idle"
  /\ dpc' = IF "ring" \in have THEN "destroy" ELSE "oops"
  /\ have' = have \ {"ring", "chrdev", "class", "device"}
  /\ UNCHANGED <<starts, logVars>>

\* secDetector_destroy_log: proc_remove lets no call in any more and waits
\* for those inside; then the log is emptied, if inflag says so, and freed.
RemoveAlarm ==
  /\ dpc = "destroy" /\ "alarm" \in have
  /\ have' = have \ {"alarm"}
  /\ UNCHANGED <<dpc, starts, logVars>>

DestroyLog ==
  /\ dpc = "destroy" /\ "alarm" \notin have
  /\ \A t \in LogTasks : tpc[t] = "idle"
  /\ mem' = IF inflag THEN mem \ {fifo[i] : i \in DOMAIN fifo} ELSE mem
  /\ fifo' = <<>> /\ inflag' = FALSE
  /\ have' = have \ {"fifo"}
  /\ dpc' = "rmdir"
  /\ UNCHANGED <<starts, written, tpc, rec, raced, lost>>

RemoveDir ==
  /\ dpc = "rmdir"
  /\ have' = have \ {"dir"}
  /\ dpc' = "out"
  /\ UNCHANGED <<starts, logVars>>

----------------------------------------------------------------------------
(* Steps on the fifo.                                                       *)

Goto(t, step) == tpc' = [tpc EXCEPT ![t] = step]
Hold(t, r) == rec' = [rec EXCEPT ![t] = r]
Kfree(t) == mem' = mem \ {rec[t]}
Races(t) == raced' = raced \cup (LogWriters \ {t})

\* kfifo_out_spinlocked finds a record, or nothing.
TakeOldest(t) ==
  /\ fifo # <<>>
  /\ Hold(t, Head(fifo)) /\ fifo' = Tail(fifo)
  /\ Races(t)

\* write_log: inflag is looked at once, without the lock.
WriteStart(t) ==
  /\ tpc[t] = "idle" /\ dpc = "up" /\ written < MaxWrites
  /\ inflag
  /\ Goto(t, "avail")
  /\ raced' = raced \ {t} /\ lost' = lost \ {t}
  /\ UNCHANGED <<fifo, inflag, mem, written, rec>>

\* Mutant: room is seen where none is left.
HasAvailOffByOne == Len(fifo) <= FifoSize

HasAvail == Len(fifo) < FifoSize

\* check_and_out_log_fifo looks at the room, then frees what it took out.
NoRoom(t) ==
  /\ tpc[t] = "avail" /\ ~HasAvail
  /\ Kfree(t) /\ Hold(t, NoRec) /\ Goto(t, "out")
  /\ UNCHANGED <<fifo, inflag, written, raced, lost>>

Room(t) ==
  /\ tpc[t] = "avail" /\ HasAvail /\ written < MaxWrites
  /\ written' = written + 1
  /\ mem' = (mem \ {rec[t]}) \cup {written'}
  /\ Hold(t, written') /\ Goto(t, "in")
  /\ UNCHANGED <<fifo, inflag, raced, lost>>

\* kzalloc fails (or the bound on writes is reached): -1 and no record.
NoMemory(t) ==
  /\ tpc[t] = "avail" /\ HasAvail
  /\ Kfree(t) /\ Hold(t, NoRec) /\ Goto(t, "idle")
  /\ UNCHANGED <<fifo, inflag, written, raced, lost>>

Displace(t) ==
  /\ tpc[t] = "out"
  /\ TakeOldest(t) /\ Goto(t, "avail")
  /\ UNCHANGED <<inflag, mem, written, lost>>

NothingToDisplace(t) ==
  /\ tpc[t] = "out" /\ fifo = <<>>
  /\ Goto(t, "idle") /\ lost' = lost \cup {t}
  /\ UNCHANGED <<fifo, inflag, mem, written, rec, raced>>

WriteIn(t) ==
  /\ tpc[t] = "in" /\ Len(fifo) < FifoSize
  /\ fifo' = Append(fifo, rec[t])
  /\ Hold(t, NoRec) /\ Goto(t, "idle") /\ Races(t)
  /\ UNCHANGED <<inflag, mem, written, lost>>

WriteRefused(t) ==
  /\ tpc[t] = "in" /\ Len(fifo) = FifoSize
  /\ Kfree(t) /\ Hold(t, NoRec) /\ Goto(t, "idle")
  /\ lost' = lost \cup {t}
  /\ UNCHANGED <<fifo, inflag, written, raced>>

\* secDetector_log_read.  A buffer too small for the record, or one that
\* cannot be written to, changes what the call returns and nothing else.
ReadStart(t) ==
  /\ tpc[t] = "idle" /\ "alarm" \in have
  /\ fifo # <<>>
  /\ Goto(t, "read")
  /\ UNCHANGED <<fifo, inflag, mem, written, rec, raced, lost>>

ReadOut(t) ==
  /\ tpc[t] = "read"
  /\ \/ TakeOldest(t) /\ Goto(t, "copy")
     \/ fifo = <<>> /\ Goto(t, "idle") /\ UNCHANGED <<rec, fifo, raced>>
  /\ UNCHANGED <<inflag, mem, written, lost>>

ReadCopy(t) ==
  /\ tpc[t] = "copy"
  /\ Kfree(t) /\ Hold(t, NoRec) /\ Goto(t, "idle")
  /\ UNCHANGED <<fifo, inflag, written, raced, lost>>

\* clean_log_fifo_data, called by secDetector_log_write.
CleanStart(t) ==
  /\ tpc[t] = "idle" /\ "alarm" \in have
  /\ inflag
  /\ Goto(t, "close")
  /\ UNCHANGED <<fifo, inflag, mem, written, rec, raced, lost>>

CleanClose(t) ==
  /\ tpc[t] = "close"
  /\ inflag' = FALSE /\ Goto(t, "len")
  /\ UNCHANGED <<fifo, mem, written, rec, raced, lost>>

CleanLen(t) ==
  /\ tpc[t] = "len"
  /\ Kfree(t) /\ Hold(t, NoRec)
  /\ Goto(t, IF fifo = <<>> THEN "open" ELSE "take")
  /\ UNCHANGED <<fifo, inflag, written, raced, lost>>

CleanTake(t) ==
  /\ tpc[t] = "take"
  /\ TakeOldest(t) /\ Goto(t, "len")
  /\ UNCHANGED <<inflag, mem, written, lost>>

\* Mutant: the error return forgets inflag.
CleanFailsClosed(t) ==
  /\ tpc[t] = "take" /\ fifo = <<>>
  /\ Goto(t, "idle")
  /\ UNCHANGED <<inflag, fifo, mem, written, rec, raced, lost>>

\* Somebody else took the last record: -1, and inflag is set on that way too.
CleanFails(t) ==
  /\ tpc[t] = "take" /\ fifo = <<>>
  /\ inflag' = TRUE /\ Goto(t, "idle")
  /\ UNCHANGED <<fifo, mem, written, rec, raced, lost>>

CleanOpen(t) ==
  /\ tpc[t] = "open"
  /\ inflag' = TRUE /\ Goto(t, "idle")
  /\ UNCHANGED <<fifo, mem, written, rec, raced, lost>>

CleanStep(t) ==
  CleanClose(t) \/ CleanLen(t) \/ CleanTake(t) \/ CleanFails(t) \/ CleanOpen(t)
CoreStep ==
  \/ Load \/ RingFails \/ Unload \/ RemoveAlarm \/ DestroyLog \/ RemoveDir
  \/ \E s \in StartSteps : StartOk(s) \/ StartFails(s)
LogStep ==
  \/ \E t \in LogWriters :
       \/ WriteStart(t) \/ NoRoom(t) \/ Room(t) \/ NoMemory(t) \/ Displace(t)
       \/ NothingToDisplace(t) \/ WriteIn(t) \/ WriteRefused(t)
  \/ \E t \in LogReaders : ReadStart(t) \/ ReadOut(t) \/ ReadCopy(t)
  \/ \E t \in LogCleaners : CleanStart(t) \/ CleanStep(t)
CoreNext == CoreStep \/ (LogStep /\ UNCHANGED <<dpc, have, starts>>)

\* A process in the kernel goes on with its system call.
CoreFairness == \A t \in LogCleaners : WF_coreVars(CleanStep(t) /\ UNCHANGED <<dpc, have, starts>>)
CoreSpec == CoreInit /\ [][CoreNext]_coreVars /\ CoreFairness

----------------------------------------------------------------------------
CoreTypeOK ==
  /\ dpc \in StartSteps \cup {"out", "up", "destroy", "rmdir", "oops"}
  /\ have \subseteq StartSteps /\ starts \in 0 .. MaxStarts
  /\ fifo \in Seq(1 .. MaxWrites) /\ Len(fifo) <= FifoSize
  /\ inflag \in BOOLEAN
  /\ mem \subseteq 1 .. MaxWrites /\ written \in 0 .. MaxWrites
  /\ rec \in [LogTasks -> 0 .. MaxWrites]
  /\ raced \subseteq LogWriters /\ lost \subseteq LogWriters
  /\ tpc \in [LogTasks -> {"idle", "avail", "out", "in", "read", "copy",
                           "close", "len", "take", "open"}]

\* Every allocated record is in the fifo or in one task's hands, once, and a
\* driver that failed to start or was removed leaves nothing: no record, no
\* fifo, file, directory or device, on every path of secDetector_init, of
\* the exit and of the log's operations, whoever else is in the file.
InFifo == {fifo[i] : i \in DOMAIN fifo}
HeldBy(t) == {rec[t]} \ {NoRec}
CoreMemory ==
  /\ mem = InFifo \cup UNION {HeldBy(t) : t \in LogTasks}
  /\ Cardinality(InFifo) = Len(fifo)
  /\ \A t, u \in LogTasks : t # u => HeldBy(t) \cap HeldBy(u) = {}
  /\ \A t \in LogTasks : HeldBy(t) \cap InFifo = {}
  /\ dpc = "out" => have = {} /\ mem = {}
  /\ dpc = "up" => have \cup {"ring"} = StartSteps

\* write_log loses its record for want of room only if another task took or
\* added a record while it made room: a lone writer always displaces.
LoneWriteKept == lost \subseteq raced

\* Whoever clears the log sets inflag again, also when readers and a second
\* cleaner take the records away under it: writers are not shut out for good.
LogReopens == (dpc = "up" /\ ~inflag) ~> inflag
=============================================================================
