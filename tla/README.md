# secDetector in TLA+

secDetector is openEuler's intrusion detection framework. A kernel module
(`secDetector_core`) gives case modules hooks, analyses and responses; an agent
(`secDetectord`) takes the kernel's reports and the events of its own eBPF
programs and publishes them over gRPC; applications subscribe to topics through
an SDK. This directory models what runs concurrently in it. Source paths below
are relative to `src/`.

## 1. Inventory

### 1.1 Components

| component | state | operations | hard behaviour | what makes it correct |
|---|---|---|---|---|
| **kernel ring buffer and report path** `kerneldriver/core/response_unit/secDetector_ringbuffer.c`, `secDetector_response.c` | two positions, data pages, spinlock, irq work, wait queue, `g_isopen` | report = reserve, copy, commit, wake; open, poll, mmap, release | producers on all CPUs and in NMIs; text copied outside the lock; commits out of order; room computed from a stale position; a ring that is full | no overrun, no live record overwritten, no lost wake-up, one consumer |
| **agent's ring reader** `observer_agent/service/ringbuffer.cpp` | local positions, the header at hand | attach, poll, scan, callback | lock-free scan against the producers; crash between callback and release; its own idea of the ring's size and of memory order | whole records, in order, at least once |
| **module manager and hook unit** `kerneldriver/core/secDetector_manager.c`, `hook_unit/` | `g_module_idr`, module list, hook lists, kprobes, timers and their work, two kinds of mutexes | register, its error path, unregister; handlers; timers | RCU readers and work items against removal; waiting with a mutex held; error path of a half registered module | no use after free, no deadlock, nothing left behind, no workflow missed |
| **case modules that are built** `kerneldriver/cases/{memory_corruption,kmodule_baseline,program_action}` | workflows, their case mutex | init, exit, callbacks | case mutex against hook mutex | init and exit return |
| **publish/subscribe server** `observer_agent/grpc_comm/server.cpp` | `suber_topic_`, `connection_num`, `killed`, `sub_mutex` | Subscribe (lasts as long as the subscription), Publish, UnSubscribe, StopServer | one mutex held across blocking writes; pointers to writers of other calls; clients that die | count and table agree, no dangling writer, every subscriber served, connections come back |
| **client library and SDK** `lib/secDetector_sdk.cpp`, `observer_agent/grpc_comm/client.cpp` | `g_reader_map`, `g_connect_mtx`, one stream per client | secSub, secReadFrom, secUnsub | one lock across blocking calls | secUnsub returns, nothing after it |
| **agent start and shutdown** `observer_agent/service/main.cpp` | `exiting`, the threads | signal, poll loop, ordered stop | a signal against a `poll()` without timeout; server thread not up yet | a stopped agent exits |
| **proc log** `core/response_unit/secDetector_proc.c` | fifo, `inflag` | write, read, clean | writer, reader and cleaner with a partial lock | room, no lost entry, cleaner ends |
| **preset workflow: collect and analyze units** `core/secDetector_workflow.c`, `analyze_unit/`, `collect_unit/` | first measure, response table | measure, compare, select a response | failed allocations; positions that shift; a sign lost in `uint32_t` | a response index in range, no false or missed alarm |
| **eBPF loaders** `observer_agent/ebpf/fentry.c`, `file_ebpf/file_fentry.c` | table of links and its count, `exiting` | load, disable by mask, poll, destroy | removal from an array while iterating over it | exactly the programs of the mask stay, each link destroyed once |
| **eBPF programs and event formatting** `ebpf/*.bpf.c`, `service/ebpf_converter.cpp` | records in the BPF ring's memory | reserve, fill, submit; convert | memory that is not cleared between laps; programs that run before the mask is applied; the agent's own events | a text shows its own event's fields, of a wanted topic, of another process |
| **framework core start and stop** `core/secDetector_main.c` | which units are initialised | init with error paths, exit | an error half way | what was set up is taken down, once |
| **resource usage monitor** `observer_agent/usrdriver/resourcesusage/` | a JSON file, configuration | sampling threads, reading the file | a reader of a file that is being rewritten | a whole document or none |
| case modules that are not built, vendored JSON library, example client, test module | | | | (not part of the running system) |

### 1.2 How they interact

```
 case modules --register/unregister--> manager --link--> hooks (kprobe, timer)
                                                           | handler / work item
                                                           v
                                             collect -> analyze -> response
                                                           | secDetector_report
        kernel                                             v
 ------------------------------------------------- ring buffer -------------------
        agent                            poll, mmap        |
   eBPF threads --ebpf_cb--> push_log <--ringbuf_cb-- main's poll loop
                                 | Publish (one at a time: pub_mutex)
                                 v
                      gRPC server: table of subscribers, one handler per client
                                 | stream (flow control)
 --------------------------------v--------------------------------------------------
   applications:   secSub, secReadFrom, secUnsub under one lock per process
```

Kernel and agent share memory (positions and data pages) and a wait queue.
Manager, handlers and work items share the hook lists. The agent is a gRPC
client of its own server. The handler of a subscription and the handlers of
Publish share the table and the writers in it.

### 1.3 Hazards

`PROJECT.json` lists each one at its line. In short: stale positions, busy
records, wake-ups, crashes of the agent (ring); the id that a failed register
does not assign, readers on a node that is removed, waits with a mutex held
(manager); blocking writes under a mutex, entries that outlive their handler,
two locks that wait for each other across processes (server and SDK); signal
against poll (shutdown); writers, reader and cleaner of the log, and the error
paths of the core's init; positions and failed allocations in the analysis; a
table of links that is rearranged while it is iterated over, and fields of
earlier records (loaders); a file that is read while it is rewritten, or was cut
short (monitor); early returns, a path put that was not had and two mutexes in
opposite orders (case modules).

Two hazards have no property; their entries say why: the newline after the
report's text is not counted in the size of its buffer, and the text's bytes are
not modelled; allocations that may sleep under a spinlock and in a kprobe's
handler change no state.

## 2. Plan

Most important first; items marked * are in place.

1. * `ReportChannel`: what the report path promises, with no ring in it.
2. * `RingBuffer`, `MCRingBuffer`: kernel ring and agent; it implements
   `ReportChannel`.
3. * `RingBufferInv`, `RingBufferProofs`, `RingBufferSafety`: the inductive
   invariant and its proofs.
4. * `HookManager`, `MCHookManager`: registration, hooks, handlers, timers.
5. * `PubSubServer`, `MCPubSubServer`: server, clients, SDK, agent's threads.
6. * `DriverCore`: init and exit of the core, with the proc log it owns (the
   plan's `ProcLog` and `CoreLife` in one, because exit empties the log).
7. * `PresetWorkflow`: collect, compare, respond, with failed allocations.
8. * `Probes`: the loader threads, the programs and the converter.
9. * `ResourceMonitor`: the JSON file, and what the samples compute.
10. * `CaseHandlers`: callbacks of the case modules; `MCUnits` runs 6 to 10 as
    one sum.
11. * `HookManagerProofs`, `HookManagerSafety`: lists, order, timers, ids.
12. * `PubSubServerProofs`: table and count, what Publish and UnSubscribe promise,
    the refinement of `Subscription`.
13. * `Subscription`: what the server promises its clients; `PubSubServer`
    implements it.
14. * `DriverCoreProofs`, `ProbesProofs`, `UnitsProofs`: the five small units, and
    that what is proved of each holds of their sum.

Every safety and action property of a passing run is now a theorem. Left, in
this order: which modules are safe next to one whose register failed under
another's id (`HookManagerSafety` is about behaviours without that); shorter proofs
(`RingBufferSafety` and `UnitsProofs` split their leaves finer than a reader
needs).

What composes what: `RingBuffer` refines `ReportChannel`, `PubSubServer` refines
`Subscription`. `PubSubServer` takes
the place of `RingBuffer`'s callback: `RingRecord` there is one `Callback`
here, and a `Publish` that does not return is a callback that does not return.
`HookManager`'s `Walk` and `WorkWalks` are where `RingBuffer`'s `ReportBegin`
comes from. `PresetWorkflow` is what one `WorkWalks` there does, and `Probes`'
`Deliver` is a `ProbeEvent` of `PubSubServer`. The modules share no variable, so
each is checked alone; `MCUnits` puts the five small ones into one run as a sum.

## 3. Modules and the code

### 3.1 RingBuffer

One action per step that another party can see.

| action | code |
|---|---|
| `ReportBegin` | `secDetector_report`, `ringbuf_output` up to the load of `consumer_pos`, taken before the lock |
| `LockRing`, `TryLockFails` | `spin_lock_irqsave`; in an NMI a trylock whose failure drops the report |
| `RingFull`, `MarkBusy`, `Advance` | the room check with unsigned arithmetic, the busy header, the release store of `producer_pos` with the unlock |
| `Fill`, `Commit`, `Notify` | the copy outside the lock, the xchg of the header, the choice of wake-up |
| `RunIrqWork` | the irq work that wakes the wait queue |
| `Open`, `Exit` | `g_isopen` by compare-and-exchange; release when the process ends, at any step |
| `PollWait`, `PollSleeps`, `PollReturns`, `PollWakes` | `poll_wait` and the mask computed after it |
| `LoadProd`, `ReadHdr`, `Callback`, `StoreCons`, `ScanAgain`, `ScanDone` | `secDetector_ringbuf_poll`'s two nested loops |
| `EarlyHdrLoad` | (only with `WeakLoads`) the header is loaded before `producer_pos` |

Positions are in words of 8 bytes and do not wrap at 2^64. A text is the number
of its record; a text read as a header can have any length. `KWords` is the
kernel's ring, `UWords` what the agent believes. `log`, `acked`, `handed` and
`garbled` are history; the only guard that reads them is the bound `MaxRecs`,
and `Len(log) + 1` numbers a record that is reserved under the lock.

`ImplementsChannel` maps the ring to `ReportChannel`: a report is accepted by
`Advance`, finished by `Commit`, handed by `Callback` and acknowledged by
`StoreCons`; everything else stutters.

### 3.2 HookManager

A workflow is `<<m, i>>`; `next` and `prev` are the kernel's circular list, so
that a reader that stands on a removed node goes on as the code does.
`synchronize_rcu` is `gp`, the set of readers it has yet to wait for. Register
is `Load` (insmod and `idr_alloc`, outside the mutex), `RegisterLock`, `Arm`,
`Link`, `Registered` or `RegisterFails`; unregister is `Unload`, `CaseLock`,
`UnregisterLock` (with `idr_remove` of whatever id the module has), then per
workflow `Unlink`, the grace period and `Unlinked`, `Disarm`/`Disarmed` or
`DelTimer`/`CancelWork`, and `Leave`, `Unregistered`. `Hit` and `Walk` are a
kprobe's handler; `Fire`, `Rearm`, `WorkStarts`, `WorkLocks`, `WorkSkips` and
`WorkWalks` a timer's function and its work item, which only tries the mutex.

Left out: the enabled flags (no code clears them), tracepoint hooks (no case
uses one and their insert always fails), the text of proc parameters. The
analyze status and the response array share the fate of the workflow's memory.
`insert_callback` refuses a workflow that is already on its hook's list, so that
`Arm` and `Link` ask for `~Linked(Flow(m))` and `RegisterFails` for the
opposite. `Unavailable` names the hooks whose first registration may fail, for
whatever allocation in it. `FailsUnderOwnId`, the action constraint of run
`hooks_fail`, keeps to the behaviours in which registers fail under the id 0 and
under no other; the other failures are the finding of run `hooks_wrong_id`,
which makes `RegisteredKeepId` false as well. `next`, `mutex` and `at` hold
modules, hooks, workflows and contexts side by side; `ConstantsAssumption` says
that these kinds are apart. `idr_alloc` is atomic. A module with a workflow left
on a list (the finding of run `hooks_wrong_id`) is not loaded again before the
violation.

### 3.3 PubSubServer

A client is one `PubSubClient`, which the SDK gives a fresh uuid, so it stands
for its name. Its process has one library lock (`lib`, for `g_connect_mtx`).

| actions | code |
|---|---|
| `Subscribe`, `SubscribeFails` | the first critical section of the handler: limit, duplicate name, first message, table entry |
| `Loop` | `while (!killed)` with `WaitKeeplive` before it; the flag is read without a lock |
| `Listed`, `Unlisted`, `KeepAlive`, `KeepAliveFails` | the critical section of the loop, `sub_mutex` held across the Write |
| `PushLog`, `PublishLock`, `PublishWrite`, `PublishFails`, `PublishReturns` | `push_log` under `pub_mutex`, then Publish under `sub_mutex`, one Write per subscriber |
| `UnSubscribe` | the handler, atomic under `sub_mutex`, without which it waits |
| `SecSub`, `SubDone`, `SecReadFrom`, `ReadReturns`, `SecUnsub`, `UnsubLock`, `UnsubDone` | the SDK's calls and the client's, split where they block |
| `Die` | the application is killed at any moment |
| `ServerUp`, `Check`, `RingRecord`, `Signal`, `CloseAllConnection`, `Shutdown`, `Drained`, `ProbeEvent`, `StopProbe`, `ProbeEnds`, `Exits` | the agent's threads from start to exit |

A stream holds up to `Window` unread messages; a Write beyond that waits, and
the handler keeps `sub_mutex` meanwhile. This is gRPC's flow control, which is
outside the repository. Keepalives unread in a row are kept as one, which keeps
the state finite and never makes room that is not there. A Write to a stream
whose client has gone fails. The entry of a handler that has returned holds a
pointer to a writer that is gone, and the model lets a Write to it do nothing or
fail. `Shutdown` without a server dereferences a null pointer; the process ends.
Which topic bits overlap is reduced to `TopicsOf`. A mutex names its holder:
`ConstantsAssumption` keeps clients, "publish", "ring" and eBPF threads apart.

`ImplementsService` maps it to `Subscription`, where a client joins, leaves and is
dealt messages in single steps: the table is the set of subscribers, `got` their
inboxes, and a message is open while Publish holds `sub_mutex` in its loop. What
it says is that no join or removal overlaps a message, that nobody is turned away
while there is room, and that a message goes to exactly those it was due to when
it was opened, unless one of them is gone or the server is being stopped.

Left out: a second `secSub` in the same process (the documentation forbids it),
raw gRPC clients that choose their names, a failed connection, the crash of the
agent (`RingBuffer` has it).

### 3.4 DriverCore

The driver's `dpc` is the step that `secDetector_init` is at, and `have` what it
has set up. `StartOk`, `StartFails` and `RingFails` are the steps with their
error labels, `Unload`, `RemoveAlarm`, `DestroyLog` and `RemoveDir` the exit and
the tail of the error paths. The log's tasks move one fifo operation at a time:
`WriteStart`, `NoRoom`, `Displace`, `Room`, `WriteIn` and their failures are
`write_log` with `check_and_out_log_fifo`; `ReadStart`, `ReadOut`, `ReadCopy`
are `secDetector_log_read`; `CleanStart` to `CleanOpen` are
`clean_log_fifo_data`. A record is the number of its allocation; `mem` is what
kmalloc has given out.

`ringbuf_alloc` reports failure with `ERR_PTR`, its caller tests for `NULL`: the
driver then starts without a ring, and taking it down passes that pointer to
`ringbuf_free`. The model says so (`RingFails`, `"oops"`) and stops there.

Left out: the text of records and its copy to the user, and return values that
tell a caller only about its buffer or its arguments.

### 3.5 PresetWorkflow

One run of the work item is `CollectStart`, `Collect` or `CollectFails` for one
collector after the other, `Analyze`, then `FirstMeasure` or `CompareStart`,
`CompareSame`/`CompareChanged` per value, `CompareEnd`, then `Respond`. Values
are bits of CPU registers that `Flip` changes at any moment, also between two
collectors of one run. Each switch has a name of its own, as in the source. Each
allocation can fail: a collector then contributes no value (`missing`), and a
failed analysis returns a negative number in a `uint32_t`, which is compared
with `>= 0` and indexes the response table (`WildResponse`, `"oops"`). A table
that could not be allocated is used all the same (`RespondNull`). Saved values
are found by position: after a collector failed at the first measure, later ones
are compared with the wrong entries or beyond the array (`CompareOverrun`). The
properties are about runs short of that.

Left out: the text's wording and time stamp, and `collect_time` with values that
are regions of memory, which no built case collects.

### 3.6 Probes

`kind` says which of the two threads it is: the sources are twins. `Daemon`,
`OpenSkeleton` to `RingNew` and `Enable`, `Loop`, `PollReturns`, `Cleanup` and
`StopProgs` are `fentry.c` and `file_fentry.c` with `daemon()` and the stop
functions; `DisableProg` is the removal from the skeleton's table; a step of
`DisableProgBasedOnMask` is one of its calls, numbered by `call`, and programs
that are still attached run in between. `Event` is a program that reserves and
fills a record on any CPU, `Submit` its end, `Deliver` the callback with
`ebpf_converter.cpp`. A record says which groups of fields its program wrote;
`dirt` is what a slot's memory holds from before. `ArgvLoop` is the loop over
argv and the one over envp, a string at a time (`ArgvStep`) and byte by byte,
because its cut, its spaces and its limit of `MAX_NUM_ARGS` strings (`MaxArgs`)
are what can go wrong; a byte is its place, string and index (`Char`). A list of
strings ends where the first of them cannot be read; the kernel's helper clears
the rest of the buffer then, so that a first string that cannot be read leaves
less of an earlier record than the model has it.

Named after what the code does: `vfs_read` is reported only if it returned 0; an
exec or fork shows `bprm_file` if an earlier record left `have_bprm` set in
memory, and so do the attribute's values, the argv of an execve without
arguments and the envp of one without an environment (`OldFields`).
`ebpf_converter.cpp:81` prints `pns` under the name `root_pns`.

Left out: the values of fields, libbpf itself, the verifier.

### 3.7 ResourceMonitor

The writing thread is `TakeSample`, `CreateOk` or `CreateElsewhere`, `WritePart`
by part; the reading one `OpenToRead`, `ReadPart`, `ParsePrint` or `ParseError`,
`ReaderSleeps`. An exception in either ends both (`SampleThrows`, `ReadThrows`,
`"dead"`), and so does the reader's own exit (`"failed"` over a text that does
not parse). The stream that writes is never asked for its state: `WriteCut` is a
write that stops short, as on a full disk. A sample that says a name with a
quote in it (`quoted`) may not parse though it is whole, because `main.cc:19`
erases every backslash, the one before that quote too. `Restart` leaves the
file. The operators above the actions are what the collectors compute from what
they read: logins struck off connections, TCP states counted, differences of
counters in unsigned arithmetic, disks paired by position, threads counted in
two passes. `TcpStates` are the states that the loop counts; df is taken to list
a mount point once.

Left out: parsing of `/proc` and of command output, the JSON library (`Whole` and
`Patched` say which texts parse), values that are passed on as read.

### 3.8 CaseHandlers

`HandlerStart` to `Send` are the two kprobe handlers of program_action with
`get_common_process_info`'s allocations and path references and every early return.
`get_task_root` and `get_task_cwd` have nothing for a task without an fs_struct
(`fs`), and `path_put` is called all the same (`stray`, on a path that nobody
set). Line 162 has read `tsk->fs->umask` before that, which such a task does not
survive (`Umask`, `"oops"`): `CasesLeaveNothing` says that the stray put is not
reached, and its mutant that a guard of that read alone would make it so.
`WorkStart` to
`FreeList` are the baseline's work with its two mutexes, the second only tried,
and `UnloadWanted` to `UnloadStop` its removal, which takes them in the other
order. The list is a sequence of names, the text (`Fitting`) the sequence of names that
fit, each judged by the room that those before it left.

That `get_timestamp_str`, called by the handlers, and `check_kmodule_baseline`,
under a spinlock, allocate with `GFP_KERNEL` has no counterpart: no model tells
an allocation that sleeps from one that does not.

### 3.9 MCUnits

The five units share no variable. A behaviour of `MCUnits` is one of a single
unit, chosen in `Init`, with the others at rest in an initial state, so that the
states add up and do not multiply. The fairness conditions of resting units hold
because the steps they speak of are not enabled.

## 4. Runs

`PROJECT.json` names for every property a mutant of the code, defined beside
the original in its module, that breaks it.

| run | bounds | shows |
|---|---|---|
| `rb_core` | 2 producers (one an NMI), 2 agents (one may crash), 6 words, texts of 2 sizes, 4 reports | `NoOverrun`, `LiveRecordsIntact`, `CallbackGetsWholeRecords`, `OneConsumer`, `ImplementsChannel` |
| `rb_live` | 2 producers, 1 agent, forced and adaptive wake-ups, 4 reports | an accepted report is handed to an agent that keeps running |
| `rb_weak_wakeups` | as `rb_core` with reordered loads, forced and adaptive wake-ups, 2 reports | `NoLostWakeup`: wake-ups survive the reordering |
| `rb_size_mismatch` | kernel ring twice the agent's | **violation**: the agent hands to its callback words that are not a record |
| `rb_weak_loads` | reordered loads, 2 reports | **violation**: the agent uses a header from before the record |
| `hooks` | 2 modules sharing a kprobe and a timer, 1 CPU, 3 loads | no use after free, kprobes and timers match the lists, no workflow missed, init and exit return |
| `hooks_fail` | 2 modules sharing a kprobe and a timer, 2 CPUs, every allocation may fail under the id 0, 3 loads | `NothingLeftBehind`: a failed register leaves nothing behind; `RegisteredKeepId`: who is registered keeps its id though others fail |
| `hooks_wrong_id` | 2 modules, one whose kprobe is missing | **violation**: the failed one takes the other's id, whose removal then leaves a freed workflow linked |
| `pubsub` | 3 applications (1 leaves, 2 may die, 1 wants another topic), 2 connections, window 2, 1 message | `ImplementsService`; the count is the table, no dangling writer before the shutdown, Publish that returns OK served everybody, nothing after UnSubscribe |
| `pubsub_live` | 2 applications (1 leaves, the other may die), 1 connection, window 2, 1 message | secUnsub returns, a dead client's connection is freed, a stopped agent exits, up to the exceptions below |
| `pubsub_unsub` | 1 application that never dies, window 2, 2 messages | **violation**: secUnsub and the server wait for each other for ever |
| `units` | core: 2 writers, 1 reader, 2 cleaners, a fifo of 2, 3 records, 1 start, any step may fail. Preset: 2 switches, any allocation may fail. Probes: both threads in turn, every mask, a ring of 1 record, 2 events, an argv and an envp of 4 bytes and 2 strings, each of 4 lists. Monitor: 5 worlds, 2 parts, 3 samples, 2 runs, counters mod 16. Cases: 1 caller, with or without an fs_struct, 2 module lists, room for 10 characters | memory on every path of core, preset and cases; a lone writer's record is kept, the log reopens; reports name what changed; exactly the mask's programs stay, published texts are wanted and their own; a reader fails only on a race, a leftover, a write cut short or a quote; samples are right; the baseline's report is of this work, its removal ends |

Why the bounds are enough. In the ring, 6 words hold two records of the larger
size but not three, so it is full, wraps, and reuses every word with a second
record in flight; 4 reports are one more than fill it after a wrap; two
producers are enough for out-of-order commits, an NMI on top of a lock holder
and a stale `consumer_pos`, since a third would only repeat one of the two.
Among hooks, two workflows on a list are a middle and an end, three loads let a
module come back while the other's readers are still there. In the server one
connection fewer than applications makes the limit bite; a window of 2 fills
with the first message and one keepalive; one message reaches a subscriber
before and after every change of the table; a second one is needed only for
`pubsub_unsub`. Of the units: a fifo of 2 is full with a third record in a
writer's hand, and a second cleaner is what makes one find nothing to take; two
switches are a first and a later position, and values flip at any step so that
the number of measures is not bounded; a ring of one record makes every second
event reuse dirty memory; two strings of a list of up to three make the limit of
64 bite before and after the buffer's size does; two parts are a beginning and
an end, two samples one text written over another; lists of three names with a
middle one that does not fit are what the text's room can do.

Deadlock is not checked: in all modules the bounds on loads, reports and
messages end the activity, and an idle system waits. That it does not stop
earlier is what `AcceptedIsHanded`, `ModulesReturn`, `UnsubReturns`,
`SlotFreed`, `AgentStops`, `LogReopens` and `BaselineUnloads` are for.

The exceptions in `pubsub_live` are behaviours of the code, not of the model:

* a client that does not read blocks the server, `[]Blocked`: it is the
  condition under which `pubsub_unsub` fails;
* `[](mPc = "poll")`: the agent polls without a timeout, so a signal that is
  delivered to another thread, or between the test of `exiting` and the call,
  is noticed only when the kernel reports something.

### What the violations say

* `rb_size_mismatch`: `secDetector_core` takes `ringbuf_size` from 4 to 1024
  MB; the agent maps 4 MB always.
* `rb_weak_loads`: the agent's `smp_load_acquire` is a compiler barrier; on
  aarch64, which the documentation names as supported, it orders nothing.
* `hooks_wrong_id`: a failed register unregisters with `module->id` still 0.
* `pubsub_unsub`: `secUnsub` holds the library's lock while it waits for the
  server, so that no thread of that application reads, while the server may be
  waiting with its mutex held for exactly that application to read.

## 5. Fairness

* `RingBuffer`: weak fairness of a report that began (kernel code with
  interrupts off, under a queued spinlock), of the irq work, and of a running
  agent. Nothing obliges anyone to report, to start or to stop.
* `HookManager`: weak fairness of init and exit once begun, of handlers, timer
  functions and work items. Strong fairness where a kernel mutex is taken, as it
  is handed to the longest waiter, and of `del_timer_sync`, which retries
  against a timer that fires once in seconds. None for loading, unloading,
  probed functions being called, or timers firing.
* `PubSubServer`: weak fairness of the threads of server, main and eBPF
  programs, and of a subscribed application's reading (the documentation asks
  for a thread that reads in a loop). Strong fairness of taking `sub_mutex` and
  `g_connect_mtx`: handlers use the first for an instant each minute
  (`CHECK_TIME`) and readers pause between messages, as in
  `examples/python/client.py`. `std::mutex` itself promises nothing of the
  kind: a reader that calls `secReadFrom` again at once may starve
  `secUnsub`. Nothing obliges a record, an event, a signal, a subscription or a
  death.
* `DriverCore`: weak fairness of the steps of a cleaner that is inside its system
  call, nothing else.
* `CaseHandlers`: weak fairness of the baseline's work once it began, strong
  fairness of the removal, which waits for a mutex that the work may take and
  leave in between. None for the timer or for rmmod.

## 6. Proofs

Proved by TLAPS for every value of the constants that satisfies the module's
assumption (`ConstantsAssumption`, `CoreAssumption` and so on, evaluated by TLC on
every run).

| module | theorem | establishes | assumes further |
|---|---|---|---|
| `RingBufferProofs` | `TypeCorrect` | `[]TypeOK` | |
| | `DeviceExclusive` | `[]OneConsumer` | |
| | `WakeupsNotLost` | `[]NoLostWakeup` | `WakeFlags \subseteq {"force", "adaptive"}` |
| `RingBufferSafety` | `RingSafe`, `NeverOverrun`, `WholeRecords` | `[](NoOverrun /\ LiveRecordsIntact /\ CallbackGetsWholeRecords)` and its parts | `MatchingAgent` |
| | `RingImplementsChannel` | `ImplementsChannel` | `MatchingAgent` |
| `HookManagerProofs` | `HookInductive`, `HookTypeCorrect` | `[]HookInd`, `[]TypeOK` | |
| | `TimersOutlived`, `HooksMatch`, `HandlersSafe` | `[]TimersInMemory`, `[]HooksMatchLists`, `[]HandlersHaveProbe` | |
| | `NoneMissed` | the action property `NoWorkflowMissed` | |
| `HookManagerSafety` | `SafeInductive`, `IdsOwn`, `NoneFreedInUse`, `NothingLeft` | `[]SafeInd`, `[]RegisteredKeepId`, `[]WorkflowsInMemory`, `[]NothingLeftBehind` | `[][FailsUnderOwnId]_vars` |
| | `FailsOnlyUnderOwnId` | `[][FailsUnderOwnId]_vars` | `NothingFails \/ OneModule` |
| `PubSubServerProofs` | `TypeCorrect`, `CountCorrect`, `NoDanglingWriter` | `[]TypeOK`, `[]ConnectionsCounted`, `[]WritersAliveUntilKilled` | |
| | `PublishReachesAll`, `SilentAfterUnsubscribe` | the action properties `PublishedToAll`, `NothingAfterUnsubscribe` | |
| | `ServerImplementsService` | `ImplementsService` | |
| `DriverCoreProofs` | `CoreTypeCorrect`, `RecordsOwned`, `LoneWriterHeard` | `[]CoreTypeOK`, `[]CoreMemory`, `[]LoneWriteKept` | |
| `ProbesProofs` | `MaskObeyed`, `OnlyWantedPublished`, `TextsShownOwn` | `[]AttachedMatchMask`, `[]PublishedWanted`, `[]TextsOwn` | |
| `UnitsProofs` | `PresetCleansUp`, `ReportsNameChanges` | `[]RunsCleanUp`, `[]ReportsExact` | |
| | `ReaderRaces`, `SamplesSayWhatTheySaw` | `[]ReaderFailuresExplained`, `[]SamplesRight` | |
| | `HandlersLeaveNothing`, `BaselineIsReported` | `[]CasesLeaveNothing`, `[]BaselineReported` | |
| | `UnitsTypeCorrect`, `UnitsSafe` | the same, of the sum that run `units` checks | |

Two of the assumptions are where the code can go wrong, and each is needed:

* `MatchingAgent` is `UWords = KWords /\ WeakLoads = FALSE`. Without it the ring's
  three statements are false: runs `rb_size_mismatch` and `rb_weak_loads`.
* `FailsUnderOwnId` says that a register fails only under the id 0, which its error
  path removes whatever id `idr_alloc` gave. Without it the id of another module
  is removed, and `WorkflowsInMemory` is false: run `hooks_wrong_id`. It is an
  assumption on the behaviour and not on the constants, so that modules that
  come, go and fail are covered up to the first such step; `FailsOnlyUnderOwnId`
  shows that the instance of run `hooks` never takes it; `hooks_fail` has the
  behaviours in which registers do fail, short of it.
  `HookManagerProofs`, all that does not depend on ids, does without it.

### Ring buffer

None of the three safety properties is inductive. That a producer
does not overwrite a live record follows from the room it found, but it found
it with a `consumer_pos` that is old: `ProdOK` says its copy is never ahead of
the real one, so that the real room is at least as large, and that the room
stays until the record is counted, because the lock is held (`LockInv`) and
the agent only makes more. That positions modulo the size of the ring
do not collide follows from records lying one after the other (`LogInv`) within
less than one turn of the ring (`NoOverrun`). That what the agent reads is a
whole record follows from `consumer_pos` being the start of the first record
not acknowledged (`ConsInv`), from the agent's locals (`AgentInv`), and from the
header being busy while, and only while, one producer writes (`OwnerInv`,
`LiveRecordsIntact`). `IndInv` in `RingBufferInv` is the conjunction of these;
it relies on `TypeOK` and `OneConsumer`, which are invariants on their own.
`RingBufferSafety` has one lemma per group of actions and one step per
conjunct that an action can disturb; arithmetic on positions (two words less
than a ring apart have different indices) is stated once as lemmas. The
refinement then needs one step per action: each is a step of `ReportChannel`
or leaves the four mapped variables alone.

`WakeupsNotLost` has an invariant of its own (`WakeInv`), which holds with
reordered loads and mismatched sizes: an agent that checks or sleeps is on the
wait queue (`PollInv`), and one that sleeps while there is data does so in front of a
record whose producer has yet to notify (`FirstWakes`), because it fell asleep
when `consumer_pos` was `producer_pos` and the first record that came since starts
there. That producer therefore wakes it by either policy of `ringbuf_commit`. The
assumption on the flags excludes `BPF_RB_NO_WAKEUP`, which nothing passes;
`secDetector_report` passes the forced one.

### Module manager and hook unit

`HookInd` has two halves. `HookInv` says who may do what: the one module at a
critical step holds `g_hook_list_array_mutex`, or the one work item that walks
(`MutexInv`); the nodes on a list form a ring of one hook (`Rings`); a reader stands
on a linked node or on the one that has been taken off, and then the grace
period waits for it (`StandInv`, `RingInv`); kprobes and timers match their lists
except for the hook that the holder works on (`MatchInv`, `HandlerInv`, `TimerInv`).
From this `HooksMatchLists`, `HandlersHaveProbe` and `TimersInMemory` follow.
`OrderInv` is what `NoWorkflowMissed` needs: lists are only added to at the head,
hence there are ranks that fall along every list, and what a traversal still owes
has a lower rank than where it stands. The ranks are not part of the state: each
step that links a workflow gives it a rank above all others (the bound `k`), so
that the invariant is an existential one.

`SafeInd` adds the modules: the idr has a module under its id, and no
other under it, from `idr_alloc` to `idr_remove` (`IdInv`); a module links and
unlinks its workflows in the order of its array (`BareInv`), so that nothing is
linked once it is out; its proc entry and its place in the module list are there
only in between (`ListedInv`). A workflow that somebody stands on is then one of a
module that is still there.

### Publish/subscribe server

The table may be one of infinitely many clients' entries but is finite, and its
cardinality is the count (`TableInv`): the limit is checked and the entry added
under one lock, and every deletion tests for the entry. `EntryInv` says whose an
entry is: its handler is serving, or has returned after `killed`. `MutexInv` and
`PublishInv` say what holds of `pTodo` while Publish writes with the lock held,
`DealtInv` that whoever is in the table and no longer in `pTodo` has the message,
and `ClientInv` that a client neither reads nor unsubscribes before its call is
answered and has no entry after its UnSubscribe. The refinement is one lemma per
group of actions: a step of a client's call is a join or a departure of
`Subscription`, a Write a deal, `StopServer` its end, and the rest leaves the
mapped variables alone (`Invisible`).

### The five units

* Core (`CoreInd`): a record is in the fifo once or in one task's hands
  (`OwnerInv`, `HoldInv`); what is set up is a function of the step that the driver is at
  (`DriverInv`); nobody is in the log without its file (`QuietInv`); a writer that
  no other task raced finds the room it saw (`RoomInv`).
* Preset workflow: `HeapInv` names, for each step, all that may be allocated.
  `ExactInv` says of a comparison at position `pos` that the values before it are
  those of this measure, those behind it of the last, and that the entries are the
  changes so far; `[]ReportsExact` follows, as long as no collector has failed.
* Loaders: `TableInv`: the first `progcnt` entries of the table are the links, each once,
  and they are all programs minus those that the first `call` calls have taken
  away. `PidInv` and `EventsInv` carry the agent's pid and the topic from the mask
  to what is published, `TextsInv` the record's fields from the program to the text.
* argv and envp: `ArgvLoop` and the reference `Joined` are functions over the number
  of strings; the buffer after each is what the text so far is, cut to the buffer
  (`SameSoFar`), and does not change once `MaxArgs` are copied (`FirstFacts`).
* Monitor: the file is a beginning of one sample's parts and the whole of it
  unless it is being written, was left or was cut (`FileInv`), and what a reader
  nobody raced has is a beginning of the file (`ReadInv`). `SampleInv` holds the
  sample to the two readings it was computed from; what the loops compute is
  then shown loop by loop: `Struck` (logins struck off connections leave, per
  address, the excess), `Upto` (occurrences so far) and `Sums`.
* Cases: what a handler holds is bounded by the step that it is at, whoever comes to its
  paths has an fs_struct, and at a put the path is held (`HandlersInv`); the
  same for the work's buffers (`WorkInv`). `ListInv` says that the list is the modules
  found so far in reverse, and the text `Fitting` of it; that the names that fit are
  a subsequence, and all if all fit, is shown along the loop (`Composed`).

`SumOfUnits` shows that a behaviour of `MCUnits` is one of each unit, stuttering
where another moves; `UnitsTypeCorrect` and `UnitsSafe` carry the theorems over.

### How the loops are proved

The library's induction theorems have an operator as parameter, which the
provers here cannot instantiate. `ProbesProofs` therefore has the same facts for
sets and functions: `LeastNatural` (a set of naturals that is not empty has a least
member, from the well-foundedness of strict inclusion among finite sets),
`InductionUpTo` (a set with 0 that is closed under successor up to n contains `0 .. n`),
and `Recursion` (a recursive function on `0 .. n` exists, and takes the values
its recursion says), and `UnitsProofs` uses them. No result is assumed: each of these lemmas
is proved.

### Only model-checked

* Liveness: `AcceptedIsHanded`, `ModulesReturn`, `UnsubReturns`, `SlotFreed`,
  `AgentStops`, `LogReopens`, `BaselineUnloads`. The prover has neither fairness's
  ENABLED nor the well-founded arguments that these need.
* The four findings, which are single counterexamples.

## 7. Not modelled

* Parsing, formatting and copying without state of its own: `/proc` and command
  output in the monitor, the fields' values in the eBPF programs and texts,
  process and time information in the kernel.
* `fileinfo.cpp` (reports counts of file descriptors as `/proc` has them), the
  vendored JSON library `json11`, generated and auxiliary code.
* `collect_time` and the comparison of values that are regions of memory: no
  built case collects such.
* The response that kills a process and the tracepoint and LSM hooks: no built
  case uses them. Case modules that `cases/Makefile` does not build.
* The permission checks of the ring's mmap, and the parsing of the agent's
  options.
* Examples, example client and test modules.
