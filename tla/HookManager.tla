---------------------------- MODULE HookManager ----------------------------
(***************************************************************************)
(* The framework core of the kernel driver: case modules register their    *)
(* workflows (secDetector_manager.c), which are linked on the list of a     *)
(* kprobe or of a timer (hook_unit), and are run by the handlers of the     *)
(* kprobes, under RCU, and by the work items of the timers, under the same  *)
(* mutex as registration.  rmmod frees a module's workflows, so everything  *)
(* here is about who may still be looking at them.                          *)
(*                                                                          *)
(* A workflow is <<m, i>>, the i-th of module m.  Lists are circular and    *)
(* doubly linked, as in the kernel, with the hook as the head.  The enabled *)
(* flags are left out: no code ever clears them.                            *)
(***************************************************************************)
EXTENDS Naturals, Sequences, FiniteSets

CONSTANTS
  Modules,      \* case modules
  Kprobes,      \* kprobe hooks
  Timers,       \* timer hooks, one for each interval
  OtherHooks,   \* hook types that no entry of hook_list_funcs covers (LSM)
  Workflows,    \* Workflows[m]: the hooks of m's workflow_array, in order
  Params,       \* modules with a proc parameter
  TriesMutex,   \* modules whose timer callback trylocks the case mutex
  Cpus,         \* contexts in which a probed function is called
  Unavailable,  \* hooks (and "proc") whose first allocation may fail
  MaxLoads,     \* bound: number of times a module is loaded
  None

Hooks == Kprobes \cup Timers
Contexts == Cpus \cup Timers  \* the work item of a timer is named after it
Flows == UNION {{<<m, i>> : i \in DOMAIN Workflows[m]} : m \in Modules}
HookOf(w) == Workflows[w[1]][w[2]]

ASSUME ConstantsAssumption ==
  /\ Workflows \in [Modules -> Seq(Kprobes \cup Timers \cup OtherHooks)]
  /\ Params \subseteq Modules /\ TriesMutex \subseteq Modules
  /\ MaxLoads \in Nat
  \* the kinds of thing that a mutex, a list or a context refers to are apart
  /\ Kprobes \cap Timers = {} /\ Cpus \cap Timers = {} /\ Modules \cap Timers = {}
  /\ Flows \cap Hooks = {}
  /\ None \notin Modules \cup Contexts \cup Hooks \cup Flows

VARIABLES
  mpc, cur, newid, id,   \* per module: step, workflow index, module_id, ->id
  entry, mlist,          \* proc entries, secDetector_module_list
  idr, mutex, casemutex, \* g_module_idr, g_hook_list_array_mutex, case mutexes
  next, prev,            \* list pointers of workflows and of list heads
  probe,                 \* kprobes that are registered
  alive, armed, firing, pending, running, \* timers and their work items
  at,                    \* node a context stands on in its traversal, or None
  owed,                  \* history: workflows the traversal has yet to run
  gp,                    \* readers the current synchronize_rcu waits for
  loads

modVars == <<mpc, cur, newid, id, entry, mlist, idr, casemutex, loads>>
listVars == <<next, prev>>
timerVars == <<alive, armed, firing, pending, running>>
walkVars == <<at, owed>>
vars == <<modVars, mutex, listVars, probe, timerVars, walkVars, gp>>

Init ==
  /\ mpc = [m \in Modules |-> "out"]
  /\ cur = [m \in Modules |-> 0]
  /\ newid = [m \in Modules |-> 0]
  /\ id = [m \in Modules |-> 0]
  /\ entry = {} /\ mlist = {}
  /\ idr = [i \in 0 .. (MaxLoads - 1) |-> None]
  /\ mutex = None
  /\ casemutex = [m \in Modules |-> None]
  /\ next = [n \in Flows \cup Hooks |-> n]
  /\ prev = [n \in Flows \cup Hooks |-> IF n \in Hooks THEN n ELSE None]
  /\ probe = {}
  /\ alive = {} /\ armed = {} /\ firing = {} /\ pending = {} /\ running = {}
  /\ at = [c \in Contexts |-> None]
  /\ owed = [c \in Contexts |-> {}]
  /\ gp = {}
  /\ loads = 0

----------------------------------------------------------------------------
(* Lists and grace periods.                                                 *)

\* Mutant: exists looks at the first workflow alone.
LinkedFirst(w) == next[HookOf(w)] = w

\* What the exists operations look for: the workflow is on its hook's list.
Linked(w) == prev[w] # None

Empty(h) == next[h] = h

\* list_add_rcu: new workflows go right behind the head.
ListAdd(w, h) ==
  /\ next' = [next EXCEPT ![w] = next[h], ![h] = w]
  /\ prev' = [prev EXCEPT ![w] = h, ![next[h]] = w]

\* list_del_rcu: the workflow keeps its next pointer, for readers on it.
ListDel(w) ==
  /\ next' = [next EXCEPT ![prev[w]] = next[w]]
  /\ prev' = [prev EXCEPT ![next[w]] = prev[w], ![w] = None]
  /\ owed' = [c \in Contexts |-> owed[c] \ {w}]

\* A traversal starts at the head of h, comes to node n, or ends there.
OnList(h) == {w \in Flows : HookOf(w) = h /\ Linked(w)}
Enter(c, h) ==
  /\ at' = [at EXCEPT ![c] = h]
  /\ owed' = [owed EXCEPT ![c] = OnList(h)]
Visit(c, n) ==
  /\ at' = [at EXCEPT ![c] = IF n \in Hooks THEN None ELSE n]
  /\ owed' = [owed EXCEPT ![c] = IF n \in Hooks THEN {} ELSE @ \ {n}]

\* Handlers that are in their read-side section now.
Readers == {c \in Cpus : at[c] # None}

\* synchronize_rcu begins; it returns once gp is empty.
StartGrace == gp' = Readers

----------------------------------------------------------------------------
(* secDetector_module_register, called by module_init.                      *)

Flow(m) == <<m, cur[m]>>
Done(m) == cur[m] > Len(Workflows[m])
Goto(m, step) == mpc' = [mpc EXCEPT ![m] = step]
NextFlow(m) == cur' = [cur EXCEPT ![m] = @ + 1]

\* insmod: the module's data are fresh, and idr_alloc takes the lowest free id
\* before the mutex is locked.
Load(m) ==
  /\ mpc[m] = "out" /\ loads < MaxLoads
  /\ \E i \in DOMAIN idr :
       /\ idr[i] = None /\ \A j \in DOMAIN idr : j < i => idr[j] # None
       /\ idr' = [idr EXCEPT ![i] = m]
       /\ newid' = [newid EXCEPT ![m] = i]
  /\ id' = [id EXCEPT ![m] = 0]
  /\ loads' = loads + 1
  /\ Goto(m, "lock")
  /\ UNCHANGED <<cur, entry, mlist, casemutex, mutex, listVars, probe, timerVars,
                 walkVars, gp>>

RegisterLock(m) ==
  /\ mpc[m] = "lock" /\ mutex = None
  /\ mutex' = m
  /\ cur' = [cur EXCEPT ![m] = 1]
  /\ Goto(m, "insert")
  /\ UNCHANGED <<newid, id, entry, mlist, idr, casemutex, loads, listVars, probe,
                 timerVars, walkVars, gp>>

\* Mutant: register_kprobe is not called for the first workflow.
NeedsHookTimers(h) == h \in Timers \ alive

\* The hook has no kprobe or no timer yet: this workflow is its first.
NeedsHook(h) == (h \in Kprobes /\ Empty(h)) \/ (h \in Timers \ alive)

\* insert_callback, first workflow of a kprobe: register_kprobe, with the
\* list still empty.
Arm(m) ==
  /\ mpc[m] = "insert" /\ ~Done(m) /\ ~Linked(Flow(m))
  /\ HookOf(Flow(m)) \in Kprobes /\ NeedsHook(HookOf(Flow(m)))
  /\ probe' = probe \cup {HookOf(Flow(m))}
  /\ Goto(m, "link")
  /\ UNCHANGED <<cur, newid, id, entry, mlist, idr, casemutex, loads, mutex,
                 listVars, timerVars, walkVars, gp>>

\* Mutant: the first workflow of any hook gets a timer.
TimerOfAny(h) == {h}

\* The timer a hook stands for, if it does.
TimerOf(h) == {h} \cap Timers

\* The workflow goes on the list.  The first of a timer creates the timer and
\* starts it last, so that nobody sees the steps before.
Link(m) ==
  /\ \/ mpc[m] = "link"
     \/ /\ mpc[m] = "insert" /\ ~Done(m) /\ ~Linked(Flow(m))
        /\ HookOf(Flow(m)) \in Hooks
        /\ HookOf(Flow(m)) \in Kprobes => ~NeedsHook(HookOf(Flow(m)))
  /\ LET h == HookOf(Flow(m)) IN
       /\ ListAdd(Flow(m), h)
       /\ alive' = alive \cup TimerOf(h)
       /\ armed' = armed \cup (TimerOf(h) \ alive)
  /\ NextFlow(m)
  /\ Goto(m, "insert")
  /\ UNCHANGED <<newid, id, entry, mlist, idr, casemutex, loads, mutex, probe,
                 firing, pending, running, walkVars, gp>>

\* Mutant: module->id is not assigned.
RegisteredNoId(m) ==
  /\ mpc[m] = "insert" /\ Done(m)
  /\ entry' = entry \cup ({m} \cap Params)
  /\ mlist' = mlist \cup {m}
  /\ mutex' = None
  /\ Goto(m, "live")
  /\ UNCHANGED <<cur, newid, id, idr, casemutex, loads, listVars, probe, timerVars,
                 walkVars, gp>>

\* The proc entry, the id and the module list.
Registered(m) ==
  /\ mpc[m] = "insert" /\ Done(m)
  /\ entry' = entry \cup ({m} \cap Params)
  /\ id' = [id EXCEPT ![m] = newid[m]]
  /\ mlist' = mlist \cup {m}
  /\ mutex' = None
  /\ Goto(m, "live")
  /\ UNCHANGED <<cur, newid, idr, casemutex, loads, listVars, probe, timerVars,
                 walkVars, gp>>

\* insert_callback or proc_create_data fails.
InsertFails(m) ==
  IF Done(m)
    THEN m \in Params /\ "proc" \in Unavailable
    ELSE LET h == HookOf(Flow(m)) IN
           \/ h \in OtherHooks \/ Linked(Flow(m))
           \/ h \in Unavailable /\ NeedsHook(h)

\* Mutant: the error path only unlocks.
RegisterFailsBare(m) ==
  /\ mpc[m] = "insert" /\ InsertFails(m)
  /\ mutex' = None
  /\ Goto(m, "out")
  /\ UNCHANGED <<cur, newid, id, entry, mlist, idr, casemutex, loads, listVars,
                 probe, timerVars, walkVars, gp>>

\* A failed register unlocks, and unregisters what is half registered.
RegisterFails(m) ==
  /\ mpc[m] = "insert" /\ InsertFails(m)
  /\ mutex' = None
  /\ Goto(m, "unlock")
  /\ UNCHANGED <<cur, newid, id, entry, mlist, idr, casemutex, loads, listVars,
                 probe, timerVars, walkVars, gp>>

----------------------------------------------------------------------------
(* secDetector_module_unregister, called by module_exit or on failure.      *)

\* rmmod.
Unload(m) ==
  /\ mpc[m] = "live"
  /\ Goto(m, "case")
  /\ UNCHANGED <<cur, newid, id, entry, mlist, idr, casemutex, loads, mutex,
                 listVars, probe, timerVars, walkVars, gp>>

\* module_exit locks the mutex of its case; then proc_remove.
CaseLock(m) ==
  /\ mpc[m] = "case" /\ casemutex[m] = None
  /\ casemutex' = [casemutex EXCEPT ![m] = m]
  /\ entry' = entry \ {m}
  /\ Goto(m, "unlock")
  /\ UNCHANGED <<cur, newid, id, mlist, idr, loads, mutex, listVars, probe,
                 timerVars, walkVars, gp>>

\* Lock and idr_remove(module->id): if there is nothing under that id, no
\* workflow is deleted.
UnregisterLock(m) ==
  /\ mpc[m] = "unlock" /\ mutex = None
  /\ mutex' = m
  /\ idr' = [idr EXCEPT ![id[m]] = None]
  /\ cur' = [cur EXCEPT ![m] = IF idr[id[m]] = None THEN Len(Workflows[m]) + 1 ELSE 1]
  /\ Goto(m, "delete")
  /\ UNCHANGED <<newid, id, entry, mlist, casemutex, loads, listVars, probe,
                 timerVars, walkVars, gp>>

\* delete_callback of a workflow that is not linked does nothing.
SkipUnlinked(m) ==
  /\ mpc[m] = "delete" /\ ~Done(m)
  /\ ~Linked(Flow(m))
  /\ NextFlow(m)
  /\ UNCHANGED <<mpc, newid, id, entry, mlist, idr, casemutex, loads, mutex,
                 listVars, probe, timerVars, walkVars, gp>>

\* Mutant: the pointers of the removed workflow are reset to an empty list's.
UnlinkInit(m) ==
  /\ mpc[m] = "delete" /\ ~Done(m)
  /\ Linked(Flow(m))
  /\ LET w == Flow(m) IN
       /\ next' = [next EXCEPT ![prev[w]] = next[w], ![w] = HookOf(w)]
       /\ prev' = [prev EXCEPT ![next[w]] = prev[w], ![w] = None]
       /\ owed' = [c \in Contexts |-> owed[c] \ {w}]
  /\ StartGrace
  /\ Goto(m, "grace")
  /\ UNCHANGED <<cur, newid, id, entry, mlist, idr, casemutex, loads, mutex,
                 probe, timerVars, at>>

\* delete_callback: list_del_rcu and synchronize_rcu ...
Unlink(m) ==
  /\ mpc[m] = "delete" /\ ~Done(m)
  /\ Linked(Flow(m))
  /\ ListDel(Flow(m))
  /\ StartGrace
  /\ Goto(m, "grace")
  /\ UNCHANGED <<cur, newid, id, entry, mlist, idr, casemutex, loads, mutex,
                 probe, timerVars, at>>

\* ... that is all if the list has other workflows ...
Unlinked(m) ==
  /\ mpc[m] = "grace" /\ gp = {}
  /\ ~Empty(HookOf(Flow(m)))
  /\ NextFlow(m)
  /\ Goto(m, "delete")
  /\ UNCHANGED <<newid, id, entry, mlist, idr, casemutex, loads, mutex, listVars,
                 probe, timerVars, walkVars, gp>>

\* Mutant: the struct is cleared without waiting for its handlers.
DisarmAtOnce(m) ==
  /\ mpc[m] = "grace" /\ gp = {}
  /\ HookOf(Flow(m)) \in Kprobes /\ Empty(HookOf(Flow(m)))
  /\ probe' = probe \ {HookOf(Flow(m))}
  /\ NextFlow(m)
  /\ Goto(m, "delete")
  /\ UNCHANGED <<newid, id, entry, mlist, idr, casemutex, loads, mutex, listVars,
                 timerVars, walkVars, gp>>

\* ... else unregister_kprobe, which waits for the handlers that run, after
\* which the struct kprobe is cleared ...
Disarm(m) ==
  /\ mpc[m] = "grace" /\ gp = {}
  /\ HookOf(Flow(m)) \in Kprobes /\ Empty(HookOf(Flow(m)))
  /\ probe' = probe \ {HookOf(Flow(m))}
  /\ StartGrace
  /\ Goto(m, "disarm")
  /\ UNCHANGED <<cur, newid, id, entry, mlist, idr, casemutex, loads, mutex,
                 listVars, timerVars, walkVars>>

Disarmed(m) ==
  /\ mpc[m] = "disarm" /\ gp = {}
  /\ NextFlow(m)
  /\ Goto(m, "delete")
  /\ UNCHANGED <<newid, id, entry, mlist, idr, casemutex, loads, mutex, listVars,
                 probe, timerVars, walkVars, gp>>

\* ... or del_timer_sync, which waits for the timer's function ...
DelTimer(m) ==
  /\ mpc[m] = "grace" /\ gp = {}
  /\ HookOf(Flow(m)) \in Timers /\ Empty(HookOf(Flow(m)))
  /\ HookOf(Flow(m)) \notin firing
  /\ armed' = armed \ {HookOf(Flow(m))}
  /\ Goto(m, "cancel")
  /\ UNCHANGED <<cur, newid, id, entry, mlist, idr, casemutex, loads, mutex,
                 listVars, probe, alive, firing, pending, running, walkVars, gp>>

\* Mutant: cancel_work, which does not wait.
CancelWorkNoWait(m) ==
  /\ mpc[m] = "cancel"
  /\ pending' = pending \ {HookOf(Flow(m))}
  /\ alive' = alive \ {HookOf(Flow(m))}
  /\ NextFlow(m)
  /\ Goto(m, "delete")
  /\ UNCHANGED <<newid, id, entry, mlist, idr, casemutex, loads, mutex, listVars,
                 probe, armed, firing, running, walkVars, gp>>

\* ... and cancel_work_sync, which waits for the work item; the timer is freed.
CancelWork(m) ==
  /\ mpc[m] = "cancel" /\ HookOf(Flow(m)) \notin running
  /\ pending' = pending \ {HookOf(Flow(m))}
  /\ alive' = alive \ {HookOf(Flow(m))}
  /\ NextFlow(m)
  /\ Goto(m, "delete")
  /\ UNCHANGED <<newid, id, entry, mlist, idr, casemutex, loads, mutex, listVars,
                 probe, armed, firing, running, walkVars, gp>>

\* The module leaves the module list, then a last synchronize_rcu.
Leave(m) ==
  /\ mpc[m] = "delete" /\ Done(m)
  /\ mlist' = mlist \ {m}
  /\ StartGrace
  /\ Goto(m, "leave")
  /\ UNCHANGED <<cur, newid, id, entry, idr, casemutex, loads, mutex, listVars,
                 probe, timerVars, walkVars>>

\* Unlock everything; the kernel frees the module.
Unregistered(m) ==
  /\ mpc[m] = "leave" /\ gp = {}
  /\ mutex' = None
  /\ casemutex' = [casemutex EXCEPT ![m] = IF @ = m THEN None ELSE @]
  /\ Goto(m, "out")
  /\ UNCHANGED <<cur, newid, id, entry, mlist, idr, loads, listVars, probe,
                 timerVars, walkVars, gp>>

----------------------------------------------------------------------------
(* Handlers and work items.                                                 *)

\* A probed function is called: the handler enters its read-side section.
Hit(c, h) ==
  /\ at[c] = None /\ h \in probe
  /\ Enter(c, h)
  /\ UNCHANGED <<modVars, mutex, listVars, probe, timerVars, gp>>

\* It runs the next workflow of the list, or leaves at the list head.
Walk(c) ==
  /\ at[c] # None
  /\ Visit(c, next[at[c]])
  /\ gp' = IF next[at[c]] \in Hooks THEN gp \ {c} ELSE gp
  /\ UNCHANGED <<modVars, mutex, listVars, probe, timerVars>>

\* The timer's function queues the work (once, if it is pending already) ...
Fire(t) ==
  /\ t \in armed
  /\ armed' = armed \ {t}
  /\ firing' = firing \cup {t}
  /\ pending' = pending \cup {t}
  /\ UNCHANGED <<modVars, mutex, listVars, probe, alive, running, walkVars, gp>>

\* ... and starts the timer again.
Rearm(t) ==
  /\ t \in firing
  /\ firing' = firing \ {t}
  /\ armed' = armed \cup {t}
  /\ UNCHANGED <<modVars, mutex, listVars, probe, alive, pending, running, walkVars, gp>>

\* A worker takes the work item up; it does not run twice at a time.
WorkStarts(t) ==
  /\ t \in pending \ running
  /\ pending' = pending \ {t}
  /\ running' = running \cup {t}
  /\ UNCHANGED <<modVars, mutex, listVars, probe, alive, armed, firing, walkVars, gp>>

\* do_timer_work only tries the mutex: whoever unregisters holds it while it
\* waits for this work item.
WorkLocks(t) ==
  /\ t \in running /\ at[t] = None /\ mutex = None
  /\ mutex' = t
  /\ Enter(t, t)
  /\ UNCHANGED <<modVars, listVars, probe, timerVars, gp>>

\* Mutant: mutex_lock instead of mutex_trylock.
WorkBlocks(t) == FALSE

WorkSkips(t) ==
  /\ t \in running /\ at[t] = None /\ mutex # None
  /\ running' = running \ {t}
  /\ UNCHANGED <<modVars, mutex, listVars, probe, alive, armed, firing, pending,
                 walkVars, gp>>

\* Who holds the case mutexes once the callback at node "from" has returned
\* and the one at node n runs: check_watching_kmodule only tries the mutex.
CaseMutexAt(t, n) ==
  [m \in Modules |->
    IF n \in Flows /\ n[1] = m /\ m \in TriesMutex /\ casemutex[m] \in {None, t}
      THEN t
      ELSE IF casemutex[m] = t THEN None ELSE casemutex[m]]

\* The callback of the next workflow runs, or the work item is done.
WorkWalks(t) ==
  /\ at[t] # None
  /\ LET n == next[at[t]] IN
       /\ Visit(t, n)
       /\ casemutex' = CaseMutexAt(t, n)
       /\ IF n \in Hooks
            THEN mutex' = None /\ running' = running \ {t}
            ELSE UNCHANGED <<mutex, running>>
  /\ UNCHANGED <<mpc, cur, newid, id, entry, mlist, idr, loads, listVars, probe,
                 alive, armed, firing, pending, gp>>

----------------------------------------------------------------------------
Register(m) ==
  RegisterLock(m) \/ Arm(m) \/ Link(m) \/ Registered(m) \/ RegisterFails(m)

Unregister(m) ==
  \/ CaseLock(m) \/ UnregisterLock(m) \/ SkipUnlinked(m) \/ Unlink(m)
  \/ Unlinked(m) \/ Disarm(m) \/ Disarmed(m) \/ DelTimer(m) \/ CancelWork(m)
  \/ Leave(m) \/ Unregistered(m)

Work(t) == WorkStarts(t) \/ WorkLocks(t) \/ WorkSkips(t) \/ WorkWalks(t)

Next ==
  \/ \E m \in Modules : Load(m) \/ Unload(m) \/ Register(m) \/ Unregister(m)
  \/ \E c \in Cpus : Walk(c) \/ \E h \in Kprobes : Hit(c, h)
  \/ \E t \in Timers : Fire(t) \/ Rearm(t) \/ Work(t)

Spec == Init /\ [][Next]_vars

\* Handlers, timer functions and work items run to their end, and so does a
\* module's init or exit.  The locks are taken strongly fairly: the mutexes
\* of the kernel are handed to their longest waiter.  So is del_timer_sync,
\* which retries against a timer that fires once in seconds.
Fairness ==
  /\ \A m \in Modules :
       /\ WF_vars(Register(m) \/ Unregister(m))
       /\ SF_vars(RegisterLock(m) \/ UnregisterLock(m))
       /\ SF_vars(CaseLock(m)) /\ SF_vars(DelTimer(m))
  /\ \A c \in Cpus : WF_vars(Walk(c))
  /\ \A t \in Timers : WF_vars(Rearm(t)) /\ WF_vars(Work(t))

FairSpec == Spec /\ Fairness

----------------------------------------------------------------------------
(* Properties.                                                              *)

Nodes == Flows \cup Hooks

TypeOK ==
  /\ mpc \in [Modules -> {"out", "lock", "insert", "link", "live", "case", "unlock",
                          "delete", "grace", "disarm", "cancel", "leave"}]
  /\ cur \in [Modules -> Nat]
  /\ newid \in [Modules -> Nat] /\ id \in [Modules -> Nat]
  /\ entry \subseteq Modules /\ mlist \subseteq Modules
  /\ idr \in [0 .. (MaxLoads - 1) -> Modules \cup {None}]
  /\ mutex \in Modules \cup Timers \cup {None}
  /\ casemutex \in [Modules -> Modules \cup Timers \cup {None}]
  /\ next \in [Nodes -> Nodes]
  /\ prev \in [Nodes -> Nodes \cup {None}]
  /\ probe \subseteq Kprobes
  /\ alive \subseteq Timers /\ armed \subseteq Timers /\ firing \subseteq Timers
  /\ pending \subseteq Timers /\ running \subseteq Timers
  /\ at \in [Contexts -> Nodes \cup {None}]
  /\ owed \in [Contexts -> SUBSET Flows]
  /\ gp \subseteq Cpus
  /\ loads \in Nat

\* No handler and no work item runs, or stands on the list node of, a workflow
\* whose module the kernel has freed.
WorkflowsInMemory ==
  \A c \in Contexts : at[c] \in Flows => mpc[at[c][1]] # "out"

\* A freed timer is not pending, its function does not run, and its work item
\* is neither queued nor running.
TimersInMemory == armed \cup firing \cup pending \cup running \subseteq alive

\* The struct of a kprobe is not cleared, or registered again, under a handler.
HookAt(c) == IF at[c] \in Hooks THEN at[c] ELSE HookOf(at[c])
HandlersHaveProbe ==
  \A c \in Readers :
    \/ HookAt(c) \in probe
    \/ \E m \in Modules : mpc[m] = "disarm" /\ HookOf(Flow(m)) = HookAt(c)

\* Between operations a kprobe is registered, and a timer exists, exactly while
\* a workflow needs it.
HooksMatchLists ==
  mutex \notin Modules =>
    /\ \A h \in Kprobes : h \in probe <=> ~Empty(h)
    /\ \A t \in Timers : t \in alive <=> ~Empty(t)

\* Unregistering, also after a failed register, takes back all that a module
\* registered: when it is freed nothing of the framework refers to it.
NothingLeftBehind ==
  \A m \in Modules : mpc[m] = "out" =>
    /\ m \notin mlist /\ m \notin entry
    /\ \A i \in DOMAIN idr : idr[i] # m
    /\ \A w \in Flows : w[1] = m => ~Linked(w)

\* The id of a registered module is its own, so that unregistering finds it,
\* whatever other modules register, and fail to, as long as none fails under an
\* id other than 0: unregistering then takes back module->id, which is still 0,
\* and with it the id of whoever has that.
RegisteredKeepId ==
  \A m \in mlist : mpc[m] \in {"live", "case"} => idr[id[m]] = m

\* A traversal runs every workflow that was on the list all along: one module
\* that comes or goes never hides another's from a handler or a timer.
NoWorkflowMissed ==
  [][\A c \in Contexts :
       at[c] # None /\ at'[c] = None => owed[c] = {}]_vars

\* insmod and rmmod return: no deadlock between the mutexes, the grace
\* periods, and the waits for the timer and for its work item.
ModulesReturn ==
  \A m \in Modules :
    /\ mpc[m] = "case" ~> mpc[m] = "out"
    /\ mpc[m] = "lock" ~> mpc[m] \in {"live", "out"}
=============================================================================
