------------------------- MODULE HookManagerProofs -------------------------
(***************************************************************************)
(* TLAPS proofs about registration, hooks and timers, for any modules,      *)
(* workflows, hooks and contexts, and whatever fails: types, timers that    *)
(* are freed only when nothing of them is left, kprobes and timers that     *)
(* match their lists, handlers that keep their kprobe, and traversals that  *)
(* miss no workflow.                                                        *)
(***************************************************************************)
EXTENDS HookManager, TLAPS

----------------------------------------------------------------------------
(* The inductive invariant.                                                 *)

\* The steps under g_hook_list_array_mutex.
Critical == {"insert", "link", "delete", "grace", "disarm", "cancel", "leave"}
MutexInv ==
  /\ \A m \in Modules : mpc[m] \in Critical <=> mutex = m
  /\ \A t \in Timers : at[t] # None <=> mutex = t

\* A module works on one of its workflows, whose hook is of the kind of the step.
FlowInv ==
  \A m \in Modules :
    /\ mpc[m] \in {"insert", "delete"} => cur[m] \in Nat \ {0}
    /\ mpc[m] \in {"link", "grace", "disarm", "cancel"} => Flow(m) \in Flows
    /\ mpc[m] \in {"link", "disarm"} => HookOf(Flow(m)) \in Kprobes
    /\ mpc[m] = "cancel" => HookOf(Flow(m)) \in Timers
    /\ mpc[m] = "grace" => HookOf(Flow(m)) \in Hooks

\* The hook a node belongs to: a head is its own.
Home(n) == IF n \in Hooks THEN n ELSE HookOf(n)

\* The nodes on lists form rings that pass through nodes of one hook; a
\* workflow whose readers are waited for still leads back into its ring.
Rings ==
  /\ \A h \in Hooks : Linked(h)
  /\ \A n \in Nodes : Linked(n) =>
       /\ Linked(next[n]) /\ prev[next[n]] = n
       /\ Linked(prev[n]) /\ next[prev[n]] = n
       /\ Home(next[n]) = Home(n) /\ Home(n) \in Hooks
RingInv ==
  /\ Rings
  /\ \A m \in Modules : mpc[m] = "grace" =>
       Linked(next[Flow(m)]) /\ Home(next[Flow(m)]) = HookOf(Flow(m))

\* A context stands on a node of a list, or on the one workflow that has been
\* taken off while the grace period waits for this context.
StandInv ==
  \A c \in Contexts : at[c] # None =>
    \/ Linked(at[c])
    \/ \E m \in Modules : mpc[m] = "grace" /\ at[c] = Flow(m) /\ c \in gp

\* A kprobe is registered, and a timer exists, as its list requires, but for
\* the hook that the module with the mutex works on.
MatchInv ==
  /\ \A h \in Kprobes :
       \/ h \in probe <=> ~Empty(h)
       \/ h \in probe /\ \E m \in Modules :
                           mpc[m] \in {"link", "grace"} /\ HookOf(Flow(m)) = h
  /\ \A t \in Timers :
       \/ t \in alive <=> ~Empty(t)
       \/ t \in alive /\ \E m \in Modules :
                           mpc[m] \in {"grace", "cancel"} /\ HookOf(Flow(m)) = t
  /\ \A m \in Modules :
       /\ mpc[m] = "link" => HookOf(Flow(m)) \in probe /\ ~Linked(Flow(m))
       /\ mpc[m] \in {"disarm", "cancel"} => Empty(HookOf(Flow(m)))

\* A handler's kprobe is registered, or its removal waits for this handler.
HandlerInv ==
  \A c \in Cpus : at[c] # None =>
    \/ Home(at[c]) \in probe
    \/ \E m \in Modules : mpc[m] = "disarm" /\ HookOf(Flow(m)) = Home(at[c]) /\ c \in gp

\* A timer that is about to be freed cannot start again.
TimerInv ==
  /\ TimersInMemory
  /\ \A m \in Modules : mpc[m] = "cancel" => HookOf(Flow(m)) \notin armed \cup firing

HookInv ==
  /\ TypeOK /\ MutexInv /\ FlowInv /\ RingInv /\ StandInv /\ MatchInv /\ HandlerInv
  /\ TimerInv

\* Workflows are always added behind the head: there are ranks that fall along
\* every list, and from any node with someone on it the next node is never
\* behind a workflow of a lower rank.
Stood(n) == \E c \in Contexts : at[c] = n
RanksDiffer(rank) ==
  \A v, w \in Flows : Linked(v) /\ Linked(w) /\ rank[v] = rank[w] => v = w
RanksFall(rank) ==
  \A n \in Flows : Linked(n) \/ Stood(n) =>
    /\ next[n] \in Flows => rank[next[n]] < rank[n]
    /\ \A w \in Flows : Linked(w) /\ HookOf(w) = HookOf(n) /\ rank[w] < rank[n] =>
         next[n] \in Flows /\ rank[w] <= rank[next[n]]
HeadFirst(rank) ==
  \A h \in Hooks, w \in Flows : Linked(w) /\ HookOf(w) = h =>
    next[h] \in Flows /\ rank[w] <= rank[next[h]]
\* what a traversal owes lies ahead of it
OwedAhead(rank) ==
  \A c \in Contexts, w \in Flows : w \in owed[c] =>
    /\ at[c] # None /\ Linked(w) /\ HookOf(w) = Home(at[c])
    /\ at[c] \in Flows => rank[w] < rank[at[c]]
Ranked(rank) ==
  RanksDiffer(rank) /\ RanksFall(rank) /\ HeadFirst(rank) /\ OwedAhead(rank)

OrderInv ==
  \E rank \in [Flows -> Nat], k \in Nat :
    Ranked(rank) /\ \A w \in Flows : rank[w] < k

HookInd == HookInv /\ OrderInv
----------------------------------------------------------------------------
(* The steps, by what they touch.                                           *)

\* Steps of a module that leave hooks, timers and traversals alone.
Bookkeeping(m) ==
  \/ Load(m) \/ Unload(m) \/ RegisterLock(m) \/ Registered(m) \/ RegisterFails(m)
  \/ CaseLock(m) \/ UnregisterLock(m) \/ SkipUnlinked(m) \/ Leave(m) \/ Unregistered(m)

\* Steps of a timer that only move its timer and its work item along.
TimerMoves(t) == Fire(t) \/ Rearm(t) \/ WorkStarts(t) \/ WorkSkips(t)

ModuleStep(m) ==
  \/ Bookkeeping(m) \/ Arm(m) \/ Link(m) \/ Unlink(m) \/ Unlinked(m) \/ Disarm(m)
  \/ Disarmed(m) \/ DelTimer(m) \/ CancelWork(m)

LEMMA StepCases ==
  ASSUME [Next]_vars
  PROVE  \/ \E m \in Modules : ModuleStep(m)
         \/ \E c \in Cpus : Walk(c) \/ \E h \in Kprobes : Hit(c, h)
         \/ \E t \in Timers : TimerMoves(t) \/ WorkLocks(t) \/ WorkWalks(t)
         \/ UNCHANGED vars
<1>1. ASSUME NEW m \in Modules, Load(m) \/ Unload(m) \/ Register(m) \/ Unregister(m)
      PROVE  ModuleStep(m)
  BY <1>1, Zenon DEF Register, Unregister, ModuleStep, Bookkeeping
<1>2. ASSUME NEW t \in Timers, Fire(t) \/ Rearm(t) \/ Work(t)
      PROVE  TimerMoves(t) \/ WorkLocks(t) \/ WorkWalks(t)
  BY <1>2, Zenon DEF Work, TimerMoves
<1> QED BY <1>1, <1>2, Zenon DEF Next

\* The workflow a module works on is one of its own.
LEMMA FlowsOfModule ==
  ASSUME NEW m \in Modules, NEW i \in Nat \ {0}
  PROVE  /\ ~(i > Len(Workflows[m])) => <<m, i>> \in Flows
         /\ <<m, i>> \in Flows => i \in 1 .. Len(Workflows[m])
<1>1. Workflows[m] \in Seq(Kprobes \cup Timers \cup OtherHooks)
  BY ConstantsAssumption
<1>2. DOMAIN Workflows[m] = 1 .. Len(Workflows[m]) /\ Len(Workflows[m]) \in Nat
  BY <1>1
<1>3. <<m, i>> \in Flows <=> i \in DOMAIN Workflows[m]
  BY DEF Flows
<1> QED BY <1>2, <1>3

\* Nodes are workflows or heads, not both, and None is neither.
LEMMA Kinds ==
  /\ Flows \cap Hooks = {} /\ Kprobes \cap Timers = {} /\ Cpus \cap Timers = {}
  /\ Modules \cap Timers = {} /\ None \notin Modules /\ None \notin Contexts
  /\ None \notin Nodes /\ None \notin Timers /\ None \notin Cpus
  /\ Kprobes \subseteq Hooks /\ Timers \subseteq Hooks /\ Cpus \subseteq Contexts
  /\ Timers \subseteq Contexts /\ Nodes = Flows \cup Hooks /\ Hooks = Kprobes \cup Timers
  /\ Contexts = Cpus \cup Timers
BY ConstantsAssumption DEF Nodes, Hooks, Contexts

----------------------------------------------------------------------------
(* Types.                                                                   *)

LEMMA TypeInit == ASSUME Init PROVE TypeOK
<1>1. MaxLoads \in Nat
  BY ConstantsAssumption
<1> QED BY <1>1 DEF Init, TypeOK, Nodes

LEMMA BookkeepingTypes ==
  ASSUME TypeOK, NEW m \in Modules, Bookkeeping(m)
  PROVE  TypeOK'
<1> USE DEF TypeOK, modVars, listVars, timerVars, walkVars, Goto, NextFlow, StartGrace
<1>1. MaxLoads \in Nat
  BY ConstantsAssumption
<1>2. CASE Load(m) BY <1>1, <1>2 DEF Load
<1>3. CASE Unload(m) BY <1>3 DEF Unload
<1>4. CASE RegisterLock(m) BY <1>4 DEF RegisterLock
<1>5. CASE Registered(m) BY <1>5 DEF Registered
<1>6. CASE RegisterFails(m) BY <1>6 DEF RegisterFails
<1>7. CASE CaseLock(m) BY <1>7 DEF CaseLock
<1>8. CASE UnregisterLock(m)
  <2>1. Len(Workflows[m]) + 1 \in Nat
    BY ConstantsAssumption
  <2> QED BY <1>8, <2>1 DEF UnregisterLock
<1>9. CASE SkipUnlinked(m) BY <1>9 DEF SkipUnlinked
<1>10. CASE Leave(m) BY <1>10 DEF Leave, Readers
<1>11. CASE Unregistered(m) BY <1>11 DEF Unregistered
<1> QED BY <1>2, <1>3, <1>4, <1>5, <1>6, <1>7, <1>8, <1>9, <1>10, <1>11
     DEF Bookkeeping
\* The workflow that is linked or unlinked.
LEMMA FlowAtHand ==
  ASSUME TypeOK, FlowInv, NEW m \in Modules
  PROVE  /\ mpc[m] \in {"insert", "delete"} /\ ~Done(m) => Flow(m) \in Flows
         /\ Link(m) => Flow(m) \in Flows /\ HookOf(Flow(m)) \in Hooks
         /\ Unlink(m) => Flow(m) \in Flows
<1>1. mpc[m] \in {"insert", "delete"} /\ ~Done(m) => Flow(m) \in Flows
  BY FlowsOfModule DEF TypeOK, FlowInv, Flow, Done
<1>2. Link(m) => Flow(m) \in Flows /\ HookOf(Flow(m)) \in Hooks
  BY <1>1, Kinds DEF Link, FlowInv
<1> QED BY <1>1, <1>2 DEF Unlink

LEMMA TypeStep ==
  ASSUME TypeOK, FlowInv, [Next]_vars
  PROVE  TypeOK'
<1> USE Kinds DEF TypeOK, modVars, listVars, timerVars, walkVars, Goto, NextFlow,
                  StartGrace
<1>1. CASE UNCHANGED vars
  BY <1>1 DEF vars
<1>2. ASSUME NEW m \in Modules, ModuleStep(m)
      PROVE  TypeOK'
  <2>1. CASE Bookkeeping(m) BY <2>1, BookkeepingTypes
  <2>2. CASE Arm(m) BY <2>2 DEF Arm
  <2>3. CASE Link(m)
    <3>1. Flow(m) \in Nodes /\ HookOf(Flow(m)) \in Nodes
      BY <2>3, FlowAtHand
    <3>2. next' \in [Nodes -> Nodes] /\ prev' \in [Nodes -> Nodes \cup {None}]
      BY <2>3, <3>1 DEF Link, ListAdd
    <3>3. alive' \subseteq Timers /\ armed' \subseteq Timers
      BY <2>3 DEF Link, TimerOf
    <3>4. mpc' = [mpc EXCEPT ![m] = "insert"] /\ cur' = [cur EXCEPT ![m] = @ + 1]
      BY <2>3 DEF Link
    <3> QED BY <2>3, <3>2, <3>3, <3>4 DEF Link
  <2>4. CASE Unlink(m)
    <3>1. Flow(m) \in Nodes /\ prev[Flow(m)] \in Nodes /\ next[Flow(m)] \in Nodes
      BY <2>4, FlowAtHand DEF Unlink, Linked
    <3> QED BY <2>4, <3>1 DEF Unlink, ListDel, Readers
  <2>5. CASE Unlinked(m) BY <2>5 DEF Unlinked
  <2>6. CASE Disarm(m) BY <2>6 DEF Disarm, Readers
  <2>7. CASE Disarmed(m) BY <2>7 DEF Disarmed
  <2>8. CASE DelTimer(m) BY <2>8 DEF DelTimer
  <2>9. CASE CancelWork(m) BY <2>9 DEF CancelWork
  <2> QED BY <1>2, <2>1, <2>2, <2>3, <2>4, <2>5, <2>6, <2>7, <2>8, <2>9 DEF ModuleStep
<1>3. ASSUME NEW c \in Cpus, Walk(c)
      PROVE  TypeOK'
  BY <1>3 DEF Walk, Visit
<1>4. ASSUME NEW c \in Cpus, NEW h \in Kprobes, Hit(c, h)
      PROVE  TypeOK'
  BY <1>4 DEF Hit, Enter, OnList
<1>5. ASSUME NEW t \in Timers, TimerMoves(t)
      PROVE  TypeOK'
  <2>1. CASE Fire(t) BY <2>1 DEF Fire
  <2>2. CASE Rearm(t) BY <2>2 DEF Rearm
  <2>3. CASE WorkStarts(t) BY <2>3 DEF WorkStarts
  <2>4. CASE WorkSkips(t) BY <2>4 DEF WorkSkips
  <2> QED BY <1>5, <2>1, <2>2, <2>3, <2>4 DEF TimerMoves
<1>6. ASSUME NEW t \in Timers, WorkLocks(t)
      PROVE  TypeOK'
  BY <1>6 DEF WorkLocks, Enter, OnList
<1>7. ASSUME NEW t \in Timers, WorkWalks(t)
      PROVE  TypeOK'
  <2>1. casemutex' \in [Modules -> Modules \cup Timers \cup {None}]
    BY <1>7 DEF WorkWalks, CaseMutexAt
  <2>2. mutex' \in Modules \cup Timers \cup {None} /\ running' \subseteq Timers
    BY <1>7 DEF WorkWalks
  <2>3. at' \in [Contexts -> Nodes \cup {None}] /\ owed' \in [Contexts -> SUBSET Flows]
    BY <1>7 DEF WorkWalks, Visit
  <2> QED BY <1>7, <2>1, <2>2, <2>3 DEF WorkWalks
<1> QED BY <1>1, <1>2, <1>3, <1>4, <1>5, <1>6, <1>7, StepCases

----------------------------------------------------------------------------
(* The mutex, and the workflow a module works on.                           *)

LEMMA MutexStep ==
  ASSUME TypeOK, MutexInv, [Next]_vars
  PROVE  MutexInv'
<1> USE Kinds DEF TypeOK, MutexInv, Critical, modVars, listVars, timerVars, walkVars,
                  Goto, NextFlow, StartGrace
<1>1. CASE UNCHANGED vars
  BY <1>1 DEF vars
<1>2. ASSUME NEW m \in Modules, ModuleStep(m)
      PROVE  MutexInv'
  <2>1. CASE Bookkeeping(m)
    <3>1. CASE Load(m) BY <3>1 DEF Load
    <3>2. CASE Unload(m) BY <3>2 DEF Unload
    <3>3. CASE RegisterLock(m) BY <3>3 DEF RegisterLock
    <3>4. CASE Registered(m) BY <3>4 DEF Registered
    <3>5. CASE RegisterFails(m) BY <3>5 DEF RegisterFails
    <3>6. CASE CaseLock(m) BY <3>6 DEF CaseLock
    <3>7. CASE UnregisterLock(m) BY <3>7 DEF UnregisterLock
    <3>8. CASE SkipUnlinked(m) BY <3>8 DEF SkipUnlinked
    <3>9. CASE Leave(m) BY <3>9 DEF Leave
    <3>10. CASE Unregistered(m) BY <3>10 DEF Unregistered
    <3> QED BY <2>1, <3>1, <3>2, <3>3, <3>4, <3>5, <3>6, <3>7, <3>8, <3>9, <3>10
         DEF Bookkeeping
  <2>2. CASE Arm(m) BY <2>2 DEF Arm
  <2>3. CASE Link(m) BY <2>3 DEF Link
  <2>4. CASE Unlink(m) BY <2>4 DEF Unlink
  <2>5. CASE Unlinked(m) BY <2>5 DEF Unlinked
  <2>6. CASE Disarm(m) BY <2>6 DEF Disarm
  <2>7. CASE Disarmed(m) BY <2>7 DEF Disarmed
  <2>8. CASE DelTimer(m) BY <2>8 DEF DelTimer
  <2>9. CASE CancelWork(m) BY <2>9 DEF CancelWork
  <2> QED BY <1>2, <2>1, <2>2, <2>3, <2>4, <2>5, <2>6, <2>7, <2>8, <2>9 DEF ModuleStep
<1>3. ASSUME NEW c \in Cpus, Walk(c)
      PROVE  MutexInv'
  BY <1>3 DEF Walk, Visit
<1>4. ASSUME NEW c \in Cpus, NEW h \in Kprobes, Hit(c, h)
      PROVE  MutexInv'
  BY <1>4 DEF Hit, Enter
<1>5. ASSUME NEW t \in Timers, TimerMoves(t)
      PROVE  MutexInv'
  BY <1>5 DEF TimerMoves, Fire, Rearm, WorkStarts, WorkSkips
<1>6. ASSUME NEW t \in Timers, WorkLocks(t)
      PROVE  MutexInv'
  <2>1. at' = [at EXCEPT ![t] = t] /\ mutex' = t /\ mutex = None /\ UNCHANGED mpc
    BY <1>6 DEF WorkLocks, Enter
  <2> QED BY <2>1
<1>7. ASSUME NEW t \in Timers, WorkWalks(t)
      PROVE  MutexInv'
  <2>1. mutex = t /\ UNCHANGED mpc
    BY <1>7 DEF WorkWalks
  <2>2. next[at[t]] \in Nodes
    BY <1>7 DEF WorkWalks
  <2>3. CASE next[at[t]] \in Hooks
    <3>1. at' = [at EXCEPT ![t] = None] /\ mutex' = None
      BY <1>7, <2>3 DEF WorkWalks, Visit
    <3> QED BY <2>1, <3>1
  <2>4. CASE next[at[t]] \notin Hooks
    <3>1. at' = [at EXCEPT ![t] = next[at[t]]] /\ mutex' = mutex
      BY <1>7, <2>4 DEF WorkWalks, Visit
    <3> QED BY <2>1, <2>2, <3>1
  <2> QED BY <2>3, <2>4
<1> QED BY <1>1, <1>2, <1>3, <1>4, <1>5, <1>6, <1>7, StepCases

LEMMA FlowStep ==
  ASSUME TypeOK, FlowInv, MutexInv, RingInv, [Next]_vars
  PROVE  FlowInv'
<1> USE DEF TypeOK, Goto, NextFlow
<1> DEFINE FlowOK(m) ==
      /\ mpc[m] \in {"insert", "delete"} => cur[m] \in Nat \ {0}
      /\ mpc[m] \in {"link", "grace", "disarm", "cancel"} => Flow(m) \in Flows
      /\ mpc[m] \in {"link", "disarm"} => HookOf(Flow(m)) \in Kprobes
      /\ mpc[m] = "cancel" => HookOf(Flow(m)) \in Timers
      /\ mpc[m] = "grace" => HookOf(Flow(m)) \in Hooks
<1>1. CASE UNCHANGED <<mpc, cur>>
  BY <1>1 DEF FlowInv, Flow
<1>2. ASSUME NEW m \in Modules, FlowOK(m)',
             \A n \in Modules \ {m} : UNCHANGED <<mpc[n], cur[n]>>
      PROVE  FlowInv'
  BY <1>2 DEF FlowInv, Flow
<1>3. ASSUME NEW m \in Modules,
             \/ \E s \in {"lock", "live", "out", "case", "unlock", "leave"} : Goto(m, s)
             \/ /\ UNCHANGED mpc /\ mpc[m] = "delete"
             \/ \E s \in {"insert", "delete"} : Goto(m, s),
             \/ UNCHANGED cur /\ mpc'[m] \notin {"insert", "delete"}
             \/ cur' = [cur EXCEPT ![m] = 1]
             \/ cur' = [cur EXCEPT ![m] = Len(Workflows[m]) + 1]
             \/ cur' = [cur EXCEPT ![m] = @ + 1]
      PROVE  FlowInv'
  <2>1. Len(Workflows[m]) + 1 \in Nat \ {0}
    BY ConstantsAssumption
  <2>2. mpc'[m] \in {"insert", "delete"} => cur'[m] \in Nat \ {0}
    BY <1>3, <2>1
  <2>3. mpc'[m] \notin {"link", "grace", "disarm", "cancel"}
    BY <1>3
  <2>4. \A n \in Modules \ {m} : UNCHANGED <<mpc[n], cur[n]>>
    BY <1>3
  <2> QED BY <1>2, <2>2, <2>3, <2>4
<1>4. ASSUME NEW m \in Modules, ModuleStep(m)
      PROVE  FlowInv'
  <2>1. CASE Bookkeeping(m)
    <3>1. CASE Load(m) BY <1>3, <3>1 DEF Load
    <3>2. CASE Unload(m) BY <1>3, <3>2 DEF Unload
    <3>3. CASE RegisterLock(m) BY <1>3, <3>3 DEF RegisterLock
    <3>4. CASE Registered(m) BY <1>3, <3>4 DEF Registered
    <3>5. CASE RegisterFails(m) BY <1>3, <3>5 DEF RegisterFails
    <3>6. CASE CaseLock(m) BY <1>3, <3>6 DEF CaseLock
    <3>7. CASE UnregisterLock(m) BY <1>3, <3>7 DEF UnregisterLock
    <3>8. CASE SkipUnlinked(m) BY <1>3, <3>8 DEF SkipUnlinked
    <3>9. CASE Leave(m) BY <1>3, <3>9 DEF Leave
    <3>10. CASE Unregistered(m) BY <1>3, <3>10 DEF Unregistered
    <3> QED BY <2>1, <3>1, <3>2, <3>3, <3>4, <3>5, <3>6, <3>7, <3>8, <3>9, <3>10
         DEF Bookkeeping
  <2>2. CASE Arm(m)
    <3>1. Flow(m)' = Flow(m) /\ Flow(m) \in Flows /\ HookOf(Flow(m)) \in Kprobes
      BY <2>2, FlowAtHand DEF Arm, Flow
    <3> QED BY <1>2, <2>2, <3>1 DEF Arm
  <2>3. CASE Link(m) BY <1>3, <2>3 DEF Link
  <2>4. CASE Unlink(m)
    <3>1. Flow(m)' = Flow(m) /\ Flow(m) \in Flows /\ Linked(Flow(m))
      BY <2>4, FlowAtHand DEF Unlink, Flow
    <3>2. HookOf(Flow(m)) \in Hooks
      BY <3>1, Kinds DEF RingInv, Rings, Home
    <3> QED BY <1>2, <2>4, <3>1, <3>2 DEF Unlink
  <2>5. CASE Unlinked(m) BY <1>3, <2>5 DEF Unlinked
  <2>6. CASE Disarm(m)
    <3>1. Flow(m)' = Flow(m) /\ Flow(m) \in Flows /\ HookOf(Flow(m)) \in Kprobes
      BY <2>6 DEF Disarm, Flow, FlowInv
    <3> QED BY <1>2, <2>6, <3>1 DEF Disarm
  <2>7. CASE Disarmed(m) BY <1>3, <2>7 DEF Disarmed
  <2>8. CASE DelTimer(m)
    <3>1. Flow(m)' = Flow(m) /\ Flow(m) \in Flows /\ HookOf(Flow(m)) \in Timers
      BY <2>8 DEF DelTimer, Flow, FlowInv
    <3> QED BY <1>2, <2>8, <3>1 DEF DelTimer
  <2>9. CASE CancelWork(m) BY <1>3, <2>9 DEF CancelWork
  <2> QED BY <1>4, <2>1, <2>2, <2>3, <2>4, <2>5, <2>6, <2>7, <2>8, <2>9 DEF ModuleStep
<1>5. ASSUME NEW c \in Cpus, Walk(c) \/ \E h \in Kprobes : Hit(c, h)
      PROVE  UNCHANGED <<mpc, cur>>
  BY <1>5 DEF Walk, Hit, modVars
<1>6. ASSUME NEW t \in Timers, TimerMoves(t) \/ WorkLocks(t) \/ WorkWalks(t)
      PROVE  UNCHANGED <<mpc, cur>>
  BY <1>6 DEF TimerMoves, Fire, Rearm, WorkStarts, WorkSkips, WorkLocks, WorkWalks,
              modVars
<1> QED BY <1>1, <1>4, <1>5, <1>6, StepCases DEF vars, modVars

----------------------------------------------------------------------------
(* What steps leave alone.                                                  *)

\* Nobody else is at a step under the mutex.
LEMMA OneInside ==
  ASSUME MutexInv, NEW m \in Modules, mpc[m] \in Critical
  PROVE  /\ mutex = m /\ \A n \in Modules \ {m} : mpc[n] \notin Critical
         /\ \A t \in Timers : at[t] = None
BY Kinds DEF MutexInv

\* The steps at which the invariant speaks of the workflow at hand are left
\* and entered by the steps on lists and hooks alone.
Held == {"link", "grace", "disarm", "cancel"}
SameHeld ==
  \A n \in Modules : mpc'[n] \in Held => mpc'[n] = mpc[n] /\ Flow(n)' = Flow(n)

LEMMA BookkeepingFrame ==
  ASSUME TypeOK, MutexInv, NEW m \in Modules, Bookkeeping(m)
  PROVE  /\ UNCHANGED <<listVars, probe, timerVars, walkVars>>
         /\ SameHeld
         /\ \/ gp' = gp
            \/ \A n \in Modules : mpc[n] \notin Held
         /\ \A n \in Modules : mpc[n] \in Held => mpc'[n] = mpc[n]
<1> USE DEF TypeOK, Goto, NextFlow, Held, SameHeld, Flow
<1>1. CASE Load(m) BY <1>1 DEF Load
<1>2. CASE Unload(m) BY <1>2 DEF Unload
<1>3. CASE RegisterLock(m) BY <1>3 DEF RegisterLock
<1>4. CASE Registered(m) BY <1>4 DEF Registered
<1>5. CASE RegisterFails(m) BY <1>5 DEF RegisterFails
<1>6. CASE CaseLock(m) BY <1>6 DEF CaseLock
<1>7. CASE UnregisterLock(m) BY <1>7 DEF UnregisterLock
<1>8. CASE SkipUnlinked(m) BY <1>8 DEF SkipUnlinked
<1>9. CASE Leave(m) BY <1>9, OneInside DEF Leave, Critical
<1>10. CASE Unregistered(m) BY <1>10 DEF Unregistered
<1> QED BY <1>1, <1>2, <1>3, <1>4, <1>5, <1>6, <1>7, <1>8, <1>9, <1>10
     DEF Bookkeeping

\* Steps of a module on its hook move from step to step alone.
LEMMA OthersHeld ==
  ASSUME TypeOK, MutexInv, NEW m \in Modules, mpc[m] \in Critical,
         NEW s, Goto(m, s),
         UNCHANGED cur \/ NextFlow(m)
  PROVE  \A n \in Modules : mpc'[n] \in Held =>
           n = m /\ s = mpc'[n] /\ (UNCHANGED cur => Flow(n)' = Flow(n))
<1> USE DEF TypeOK, Goto, NextFlow, Held, Flow
<1>1. ASSUME NEW n \in Modules, n # m
      PROVE  mpc'[n] \notin Held
  BY <1>1, OneInside DEF Critical
<1> QED BY <1>1

\* Contexts leave modules and lists alone.
LEMMA ContextFrame ==
  /\ \A c \in Cpus : Walk(c) \/ (\E h \in Kprobes : Hit(c, h)) =>
       /\ UNCHANGED <<mpc, cur, listVars, probe, timerVars, mutex>>
       /\ SameHeld
  /\ \A t \in Timers : TimerMoves(t) =>
       /\ UNCHANGED <<mpc, cur, listVars, probe, alive, walkVars, gp, mutex>>
       /\ SameHeld
  /\ \A t \in Timers : WorkLocks(t) \/ WorkWalks(t) =>
       /\ UNCHANGED <<mpc, cur, listVars, probe, alive, armed, firing, pending, gp>>
       /\ SameHeld
<1>1. UNCHANGED <<mpc, cur>> => SameHeld
  BY DEF SameHeld, Flow
<1>2. \A c \in Cpus : Walk(c) \/ (\E h \in Kprobes : Hit(c, h)) =>
        UNCHANGED <<mpc, cur, listVars, probe, timerVars, mutex>>
  BY DEF Walk, Hit, modVars
<1>3. \A t \in Timers : TimerMoves(t) =>
        UNCHANGED <<mpc, cur, listVars, probe, alive, walkVars, gp, mutex>>
  BY DEF TimerMoves, Fire, Rearm, WorkStarts, WorkSkips, modVars
<1>4. \A t \in Timers : WorkLocks(t) \/ WorkWalks(t) =>
        UNCHANGED <<mpc, cur, listVars, probe, alive, armed, firing, pending, gp>>
  BY DEF WorkLocks, WorkWalks, modVars, timerVars
<1> QED BY <1>1, <1>2, <1>3, <1>4

----------------------------------------------------------------------------
(* The lists.                                                               *)

\* In terms of the three nodes concerned: w goes between h and x.
LEMMA AddKeepsRings ==
  ASSUME TypeOK, Rings, NEW w \in Flows, NEW h \in Hooks,
         HookOf(w) = h, ~Linked(w), ListAdd(w, h)
  PROVE  Rings'
<1> USE Kinds DEF TypeOK
<1> DEFINE x == next[h]
<1>1. /\ h \in Nodes /\ w \in Nodes /\ w # h /\ x \in Nodes /\ Linked(h) /\ Linked(x)
      /\ prev[x] = h /\ Home(x) = h /\ x # w /\ Home(w) = h /\ Home(h) = h
  BY DEF Rings, Home
<1>2. /\ next'[w] = x /\ next'[h] = w /\ \A n \in Nodes \ {w, h} : next'[n] = next[n]
      /\ prev'[w] = h /\ prev'[x] = w /\ \A n \in Nodes \ {w, x} : prev'[n] = prev[n]
  BY <1>1 DEF ListAdd
<1>3. \A n \in Nodes : Linked(n)' <=> Linked(n) \/ n = w
  BY <1>1, <1>2 DEF Linked
<1>4. ASSUME NEW n \in Nodes, Linked(n), n # w
      PROVE  /\ Linked(next[n]) /\ prev[next[n]] = n /\ next[n] \in Nodes
             /\ Linked(prev[n]) /\ next[prev[n]] = n /\ prev[n] \in Nodes
             /\ Home(next[n]) = Home(n) /\ Home(n) \in Hooks
             /\ next[n] # w /\ prev[n] # w
  BY <1>4 DEF Rings, Linked
<1>5. ASSUME NEW n \in Nodes, Linked(n)'
      PROVE  /\ Linked(next[n])' /\ prev'[next'[n]] = n
             /\ Home(next'[n]) = Home(n) /\ Home(n) \in Hooks
  <2>1. CASE n = w
    BY <1>1, <1>2, <1>3, <2>1
  <2>2. CASE n = h
    BY <1>1, <1>2, <1>3, <2>2
  <2>3. CASE n # w /\ n # h
    <3>1. next'[n] = next[n] /\ Linked(n)
      BY <1>2, <1>3, <1>5, <2>3
    <3>2. next[n] # x
      BY <1>1, <1>4, <2>3, <3>1
    <3>3. prev'[next[n]] = n
      BY <1>2, <1>4, <2>3, <3>1, <3>2
    <3> QED BY <1>3, <1>4, <2>3, <3>1, <3>3 DEF Linked
  <2> QED BY <2>1, <2>2, <2>3
<1>6. ASSUME NEW n \in Nodes, Linked(n)'
      PROVE  Linked(prev[n])' /\ next'[prev'[n]] = n
  <2>1. CASE n = w
    BY <1>1, <1>2, <1>3, <2>1 DEF Linked
  <2>2. CASE n = x
    BY <1>1, <1>2, <1>3, <2>2 DEF Linked
  <2>3. CASE n # w /\ n # x
    <3>1. prev'[n] = prev[n] /\ Linked(n)
      BY <1>2, <1>3, <1>6, <2>3
    <3>2. prev[n] # h
      BY <1>4, <2>3, <3>1
    <3>3. next'[prev[n]] = n
      BY <1>2, <1>4, <2>3, <3>1, <3>2
    <3> QED BY <1>3, <1>4, <2>3, <3>1, <3>3 DEF Linked
  <2> QED BY <2>1, <2>2, <2>3
<1>7. \A h1 \in Hooks : Linked(h1)'
  BY <1>3 DEF Rings
<1>8. \A n \in Nodes : Home(n)' = Home(n)
  BY DEF Home
<1> QED BY <1>5, <1>6, <1>7, <1>8 DEF Rings, Home

\* w leaves from between p and x.
LEMMA DelKeepsRings ==
  ASSUME TypeOK, Rings, NEW w \in Flows, Linked(w), next[w] # w, ListDel(w)
  PROVE  /\ Rings'
         /\ next'[w] = next[w] /\ Linked(next[w])' /\ Home(next[w]) = HookOf(w)
         /\ \A n \in Nodes : Linked(n)' <=> Linked(n) /\ n # w
<1> USE Kinds DEF TypeOK
<1> DEFINE x == next[w]  p == prev[w]
<1>1. /\ w \in Nodes /\ x \in Nodes /\ p \in Nodes /\ Linked(x) /\ Linked(p)
      /\ prev[x] = w /\ next[p] = w /\ Home(w) = HookOf(w) /\ Home(x) = Home(w)
      /\ Home(p) = Home(w) /\ x # w
  BY DEF Rings, Home, Linked
<1>2. p # w
  BY <1>1
<1>3. /\ next'[p] = x /\ \A n \in Nodes \ {p} : next'[n] = next[n]
      /\ prev'[x] = p /\ prev'[w] = None /\ \A n \in Nodes \ {w, x} : prev'[n] = prev[n]
  BY <1>1, <1>2 DEF ListDel
<1>4. \A n \in Nodes : Linked(n)' <=> Linked(n) /\ n # w
  BY <1>1, <1>2, <1>3 DEF Linked
<1>5. ASSUME NEW n \in Nodes, Linked(n), n # w
      PROVE  /\ Linked(next[n]) /\ prev[next[n]] = n /\ next[n] \in Nodes
             /\ Linked(prev[n]) /\ next[prev[n]] = n /\ prev[n] \in Nodes
             /\ Home(next[n]) = Home(n) /\ Home(n) \in Hooks
             /\ (next[n] = w => n = p) /\ (prev[n] = w => n = x)
  BY <1>1, <1>5 DEF Rings, Linked
<1>6. ASSUME NEW n \in Nodes, Linked(n)'
      PROVE  /\ Linked(next[n])' /\ prev'[next'[n]] = n
             /\ Home(next'[n]) = Home(n) /\ Home(n) \in Hooks
  <2>1. CASE n = p
    BY <1>1, <1>2, <1>3, <1>4, <1>5, <2>1 DEF Linked
  <2>2. CASE n # p
    <3>1. next'[n] = next[n] /\ Linked(n) /\ n # w /\ next[n] # w
      BY <1>3, <1>4, <1>5, <1>6, <2>2
    <3>2. next[n] # x
      BY <1>1, <1>5, <3>1
    <3>3. prev'[next[n]] = n
      BY <1>3, <1>5, <3>1, <3>2
    <3> QED BY <1>4, <1>5, <3>1, <3>3 DEF Linked
  <2> QED BY <2>1, <2>2
<1>7. ASSUME NEW n \in Nodes, Linked(n)'
      PROVE  Linked(prev[n])' /\ next'[prev'[n]] = n
  <2>1. CASE n = x
    BY <1>1, <1>2, <1>3, <1>4, <2>1 DEF Linked
  <2>2. CASE n # x
    <3>1. prev'[n] = prev[n] /\ Linked(n) /\ n # w /\ prev[n] # w
      BY <1>3, <1>4, <1>5, <1>7, <2>2
    <3>2. prev[n] # p
      BY <1>1, <1>5, <3>1
    <3>3. next'[prev[n]] = n
      BY <1>3, <1>5, <3>1, <3>2
    <3> QED BY <1>4, <1>5, <3>1, <3>3 DEF Linked
  <2> QED BY <2>1, <2>2
<1>8. \A h \in Hooks : Linked(h)'
  BY <1>4 DEF Rings
<1>9. \A n \in Nodes : Home(n)' = Home(n)
  BY DEF Home
<1>10. Rings'
  BY <1>6, <1>7, <1>8, <1>9 DEF Rings, Home
<1> QED BY <1>1, <1>2, <1>3, <1>4, <1>10 DEF Linked

\* A list leads away from each of its workflows.
LEMMA NoLoop ==
  ASSUME TypeOK, OrderInv, NEW w \in Flows, Linked(w)
  PROVE  next[w] # w
<1>1. PICK rank \in [Flows -> Nat] : Ranked(rank)
  BY DEF OrderInv
<1>2. next[w] \in Flows => rank[next[w]] < rank[w]
  BY <1>1 DEF Ranked, RanksFall
<1> QED BY <1>1, <1>2

\* What links or unlinks a workflow.
LEMMA AtLink ==
  ASSUME TypeOK, FlowInv, MatchInv, NEW m \in Modules, Link(m)
  PROVE  /\ Flow(m) \in Flows /\ HookOf(Flow(m)) \in Hooks /\ ~Linked(Flow(m))
         /\ ListAdd(Flow(m), HookOf(Flow(m)))
         /\ mpc[m] \in {"insert", "link"} /\ Goto(m, "insert") /\ NextFlow(m)
         /\ UNCHANGED <<probe, firing, pending, running, walkVars, gp>>
         /\ HookOf(Flow(m)) \in Kprobes => HookOf(Flow(m)) \in probe \/ ~Empty(HookOf(Flow(m)))
<1>1. Flow(m) \in Flows /\ HookOf(Flow(m)) \in Hooks
  BY FlowAtHand
<1>2. ~Linked(Flow(m))
  BY DEF Link, MatchInv
<1>3. HookOf(Flow(m)) \in Kprobes => HookOf(Flow(m)) \in probe \/ ~Empty(HookOf(Flow(m)))
  BY DEF Link, MatchInv, NeedsHook
<1> QED BY <1>1, <1>2, <1>3 DEF Link

LEMMA AtUnlink ==
  ASSUME TypeOK, FlowInv, MutexInv, OrderInv, Rings, NEW m \in Modules, Unlink(m)
  PROVE  /\ Flow(m) \in Flows /\ Flow(m) \in Nodes /\ HookOf(Flow(m)) \in Hooks
         /\ Linked(Flow(m)) /\ ListDel(Flow(m)) /\ next[Flow(m)] # Flow(m)
         /\ mpc[m] = "delete" /\ Goto(m, "grace") /\ UNCHANGED cur
         /\ \A n \in Modules \ {m} : mpc[n] \notin Critical
         /\ \A t \in Timers : at[t] = None
         /\ gp' = Readers /\ UNCHANGED <<probe, timerVars, at>>
         /\ Flow(m)' = Flow(m)
<1>1. Flow(m) \in Flows /\ Linked(Flow(m)) /\ mpc[m] = "delete"
  BY FlowAtHand DEF Unlink
<1>2. HookOf(Flow(m)) \in Hooks
  BY <1>1, Kinds DEF Rings, Home
<1>3. /\ \A n \in Modules \ {m} : mpc[n] \notin Critical
      /\ \A t \in Timers : at[t] = None
  BY <1>1, OneInside DEF Critical
<1>4. next[Flow(m)] # Flow(m)
  BY <1>1, NoLoop
<1> QED BY <1>1, <1>2, <1>3, <1>4, Kinds DEF Unlink, StartGrace, Flow

\* The other steps of a module on its hook.
HookStep(m) == Arm(m) \/ Unlinked(m) \/ Disarm(m) \/ Disarmed(m) \/ DelTimer(m) \/ CancelWork(m)

LEMMA HookFrame ==
  ASSUME TypeOK, MutexInv, NEW m \in Modules, HookStep(m)
  PROVE  /\ UNCHANGED <<listVars, walkVars, mutex>>
         /\ mpc[m] \in Critical
         /\ \A n \in Modules : mpc'[n] # "grace" /\ (mpc[n] = "grace" => gp = {})
<1> USE DEF TypeOK, Goto
<1>1. mpc[m] \in Critical /\ UNCHANGED <<listVars, walkVars, mutex>>
  BY DEF HookStep, Arm, Unlinked, Disarm, Disarmed, DelTimer, CancelWork, Critical
<1>2. \E s \in {"link", "delete", "disarm", "cancel"} : Goto(m, s)
  BY DEF HookStep, Arm, Unlinked, Disarm, Disarmed, DelTimer, CancelWork
<1>3. mpc[m] = "grace" => gp = {}
  BY DEF HookStep, Arm, Unlinked, Disarm, Disarmed, DelTimer, CancelWork
<1>4. ASSUME NEW n \in Modules
      PROVE  mpc'[n] # "grace" /\ (mpc[n] = "grace" => gp = {})
  <2>1. CASE n = m
    BY <1>2, <1>3, <2>1
  <2>2. CASE n # m
    BY <1>1, <1>2, <2>2, OneInside DEF Critical
  <2> QED BY <2>1, <2>2
<1> QED BY <1>1, <1>4

LEMMA RingStep ==
  ASSUME HookInv, OrderInv, [Next]_vars
  PROVE  RingInv'
<1> USE DEF HookInv
<1>1. UNCHANGED listVars => (Rings' <=> Rings)
  BY DEF Rings, Linked, Home, listVars
<1>2. UNCHANGED listVars /\ SameHeld => RingInv'
  BY <1>1 DEF SameHeld, Held, RingInv, Linked, Home, listVars
<1>3. ASSUME NEW m \in Modules, ModuleStep(m)
      PROVE  RingInv'
  <2>1. CASE Bookkeeping(m)
    BY <1>2, <2>1, BookkeepingFrame
  <2>2. CASE HookStep(m)
    BY <1>1, <2>2, HookFrame DEF RingInv
  <2>3. CASE Link(m)
    <3>1. Rings'
      BY <2>3, AtLink, AddKeepsRings DEF RingInv
    <3>2. mpc[m] \in Critical /\ Goto(m, "insert") /\ NextFlow(m)
      BY <2>3, AtLink DEF Critical
    <3>3. \A n \in Modules : mpc'[n] # "grace"
      BY <3>2, OthersHeld DEF Held
    <3> QED BY <3>1, <3>3 DEF RingInv
  <2>4. CASE Unlink(m)
    <3> DEFINE w == Flow(m)
    <3>1. Rings
      BY DEF RingInv
    <3>2. w \in Flows /\ Linked(w) /\ ListDel(w) /\ next[w] # w /\ Goto(m, "grace")
          /\ UNCHANGED cur /\ mpc[m] \in Critical /\ Flow(m)' = w
      BY <2>4, <3>1, AtUnlink DEF Critical
    <3>3. Rings' /\ next'[w] = next[w] /\ Linked(next[w])' /\ Home(next[w]) = HookOf(w)
      BY <3>1, <3>2, DelKeepsRings
    <3>4. \A n \in Modules : mpc'[n] = "grace" => n = m
      BY <3>2, OthersHeld DEF Held
    <3>5. Linked(next[Flow(m)])' /\ Home(next[Flow(m)])' = HookOf(Flow(m))'
      BY <3>2, <3>3 DEF Linked, Home
    <3> QED BY <3>3, <3>4, <3>5 DEF RingInv
  <2> QED BY <1>3, <2>1, <2>2, <2>3, <2>4 DEF ModuleStep, HookStep
<1>4. UNCHANGED vars => UNCHANGED listVars /\ SameHeld
  BY DEF vars, modVars, SameHeld, Flow
<1> QED BY <1>2, <1>3, <1>4, StepCases, ContextFrame

----------------------------------------------------------------------------
(* Where contexts stand.                                                    *)

\* From where a context stands, the list goes on, on the same hook.
LEMMA Onward ==
  ASSUME TypeOK, RingInv, StandInv, NEW c \in Contexts, at[c] # None
  PROVE  /\ at[c] \in Nodes /\ next[at[c]] \in Nodes /\ Linked(next[at[c]])
         /\ Home(next[at[c]]) = Home(at[c])
<1>1. at[c] \in Nodes /\ next[at[c]] \in Nodes
  BY DEF TypeOK
<1>2. CASE Linked(at[c])
  BY <1>1, <1>2 DEF RingInv, Rings
<1>3. ASSUME NEW m \in Modules, mpc[m] = "grace", at[c] = Flow(m), ~Linked(at[c])
      PROVE  Linked(next[at[c]]) /\ Home(next[at[c]]) = Home(at[c])
  <2>1. at[c] \notin Hooks
    BY <1>3 DEF RingInv, Rings
  <2> QED BY <1>3, <2>1 DEF RingInv, Home
<1> QED BY <1>1, <1>2, <1>3 DEF StandInv

\* A traversal begins at a head, and goes on to the next node or ends.
LEMMA EnterVisit ==
  /\ \A c \in Cpus, h \in Kprobes : Hit(c, h) =>
       /\ at[c] = None /\ h \in probe /\ Enter(c, h) /\ h \in Hooks /\ gp' = gp
  /\ \A c \in Cpus : Walk(c) =>
       /\ at[c] # None /\ Visit(c, next[at[c]])
       /\ gp' = IF next[at[c]] \in Hooks THEN gp \ {c} ELSE gp
  /\ \A t \in Timers : WorkLocks(t) => at[t] = None /\ Enter(t, t) /\ t \in Hooks
  /\ \A t \in Timers : WorkWalks(t) => at[t] # None /\ Visit(t, next[at[t]])
BY Kinds DEF Hit, Walk, WorkLocks, WorkWalks

LEMMA StandStep ==
  ASSUME HookInv, OrderInv, [Next]_vars
  PROVE  StandInv'
<1> USE DEF HookInv
<1> DEFINE StandOK(c) ==
      at[c] # None =>
        \/ Linked(at[c])
        \/ \E m \in Modules : mpc[m] = "grace" /\ at[c] = Flow(m) /\ c \in gp
<1>1. ASSUME UNCHANGED <<listVars, at>>,
             \A c \in Contexts : at[c] # None => Linked(at[c])
      PROVE  StandInv'
  BY <1>1 DEF StandInv, Linked, listVars
<1>2. ASSUME NEW c \in Contexts, UNCHANGED listVars, SameHeld,
             \A n \in Modules : mpc[n] \in Held => mpc'[n] = mpc[n],
             at'[c] = at[c], c \in gp => c \in gp'
      PROVE  StandOK(c)'
  BY <1>2 DEF StandInv, Linked, listVars, SameHeld, Held
<1>3. ASSUME NEW m \in Modules, ModuleStep(m)
      PROVE  StandInv'
  <2>1. CASE Bookkeeping(m)
    <3>1. CASE gp' = gp
      BY <1>2, <2>1, <3>1, BookkeepingFrame DEF StandInv, walkVars
    <3>2. CASE \A n \in Modules : mpc[n] \notin Held
      BY <1>1, <2>1, <3>2, BookkeepingFrame DEF StandInv, walkVars, Held
    <3> QED BY <2>1, <3>1, <3>2, BookkeepingFrame
  <2>2. CASE HookStep(m)
    BY <1>1, <2>2, HookFrame DEF StandInv, walkVars
  <2>3. CASE Link(m)
    <3>1. /\ mpc[m] \in Critical /\ mpc[m] # "grace" /\ UNCHANGED at
          /\ HookOf(Flow(m)) \in Nodes /\ next[HookOf(Flow(m))] \in Nodes
          /\ Flow(m) \in Nodes /\ ListAdd(Flow(m), HookOf(Flow(m)))
      BY <2>3, AtLink, Kinds DEF Critical, walkVars, TypeOK
    <3>2. \A n \in Modules : mpc[n] # "grace"
      BY <3>1, OneInside DEF Critical
    <3>3. \A n \in Nodes : Linked(n) => Linked(n)'
      BY <3>1, Kinds DEF ListAdd, Linked, TypeOK
    <3> QED BY <3>1, <3>2, <3>3 DEF StandInv, TypeOK, Linked
  <2>4. CASE Unlink(m)
    <3> DEFINE w == Flow(m)
    <3>1. Rings
      BY DEF RingInv
    <3>2. w \in Flows /\ w \in Nodes /\ Linked(w) /\ ListDel(w) /\ next[w] # w
          /\ mpc[m] = "delete" /\ Goto(m, "grace") /\ Flow(m)' = w
          /\ (\A n \in Modules \ {m} : mpc[n] \notin Critical)
          /\ (\A t \in Timers : at[t] = None) /\ gp' = Readers /\ UNCHANGED at
      BY <2>4, <3>1, AtUnlink
    <3>3. \A n \in Nodes : Linked(n)' <=> Linked(n) /\ n # w
      BY <3>1, <3>2, DelKeepsRings
    <3>4. mpc'[m] = "grace"
      BY <3>2 DEF Goto, TypeOK
    <3>5. ASSUME NEW c \in Contexts, at[c] # None
          PROVE  StandOK(c)'
      <4>1. Linked(at[c]) /\ at[c] \in Nodes
        BY <3>2, <3>5 DEF StandInv, Critical, TypeOK
      <4>2. CASE at[c] = w
        <5>1. c \in gp'
          BY <3>2, <3>5, Kinds DEF Readers
        <5> QED BY <3>2, <3>4, <4>2, <5>1
      <4>3. CASE at[c] # w
        BY <3>2, <3>3, <4>1, <4>3 DEF Linked
      <4> QED BY <4>2, <4>3
    <3> QED BY <3>2, <3>5 DEF StandInv
  <2> QED BY <1>3, <2>1, <2>2, <2>3, <2>4 DEF ModuleStep, HookStep
<1>4. ASSUME NEW c \in Contexts, UNCHANGED <<mpc, cur, listVars>>,
             \/ \E h \in Hooks : at[c] = None /\ Enter(c, h)
             \/ at[c] # None /\ Visit(c, next[at[c]]),
             gp \ {c} \subseteq gp'
      PROVE  StandInv'
  <2>1. \A d \in Contexts \ {c} : at'[d] = at[d]
    BY <1>4 DEF Enter, Visit, TypeOK
  <2>2. SameHeld /\ \A n \in Modules : mpc'[n] = mpc[n]
    BY <1>4 DEF SameHeld, Flow
  <2>3. \A d \in Contexts \ {c} : StandOK(d)'
    BY <1>2, <1>4, <2>1, <2>2
  <2>4. StandOK(c)'
    <3>1. ASSUME NEW h \in Hooks, Enter(c, h)
          PROVE  StandOK(c)'
      <4>1. at'[c] = h /\ Linked(h)
        BY <3>1 DEF Enter, TypeOK, RingInv, Rings
      <4> QED BY <1>4, <4>1 DEF Linked, listVars
    <3>2. CASE at[c] # None /\ Visit(c, next[at[c]])
      <4>1. at'[c] = None \/ at'[c] = next[at[c]]
        BY <3>2 DEF Visit, TypeOK
      <4>2. Linked(next[at[c]])
        BY <3>2, Onward
      <4> QED BY <1>4, <4>1, <4>2 DEF Linked, listVars
    <3> QED BY <1>4, <3>1, <3>2
  <2> QED BY <2>3, <2>4 DEF StandInv
<1>5. ASSUME NEW c \in Cpus, Walk(c) \/ \E h \in Kprobes : Hit(c, h)
      PROVE  StandInv'
  <2>1. UNCHANGED <<mpc, cur, listVars>> /\ c \in Contexts /\ gp \ {c} \subseteq gp'
    BY <1>5, ContextFrame, EnterVisit, Kinds
  <2>2. \/ \E h \in Hooks : at[c] = None /\ Enter(c, h)
        \/ at[c] # None /\ Visit(c, next[at[c]])
    BY <1>5, EnterVisit
  <2> QED BY <1>4, <2>1, <2>2
<1>6. ASSUME NEW t \in Timers, WorkLocks(t) \/ WorkWalks(t)
      PROVE  StandInv'
  <2>1. UNCHANGED <<mpc, cur, listVars, gp>> /\ t \in Contexts
    BY <1>6, ContextFrame, Kinds
  <2>2. \/ \E h \in Hooks : at[t] = None /\ Enter(t, h)
        \/ at[t] # None /\ Visit(t, next[at[t]])
    BY <1>6, EnterVisit
  <2> QED BY <1>4, <2>1, <2>2
<1>7. ASSUME UNCHANGED <<mpc, cur, listVars, walkVars, gp>>
      PROVE  StandInv'
  BY <1>7 DEF StandInv, Linked, listVars, walkVars, Flow
<1>8. \A t \in Timers : TimerMoves(t) => StandInv'
  BY <1>7, ContextFrame
<1> QED BY <1>3, <1>5, <1>6, <1>7, <1>8, StepCases DEF vars, modVars

----------------------------------------------------------------------------
(* Kprobes and timers against their lists.                                  *)

\* What is true of a hook that no one works on, or that m just worked on.
HookMatch(h) ==
  /\ h \in Kprobes =>
       \/ h \in probe <=> ~Empty(h)
       \/ h \in probe /\ \E m \in Modules :
                           mpc[m] \in {"link", "grace"} /\ HookOf(Flow(m)) = h
  /\ h \in Timers =>
       \/ h \in alive <=> ~Empty(h)
       \/ h \in alive /\ \E m \in Modules :
                           mpc[m] \in {"grace", "cancel"} /\ HookOf(Flow(m)) = h
StepMatch(m) ==
  /\ mpc[m] = "link" => HookOf(Flow(m)) \in probe /\ ~Linked(Flow(m))
  /\ mpc[m] \in {"disarm", "cancel"} => Empty(HookOf(Flow(m)))

LEMMA MatchParts ==
  MatchInv <=> (\A h \in Hooks : HookMatch(h)) /\ (\A m \in Modules : StepMatch(m))
BY Kinds DEF MatchInv, HookMatch, StepMatch

\* A step of the module inside leaves the other hooks as they match.
LEMMA OthersMatch ==
  ASSUME TypeOK, MutexInv, MatchInv, NEW m \in Modules, mpc[m] \in Critical,
         NEW s, Goto(m, s), UNCHANGED cur \/ NextFlow(m),
         NEW h0, h0 = HookOf(Flow(m)),
         \A h \in Hooks \ {h0} :
           /\ next'[h] = next[h]
           /\ h \in probe' <=> h \in probe
           /\ h \in alive' <=> h \in alive,
         h0 \in Hooks => HookMatch(h0)',
         StepMatch(m)'
  PROVE  MatchInv'
<1>1. ASSUME NEW h \in Hooks, h # h0
      PROVE  HookMatch(h)'
  <2>1. \A n \in Modules \ {m} : mpc[n] \notin Critical
    BY OneInside
  <2>2. /\ h \in Kprobes => (h \in probe <=> ~Empty(h))
        /\ h \in Timers => (h \in alive <=> ~Empty(h))
    BY <1>1, <2>1, MatchParts DEF HookMatch, Critical
  <2> QED BY <1>1, <2>2 DEF HookMatch, Empty
<1>2. ASSUME NEW n \in Modules, n # m
      PROVE  StepMatch(n)'
  <2>1. mpc[n] \notin Critical /\ mpc'[n] = mpc[n]
    BY <1>2, OneInside DEF Goto, TypeOK
  <2> QED BY <2>1 DEF StepMatch, Critical
<1>3. \A h \in Hooks : HookMatch(h)'
  BY <1>1
<1>4. (MatchInv <=> (\A h \in Hooks : HookMatch(h)) /\ (\A n \in Modules : StepMatch(n)))'
  BY Kinds DEF MatchInv, HookMatch, StepMatch
<1> QED BY <1>2, <1>3, <1>4

LEMMA MatchStep ==
  ASSUME HookInv, OrderInv, [Next]_vars
  PROVE  MatchInv'
<1> USE DEF HookInv
<1>1. ASSUME UNCHANGED <<listVars, probe, alive>>, SameHeld,
             \A n \in Modules : mpc[n] \in Held => mpc'[n] = mpc[n]
      PROVE  MatchInv'
  BY <1>1 DEF MatchInv, Linked, Empty, listVars, SameHeld, Held
<1>2. ASSUME NEW m \in Modules, ModuleStep(m), ~Bookkeeping(m)
      PROVE  MatchInv'
  <2> DEFINE w == Flow(m)
  <2>1. PICK h0 : h0 = HookOf(Flow(m))
    OBVIOUS
  <2>2. CASE Arm(m)
    <3>1. /\ mpc[m] \in Critical /\ mpc[m] = "insert" /\ h0 \in Kprobes
          /\ Goto(m, "link") /\ UNCHANGED <<cur, listVars, alive>>
          /\ probe' = probe \cup {h0} /\ ~Linked(w)
      BY <2>1, <2>2 DEF Arm, Critical, timerVars
    <3>2. mpc'[m] = "link" /\ Flow(m)' = w
      BY <3>1 DEF Goto, TypeOK, Flow
    <3>3. StepMatch(m)'
      BY <2>1, <3>1, <3>2 DEF StepMatch, Linked, listVars
    <3>4. HookMatch(h0)'
      BY <2>1, <3>1, <3>2, Kinds DEF HookMatch
    <3> QED BY <2>1, <3>1, <3>3, <3>4, OthersMatch DEF listVars
  <2>3. CASE Link(m)
    <3>1. /\ w \in Flows /\ h0 \in Hooks /\ ListAdd(w, h0) /\ mpc[m] \in Critical
          /\ Goto(m, "insert") /\ NextFlow(m) /\ UNCHANGED probe
          /\ alive' = alive \cup ({h0} \cap Timers)
          /\ h0 \in Kprobes => h0 \in probe \/ ~Empty(h0)
      BY <2>1, <2>3, AtLink DEF Critical, Link, TimerOf
    <3>2. mpc'[m] = "insert"
      BY <3>1 DEF Goto, TypeOK
    <3>3. next'[h0] = w /\ \A h \in Hooks \ {h0} : next'[h] = next[h]
      BY <3>1, Kinds DEF ListAdd, TypeOK
    <3>4. h0 \in Kprobes => h0 \in probe
      BY <3>1, MatchParts DEF HookMatch
    <3>5. HookMatch(h0)'
      BY <3>1, <3>3, <3>4, Kinds DEF HookMatch, Empty
    <3>6. StepMatch(m)'
      BY <3>2 DEF StepMatch
    <3> QED BY <2>1, <3>1, <3>3, <3>5, <3>6, OthersMatch
  <2>4. CASE Unlink(m)
    <3>0. Rings
      BY DEF RingInv
    <3>1. /\ w \in Flows /\ w \in Nodes /\ h0 \in Hooks /\ Linked(w) /\ ListDel(w)
          /\ mpc[m] = "delete" /\ Goto(m, "grace") /\ UNCHANGED cur
          /\ UNCHANGED <<probe, timerVars>> /\ Flow(m)' = w
          /\ \A n \in Modules \ {m} : mpc[n] \notin Critical
      BY <2>1, <2>4, <3>0, AtUnlink
    <3>2. mpc'[m] = "grace"
      BY <3>1 DEF Goto, TypeOK
    <3>3. /\ prev[w] \in Nodes /\ next[prev[w]] = w /\ Linked(prev[w])
          /\ Home(w) = h0 /\ Home(next[prev[w]]) = Home(prev[w])
      BY <2>1, <3>0, <3>1, Kinds DEF Rings, Linked, Home, TypeOK
    <3>4. prev[w] \in Hooks => prev[w] = h0
      BY <3>3 DEF Home
    <3>5. \A h \in Hooks : next'[h] = next[h] \/ (h = h0 /\ next[h0] = w)
      BY <3>1, <3>3, <3>4, Kinds DEF ListDel, TypeOK
    <3>6. /\ h0 \in Kprobes => (h0 \in probe <=> ~Empty(h0))
          /\ h0 \in Timers => (h0 \in alive <=> ~Empty(h0))
      BY <3>1, MatchParts DEF HookMatch, Critical
    <3>7. HookMatch(h0)'
      <4>1. CASE next'[h0] = next[h0]
        BY <3>1, <3>6, <4>1 DEF HookMatch, Empty, timerVars
      <4>2. CASE next[h0] = w
        <5>1. ~Empty(h0)
          BY <3>1, <4>2, Kinds DEF Empty
        <5> QED BY <2>1, <3>1, <3>2, <3>6, <5>1 DEF HookMatch, timerVars
      <4> QED BY <3>1, <3>5, <4>1, <4>2
    <3>8. StepMatch(m)'
      BY <3>2 DEF StepMatch
    <3>9. \A h \in Hooks \ {h0} : next'[h] = next[h] /\ alive' = alive /\ probe' = probe
      BY <3>1, <3>5 DEF timerVars
    <3> QED BY <2>1, <3>1, <3>7, <3>8, <3>9, OthersMatch DEF Critical
  <2>5. CASE Unlinked(m)
    <3>1. /\ mpc[m] \in Critical /\ mpc[m] = "grace" /\ Goto(m, "delete") /\ NextFlow(m)
          /\ UNCHANGED <<listVars, probe, alive>> /\ ~Empty(h0)
      BY <2>1, <2>5 DEF Unlinked, Critical, timerVars
    <3>2. mpc'[m] = "delete"
      BY <3>1 DEF Goto, TypeOK
    <3>3. h0 \in Hooks => HookMatch(h0)'
      <4>1. h0 \in Hooks => HookMatch(h0)
        BY MatchParts
      <4> QED BY <3>1, <4>1 DEF HookMatch, Empty, listVars
    <3>4. StepMatch(m)'
      BY <3>2 DEF StepMatch
    <3> QED BY <2>1, <3>1, <3>3, <3>4, OthersMatch DEF listVars
  <2>6. CASE Disarm(m)
    <3>1. /\ mpc[m] \in Critical /\ Goto(m, "disarm") /\ UNCHANGED <<cur, listVars, alive>>
          /\ probe' = probe \ {h0} /\ Empty(h0) /\ h0 \in Kprobes
      BY <2>1, <2>6 DEF Disarm, Critical, timerVars
    <3>2. mpc'[m] = "disarm" /\ Flow(m)' = w
      BY <3>1 DEF Goto, TypeOK, Flow
    <3>3. HookMatch(h0)' /\ StepMatch(m)'
      BY <2>1, <3>1, <3>2, Kinds DEF HookMatch, StepMatch, Empty, listVars
    <3> QED BY <2>1, <3>1, <3>3, OthersMatch DEF listVars
  <2>7. CASE Disarmed(m)
    <3>1. /\ mpc[m] \in Critical /\ mpc[m] = "disarm" /\ Goto(m, "delete") /\ NextFlow(m)
          /\ UNCHANGED <<listVars, probe, alive>>
      BY <2>7 DEF Disarmed, Critical, timerVars
    <3>2. mpc'[m] = "delete" /\ \A n \in Modules \ {m} : mpc[n] \notin Critical
      BY <3>1, OneInside DEF Goto, TypeOK
    <3>3. h0 \in Hooks => HookMatch(h0)'
      <4>1. h0 \in Hooks => HookMatch(h0)
        BY MatchParts
      <4>2. \A n \in Modules : mpc[n] \notin {"link", "grace", "cancel"}
        BY <3>1, <3>2 DEF Critical
      <4> QED BY <3>1, <4>1, <4>2 DEF HookMatch, Empty, listVars
    <3>4. StepMatch(m)'
      BY <3>2 DEF StepMatch
    <3> QED BY <2>1, <3>1, <3>3, <3>4, OthersMatch DEF listVars
  <2>8. CASE DelTimer(m)
    <3>1. /\ mpc[m] \in Critical /\ Goto(m, "cancel") /\ Empty(h0) /\ h0 \in Timers
          /\ UNCHANGED <<cur, listVars, probe, alive>>
      BY <2>1, <2>8 DEF DelTimer, Critical
    <3>2. mpc'[m] = "cancel" /\ Flow(m)' = w
      BY <3>1 DEF Goto, TypeOK, Flow
    <3>3. HookMatch(h0)' /\ StepMatch(m)'
      BY <2>1, <3>1, <3>2, Kinds DEF HookMatch, StepMatch, Empty, listVars
    <3> QED BY <2>1, <3>1, <3>3, OthersMatch DEF listVars
  <2>9. CASE CancelWork(m)
    <3>1. /\ mpc[m] \in Critical /\ mpc[m] = "cancel" /\ Goto(m, "delete") /\ NextFlow(m)
          /\ UNCHANGED <<listVars, probe>> /\ alive' = alive \ {h0} /\ h0 \in Timers
      BY <2>1, <2>9 DEF CancelWork, Critical, FlowInv
    <3>2. Empty(h0)
      BY <2>1, <3>1, MatchParts DEF StepMatch
    <3>3. mpc'[m] = "delete"
      BY <3>1 DEF Goto, TypeOK
    <3>4. HookMatch(h0)' /\ StepMatch(m)'
      BY <3>1, <3>2, <3>3, Kinds DEF HookMatch, StepMatch, Empty, listVars
    <3> QED BY <2>1, <3>1, <3>4, OthersMatch DEF listVars
  <2> QED BY <1>2, <2>2, <2>3, <2>4, <2>5, <2>6, <2>7, <2>8, <2>9 DEF ModuleStep
<1>3. ASSUME NEW m \in Modules, Bookkeeping(m)
      PROVE  MatchInv'
  BY <1>1, <1>3, BookkeepingFrame DEF timerVars
<1>4. UNCHANGED <<mpc, cur, listVars, probe, alive>> => MatchInv'
  BY <1>1 DEF SameHeld, Flow
<1>5. ASSUME NEW c \in Cpus, Walk(c) \/ \E h \in Kprobes : Hit(c, h)
      PROVE  MatchInv'
  BY <1>4, <1>5, ContextFrame DEF timerVars
<1>6. ASSUME NEW t \in Timers, TimerMoves(t) \/ WorkLocks(t) \/ WorkWalks(t)
      PROVE  MatchInv'
  BY <1>4, <1>6, ContextFrame
<1> QED BY <1>2, <1>3, <1>4, <1>5, <1>6, StepCases DEF vars, modVars, timerVars

----------------------------------------------------------------------------
(* Handlers and their kprobe; timers and their work items.                  *)

LEMMA HandlerStep ==
  ASSUME HookInv, [Next]_vars
  PROVE  HandlerInv'
<1> USE DEF HookInv
<1> DEFINE HandlerOK(c) ==
      at[c] # None =>
        \/ Home(at[c]) \in probe
        \/ \E m \in Modules : mpc[m] = "disarm" /\ HookOf(Flow(m)) = Home(at[c]) /\ c \in gp
<1>1. ASSUME UNCHANGED at, probe \subseteq probe',
             \A c \in Cpus : at[c] # None => Home(at[c]) \in probe
      PROVE  HandlerInv'
  BY <1>1 DEF HandlerInv, Home
<1>2. ASSUME NEW c \in Cpus, at'[c] = at[c], UNCHANGED probe, SameHeld,
             \A n \in Modules : mpc[n] \in Held => mpc'[n] = mpc[n],
             c \in gp => c \in gp'
      PROVE  HandlerOK(c)'
  BY <1>2 DEF HandlerInv, Home, SameHeld, Held
<1>3. (\A n \in Modules : mpc[n] = "disarm" => gp = {}) =>
        \A c \in Cpus : at[c] # None => Home(at[c]) \in probe
  BY DEF HandlerInv
<1>4. ASSUME NEW m \in Modules, ModuleStep(m)
      PROVE  HandlerInv'
  <2>1. CASE Bookkeeping(m)
    <3>1. CASE gp' = gp
      BY <1>2, <2>1, <3>1, BookkeepingFrame DEF HandlerInv, walkVars
    <3>2. CASE \A n \in Modules : mpc[n] \notin Held
      BY <1>1, <1>3, <2>1, <3>2, BookkeepingFrame DEF walkVars, Held
    <3> QED BY <2>1, <3>1, <3>2, BookkeepingFrame
  <2>2. CASE Disarm(m)
    <3>1. /\ mpc[m] = "grace" /\ mpc'[m] = "disarm" /\ Flow(m)' = Flow(m)
          /\ probe' = probe \ {HookOf(Flow(m))} /\ gp' = Readers /\ UNCHANGED at
      BY <2>2 DEF Disarm, Goto, TypeOK, Flow, StartGrace, walkVars
    <3>2. \A n \in Modules : mpc[n] # "disarm"
      BY <3>1, OneInside DEF Critical
    <3>3. ASSUME NEW c \in Cpus, at[c] # None
          PROVE  HandlerOK(c)'
      <4>1. Home(at[c]) \in probe /\ c \in gp'
        BY <1>3, <3>1, <3>2, <3>3 DEF Readers
      <4>2. Home(at[c])' = Home(at[c])
        BY <3>1 DEF Home
      <4> QED BY <3>1, <4>1, <4>2
    <3> QED BY <3>1, <3>3 DEF HandlerInv
  <2>3. CASE ~Bookkeeping(m) /\ ~Disarm(m)
    <3>1. UNCHANGED at /\ probe \subseteq probe'
      BY <1>4, <2>3 DEF ModuleStep, Arm, Link, Unlink, Unlinked, Disarmed, DelTimer,
                        CancelWork, walkVars
    <3>2. mpc[m] \in Critical /\ (mpc[m] = "disarm" => gp = {})
      BY <1>4, <2>3 DEF ModuleStep, Arm, Link, Unlink, Unlinked, Disarmed, DelTimer,
                        CancelWork, Critical
    <3>3. \A n \in Modules : mpc[n] = "disarm" => gp = {}
      BY <3>2, OneInside DEF Critical
    <3> QED BY <1>1, <1>3, <3>1, <3>3
  <2> QED BY <2>1, <2>2, <2>3
<1>5. ASSUME NEW c \in Cpus, Walk(c) \/ \E h \in Kprobes : Hit(c, h)
      PROVE  HandlerInv'
  <2>1. /\ UNCHANGED <<mpc, probe>> /\ SameHeld /\ gp \ {c} \subseteq gp' /\ c \in Contexts
        /\ \A d \in Cpus \ {c} : at'[d] = at[d]
    <3>1. UNCHANGED <<mpc, probe>> /\ SameHeld /\ c \in Contexts /\ Cpus \subseteq Contexts
      BY <1>5, ContextFrame, Kinds
    <3>2. gp \ {c} \subseteq gp'
      BY <1>5, EnterVisit
    <3>3. \E n \in Nodes \cup {None} : at' = [at EXCEPT ![c] = n]
      BY <1>5, <3>1, EnterVisit, Kinds DEF Enter, Visit, TypeOK
    <3> QED BY <3>1, <3>2, <3>3 DEF TypeOK
  <2>2. \A d \in Cpus \ {c} : HandlerOK(d)'
    BY <1>2, <2>1
  <2>3. ASSUME NEW h \in Kprobes, Hit(c, h)
        PROVE  HandlerOK(c)'
    <3>1. at'[c] = h /\ h \in probe /\ h \in Hooks
      BY <2>1, <2>3, EnterVisit DEF Enter, TypeOK
    <3> QED BY <2>1, <3>1 DEF Home
  <2>4. ASSUME Walk(c)
        PROVE  HandlerOK(c)'
    <3>1. at[c] # None /\ Visit(c, next[at[c]])
          /\ gp' = (IF next[at[c]] \in Hooks THEN gp \ {c} ELSE gp)
      BY <2>4, EnterVisit
    <3>2. CASE next[at[c]] \in Hooks
      BY <2>1, <3>1, <3>2 DEF Visit, TypeOK
    <3>3. CASE next[at[c]] \notin Hooks
      <4>1. at'[c] = next[at[c]] /\ gp' = gp
        BY <2>1, <3>1, <3>3 DEF Visit, TypeOK
      <4>2. Home(at[c])' = Home(at[c])
        BY <2>1, <3>1, <4>1, Onward DEF Home
      <4>3. HandlerOK(c)
        BY DEF HandlerInv
      <4> QED BY <2>1, <3>1, <4>1, <4>2, <4>3 DEF SameHeld, Held, Flow
    <3> QED BY <3>2, <3>3
  <2> QED BY <1>5, <2>2, <2>3, <2>4 DEF HandlerInv
<1>6. ASSUME NEW t \in Timers, TimerMoves(t) \/ WorkLocks(t) \/ WorkWalks(t)
      PROVE  HandlerInv'
  <2>1. UNCHANGED <<mpc, probe, gp>> /\ SameHeld /\ \A d \in Cpus : at'[d] = at[d]
    BY <1>6, ContextFrame, EnterVisit, Kinds DEF Enter, Visit, TypeOK, walkVars
  <2> QED BY <1>2, <2>1 DEF HandlerInv
<1>7. UNCHANGED vars => HandlerInv'
  BY DEF vars, modVars, walkVars, HandlerInv, Home, Flow
<1> QED BY <1>4, <1>5, <1>6, <1>7, StepCases

LEMMA TimerStep ==
  ASSUME HookInv, [Next]_vars
  PROVE  TimerInv'
<1> USE DEF HookInv
<1>1. ASSUME UNCHANGED timerVars, \A n \in Modules : mpc'[n] # "cancel"
      PROVE  TimerInv'
  BY <1>1 DEF TimerInv, TimersInMemory, timerVars
<1>2. ASSUME SameHeld, UNCHANGED timerVars
      PROVE  TimerInv'
  BY <1>2 DEF TimerInv, TimersInMemory, timerVars, SameHeld, Held
<1>3. ASSUME NEW m \in Modules, mpc[m] \in Critical, NEW s, s # "cancel", Goto(m, s)
      PROVE  \A n \in Modules : mpc'[n] # "cancel"
  BY <1>3, OneInside DEF Goto, TypeOK, Critical
<1>4. ASSUME NEW m \in Modules, ModuleStep(m)
      PROVE  TimerInv'
  <2>1. CASE Bookkeeping(m)
    BY <1>2, <2>1, BookkeepingFrame
  <2>2. CASE Arm(m) BY <1>1, <1>3, <2>2 DEF Arm, Critical
  <2>3. CASE Link(m)
    <3>1. \A n \in Modules : mpc'[n] # "cancel"
      BY <1>3, <2>3 DEF Link, Critical
    <3>2. TimersInMemory'
      BY <2>3 DEF Link, TimerInv, TimersInMemory
    <3> QED BY <3>1, <3>2 DEF TimerInv
  <2>4. CASE Unlink(m) BY <1>1, <1>3, <2>4 DEF Unlink, Critical
  <2>5. CASE Unlinked(m) BY <1>1, <1>3, <2>5 DEF Unlinked, Critical
  <2>6. CASE Disarm(m) BY <1>1, <1>3, <2>6 DEF Disarm, Critical
  <2>7. CASE Disarmed(m) BY <1>1, <1>3, <2>7 DEF Disarmed, Critical
  <2>8. CASE DelTimer(m)
    <3> DEFINE t == HookOf(Flow(m))
    <3>1. /\ mpc[m] \in Critical /\ Goto(m, "cancel") /\ t \notin firing
          /\ armed' = armed \ {t} /\ UNCHANGED <<cur, alive, firing, pending, running>>
      BY <2>8 DEF DelTimer, Critical
    <3>2. \A n \in Modules : mpc'[n] = "cancel" => n = m
      BY <3>1, OneInside DEF Goto, TypeOK, Critical
    <3>3. TimersInMemory'
      BY <3>1 DEF TimerInv, TimersInMemory
    <3>4. Flow(m)' = Flow(m)
      BY <3>1 DEF Flow
    <3> QED BY <3>1, <3>2, <3>3, <3>4 DEF TimerInv
  <2>9. CASE CancelWork(m)
    <3>1. \A n \in Modules : mpc'[n] # "cancel"
      BY <1>3, <2>9 DEF CancelWork, Critical
    <3>2. HookOf(Flow(m)) \notin armed \cup firing
      BY <2>9 DEF CancelWork, TimerInv
    <3>3. TimersInMemory'
      BY <2>9, <3>2 DEF CancelWork, TimerInv, TimersInMemory
    <3> QED BY <3>1, <3>3 DEF TimerInv
  <2> QED BY <1>4, <2>1, <2>2, <2>3, <2>4, <2>5, <2>6, <2>7, <2>8, <2>9 DEF ModuleStep
<1>5. ASSUME NEW c \in Cpus, Walk(c) \/ \E h \in Kprobes : Hit(c, h)
      PROVE  TimerInv'
  BY <1>2, <1>5, ContextFrame
<1>6. ASSUME SameHeld, UNCHANGED alive,
             armed' \cup firing' \subseteq armed \cup firing,
             pending' \cup running' \subseteq alive
      PROVE  TimerInv'
  BY <1>6 DEF TimerInv, TimersInMemory, SameHeld, Held
<1>7. ASSUME NEW t \in Timers, TimerMoves(t)
      PROVE  TimerInv'
  <2>1. SameHeld /\ UNCHANGED alive
    BY <1>7, ContextFrame
  <2>2. /\ armed' \cup firing' \subseteq armed \cup firing
        /\ pending' \cup running' \subseteq pending \cup running \cup armed
    <3>1. CASE Fire(t) BY <3>1 DEF Fire
    <3>2. CASE Rearm(t) BY <3>2 DEF Rearm
    <3>3. CASE WorkStarts(t) BY <3>3 DEF WorkStarts
    <3>4. CASE WorkSkips(t) BY <3>4 DEF WorkSkips
    <3> QED BY <1>7, <3>1, <3>2, <3>3, <3>4 DEF TimerMoves
  <2> QED BY <1>6, <2>1, <2>2 DEF TimerInv, TimersInMemory
<1>8. ASSUME NEW t \in Timers, WorkLocks(t) \/ WorkWalks(t)
      PROVE  TimerInv'
  <2>1. SameHeld /\ UNCHANGED <<alive, armed, firing, pending>>
    BY <1>8, ContextFrame
  <2>2. running' \subseteq running
    BY <1>8 DEF WorkLocks, WorkWalks, timerVars
  <2> QED BY <1>6, <2>1, <2>2 DEF TimerInv, TimersInMemory
<1>9. UNCHANGED vars => TimerInv'
  BY <1>2 DEF vars, modVars, SameHeld, Flow
<1> QED BY <1>4, <1>5, <1>7, <1>8, <1>9, StepCases

----------------------------------------------------------------------------
(* The order of the lists.                                                  *)

LEMMA OrderInit == ASSUME Init PROVE OrderInv
<1> DEFINE rank == [w \in Flows |-> 0]
<1>1. \A w \in Flows : ~Linked(w)
  BY Kinds DEF Init, Linked
<1>2. \A c \in Contexts : at[c] = None /\ owed[c] = {}
  BY DEF Init
<1>3. \A w \in Flows : ~Stood(w)
  BY <1>2, Kinds DEF Stood
<1>4. Ranked(rank)
  BY <1>1, <1>2, <1>3 DEF Ranked, RanksDiffer, RanksFall, HeadFirst, OwedAhead
<1>5. rank \in [Flows -> Nat] /\ \A w \in Flows : rank[w] < 1
  OBVIOUS
<1> QED BY <1>4, <1>5 DEF OrderInv

\* A workflow that is added gets the highest rank so far.
LEMMA AddKeepsOrder ==
  ASSUME TypeOK, Rings, OrderInv, NEW w \in Flows, NEW h \in Hooks, HookOf(w) = h,
         ~Linked(w), ListAdd(w, h), UNCHANGED walkVars,
         \A c \in Contexts : at[c] # None => Linked(at[c])
  PROVE  OrderInv'
<1> USE Kinds DEF TypeOK
<1>1. PICK rank \in [Flows -> Nat], k \in Nat :
        Ranked(rank) /\ \A v \in Flows : rank[v] < k
  BY DEF OrderInv
<1> DEFINE new == [rank EXCEPT ![w] = k]
<1>2. /\ new \in [Flows -> Nat] /\ new[w] = k
      /\ \A v \in Flows : v # w => new[v] = rank[v]
  OBVIOUS
<1>3. \A v \in Flows : rank[v] \in Nat /\ rank[v] < k
  BY <1>1
<1>4. \A v \in Flows : new[v] < k + 1
  BY <1>2, <1>3
<1>5. /\ next'[w] = next[h] /\ next'[h] = w
      /\ \A n \in Nodes \ {w, h} : next'[n] = next[n]
      /\ \A n \in Nodes : Linked(n)' <=> Linked(n) \/ n = w
  <2>1. next[h] \in Nodes /\ Linked(next[h]) /\ w \in Nodes /\ h \in Nodes /\ w # h
        /\ h # None
    BY DEF Rings
  <2>2. \A n \in Nodes : next'[n] = IF n = h THEN w ELSE IF n = w THEN next[h] ELSE next[n]
    BY <2>1 DEF ListAdd
  <2>3. \A n \in Nodes : prev'[n] = IF n = next[h] THEN w ELSE IF n = w THEN h ELSE prev[n]
    BY <2>1 DEF ListAdd
  <2>4. \A n \in Nodes : Linked(n)' <=> Linked(n) \/ n = w
    <3>1. w # None
      BY <2>1
    <3>2. \A n \in Nodes : prev'[n] = prev[n] \/ n = next[h] \/ n = w
      BY <2>3
    <3>3. prev'[w] # None /\ prev'[next[h]] # None
      BY <2>1, <2>3, <3>1
    <3> QED BY <2>1, <3>2, <3>3 DEF Linked
  <2> QED BY <2>1, <2>2, <2>4
<1>6. \A n \in Nodes : Linked(n) => next[n] \in Nodes /\ next[n] # w
  BY DEF Rings
<1>7. Linked(h) /\ h \notin Flows
  BY DEF Rings
<1>8. ASSUME NEW n \in Flows, Stood(n)
      PROVE  Linked(n)
  <2>1. PICK c \in Contexts : at[c] = n
    BY <1>8 DEF Stood
  <2>2. at[c] # None
    BY <2>1
  <2> QED BY <2>1, <2>2
<1>9. RanksDiffer(new)'
  <2>1. RanksDiffer(rank)
    BY <1>1 DEF Ranked
  <2>2. ASSUME NEW v \in Flows, NEW u \in Flows, Linked(v)', Linked(u)', new[v] = new[u]
        PROVE  v = u
    <3>1. CASE v # w /\ u # w
      BY <1>2, <1>5, <2>1, <2>2, <3>1 DEF RanksDiffer
    <3>2. CASE v = w \/ u = w
      BY <1>2, <1>3, <2>2, <3>2
    <3> QED BY <3>1, <3>2
  <2> QED BY <2>2 DEF RanksDiffer
<1>10. RanksFall(new)'
  <2>1. RanksFall(rank) /\ HeadFirst(rank)
    BY <1>1 DEF Ranked
  <2>2. ASSUME NEW n \in Flows, Linked(n)' \/ Stood(n)'
        PROVE  /\ next'[n] \in Flows => new[next'[n]] < new[n]
               /\ \A v \in Flows : Linked(v)' /\ HookOf(v) = HookOf(n) /\ new[v] < new[n] =>
                    next'[n] \in Flows /\ new[v] <= new[next'[n]]
    <3>1. Linked(n) \/ n = w
      BY <1>5, <1>8, <2>2 DEF Stood, walkVars
    <3>2. CASE n = w
      <4>1. next'[n] = next[h] /\ next[h] # w /\ new[n] = k
        BY <1>2, <1>5, <1>6, <1>7, <3>2
      <4>2. next'[n] \in Flows => new[next'[n]] < new[n]
        BY <1>2, <1>3, <4>1
      <4>3. ASSUME NEW v \in Flows, Linked(v)', HookOf(v) = HookOf(n), new[v] < new[n]
            PROVE  next'[n] \in Flows /\ new[v] <= new[next'[n]]
        <5>1. v # w /\ Linked(v) /\ HookOf(v) = h
          BY <1>2, <1>5, <3>2, <4>3
        <5>2. next[h] \in Flows /\ rank[v] <= rank[next[h]]
          BY <2>1, <5>1 DEF HeadFirst
        <5> QED BY <1>2, <4>1, <5>1, <5>2
      <4> QED BY <4>2, <4>3
    <3>3. CASE n # w
      <4>1. Linked(n) /\ next'[n] = next[n] /\ next[n] # w /\ new[n] = rank[n]
        BY <1>2, <1>5, <1>6, <1>7, <3>1, <3>3
      <4>2. next[n] \in Flows => new[next[n]] = rank[next[n]] /\ rank[next[n]] < rank[n]
        BY <1>2, <2>1, <4>1 DEF RanksFall
      <4>3. ASSUME NEW v \in Flows, Linked(v)', HookOf(v) = HookOf(n), new[v] < new[n]
            PROVE  next'[n] \in Flows /\ new[v] <= new[next'[n]]
        <5>1. v # w
          BY <1>2, <1>3, <4>1, <4>3
        <5>2. Linked(v) /\ rank[v] < rank[n] /\ new[v] = rank[v]
          BY <1>2, <1>5, <4>1, <4>3, <5>1
        <5> QED BY <2>1, <4>1, <4>2, <4>3, <5>2 DEF RanksFall
      <4> QED BY <4>1, <4>2, <4>3
    <3> QED BY <3>2, <3>3
  <2> QED BY <2>2 DEF RanksFall
<1>11. HeadFirst(new)'
  <2>1. HeadFirst(rank)
    BY <1>1 DEF Ranked
  <2>2. ASSUME NEW g \in Hooks, NEW v \in Flows, Linked(v)', HookOf(v) = g
        PROVE  next'[g] \in Flows /\ new[v] <= new[next'[g]]
    <3>1. CASE g = h
      BY <1>2, <1>3, <1>5, <3>1
    <3>2. CASE g # h
      <4>1. v # w /\ Linked(v) /\ g \in Nodes /\ g # w /\ Linked(g)
        BY <1>5, <2>2, <3>2 DEF Rings
      <4>2. next'[g] = next[g] /\ next[g] # w
        BY <1>5, <1>6, <3>2, <4>1
      <4>3. next[g] \in Flows /\ rank[v] <= rank[next[g]]
        BY <2>1, <2>2, <4>1 DEF HeadFirst
      <4> QED BY <1>2, <4>1, <4>2, <4>3
    <3> QED BY <3>1, <3>2
  <2> QED BY <2>2 DEF HeadFirst
<1>12. OwedAhead(new)'
  <2>1. OwedAhead(rank)
    BY <1>1 DEF Ranked
  <2>2. ASSUME NEW c \in Contexts, NEW v \in Flows, v \in owed[c]
        PROVE  /\ at[c] # None /\ Linked(v)' /\ HookOf(v) = Home(at[c])
               /\ at[c] \in Flows => new[v] < new[at[c]]
    <3>1. /\ at[c] # None /\ Linked(v) /\ HookOf(v) = Home(at[c])
          /\ at[c] \in Flows => rank[v] < rank[at[c]]
      BY <2>1, <2>2 DEF OwedAhead
    <3>2. v # w /\ at[c] # w
      BY <3>1
    <3> QED BY <1>2, <1>5, <3>1, <3>2
  <2> QED BY <2>2 DEF OwedAhead, walkVars, Home
<1>13. Ranked(new)'
  BY <1>9, <1>10, <1>11, <1>12 DEF Ranked
<1>14. k + 1 \in Nat
  OBVIOUS
<1> HIDE DEF new
<1> QED BY <1>2, <1>4, <1>13, <1>14 DEF OrderInv

\* The ranks are still right without a workflow: who came before it comes now
\* before what came after it.
LEMMA DelKeepsOrder ==
  ASSUME TypeOK, Rings, OrderInv, NEW w \in Flows, Linked(w), next[w] # w, ListDel(w),
         UNCHANGED at
  PROVE  OrderInv'
<1> USE Kinds DEF TypeOK
<1> DEFINE x == next[w]  p == prev[w]
<1>1. PICK rank \in [Flows -> Nat], k \in Nat :
        Ranked(rank) /\ \A v \in Flows : rank[v] < k
  BY DEF OrderInv
<1>2. RanksDiffer(rank) /\ RanksFall(rank) /\ HeadFirst(rank) /\ OwedAhead(rank)
  BY <1>1 DEF Ranked
<1>3. \A v \in Flows : rank[v] \in Nat
  BY <1>1
<1>4. /\ w \in Nodes /\ x \in Nodes /\ p \in Nodes /\ Linked(p) /\ next[p] = w
      /\ Home(p) = HookOf(w)
  BY DEF Rings, Home, Linked
<1>5. next'[p] = x /\ \A n \in Nodes \ {p} : next'[n] = next[n]
  BY <1>4 DEF ListDel
<1>6. \A n \in Nodes : Linked(n)' <=> Linked(n) /\ n # w
  BY DelKeepsRings
<1>7. ASSUME NEW v \in Flows, Linked(v), v # w, HookOf(v) = HookOf(w), rank[v] <= rank[w]
      PROVE  x \in Flows /\ rank[v] <= rank[x]
  <2>1. rank[v] # rank[w]
    BY <1>2, <1>7 DEF RanksDiffer
  <2>2. rank[v] < rank[w]
    BY <1>3, <1>7, <2>1
  <2> QED BY <1>2, <1>7, <2>2 DEF RanksFall
<1>8. RanksDiffer(rank)'
  BY <1>2, <1>6 DEF RanksDiffer
<1>9. RanksFall(rank)'
  <2>1. ASSUME NEW n \in Flows, Linked(n)' \/ Stood(n)'
        PROVE  /\ next'[n] \in Flows => rank[next'[n]] < rank[n]
               /\ \A v \in Flows : Linked(v)' /\ HookOf(v) = HookOf(n) /\ rank[v] < rank[n] =>
                    next'[n] \in Flows /\ rank[v] <= rank[next'[n]]
    <3>1. Linked(n) \/ Stood(n)
      BY <1>6, <2>1 DEF Stood
    <3>2. CASE n = p
      <4>1. next'[n] = x /\ Linked(n) /\ next[n] = w /\ rank[w] < rank[n]
            /\ HookOf(n) = HookOf(w)
        BY <1>2, <1>4, <1>5, <3>2 DEF RanksFall, Home
      <4>2. x \in Flows => rank[x] < rank[n]
        <5>1. x \in Flows => rank[x] < rank[w]
          BY <1>2 DEF RanksFall
        <5> QED BY <1>3, <4>1, <5>1
      <4>3. ASSUME NEW v \in Flows, Linked(v)', HookOf(v) = HookOf(n), rank[v] < rank[n]
            PROVE  x \in Flows /\ rank[v] <= rank[x]
        <5>1. Linked(v) /\ v # w
          BY <1>6, <4>3
        <5>2. rank[v] <= rank[w]
          BY <1>2, <4>1, <4>3, <5>1 DEF RanksFall
        <5> QED BY <1>7, <4>1, <4>3, <5>1, <5>2
      <4> QED BY <4>1, <4>2, <4>3
    <3>3. CASE n # p
      BY <1>2, <1>5, <1>6, <3>1, <3>3 DEF RanksFall
    <3> QED BY <3>2, <3>3
  <2> QED BY <2>1 DEF RanksFall
<1>10. HeadFirst(rank)'
  <2>1. ASSUME NEW h \in Hooks, NEW v \in Flows, Linked(v)', HookOf(v) = h
        PROVE  next'[h] \in Flows /\ rank[v] <= rank[next'[h]]
    <3>1. Linked(v) /\ v # w
      BY <1>6, <2>1
    <3>2. next[h] \in Flows /\ rank[v] <= rank[next[h]]
      BY <1>2, <2>1, <3>1 DEF HeadFirst
    <3>3. CASE h = p
      <4>1. next'[h] = x /\ HookOf(w) = h /\ next[h] = w
        BY <1>4, <1>5, <3>3 DEF Home
      <4> QED BY <1>7, <2>1, <3>1, <3>2, <4>1
    <3>4. CASE h # p
      BY <1>5, <3>2, <3>4
    <3> QED BY <3>3, <3>4
  <2> QED BY <2>1 DEF HeadFirst
<1>11. OwedAhead(rank)'
  <2>1. ASSUME NEW c \in Contexts, NEW v \in Flows, v \in owed'[c]
        PROVE  /\ at[c] # None /\ Linked(v)' /\ HookOf(v) = Home(at[c])
               /\ at[c] \in Flows => rank[v] < rank[at[c]]
    <3>1. v \in owed[c] /\ v # w
      BY <2>1 DEF ListDel
    <3> QED BY <1>2, <1>6, <3>1 DEF OwedAhead
  <2> QED BY <2>1 DEF OwedAhead, Home
<1>12. Ranked(rank)'
  BY <1>8, <1>9, <1>10, <1>11 DEF Ranked
<1> QED BY <1>1, <1>12 DEF OrderInv

\* A traversal that begins owes what is on the list, all of it ahead.
LEMMA EnterKeepsOrder ==
  ASSUME TypeOK, OrderInv, NEW c \in Contexts, NEW h \in Hooks, at[c] = None,
         Enter(c, h), UNCHANGED listVars
  PROVE  OrderInv'
<1> USE Kinds DEF TypeOK
<1>1. PICK rank \in [Flows -> Nat], k \in Nat :
        Ranked(rank) /\ \A v \in Flows : rank[v] < k
  BY DEF OrderInv
<1>2. RanksDiffer(rank) /\ RanksFall(rank) /\ HeadFirst(rank) /\ OwedAhead(rank)
  BY <1>1 DEF Ranked
<1>3. /\ at'[c] = h /\ owed'[c] = OnList(h)
      /\ \A d \in Contexts \ {c} : at'[d] = at[d] /\ owed'[d] = owed[d]
  BY DEF Enter
<1>4. ASSUME NEW n \in Flows, Stood(n)'
      PROVE  Stood(n)
  <2>1. PICK d \in Contexts : at'[d] = n
    BY <1>4 DEF Stood
  <2>2. d # c
    BY <1>3, <2>1
  <2> QED BY <1>3, <2>1, <2>2 DEF Stood
<1>5. \A n : Linked(n)' <=> Linked(n)
  BY DEF Linked, listVars
<1>6. RanksDiffer(rank)' /\ RanksFall(rank)' /\ HeadFirst(rank)'
  BY <1>2, <1>4, <1>5 DEF RanksDiffer, RanksFall, HeadFirst, listVars
<1>7. OwedAhead(rank)'
  <2>1. ASSUME NEW d \in Contexts, NEW v \in Flows, v \in owed'[d]
        PROVE  /\ at'[d] # None /\ Linked(v) /\ HookOf(v) = Home(at'[d])
               /\ at'[d] \in Flows => rank[v] < rank[at'[d]]
    <3>1. CASE d = c
      BY <1>3, <2>1, <3>1 DEF OnList, Home
    <3>2. CASE d # c
      BY <1>2, <1>3, <2>1, <3>2 DEF OwedAhead
    <3> QED BY <3>1, <3>2
  <2> QED BY <1>5, <2>1 DEF OwedAhead, Home
<1> QED BY <1>1, <1>6, <1>7 DEF OrderInv, Ranked

\* A traversal that goes on has the rest of what it owes ahead, and owes
\* nothing where it ends.
LEMMA OwedNext ==
  ASSUME TypeOK, RingInv, StandInv, NEW rank \in [Flows -> Nat], Ranked(rank),
         NEW c \in Contexts, at[c] # None, NEW v \in Flows, v \in owed[c]
  PROVE  /\ next[at[c]] \in Flows /\ rank[v] <= rank[next[at[c]]]
         /\ Linked(v) /\ HookOf(v) = HookOf(next[at[c]])
<1> USE Kinds DEF TypeOK
<1>1. RanksFall(rank) /\ HeadFirst(rank) /\ OwedAhead(rank)
  BY DEF Ranked
<1>2. /\ Linked(v) /\ HookOf(v) = Home(at[c])
      /\ at[c] \in Flows => rank[v] < rank[at[c]]
  BY <1>1 DEF OwedAhead
<1>3. next[at[c]] \in Flows /\ rank[v] <= rank[next[at[c]]]
  <2>1. CASE at[c] \in Hooks
    BY <1>1, <1>2, <2>1 DEF HeadFirst, Home
  <2>2. CASE at[c] \in Flows
    <3>1. Stood(at[c]) /\ HookOf(v) = HookOf(at[c]) /\ rank[v] < rank[at[c]]
      BY <1>2, <2>2 DEF Stood, Home
    <3> QED BY <1>1, <1>2, <2>2, <3>1 DEF RanksFall
  <2> QED BY <2>1, <2>2
<1>4. Home(next[at[c]]) = Home(at[c])
  BY Onward
<1> QED BY <1>2, <1>3, <1>4 DEF Home

LEMMA VisitKeepsOrder ==
  ASSUME TypeOK, RingInv, StandInv, OrderInv, NEW c \in Contexts, at[c] # None,
         Visit(c, next[at[c]]), UNCHANGED listVars
  PROVE  OrderInv'
<1> USE Kinds DEF TypeOK
<1> DEFINE n == next[at[c]]
<1>1. PICK rank \in [Flows -> Nat], k \in Nat :
        Ranked(rank) /\ \A v \in Flows : rank[v] < k
  BY DEF OrderInv
<1>2. RanksDiffer(rank) /\ RanksFall(rank) /\ HeadFirst(rank) /\ OwedAhead(rank)
  BY <1>1 DEF Ranked
<1>3. n \in Nodes /\ Linked(n)
  BY Onward
<1>4. /\ at'[c] = (IF n \in Hooks THEN None ELSE n)
      /\ owed'[c] = (IF n \in Hooks THEN {} ELSE owed[c] \ {n})
      /\ \A d \in Contexts \ {c} : at'[d] = at[d] /\ owed'[d] = owed[d]
  BY <1>3 DEF Visit
<1>5. \A u : Linked(u)' <=> Linked(u)
  BY DEF Linked, listVars
<1>6. ASSUME NEW u \in Flows, Stood(u)'
      PROVE  Stood(u) \/ Linked(u)
  <2>1. PICK d \in Contexts : at'[d] = u
    BY <1>6 DEF Stood
  <2>2. CASE d = c
    <3>1. u = None \/ u = n
      BY <1>4, <2>1, <2>2
    <3> QED BY <1>3, <3>1
  <2>3. CASE d # c
    BY <1>4, <2>1, <2>3 DEF Stood
  <2> QED BY <2>2, <2>3
<1>7. RanksDiffer(rank)' /\ HeadFirst(rank)'
  BY <1>2, <1>5 DEF RanksDiffer, HeadFirst, listVars
<1>8. RanksFall(rank)'
  BY <1>2, <1>5, <1>6 DEF RanksFall, listVars
<1>9. OwedAhead(rank)'
  <2>1. ASSUME NEW d \in Contexts, NEW v \in Flows, v \in owed'[d]
        PROVE  /\ at'[d] # None /\ Linked(v) /\ HookOf(v) = Home(at'[d])
               /\ at'[d] \in Flows => rank[v] < rank[at'[d]]
    <3>1. CASE d = c
      <4>1. n \notin Hooks /\ v \in owed[c] /\ v # n /\ at'[c] = n
        BY <1>4, <2>1, <3>1
      <4>2. n \in Flows /\ rank[v] <= rank[n] /\ Linked(v) /\ HookOf(v) = HookOf(n)
        BY <1>1, <4>1, OwedNext
      <4>3. rank[v] # rank[n]
        BY <1>2, <1>3, <4>1, <4>2 DEF RanksDiffer
      <4>4. rank[v] < rank[n]
        BY <1>1, <4>2, <4>3
      <4>5. n # None /\ Home(n) = HookOf(n)
        BY <1>3, <4>1 DEF Home
      <4> QED BY <3>1, <4>1, <4>2, <4>4, <4>5
    <3>2. CASE d # c
      BY <1>2, <1>4, <2>1, <3>2 DEF OwedAhead
    <3> QED BY <3>1, <3>2
  <2> QED BY <1>5, <2>1 DEF OwedAhead, Home
<1> QED BY <1>1, <1>7, <1>8, <1>9 DEF OrderInv, Ranked

LEMMA OrderStep ==
  ASSUME HookInv, OrderInv, [Next]_vars
  PROVE  OrderInv'
<1> USE DEF HookInv
<1>1. ASSUME UNCHANGED <<listVars, walkVars>>
      PROVE  OrderInv'
  <2>1. \A n : Linked(n)' <=> Linked(n)
    BY <1>1 DEF Linked, listVars
  <2>2. \A n : Stood(n)' <=> Stood(n)
    BY <1>1 DEF Stood, walkVars
  <2>3. PICK rank \in [Flows -> Nat], k \in Nat :
          Ranked(rank) /\ \A v \in Flows : rank[v] < k
    BY DEF OrderInv
  <2>4. Ranked(rank)'
    BY <1>1, <2>1, <2>2, <2>3 DEF Ranked, RanksDiffer, RanksFall, HeadFirst, OwedAhead,
                                  Home, listVars, walkVars
  <2> QED BY <2>3, <2>4 DEF OrderInv
<1>2. ASSUME NEW m \in Modules, ModuleStep(m)
      PROVE  OrderInv'
  <2>1. CASE Bookkeeping(m)
    BY <1>1, <2>1, BookkeepingFrame
  <2>2. CASE HookStep(m)
    BY <1>1, <2>2, HookFrame
  <2>3. CASE Link(m)
    <3>1. /\ Flow(m) \in Flows /\ HookOf(Flow(m)) \in Hooks /\ ~Linked(Flow(m))
          /\ ListAdd(Flow(m), HookOf(Flow(m))) /\ UNCHANGED walkVars
          /\ mpc[m] \in Critical /\ mpc[m] # "grace"
      BY <2>3, AtLink DEF Critical
    <3>2. \A n \in Modules : mpc[n] # "grace"
      BY <3>1, OneInside DEF Critical
    <3>3. \A c \in Contexts : at[c] # None => Linked(at[c])
      BY <3>2 DEF StandInv
    <3> QED BY <3>1, <3>3, AddKeepsOrder DEF RingInv
  <2>4. CASE Unlink(m)
    <3>1. /\ Flow(m) \in Flows /\ Linked(Flow(m)) /\ ListDel(Flow(m))
          /\ next[Flow(m)] # Flow(m) /\ UNCHANGED at
      BY <2>4, AtUnlink DEF RingInv
    <3> QED BY <3>1, DelKeepsOrder DEF RingInv
  <2> QED BY <1>2, <2>1, <2>2, <2>3, <2>4 DEF ModuleStep, HookStep
<1>3. ASSUME NEW c \in Contexts, UNCHANGED listVars,
             \/ \E h \in Hooks : at[c] = None /\ Enter(c, h)
             \/ at[c] # None /\ Visit(c, next[at[c]])
      PROVE  OrderInv'
  BY <1>3, EnterKeepsOrder, VisitKeepsOrder
<1>4. ASSUME NEW c \in Cpus, Walk(c) \/ \E h \in Kprobes : Hit(c, h)
      PROVE  OrderInv'
  <2>1. UNCHANGED listVars /\ c \in Contexts
    BY <1>4, ContextFrame, Kinds
  <2>2. \/ \E h \in Hooks : at[c] = None /\ Enter(c, h)
        \/ at[c] # None /\ Visit(c, next[at[c]])
    BY <1>4, EnterVisit
  <2> QED BY <1>3, <2>1, <2>2
<1>5. ASSUME NEW t \in Timers, WorkLocks(t) \/ WorkWalks(t)
      PROVE  OrderInv'
  <2>1. UNCHANGED listVars /\ t \in Contexts
    BY <1>5, ContextFrame, Kinds
  <2>2. \/ \E h \in Hooks : at[t] = None /\ Enter(t, h)
        \/ at[t] # None /\ Visit(t, next[at[t]])
    BY <1>5, EnterVisit
  <2> QED BY <1>3, <2>1, <2>2
<1>6. \A t \in Timers : TimerMoves(t) => OrderInv'
  BY <1>1, ContextFrame
<1> QED BY <1>1, <1>2, <1>4, <1>5, <1>6, StepCases DEF vars

----------------------------------------------------------------------------
(* The theorems.                                                            *)

LEMMA HookInitially == ASSUME Init PROVE HookInd
<1> USE Kinds
<1>1. TypeOK /\ OrderInv
  BY TypeInit, OrderInit
<1>2. MutexInv /\ FlowInv
  BY DEF Init, MutexInv, Critical, FlowInv
<1>3. RingInv
  <2>1. \A h \in Hooks : Linked(h) /\ next[h] = h /\ prev[h] = h
    BY DEF Init, Linked, Nodes
  <2>2. \A w \in Flows : ~Linked(w)
    BY DEF Init, Linked
  <2>3. Rings
    BY <2>1, <2>2 DEF Rings, Home
  <2> QED BY <2>3 DEF RingInv, Init
<1>4. StandInv /\ HandlerInv
  BY DEF Init, StandInv, HandlerInv
<1>5. MatchInv
  BY DEF Init, MatchInv, Empty
<1>6. TimerInv
  BY DEF Init, TimerInv, TimersInMemory
<1> QED BY <1>1, <1>2, <1>3, <1>4, <1>5, <1>6 DEF HookInd, HookInv

LEMMA HookStepKeeps == ASSUME HookInd, [Next]_vars PROVE HookInd'
BY TypeStep, MutexStep, FlowStep, RingStep, StandStep, MatchStep, HandlerStep,
   TimerStep, OrderStep DEF HookInd, HookInv

\* The inductive invariant: it holds at first and every step keeps it.
THEOREM HookInductive == Spec => []HookInd
BY HookInitially, HookStepKeeps, PTL DEF Spec

\* Types: a module's step, the list pointers, the sets of timers and the
\* positions of handlers and work items stay what the code declares.
THEOREM HookTypeCorrect == Spec => []TypeOK
<1>1. HookInd => TypeOK
  BY DEF HookInd, HookInv
<1> QED BY <1>1, HookInductive, PTL

\* del_timer_sync and cancel_work_sync do their work: whatever fails, and
\* however the timer's function and its work item interleave with rmmod, a
\* freed timer is not pending, does not run, and has no work item.
THEOREM TimersOutlived == Spec => []TimersInMemory
<1>1. HookInd => TimersInMemory
  BY DEF HookInd, HookInv, TimerInv
<1> QED BY <1>1, HookInductive, PTL

\* Whenever no module registers or unregisters, a kprobe is registered and a
\* timer exists exactly while a workflow is on its list.
THEOREM HooksMatch == Spec => []HooksMatchLists
<1>1. HookInd => HooksMatchLists
  <2> SUFFICES ASSUME HookInd, mutex \notin Modules
               PROVE  /\ \A h \in Kprobes : h \in probe <=> ~Empty(h)
                      /\ \A t \in Timers : t \in alive <=> ~Empty(t)
    BY DEF HooksMatchLists
  <2>1. \A m \in Modules : mpc[m] \notin Critical
    BY DEF HookInd, HookInv, MutexInv
  <2> QED BY <2>1 DEF HookInd, HookInv, MatchInv, Critical
<1> QED BY <1>1, HookInductive, PTL

\* A handler that runs has its kprobe registered, or unregister_kprobe still
\* waits for it: the struct kprobe is never cleared under it.
THEOREM HandlersSafe == Spec => []HandlersHaveProbe
<1>1. HookInd => HandlersHaveProbe
  BY Kinds DEF HookInd, HookInv, HandlerInv, HandlersHaveProbe, HookAt, Home, Readers
<1> QED BY <1>1, HookInductive, PTL

\* A traversal that ends has run every workflow that was on its list from its
\* beginning to its end, whoever was added or removed meanwhile.
THEOREM NoneMissed == Spec => NoWorkflowMissed
<1> DEFINE Complete == \A c \in Contexts : at[c] # None /\ at'[c] = None => owed[c] = {}
<1>1. HookInd /\ [Next]_vars => [Complete]_vars
  <2> SUFFICES ASSUME HookInd, [Next]_vars
               PROVE  Complete
    OBVIOUS
  <2> SUFFICES ASSUME NEW c \in Contexts, at[c] # None, at'[c] = None
               PROVE  owed[c] = {}
    OBVIOUS
  <2> USE Kinds DEF HookInd, HookInv
  <2>1. next[at[c]] \in Hooks
    <3>1. ASSUME NEW d \in Contexts,
                 \/ \E h \in Hooks : at[d] = None /\ Enter(d, h)
                 \/ at[d] # None /\ Visit(d, next[at[d]])
          PROVE  next[at[c]] \in Hooks
      <4>1. CASE d = c
        <5>1. Visit(c, next[at[c]])
          BY <3>1, <4>1
        <5>2. at'[c] = IF next[at[c]] \in Hooks THEN None ELSE next[at[c]]
          BY <5>1 DEF Visit, TypeOK
        <5>3. next[at[c]] \in Nodes
          BY DEF TypeOK
        <5> QED BY <5>2, <5>3
      <4>2. CASE d # c
        BY <3>1, <4>2 DEF Enter, Visit, TypeOK
      <4> QED BY <4>1, <4>2
    <3>2. ASSUME NEW d \in Cpus, Walk(d) \/ \E h \in Kprobes : Hit(d, h)
          PROVE  next[at[c]] \in Hooks
      <4>1. \/ \E h \in Hooks : at[d] = None /\ Enter(d, h)
            \/ at[d] # None /\ Visit(d, next[at[d]])
        BY <3>2, EnterVisit
      <4> QED BY <3>1, <4>1
    <3>3. ASSUME NEW d \in Timers, WorkLocks(d) \/ WorkWalks(d)
          PROVE  next[at[c]] \in Hooks
      <4>1. \/ \E h \in Hooks : at[d] = None /\ Enter(d, h)
            \/ at[d] # None /\ Visit(d, next[at[d]])
        BY <3>3, EnterVisit
      <4> QED BY <3>1, <4>1
    <3>4. \A m \in Modules : ModuleStep(m) => UNCHANGED at
      BY BookkeepingFrame DEF ModuleStep, Arm, Link, Unlink, Unlinked, Disarm, Disarmed,
                              DelTimer, CancelWork, walkVars
    <3>5. \A t \in Timers : TimerMoves(t) => UNCHANGED at
      BY ContextFrame DEF walkVars
    <3> QED BY <3>2, <3>3, <3>4, <3>5, StepCases DEF vars, walkVars
  <2>2. PICK rank \in [Flows -> Nat] : Ranked(rank)
    BY DEF OrderInv
  <2>3. \A v \in Flows : v \notin owed[c]
    BY <2>1, <2>2, OwedNext
  <2> QED BY <2>3 DEF TypeOK
<1> QED BY <1>1, HookInductive, PTL DEF Spec, NoWorkflowMissed

=============================================================================
