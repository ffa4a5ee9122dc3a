------------------------- MODULE HookManagerSafety -------------------------
(***************************************************************************)
(* TLAPS proofs about what a module leaves behind: nothing, and no handler   *)
(* or work item on its workflows, as long as the ids in g_module_idr find    *)
(* the modules they were given to.                                          *)
(***************************************************************************)
EXTENDS HookManagerProofs

\* module->id is set by the last step of secDetector_module_register, so a
\* register that fails unregisters the module under id 0.  What is proved here
\* holds of every behaviour in which that happens to be the id that idr_alloc
\* gave it.
FailsUnderOwnId == \A m \in Modules : RegisterFails(m) => newid[m] = 0

\* It is if nothing fails or there is no other module.
NothingFails == Unavailable = {} /\ \A w \in Flows : HookOf(w) \notin OtherHooks
OneModule == \A m, n \in Modules : m = n

----------------------------------------------------------------------------
(* The inductive invariant.                                                 *)

\* Steps at which a module has its id: before, and after, module->id is set.
Early == {"lock", "insert", "link"}
Owned == {"live", "case", "unlock"}

\* From idr_alloc to idr_remove the idr has the module under its id and under
\* no other.
IdPart(m) ==
  /\ mpc[m] \in Early \cup Owned => newid[m] \in DOMAIN idr /\ idr[newid[m]] = m
  /\ mpc[m] \in Early => id[m] = 0
  /\ mpc[m] \in Owned => id[m] = newid[m]
  /\ \A i \in DOMAIN idr : idr[i] = m => newid[m] = i /\ mpc[m] \in Early \cup Owned
  /\ (\A n \in Modules : n = m) /\ mpc[m] \in Early \cup Owned => newid[m] = 0
IdInv == \A m \in Modules : IdPart(m)

\* A module links its workflows in order and unlinks them in the same order.
BarePart(m) ==
  \A i \in DOMAIN Workflows[m] : Linked(<<m, i>>) =>
    /\ mpc[m] \notin {"out", "lock", "leave"}
    /\ mpc[m] \in {"insert", "link"} => i < cur[m]
    /\ mpc[m] = "delete" => i >= cur[m]
    /\ mpc[m] \in {"grace", "disarm", "cancel"} => i > cur[m]
BareInv == \A m \in Modules : BarePart(m)

\* A module has its proc entry, and is on the module list, only in between.
ListedInv ==
  /\ \A m \in entry : mpc[m] \in {"live", "case"}
  /\ \A m \in mlist :
       mpc[m] \in {"live", "case", "unlock", "delete", "grace", "disarm", "cancel"}

SafeInd == HookInd /\ IdInv /\ BareInv /\ ListedInv

----------------------------------------------------------------------------
(* Ids.                                                                     *)

\* With nothing to fail a register succeeds.
LEMMA NoFailure ==
  ASSUME NothingFails, TypeOK, FlowInv, BareInv, NEW m \in Modules
  PROVE  ~RegisterFails(m)
<1> SUFFICES ASSUME mpc[m] = "insert", InsertFails(m)
             PROVE  FALSE
  BY DEF RegisterFails
<1>1. ~Done(m) /\ (HookOf(Flow(m)) \in OtherHooks \cup Unavailable \/ Linked(Flow(m)))
  BY DEF InsertFails, NothingFails
<1>2. Flow(m) \in Flows
  BY <1>1, FlowAtHand DEF InsertFails, NothingFails
<1>3. ~Linked(Flow(m))
  <2>1. cur[m] \in Nat \ {0}
    BY DEF FlowInv
  <2>2. cur[m] \in DOMAIN Workflows[m]
    BY <1>2, <2>1, FlowsOfModule, ConstantsAssumption DEF Flow
  <2> QED BY <2>1, <2>2 DEF BareInv, BarePart, Flow
<1> QED BY <1>1, <1>2, <1>3 DEF NothingFails

\* Modules move alone.
LEMMA OthersId ==
  ASSUME TypeOK, IdInv, NEW m \in Modules, NEW s, Goto(m, s),
         \A n \in Modules \ {m} : newid'[n] = newid[n] /\ id'[n] = id[n],
         NEW j, \A i \in DOMAIN idr : i # j => idr'[i] = idr[i],
         DOMAIN idr' = DOMAIN idr,
         \A n \in Modules \ {m} : j \in DOMAIN idr => idr[j] # n /\ idr'[j] # n,
         IdPart(m)'
  PROVE  IdInv'
<1>1. ASSUME NEW n \in Modules, n # m
      PROVE  IdPart(n)'
  <2>1. mpc'[n] = mpc[n] /\ newid'[n] = newid[n] /\ id'[n] = id[n]
    BY <1>1 DEF Goto, TypeOK
  <2>2. IdPart(n)
    BY DEF IdInv
  <2>3. \A i \in DOMAIN idr : idr'[i] = n <=> idr[i] = n
    BY <1>1
  <2>4. ~ \A k \in Modules : k = n
    BY <1>1
  <2> QED BY <2>1, <2>2, <2>3, <2>4 DEF IdPart
<1> QED BY <1>1 DEF IdInv

\* A step that leaves the ids, within one stage of a module.
LEMMA SameStage ==
  ASSUME TypeOK, IdInv, NEW m \in Modules, NEW s, Goto(m, s),
         UNCHANGED <<idr, newid, id>>,
         \/ mpc[m] \in Early /\ s \in Early
         \/ mpc[m] \in Owned /\ s \in Owned
         \/ mpc[m] \notin Early \cup Owned /\ s \notin Early \cup Owned
  PROVE  IdInv'
<1>1. mpc' = [mpc EXCEPT ![m] = s]
  BY DEF Goto
<1>2. ASSUME NEW n \in Modules
      PROVE  IdPart(n)'
  <2>1. IdPart(n)
    BY DEF IdInv
  <2>2. CASE n = m
    BY <1>1, <2>1, <2>2 DEF IdPart, TypeOK, Early, Owned
  <2>3. CASE n # m
    BY <1>1, <2>1, <2>3 DEF IdPart, TypeOK
  <2> QED BY <2>2, <2>3
<1> QED BY <1>2 DEF IdInv

LEMMA IdStep ==
  ASSUME SafeInd, [Next]_vars, [FailsUnderOwnId]_vars
  PROVE  IdInv'
<1> USE DEF SafeInd, HookInd, HookInv
<1>1. UNCHANGED <<mpc, newid, id, idr>> => IdInv'
  BY DEF IdInv, IdPart
<1>2. ASSUME NEW m \in Modules, ModuleStep(m)
      PROVE  IdInv'
  <2> USE DEF Early, Owned
  <2>1. CASE Load(m)
    <3>1. PICK i \in DOMAIN idr :
            /\ idr[i] = None /\ \A j \in DOMAIN idr : j < i => idr[j] # None
            /\ idr' = [idr EXCEPT ![i] = m]
            /\ newid' = [newid EXCEPT ![m] = i]
      BY <2>1 DEF Load
    <3>2. id' = [id EXCEPT ![m] = 0] /\ Goto(m, "lock") /\ mpc[m] = "out"
      BY <2>1 DEF Load
    <3>3. DOMAIN idr = 0 .. (MaxLoads - 1) /\ i \in Nat /\ MaxLoads \in Nat
      BY <3>1, ConstantsAssumption DEF TypeOK
    <3>4. \A j \in DOMAIN idr : idr[j] # m
      BY <3>2 DEF IdInv, IdPart
    <3>5. (\A n \in Modules : n = m) => i = 0
      <4> SUFFICES ASSUME \A n \in Modules : n = m, i # 0
                   PROVE  FALSE
        OBVIOUS
      <4>1. 0 \in DOMAIN idr /\ 0 < i
        BY <3>1, <3>3
      <4>2. idr[0] = None
        BY <3>4, <4>1 DEF TypeOK
      <4> QED BY <3>1, <4>1, <4>2
    <3>6. mpc'[m] = "lock" /\ newid'[m] = i /\ id'[m] = 0
          /\ \A j \in DOMAIN idr : idr'[j] = IF j = i THEN m ELSE idr[j]
      BY <3>1, <3>2 DEF Goto, TypeOK
    <3>7. DOMAIN idr' = DOMAIN idr
      BY <3>1
    <3>8. IdPart(m)'
      BY <3>1, <3>4, <3>5, <3>6, <3>7 DEF IdPart
    <3>9. \A n \in Modules \ {m} : newid'[n] = newid[n] /\ id'[n] = id[n]
      BY <3>1, <3>2 DEF TypeOK
    <3>10. \A n \in Modules \ {m} : idr[i] # n /\ idr'[i] # n
      BY <3>1, <3>6, Kinds
    <3> QED BY <3>2, <3>6, <3>7, <3>8, <3>9, <3>10, OthersId
  <2>2. CASE Registered(m)
    <3>1. /\ mpc[m] = "insert" /\ Goto(m, "live") /\ UNCHANGED <<idr, newid>>
          /\ id' = [id EXCEPT ![m] = newid[m]]
      BY <2>2 DEF Registered
    <3>2. IdPart(m)
      BY DEF IdInv
    <3>3. mpc'[m] = "live" /\ id'[m] = newid[m]
      BY <3>1 DEF Goto, TypeOK
    <3>4. IdPart(m)'
      BY <3>1, <3>2, <3>3 DEF IdPart
    <3>5. \A n \in Modules \ {m} : newid'[n] = newid[n] /\ id'[n] = id[n]
      BY <3>1 DEF TypeOK
    <3>6. /\ \A i \in DOMAIN idr : i # MaxLoads => idr'[i] = idr[i]
          /\ DOMAIN idr' = DOMAIN idr /\ MaxLoads \notin DOMAIN idr
      BY <3>1, ConstantsAssumption DEF TypeOK
    <3> QED BY <3>1, <3>4, <3>5, <3>6, OthersId
  <2>3. CASE RegisterFails(m)
    <3>1. mpc[m] = "insert" /\ Goto(m, "unlock") /\ UNCHANGED <<idr, newid, id>>
      BY <2>3 DEF RegisterFails
    <3>2. IdPart(m) /\ mpc'[m] = "unlock"
      BY <3>1 DEF IdInv, Goto, TypeOK
    <3>3. newid[m] = 0
      <4>1. FailsUnderOwnId
        BY <3>1, <3>2 DEF vars, modVars
      <4> QED BY <2>3, <4>1 DEF FailsUnderOwnId
    <3>4. id[m] = 0
      BY <3>1, <3>2 DEF IdPart
    <3>5. IdPart(m)'
      BY <3>1, <3>2, <3>3, <3>4 DEF IdPart
    <3>6. \A n \in Modules \ {m} : newid'[n] = newid[n] /\ id'[n] = id[n]
      BY <3>1
    <3>7. /\ \A i \in DOMAIN idr : i # MaxLoads => idr'[i] = idr[i]
          /\ DOMAIN idr' = DOMAIN idr /\ MaxLoads \notin DOMAIN idr
      BY <3>1, ConstantsAssumption DEF TypeOK
    <3> QED BY <3>1, <3>5, <3>6, <3>7, OthersId
  <2>4. CASE UnregisterLock(m)
    <3>1. /\ mpc[m] = "unlock" /\ Goto(m, "delete") /\ UNCHANGED <<newid, id>>
          /\ idr' = [idr EXCEPT ![id[m]] = None]
      BY <2>4 DEF UnregisterLock
    <3>2. IdPart(m) /\ mpc'[m] = "delete"
      BY <3>1 DEF IdInv, Goto, TypeOK
    <3>3. id[m] = newid[m] /\ id[m] \in DOMAIN idr /\ idr[id[m]] = m
      BY <3>1, <3>2 DEF IdPart
    <3>4. /\ \A i \in DOMAIN idr : i # id[m] => idr'[i] = idr[i]
          /\ DOMAIN idr' = DOMAIN idr /\ idr'[id[m]] = None
      BY <3>1, <3>3 DEF TypeOK
    <3>5. \A i \in DOMAIN idr' : idr'[i] # m
      BY <3>2, <3>3, <3>4, Kinds DEF IdPart
    <3>6. IdPart(m)'
      BY <3>2, <3>5 DEF IdPart
    <3>7. \A n \in Modules \ {m} : idr[id[m]] # n /\ idr'[id[m]] # n
      BY <3>3, <3>4, Kinds
    <3> QED BY <3>1, <3>4, <3>6, <3>7, OthersId
  <2>5. CASE Bookkeeping(m) /\ ~Load(m) /\ ~Registered(m) /\ ~RegisterFails(m)
             /\ ~UnregisterLock(m)
    <3>1. CASE Unload(m) BY <3>1, SameStage DEF Unload
    <3>2. CASE RegisterLock(m) BY <3>2, SameStage DEF RegisterLock
    <3>3. CASE CaseLock(m) BY <3>3, SameStage DEF CaseLock
    <3>4. CASE SkipUnlinked(m) BY <1>1, <3>4 DEF SkipUnlinked
    <3>5. CASE Leave(m) BY <3>5, SameStage DEF Leave
    <3>6. CASE Unregistered(m) BY <3>6, SameStage DEF Unregistered
    <3> QED BY <2>5, <3>1, <3>2, <3>3, <3>4, <3>5, <3>6 DEF Bookkeeping
  <2>6. CASE Arm(m) BY <2>6, SameStage DEF Arm
  <2>7. CASE Link(m) BY <2>7, SameStage DEF Link
  <2>8. CASE Unlink(m) BY <2>8, SameStage DEF Unlink
  <2>9. CASE Unlinked(m) BY <2>9, SameStage DEF Unlinked
  <2>10. CASE Disarm(m) BY <2>10, SameStage DEF Disarm
  <2>11. CASE Disarmed(m) BY <2>11, SameStage DEF Disarmed
  <2>12. CASE DelTimer(m) BY <2>12, SameStage DEF DelTimer
  <2>13. CASE CancelWork(m) BY <2>13, SameStage DEF CancelWork
  <2> QED BY <1>2, <2>1, <2>2, <2>3, <2>4, <2>5, <2>6, <2>7, <2>8, <2>9, <2>10, <2>11,
             <2>12, <2>13 DEF ModuleStep
<1>3. \A c \in Cpus : Walk(c) \/ (\E h \in Kprobes : Hit(c, h)) => IdInv'
  BY <1>1 DEF Walk, Hit, modVars
<1>4. \A t \in Timers : TimerMoves(t) \/ WorkLocks(t) \/ WorkWalks(t) => IdInv'
  BY <1>1 DEF TimerMoves, Fire, Rearm, WorkStarts, WorkSkips, WorkLocks, WorkWalks, modVars
<1> QED BY <1>1, <1>2, <1>3, <1>4, StepCases DEF vars, modVars

----------------------------------------------------------------------------
(* Workflows.                                                               *)

\* The workflows of the others stay as they are.
LEMMA OthersBare ==
  ASSUME TypeOK, BareInv, NEW m \in Modules, NEW s, Goto(m, s),
         \A n \in Modules \ {m} : cur'[n] = cur[n],
         \A w \in Flows : w[1] # m => (Linked(w)' <=> Linked(w)),
         BarePart(m)'
  PROVE  BareInv'
<1>1. ASSUME NEW n \in Modules, n # m
      PROVE  BarePart(n)'
  <2>1. mpc'[n] = mpc[n] /\ cur'[n] = cur[n]
    BY <1>1 DEF Goto, TypeOK
  <2>2. \A i \in DOMAIN Workflows[n] : Linked(<<n, i>>)' <=> Linked(<<n, i>>)
    <3>1. \A i \in DOMAIN Workflows[n] : <<n, i>> \in Flows /\ <<n, i>>[1] = n
      BY DEF Flows
    <3> QED BY <1>1, <3>1
  <2> QED BY <2>1, <2>2 DEF BareInv, BarePart
<1> QED BY <1>1 DEF BareInv

\* Steps that leave the lists: what was linked of m is still as it should be.
LEMMA SameBare ==
  ASSUME TypeOK, BareInv, NEW m \in Modules, NEW s, Goto(m, s), UNCHANGED listVars,
         UNCHANGED cur \/ (\E i \in Nat : cur' = [cur EXCEPT ![m] = i]),
         \A i \in DOMAIN Workflows[m] : Linked(<<m, i>>) =>
           /\ s \notin {"out", "lock", "leave"}
           /\ s \in {"insert", "link"} => i < cur'[m]
           /\ s = "delete" => i >= cur'[m]
           /\ s \in {"grace", "disarm", "cancel"} => i > cur'[m]
  PROVE  BareInv'
<1>1. mpc'[m] = s /\ \A n \in Modules \ {m} : cur'[n] = cur[n]
  BY DEF Goto, TypeOK
<1>2. \A w : Linked(w)' <=> Linked(w)
  BY DEF Linked, listVars
<1>3. BarePart(m)'
  BY <1>1, <1>2 DEF BarePart
<1> QED BY <1>1, <1>2, <1>3, OthersBare

LEMMA BareStep ==
  ASSUME SafeInd, [Next]_vars
  PROVE  BareInv'
<1> USE DEF SafeInd, HookInd, HookInv
<1>1. UNCHANGED <<mpc, cur, listVars>> => BareInv'
  BY DEF BareInv, BarePart, Linked, listVars
<1>2. ASSUME NEW m \in Modules, ModuleStep(m)
      PROVE  BareInv'
  <2>1. BarePart(m)
    BY DEF BareInv
  <2>2. /\ DOMAIN Workflows[m] = 1 .. Len(Workflows[m]) /\ Len(Workflows[m]) \in Nat
        /\ cur[m] \in Nat
    BY ConstantsAssumption DEF TypeOK
  <2>3. CASE Load(m) BY <2>1, <2>3, SameBare DEF Load, BarePart
  <2>4. CASE Unload(m) BY <2>1, <2>4, SameBare DEF Unload, BarePart
  <2>5. CASE RegisterLock(m)
    <3>1. \A i \in DOMAIN Workflows[m] : ~Linked(<<m, i>>)
      BY <2>1, <2>5 DEF RegisterLock, BarePart
    <3> QED BY <2>5, <3>1, SameBare DEF RegisterLock
  <2>6. CASE Registered(m) BY <2>1, <2>6, SameBare DEF Registered, BarePart
  <2>7. CASE RegisterFails(m) BY <2>1, <2>7, SameBare DEF RegisterFails, BarePart
  <2>8. CASE CaseLock(m) BY <2>1, <2>8, SameBare DEF CaseLock, BarePart
  <2>9. CASE UnregisterLock(m)
    <3>1. idr[id[m]] = m
      BY <2>9 DEF UnregisterLock, IdInv, IdPart, Owned
    <3>2. cur' = [cur EXCEPT ![m] = 1] /\ Goto(m, "delete") /\ UNCHANGED listVars
      BY <2>9, <3>1, Kinds DEF UnregisterLock
    <3>3. cur'[m] = 1 /\ \A i \in DOMAIN Workflows[m] : i >= 1
      BY <2>2, <3>2 DEF TypeOK
    <3> QED BY <3>2, <3>3, SameBare
  <2>10. CASE SkipUnlinked(m)
    <3>1. /\ mpc[m] = "delete" /\ ~Linked(<<m, cur[m]>>) /\ UNCHANGED <<mpc, listVars>>
          /\ cur' = [cur EXCEPT ![m] = cur[m] + 1]
      BY <2>10 DEF SkipUnlinked, Flow, NextFlow
    <3>2. Goto(m, "delete") /\ cur'[m] = cur[m] + 1
      BY <3>1 DEF Goto, TypeOK
    <3>3. \A i \in DOMAIN Workflows[m] : Linked(<<m, i>>) => i >= cur[m] + 1
      BY <2>1, <2>2, <3>1 DEF BarePart
    <3>4. cur[m] + 1 \in Nat
      BY <2>2
    <3>5. \E i \in Nat : cur' = [cur EXCEPT ![m] = i]
      BY <3>1, <3>4
    <3>6. \A i \in DOMAIN Workflows[m] : Linked(<<m, i>>) => i >= cur'[m]
      BY <3>2, <3>3
    <3> QED BY <3>1, <3>2, <3>5, <3>6, SameBare
  <2>11. CASE Leave(m)
    <3>1. mpc[m] = "delete" /\ cur[m] > Len(Workflows[m]) /\ Goto(m, "leave")
          /\ UNCHANGED <<cur, listVars>>
      BY <2>11 DEF Leave, Done
    <3>2. \A i \in DOMAIN Workflows[m] : ~Linked(<<m, i>>)
      BY <2>1, <2>2, <3>1 DEF BarePart
    <3> QED BY <3>1, <3>2, SameBare
  <2>12. CASE Unregistered(m) BY <2>1, <2>12, SameBare DEF Unregistered, BarePart
  <2>13. CASE Arm(m) BY <2>1, <2>13, SameBare DEF Arm, BarePart
  <2>14. CASE Link(m)
    <3> DEFINE w == Flow(m)
    <3>1. /\ w \in Flows /\ HookOf(w) \in Hooks /\ ListAdd(w, HookOf(w))
          /\ mpc[m] \in {"insert", "link"} /\ Goto(m, "insert")
          /\ cur' = [cur EXCEPT ![m] = cur[m] + 1] /\ w = <<m, cur[m]>>
      BY <2>14, AtLink DEF NextFlow, Flow
    <3>2. mpc'[m] = "insert" /\ cur'[m] = cur[m] + 1
      BY <3>1 DEF Goto, TypeOK
    <3>3. \A v \in Nodes \ {w} : Linked(v)' <=> Linked(v)
      <4>1. Rings /\ HookOf(w) \in Nodes /\ next[HookOf(w)] \in Nodes /\ w \in Nodes
        BY <3>1, Kinds DEF RingInv, TypeOK
      <4>2. Linked(next[HookOf(w)])
        BY <3>1, <4>1 DEF Rings
      <4>3. \A v \in Nodes \ {w} :
              prev'[v] = IF v = next[HookOf(w)] THEN w ELSE prev[v]
        BY <3>1, <4>1 DEF ListAdd, TypeOK
      <4> QED BY <4>1, <4>2, <4>3, Kinds DEF Linked
    <3>4. \A i \in DOMAIN Workflows[m] : <<m, i>> \in Flows
      BY DEF Flows
    <3>5. BarePart(m)'
      <4> SUFFICES ASSUME NEW i \in DOMAIN Workflows[m], Linked(<<m, i>>)'
                   PROVE  i < cur[m] + 1
        BY <3>2 DEF BarePart
      <4>1. i = cur[m] \/ Linked(<<m, i>>)
        BY <3>1, <3>3, <3>4, Kinds
      <4> QED BY <2>1, <2>2, <3>1, <4>1 DEF BarePart
    <3>6. \A v \in Flows : v[1] # m => (Linked(v)' <=> Linked(v))
      BY <3>1, <3>3, Kinds
    <3>7. \A n \in Modules \ {m} : cur'[n] = cur[n]
      BY <3>1 DEF TypeOK
    <3> QED BY <3>1, <3>5, <3>6, <3>7, OthersBare
  <2>15. CASE Unlink(m)
    <3> DEFINE w == Flow(m)
    <3>1. /\ w \in Flows /\ Linked(w) /\ ListDel(w) /\ next[w] # w /\ mpc[m] = "delete"
          /\ Goto(m, "grace") /\ UNCHANGED cur /\ w = <<m, cur[m]>>
      BY <2>15, AtUnlink DEF RingInv, Flow
    <3>2. \A v \in Nodes : Linked(v)' <=> Linked(v) /\ v # w
      BY <3>1, DelKeepsRings DEF RingInv
    <3>3. mpc'[m] = "grace" /\ \A i \in DOMAIN Workflows[m] : <<m, i>> \in Nodes
      BY <3>1, Kinds DEF Goto, TypeOK, Flows
    <3>4. BarePart(m)'
      <4> SUFFICES ASSUME NEW i \in DOMAIN Workflows[m], Linked(<<m, i>>)'
                   PROVE  i > cur[m]
        BY <3>1, <3>3 DEF BarePart
      <4>1. i # cur[m] /\ Linked(<<m, i>>)
        BY <3>1, <3>2, <3>3
      <4> QED BY <2>1, <2>2, <3>1, <4>1 DEF BarePart
    <3>5. \A v \in Flows : v[1] # m => (Linked(v)' <=> Linked(v))
      BY <3>1, <3>2, Kinds
    <3> QED BY <3>1, <3>4, <3>5, OthersBare
  <2>16. CASE Unlinked(m) \/ Disarmed(m) \/ CancelWork(m)
    <3>1. /\ mpc[m] \in {"grace", "disarm", "cancel"} /\ Goto(m, "delete")
          /\ UNCHANGED listVars /\ cur' = [cur EXCEPT ![m] = cur[m] + 1]
      BY <2>16 DEF Unlinked, Disarmed, CancelWork, NextFlow
    <3>2. cur'[m] = cur[m] + 1
      BY <3>1 DEF TypeOK
    <3>3. \A i \in DOMAIN Workflows[m] : Linked(<<m, i>>) => i >= cur[m] + 1
      BY <2>1, <2>2, <3>1 DEF BarePart
    <3>4. cur[m] + 1 \in Nat
      BY <2>2
    <3>5. \E i \in Nat : cur' = [cur EXCEPT ![m] = i]
      BY <3>1, <3>4
    <3>6. \A i \in DOMAIN Workflows[m] : Linked(<<m, i>>) => i >= cur'[m]
      BY <3>2, <3>3
    <3> QED BY <3>1, <3>2, <3>5, <3>6, SameBare
  <2>17. CASE Disarm(m) BY <2>1, <2>17, SameBare DEF Disarm, BarePart
  <2>18. CASE DelTimer(m) BY <2>1, <2>18, SameBare DEF DelTimer, BarePart
  <2> QED BY <1>2, <2>3, <2>4, <2>5, <2>6, <2>7, <2>8, <2>9, <2>10, <2>11, <2>12, <2>13,
             <2>14, <2>15, <2>16, <2>17, <2>18 DEF ModuleStep, Bookkeeping
<1>3. ASSUME NEW c \in Cpus, Walk(c) \/ \E h \in Kprobes : Hit(c, h)
      PROVE  BareInv'
  BY <1>1, <1>3, ContextFrame
<1>4. ASSUME NEW t \in Timers, TimerMoves(t) \/ WorkLocks(t) \/ WorkWalks(t)
      PROVE  BareInv'
  BY <1>1, <1>4, ContextFrame
<1> QED BY <1>1, <1>2, <1>3, <1>4, StepCases DEF vars, modVars

LEMMA ListedStep ==
  ASSUME TypeOK, ListedInv, [Next]_vars
  PROVE  ListedInv'
<1> USE DEF TypeOK, ListedInv
<1>1. CASE UNCHANGED <<mpc, entry, mlist>>
  BY <1>1
<1>2. ASSUME NEW m \in Modules, ModuleStep(m)
      PROVE  ListedInv'
  <2> USE DEF Goto
  <2>1. CASE Load(m) BY <2>1 DEF Load
  <2>2. CASE Unload(m) BY <2>2 DEF Unload
  <2>3. CASE RegisterLock(m) BY <2>3 DEF RegisterLock
  <2>4. CASE Registered(m) BY <2>4 DEF Registered
  <2>5. CASE RegisterFails(m) BY <2>5 DEF RegisterFails
  <2>6. CASE CaseLock(m) BY <2>6 DEF CaseLock
  <2>7. CASE UnregisterLock(m) BY <2>7 DEF UnregisterLock
  <2>8. CASE SkipUnlinked(m) BY <2>8 DEF SkipUnlinked
  <2>9. CASE Leave(m) BY <2>9 DEF Leave
  <2>10. CASE Unregistered(m) BY <2>10 DEF Unregistered
  <2>11. CASE Arm(m) BY <2>11 DEF Arm
  <2>12. CASE Link(m) BY <2>12 DEF Link
  <2>13. CASE Unlink(m) BY <2>13 DEF Unlink
  <2>14. CASE Unlinked(m) BY <2>14 DEF Unlinked
  <2>15. CASE Disarm(m) BY <2>15 DEF Disarm
  <2>16. CASE Disarmed(m) BY <2>16 DEF Disarmed
  <2>17. CASE DelTimer(m) BY <2>17 DEF DelTimer
  <2>18. CASE CancelWork(m) BY <2>18 DEF CancelWork
  <2> QED BY <1>2, <2>1, <2>2, <2>3, <2>4, <2>5, <2>6, <2>7, <2>8, <2>9, <2>10, <2>11,
             <2>12, <2>13, <2>14, <2>15, <2>16, <2>17, <2>18 DEF ModuleStep, Bookkeeping
<1>3. \A c \in Cpus : Walk(c) \/ (\E h \in Kprobes : Hit(c, h)) => ListedInv'
  BY <1>1 DEF Walk, Hit, modVars
<1>4. \A t \in Timers : TimerMoves(t) \/ WorkLocks(t) \/ WorkWalks(t) => ListedInv'
  BY <1>1 DEF TimerMoves, Fire, Rearm, WorkStarts, WorkSkips, WorkLocks, WorkWalks, modVars
<1> QED BY <1>1, <1>2, <1>3, <1>4, StepCases DEF vars, modVars

----------------------------------------------------------------------------
(* The theorems.                                                            *)

LEMMA SafeInitially == Init => SafeInd
<1> SUFFICES ASSUME Init PROVE SafeInd
  OBVIOUS
<1>1. HookInd
  BY HookInitially
<1>2. IdInv
  BY Kinds DEF Init, IdInv, IdPart, Early, Owned
<1>3. BareInv
  <2>1. \A m \in Modules : \A i \in DOMAIN Workflows[m] :
          <<m, i>> \in Flows /\ <<m, i>> \notin Hooks
    BY Kinds DEF Flows
  <2> QED BY <2>1 DEF Init, BareInv, BarePart, Linked
<1>4. ListedInv
  BY DEF Init, ListedInv
<1> QED BY <1>1, <1>2, <1>3, <1>4 DEF SafeInd

LEMMA SafeStep ==
  ASSUME SafeInd, [Next]_vars, [FailsUnderOwnId]_vars
  PROVE  SafeInd'
<1>1. HookInd'
  BY HookStepKeeps DEF SafeInd
<1>2. IdInv' /\ BareInv' /\ ListedInv'
  BY IdStep, BareStep, ListedStep DEF SafeInd, HookInd, HookInv
<1> QED BY <1>1, <1>2 DEF SafeInd

\* The invariant of the modules' ids and memory holds as long as no register
\* fails under an id other than 0.
THEOREM SafeInductive == Spec /\ [][FailsUnderOwnId]_vars => []SafeInd
<1>1. SafeInd /\ [Next]_vars /\ [FailsUnderOwnId]_vars => SafeInd'
  BY SafeStep
<1> QED BY <1>1, SafeInitially, PTL DEF Spec

\* With a single module, or with nothing that can fail, no register ever does.
THEOREM FailsOnlyUnderOwnId ==
  ASSUME NothingFails \/ OneModule
  PROVE  Spec => [][FailsUnderOwnId]_vars
<1>1. SafeInd => FailsUnderOwnId
  <2> SUFFICES ASSUME SafeInd, NEW m \in Modules, RegisterFails(m)
               PROVE  newid[m] = 0
    BY DEF FailsUnderOwnId
  <2>1. CASE NothingFails
    BY <2>1, NoFailure DEF SafeInd, HookInd, HookInv
  <2>2. CASE OneModule
    BY <2>2 DEF RegisterFails, OneModule, SafeInd, IdInv, IdPart, Early
  <2> QED BY <2>1, <2>2
<1>2. SafeInd /\ [Next]_vars => SafeInd'
  BY <1>1, SafeStep
<1> QED BY <1>1, <1>2, SafeInitially, PTL DEF Spec

\* A registered module is found under its own id, so that rmmod unregisters it
\* and not another one.
THEOREM IdsOwn == Spec /\ [][FailsUnderOwnId]_vars => []RegisteredKeepId
<1>1. SafeInd => RegisteredKeepId
  BY DEF SafeInd, HookInd, HookInv, TypeOK, IdInv, IdPart, Owned, RegisteredKeepId
<1> QED BY <1>1, SafeInductive, PTL

\* No handler and no work item stands on, or runs, a workflow of a module the
\* kernel has freed: what rmmod leaves to readers, a grace period covers.
THEOREM NoneFreedInUse ==
  Spec /\ [][FailsUnderOwnId]_vars => []WorkflowsInMemory
<1>1. SafeInd => WorkflowsInMemory
  <2> SUFFICES ASSUME SafeInd, NEW c \in Contexts, at[c] \in Flows
               PROVE  mpc[at[c][1]] # "out"
    BY DEF WorkflowsInMemory
  <2> USE DEF SafeInd, HookInd, HookInv
  <2>1. PICK m \in Modules : \E j \in DOMAIN Workflows[m] : at[c] = <<m, j>>
    BY DEF Flows
  <2>2. PICK i \in DOMAIN Workflows[m] : at[c] = <<m, i>>
    BY <2>1
  <2>3. at[c] # None
    BY Kinds
  <2>4. CASE Linked(at[c])
    BY <2>2, <2>4 DEF BareInv, BarePart
  <2>5. CASE \E n \in Modules : mpc[n] = "grace" /\ at[c] = Flow(n)
    BY <2>2, <2>5 DEF Flow
  <2> QED BY <2>3, <2>4, <2>5 DEF StandInv
<1> QED BY <1>1, SafeInductive, PTL

\* When a module is out, after rmmod or a failed insmod, nothing of it is on
\* the module list, in proc, in the idr or on the list of a hook.
THEOREM NothingLeft ==
  Spec /\ [][FailsUnderOwnId]_vars => []NothingLeftBehind
<1>1. SafeInd => NothingLeftBehind
  <2> SUFFICES ASSUME SafeInd, NEW m \in Modules, mpc[m] = "out"
               PROVE  /\ m \notin mlist /\ m \notin entry
                      /\ \A i \in DOMAIN idr : idr[i] # m
                      /\ \A w \in Flows : w[1] = m => ~Linked(w)
    BY DEF NothingLeftBehind
  <2> USE DEF SafeInd
  <2>1. m \notin mlist /\ m \notin entry
    BY DEF ListedInv
  <2>2. \A i \in DOMAIN idr : idr[i] # m
    BY DEF IdInv, IdPart, Early, Owned
  <2>3. ASSUME NEW w \in Flows, w[1] = m
        PROVE  ~Linked(w)
    <3>1. PICK n \in Modules : \E i \in DOMAIN Workflows[n] : w = <<n, i>>
      BY DEF Flows
    <3>2. PICK i \in DOMAIN Workflows[n] : w = <<n, i>>
      BY <3>1
    <3> QED BY <2>3, <3>2 DEF BareInv, BarePart
  <2> QED BY <2>1, <2>2, <2>3
<1> QED BY <1>1, SafeInductive, PTL

=============================================================================
