---------------------------- MODULE ProbesProofs ----------------------------
(***************************************************************************)
(* TLAPS proofs about an eBPF loader and its programs, for both threads,     *)
(* every mask, a ring of any size and any number of events: which programs   *)
(* are attached, and whose events are published.                             *)
(***************************************************************************)
EXTENDS Probes, FiniteSetTheorems, TLAPS

----------------------------------------------------------------------------
(* eBPF loaders: the table of programs and what is attached.                *)

ProgramCount == Len(ProgramOrder(kind))
Tabled == {progtab[i] : i \in 1 .. progcnt}
TableTyped ==
  /\ kind \in {"process", "file"}
  /\ progtab \in [1 .. ProgramCount -> ProgramSet(kind)]
  /\ progcnt \in 0 .. ProgramCount
  /\ unlinks \in [ProgramSet(kind) -> Nat]
  /\ call \in Nat
  /\ \A i, j \in 1 .. progcnt : progtab[i] = progtab[j] => i = j

\* The programs that the calls so far have taken away.
Disabled(n) ==
  {DisableOrder(kind)[j] : j \in {k \in DOMAIN DisableOrder(kind) :
                                   k < n /\ TopicOf(DisableOrder(kind)[k]) \notin mask}}
Early == {"booting", "opening", "loading", "attaching", "ringing"}
Wanted == {p \in ProgramSet(kind) : TopicOf(p) \in mask}

\* The first progcnt entries of the table are the links, each once: all
\* programs before the mask is applied, then all but those taken away.
TableInv ==
  /\ loader \in Early => Tabled = ProgramSet(kind)
  /\ loader \in {"booting", "opening", "loading", "attaching"} => links = {}
  /\ loader \in {"ringing", "disabling", "loop", "polling"} => links = Tabled
  /\ loader = "disabling" => call >= 1 /\ Tabled = ProgramSet(kind) \ Disabled(call)
  /\ loader \in {"loop", "polling"} => Tabled = Wanted
  /\ loader = "cleanup" => links \subseteq Tabled
  /\ loader = "ended" => links = {}
  /\ \A p \in ProgramSet(kind) : unlinks[p] <= 1
  /\ loader # "ended" => \A p \in Tabled : unlinks[p] = 0
  /\ loader \in Early \cup {"disabling", "loop", "polling", "cleanup", "ended"}

LEMMA OrderFacts ==
  ASSUME kind \in {"process", "file"}
  PROVE  /\ ProgramCount \in Nat /\ DOMAIN ProgramOrder(kind) = 1 .. ProgramCount
         /\ \A i \in 1 .. ProgramCount : ProgramOrder(kind)[i] \in ProgramSet(kind)
         /\ \A i, j \in 1 .. ProgramCount : ProgramOrder(kind)[i] = ProgramOrder(kind)[j] => i = j
         /\ {DisableOrder(kind)[j] : j \in DOMAIN DisableOrder(kind)} = ProgramSet(kind)
         /\ DOMAIN DisableOrder(kind) = 1 .. ProgramCount
<1>1. CASE kind = "process"
  <2>1. /\ DOMAIN ProgramOrder(kind) = 1 .. 6 /\ ProgramCount = 6
        /\ DOMAIN DisableOrder(kind) = 1 .. 6
    BY <1>1 DEF ProgramOrder, ProgramCount, DisableOrder
  <2>2. \A i, j \in 1 .. 6 : ProgramOrder(kind)[i] = ProgramOrder(kind)[j] => i = j
    BY <1>1 DEF ProgramOrder
  <2>3. 1 .. 6 = {1, 2, 3, 4, 5, 6}
    OBVIOUS
  <2>4. ProgramSet(kind) = {"handle_exec", "handle_execve_cmd", "handle_exit", "handle_fork",
                            "handle_commit_creds", "handle_bprm_check"}
    BY <1>1, <2>1, <2>3 DEF ProgramOrder, ProgramSet
  <2>5. {DisableOrder(kind)[j] : j \in {1, 2, 3, 4, 5, 6}}
        = {"handle_exec", "handle_fork", "handle_bprm_check", "handle_exit",
           "handle_commit_creds", "handle_execve_cmd"}
    BY <1>1 DEF DisableOrder
  <2>6. {DisableOrder(kind)[j] : j \in DOMAIN DisableOrder(kind)} = ProgramSet(kind)
    BY <2>1, <2>3, <2>4, <2>5
  <2>7. \A i \in 1 .. 6 : ProgramOrder(kind)[i] \in ProgramSet(kind)
    BY <2>1 DEF ProgramSet
  <2> QED BY <2>1, <2>2, <2>6, <2>7
<1>2. CASE kind = "file"
  <2>1. /\ DOMAIN ProgramOrder(kind) = 1 .. 10 /\ ProgramCount = 10
        /\ DOMAIN DisableOrder(kind) = 1 .. 10
    BY <1>2 DEF ProgramOrder, ProgramCount, DisableOrder
  <2>2. \A i, j \in 1 .. 10 : ProgramOrder(kind)[i] = ProgramOrder(kind)[j] => i = j
    BY <1>2 DEF ProgramOrder
  <2>3. 1 .. 10 = {1, 2, 3, 4, 5, 6, 7, 8, 9, 10}
    OBVIOUS
  <2>4. ProgramSet(kind) =
          {"do_filp_open_exit", "fexit_vfs_write", "fexit_vfs_unlink", "fexit_vfs_read",
           "fexit_vfs_utimes", "fexit_chmod_common", "fexit_chown_common",
           "fentry__vfs_setxattr_noperm", "fentry__vfs_removexattr_locked", "fentry_vfs_rename"}
    BY <1>2, <2>1, <2>3 DEF ProgramOrder, ProgramSet
  <2>5. {DisableOrder(kind)[j] : j \in {1, 2, 3, 4, 5, 6, 7, 8, 9, 10}}
        = {"do_filp_open_exit", "fexit_vfs_unlink", "fexit_vfs_write", "fexit_vfs_read",
           "fexit_vfs_utimes", "fexit_chown_common", "fexit_chmod_common",
           "fentry__vfs_setxattr_noperm", "fentry__vfs_removexattr_locked", "fentry_vfs_rename"}
    BY <1>2 DEF DisableOrder
  <2>6. {DisableOrder(kind)[j] : j \in DOMAIN DisableOrder(kind)} = ProgramSet(kind)
    BY <2>1, <2>3, <2>4, <2>5
  <2>7. \A i \in 1 .. 10 : ProgramOrder(kind)[i] \in ProgramSet(kind)
    BY <2>1 DEF ProgramSet
  <2> QED BY <2>1, <2>2, <2>6, <2>7
<1> QED BY <1>1, <1>2

\* The last entry moves to the place of the one that is taken away.
LEMMA DisableProgStep ==
  ASSUME TableTyped, NEW p \in ProgramSet(kind), DisableProg(p), kind' = kind, call' \in Nat
  PROVE  /\ TableTyped' /\ Tabled' = Tabled \ {p}
         /\ p \in Tabled => /\ links' = links \ {p}
                            /\ unlinks' = [unlinks EXCEPT ![p] = @ + 1]
         /\ p \notin Tabled => UNCHANGED <<links, unlinks>>
<1>0. ProgramCount \in Nat /\ ProgramCount' = ProgramCount /\ ProgramSet(kind') = ProgramSet(kind)
  BY OrderFacts DEF TableTyped, ProgramCount
<1>1. CASE Places(p) = {}
  <2>1. UNCHANGED <<progtab, progcnt, links, unlinks>>
    BY <1>1 DEF DisableProg, tableVars
  <2>2. p \notin Tabled /\ Tabled' = Tabled
    BY <1>1, <2>1 DEF Places, Tabled
  <2> QED BY <1>0, <2>1, <2>2 DEF TableTyped
<1>2. CASE Places(p) # {}
  <2>1. PICK i \in 1 .. progcnt : progtab[i] = p
    BY <1>2 DEF Places
  <2>2. /\ progcnt \in 0 .. ProgramCount /\ progtab \in [1 .. ProgramCount -> ProgramSet(kind)]
        /\ \A j, k \in 1 .. progcnt : progtab[j] = progtab[k] => j = k
        /\ progcnt \in Nat /\ progcnt <= ProgramCount /\ progcnt >= 1
    BY <1>0, <2>1 DEF TableTyped
  <2>3. Places(p) = {i}
    BY <2>1, <2>2 DEF Places
  <2>4. /\ progcnt' = progcnt - 1 /\ links' = links \ {p}
        /\ unlinks' = [unlinks EXCEPT ![p] = @ + 1]
        /\ progtab' = [j \in 1 .. ProgramCount |-> IF j = i THEN progtab[progcnt] ELSE progtab[j]]
    BY <1>2, <2>2, <2>3 DEF DisableProg
  <2>5. progtab' \in [1 .. ProgramCount -> ProgramSet(kind)] /\ progcnt' \in 0 .. ProgramCount
    BY <1>0, <2>2, <2>4
  <2>6. \A j \in 1 .. progcnt' : /\ j \in 1 .. progcnt /\ j # progcnt
                                 /\ progtab'[j] = IF j = i THEN progtab[progcnt] ELSE progtab[j]
    BY <1>0, <2>2, <2>4
  <2>7. progcnt \in 1 .. progcnt
    BY <2>2
  <2>8. \A j, k \in 1 .. progcnt' : progtab'[j] = progtab'[k] => j = k
    BY <2>2, <2>6, <2>7
  <2>9. \A j \in 1 .. progcnt' : progtab'[j] \in Tabled \ {p}
    BY <2>1, <2>2, <2>6, <2>7 DEF Tabled
  <2>10. ASSUME NEW q \in Tabled \ {p}
         PROVE  \E j \in 1 .. progcnt' : progtab'[j] = q
    <3>1. PICK j \in 1 .. progcnt : progtab[j] = q /\ j # i
      BY <2>1 DEF Tabled
    <3>2. CASE j = progcnt
      <4>1. i \in 1 .. progcnt'
        BY <2>2, <2>4, <3>1, <3>2
      <4> QED BY <2>6, <3>1, <3>2, <4>1
    <3>3. CASE j # progcnt
      <4>1. j \in 1 .. progcnt'
        BY <2>2, <2>4, <3>1, <3>3
      <4> QED BY <2>6, <3>1, <3>3, <4>1
    <3> QED BY <3>2, <3>3
  <2>11. Tabled' = Tabled \ {p}
    BY <2>9, <2>10 DEF Tabled
  <2>12. p \in Tabled
    BY <2>1 DEF Tabled
  <2>13. unlinks' \in [ProgramSet(kind) -> Nat]
    BY <2>4 DEF TableTyped
  <2> QED BY <1>0, <2>4, <2>5, <2>8, <2>11, <2>12, <2>13 DEF TableTyped
<1> QED BY <1>1, <1>2

LEMMA TableStep ==
  ASSUME TableTyped, TableInv, [ProbesNext]_probeVars
  PROVE  TableTyped' /\ TableInv'
<1> DEFINE Fixed == UNCHANGED <<kind, mask, progtab, progcnt, unlinks>>
<1>0. /\ ProgramCount \in Nat
      /\ {DisableOrder(kind)[j] : j \in DOMAIN DisableOrder(kind)} = ProgramSet(kind)
      /\ DOMAIN DisableOrder(kind) = 1 .. ProgramCount
  BY OrderFacts DEF TableTyped
<1>1. ASSUME Fixed, call' \in Nat
      PROVE  TableTyped' /\ Tabled' = Tabled /\ ProgramSet(kind)' = ProgramSet(kind)
             /\ Wanted' = Wanted
  BY <1>1 DEF TableTyped, Tabled, Wanted, ProgramCount
<1>2. CASE Fixed /\ UNCHANGED <<call, links, loader>>
  <2>1. Disabled(call)' = Disabled(call)
    BY <1>2 DEF Disabled
  <2> QED BY <1>1, <1>2, <2>1 DEF TableInv, TableTyped, Early
<1>3. CASE Daemon \/ OpenSkeleton \/ LoadSkeleton
  <2>1. /\ Fixed /\ UNCHANGED <<call, links>>
        /\ loader \in {"booting", "opening", "loading"}
        /\ loader' \in {"opening", "loading", "attaching"}
    BY <1>3 DEF Daemon, OpenSkeleton, LoadSkeleton, tableVars
  <2> QED BY <1>1, <2>1 DEF TableInv, TableTyped, Early
<1>4. CASE AttachSkeleton
  <2>1. PICK n \in 0 .. progcnt : /\ links' = {progtab[i] : i \in 1 .. n}
                                  /\ loader' = IF n = progcnt THEN "ringing" ELSE "cleanup"
    BY <1>4 DEF AttachSkeleton
  <2>2. Fixed /\ call' = call /\ loader = "attaching"
    BY <1>4 DEF AttachSkeleton
  <2>3. links' \subseteq Tabled /\ (n = progcnt => links' = Tabled)
    <3>1. 1 .. n \subseteq 1 .. progcnt
      BY <2>1 DEF TableTyped
    <3> QED BY <2>1, <3>1 DEF Tabled
  <2>4. (loader' = "ringing" /\ n = progcnt) \/ loader' = "cleanup"
    BY <2>1
  <2> QED BY <1>1, <2>2, <2>3, <2>4 DEF TableInv, TableTyped, Early
<1>5. CASE LoaderFails
  <2>1. /\ Fixed /\ UNCHANGED <<call, links>> /\ loader \in {"opening", "loading", "ringing"}
        /\ loader' = IF loader = "opening" THEN "ended" ELSE "cleanup"
    BY <1>5, ProbesAssumption DEF LoaderFails, LoaderSteps, tableVars
  <2> QED BY <1>1, <2>1 DEF TableInv, TableTyped, Early
<1>6. CASE RingNew
  <2>1. Fixed /\ loader = "ringing" /\ loader' = "disabling" /\ call' = 1 /\ links' = links
    BY <1>6 DEF RingNew, tableVars
  <2>2. Disabled(call)' = {}
    <3>1. \A k \in DOMAIN DisableOrder(kind) : ~(k < 1)
      BY <1>0
    <3> QED BY <2>1, <3>1 DEF Disabled
  <2> QED BY <1>1, <2>1, <2>2 DEF TableInv, TableTyped, Early
<1>7. CASE DisableProgBasedOnMask
  <2> DEFINE p == DisableOrder(kind)[call]
  <2>1. /\ loader = "disabling" /\ call \in DOMAIN DisableOrder(kind) /\ call' = call + 1
        /\ UNCHANGED <<kind, mask, loader>>
        /\ IF TopicOf(p) \in mask THEN UNCHANGED tableVars ELSE DisableProg(p)
    BY <1>7 DEF DisableProgBasedOnMask
  <2>2. call \in Nat /\ call' \in Nat /\ p \in ProgramSet(kind)
    BY <1>0, <2>1
  <2>3. call >= 1 /\ Tabled = ProgramSet(kind) \ Disabled(call) /\ links = Tabled
    BY <2>1 DEF TableInv
  <2>4. \A k \in DOMAIN DisableOrder(kind) : k < call' <=> k < call \/ k = call
    BY <1>0, <2>1, <2>2
  <2>5. Disabled(call)' = Disabled(call) \cup (IF TopicOf(p) \in mask THEN {} ELSE {p})
    BY <2>1, <2>4 DEF Disabled
  <2>6. call' >= 1
    BY <2>1, <2>2
  <2>7. CASE TopicOf(p) \in mask
    <3>1. Fixed /\ links' = links
      BY <2>1, <2>7 DEF tableVars
    <3> QED BY <1>1, <2>1, <2>2, <2>3, <2>5, <2>6, <2>7, <3>1 DEF TableInv, TableTyped, Early
  <2>8. CASE TopicOf(p) \notin mask
    <3>1. DisableProg(p)
      BY <2>1, <2>8
    <3>2. /\ TableTyped' /\ Tabled' = Tabled \ {p}
          /\ p \in Tabled => /\ links' = links \ {p}
                             /\ unlinks' = [unlinks EXCEPT ![p] = @ + 1]
          /\ p \notin Tabled => UNCHANGED <<links, unlinks>>
      BY <2>1, <2>2, <3>1, DisableProgStep
    <3>3. links' = Tabled' /\ Tabled' = ProgramSet(kind) \ Disabled(call)'
      BY <2>3, <2>5, <2>8, <3>2
    <3>4. /\ \A q \in ProgramSet(kind) : unlinks'[q] <= 1
          /\ \A q \in Tabled' : unlinks'[q] = 0
      <4>1. /\ \A q \in Tabled : unlinks[q] = 0
            /\ \A q \in ProgramSet(kind) : unlinks[q] <= 1
            /\ unlinks \in [ProgramSet(kind) -> Nat] /\ Tabled \subseteq ProgramSet(kind)
        BY <2>1, <2>3 DEF TableInv, TableTyped
      <4>2. CASE p \in Tabled
        <5>1. unlinks[p] = 0 /\ unlinks' = [unlinks EXCEPT ![p] = 1]
          BY <2>2, <3>2, <4>1, <4>2
        <5> QED BY <2>2, <3>2, <4>1, <5>1
      <4>3. CASE p \notin Tabled
        <5>1. unlinks' = unlinks /\ \A q \in Tabled' : q \in Tabled
          BY <3>2, <4>3
        <5> QED BY <4>1, <5>1
      <4> QED BY <4>2, <4>3
    <3>5. ProgramSet(kind)' = ProgramSet(kind)
      BY <2>1
    <3> QED BY <2>1, <2>6, <3>2, <3>3, <3>4, <3>5 DEF TableInv, Early
  <2> QED BY <2>7, <2>8
<1>8. CASE Enable
  <2>1. /\ Fixed /\ loader = "disabling" /\ loader' = "loop" /\ call' = 0 /\ links' = links
        /\ call \notin DOMAIN DisableOrder(kind)
    BY <1>8 DEF Enable, tableVars
  <2>2. Tabled = ProgramSet(kind) \ Disabled(call) /\ call >= 1 /\ call \in Nat
    BY <2>1 DEF TableInv, TableTyped
  <2>3. \A k \in DOMAIN DisableOrder(kind) : k < call
    BY <1>0, <2>1, <2>2
  <2>4. Tabled = Wanted
    BY <1>0, <2>2, <2>3 DEF Disabled, Wanted
  <2> QED BY <1>1, <2>1, <2>4 DEF TableInv, TableTyped, Early
<1>9. CASE Loop \/ PollReturns
  <2>1. /\ Fixed /\ UNCHANGED <<call, links>> /\ loader \in {"loop", "polling"}
        /\ loader' \in {"loop", "polling", "cleanup"}
    BY <1>9 DEF Loop, PollReturns, tableVars
  <2> QED BY <1>1, <2>1 DEF TableInv, TableTyped, Early
<1>10. CASE Cleanup
  <2>1. /\ unlinks' = [p \in DOMAIN unlinks |-> unlinks[p] + (IF p \in Tabled THEN 1 ELSE 0)]
        /\ links' = links \ Tabled /\ loader = "cleanup" /\ loader' = "ended"
        /\ UNCHANGED <<kind, mask, progtab, progcnt, call>>
    BY <1>10 DEF Cleanup, Tabled
  <2>2. links' = {}
    BY <2>1 DEF TableInv
  <2>3. /\ unlinks \in [ProgramSet(kind) -> Nat] /\ \A p \in Tabled : unlinks[p] = 0
        /\ \A p \in ProgramSet(kind) : unlinks[p] <= 1
    BY <2>1 DEF TableInv, TableTyped
  <2>4. unlinks' \in [ProgramSet(kind) -> Nat] /\ \A p \in ProgramSet(kind) : unlinks'[p] <= 1
    BY <2>1, <2>3
  <2>5. ProgramSet(kind)' = ProgramSet(kind) /\ ProgramCount' = ProgramCount
    BY <2>1 DEF ProgramCount
  <2>6. TableTyped'
    BY <2>1, <2>4, <2>5 DEF TableTyped
  <2> QED BY <2>1, <2>2, <2>4, <2>5, <2>6 DEF TableInv, Early
<1>11. Deliver \/ StopProgs => Fixed /\ UNCHANGED <<call, links, loader>>
  BY DEF Deliver, StopProgs, tableVars
<1>12. ASSUME NEW i, Submit(i)
       PROVE  Fixed /\ UNCHANGED <<call, links, loader>>
  BY <1>12 DEF Submit, tableVars
<1>13. ASSUME NEW p, NEW who, NEW args, NEW env, Event(p, who, args, env)
       PROVE  Fixed /\ UNCHANGED <<call, links, loader>>
  BY <1>13 DEF Event, tableVars
<1> QED BY <1>2, <1>3, <1>4, <1>5, <1>6, <1>7, <1>8, <1>9, <1>10, <1>11, <1>12, <1>13
     DEF ProbesNext, probeVars, tableVars

LEMMA TableInit ==
  ASSUME ProbesInit
  PROVE  TableTyped /\ TableInv
<1>1. kind \in {"process", "file"} /\ progtab = ProgramOrder(kind) /\ progcnt = Len(progtab)
  BY ProbesAssumption DEF ProbesInit
<1>2. /\ ProgramCount \in Nat /\ DOMAIN ProgramOrder(kind) = 1 .. ProgramCount
      /\ \A i \in 1 .. ProgramCount : ProgramOrder(kind)[i] \in ProgramSet(kind)
      /\ \A i, j \in 1 .. ProgramCount : ProgramOrder(kind)[i] = ProgramOrder(kind)[j] => i = j
  BY <1>1, OrderFacts
<1>3. progcnt = ProgramCount /\ progcnt \in 0 .. ProgramCount
  BY <1>1, <1>2 DEF ProgramCount
<1>4. progtab \in [1 .. ProgramCount -> ProgramSet(kind)]
  <2>1. CASE kind = "process"
    <3>1. progtab = [i \in 1 .. 6 |-> progtab[i]]
      BY <1>1, <2>1, SMT DEF ProgramOrder
    <3>2. ProgramCount = 6
      BY <2>1 DEF ProgramOrder, ProgramCount
    <3> QED BY <1>1, <1>2, <3>1, <3>2
  <2>2. CASE kind = "file"
    <3>1. progtab = [i \in 1 .. 10 |-> progtab[i]]
      BY <1>1, <2>2, SMT DEF ProgramOrder
    <3>2. ProgramCount = 10
      BY <2>2 DEF ProgramOrder, ProgramCount
    <3> QED BY <1>1, <1>2, <3>1, <3>2
  <2> QED BY <1>1, <2>1, <2>2
<1>5. Tabled = ProgramSet(kind)
  BY <1>1, <1>2, <1>3 DEF Tabled, ProgramSet
<1>6. unlinks \in [ProgramSet(kind) -> Nat] /\ \A p \in ProgramSet(kind) : unlinks[p] = 0
  BY DEF ProbesInit
<1>7. call = 0 /\ links = {} /\ loader = "booting"
  BY DEF ProbesInit
<1>8. TableTyped
  BY <1>1, <1>2, <1>3, <1>4, <1>6, <1>7 DEF TableTyped
<1> QED BY <1>5, <1>6, <1>7, <1>8 DEF TableInv, Early

\* When the thread polls, exactly the programs of the wanted topics are
\* attached, whatever the order of the table and of the calls; when it ends,
\* none is; no link is destroyed twice.
THEOREM MaskObeyed == ProbesSpec => []AttachedMatchMask
<1>1. ProbesInit => TableTyped /\ TableInv
  BY TableInit
<1>2. TableTyped /\ TableInv /\ [ProbesNext]_probeVars => TableTyped' /\ TableInv'
  BY TableStep
<1>3. TableTyped /\ TableInv => AttachedMatchMask
  BY DEF TableTyped, TableInv, AttachedMatchMask, Wanted
<1> QED BY <1>1, <1>2, <1>3, PTL DEF ProbesSpec

----------------------------------------------------------------------------
(* eBPF loaders: whose events the ring holds.                               *)

\* The programs know the agent's process from before they are attached, and
\* daemon() has forked by then.
Opened == {"loading", "attaching", "ringing", "disabling", "loop", "polling", "cleanup"}
PidInv ==
  /\ loader \in {"booting", "opening", "ended"} \cup Opened
  /\ loader \in Opened => secpid = agentpid
  /\ loader = "booting" => links = {}
  /\ links # {} => secpid = agentpid

\* No record is of the agent's doing; the last one that was published is of a
\* topic that was asked for.
EventsInv ==
  /\ \E S : bpfring \in Seq(S) /\ \A r \in S : "who" \in DOMAIN r /\ r.who = "other"
  /\ shown # NothingShown => TopicOf(shown.prog) \in mask /\ shown.who = "other"

LEMMA PidStep ==
  ASSUME PidInv, [ProbesNext]_probeVars
  PROVE  PidInv'
<1> USE DEF PidInv, Opened
<1>1. CASE UNCHANGED <<loader, secpid, agentpid, links>>
  BY <1>1
<1>2. CASE Daemon BY <1>2 DEF Daemon, tableVars
<1>3. CASE OpenSkeleton BY <1>3 DEF OpenSkeleton, PidRecorded, tableVars
<1>4. CASE LoadSkeleton BY <1>4 DEF LoadSkeleton, tableVars
<1>5. CASE AttachSkeleton BY <1>5 DEF AttachSkeleton
<1>6. CASE LoaderFails BY <1>6, ProbesAssumption DEF LoaderFails, LoaderSteps, tableVars
<1>7. CASE RingNew \/ DisableProgBasedOnMask \/ Enable
  <2>1. /\ loader \in {"ringing", "disabling"} /\ loader' \in {"disabling", "loop"}
        /\ UNCHANGED <<secpid, agentpid>>
    BY <1>7 DEF RingNew, DisableProgBasedOnMask, Enable
  <2> QED BY <2>1
<1>8. CASE Loop BY <1>8 DEF Loop, tableVars
<1>9. CASE PollReturns BY <1>9 DEF PollReturns, tableVars
<1>10. CASE Cleanup
  <2>1. /\ loader = "cleanup" /\ loader' = "ended" /\ UNCHANGED <<secpid, agentpid>>
    BY <1>10 DEF Cleanup
  <2> QED BY <2>1
<1>11. Deliver \/ StopProgs => UNCHANGED <<loader, secpid, agentpid, links>>
  BY DEF Deliver, StopProgs, tableVars
<1>12. ASSUME NEW i, Submit(i)
       PROVE  UNCHANGED <<loader, secpid, agentpid, links>>
  BY <1>12 DEF Submit, tableVars
<1>13. ASSUME NEW p, NEW who, NEW args, NEW env, Event(p, who, args, env)
       PROVE  UNCHANGED <<loader, secpid, agentpid, links>>
  BY <1>13 DEF Event, tableVars
<1> QED BY <1>1, <1>2, <1>3, <1>4, <1>5, <1>6, <1>7, <1>8, <1>9, <1>10, <1>11, <1>12, <1>13
     DEF ProbesNext, probeVars, tableVars

LEMMA EventsStep ==
  ASSUME PidInv, EventsInv, [ProbesNext]_probeVars
  PROVE  EventsInv'
<1> DEFINE Others(S) == \A r \in S : "who" \in DOMAIN r /\ r.who = "other"
<1>1. PICK S : bpfring \in Seq(S) /\ Others(S)
  BY DEF EventsInv
<1>2. CASE UNCHANGED <<bpfring, shown, mask>>
  BY <1>2 DEF EventsInv
<1>3. CASE Cleanup
  <2>1. bpfring' = <<>> /\ UNCHANGED <<shown, mask>>
    BY <1>3 DEF Cleanup
  <2>2. bpfring' \in Seq(S)
    BY <2>1
  <2> QED BY <1>1, <2>1, <2>2 DEF EventsInv
<1>4. ASSUME NEW p \in links, NEW who \in {"agent", "other"}, NEW args, NEW env, Event(p, who, args, env)
      PROVE  EventsInv'
  <2> DEFINE r == [prog |-> p, who |-> who, busy |-> TRUE, slot |-> lap, args |-> args,
                   argv |-> ArgvLoop(args), env |-> env, envp |-> ArgvLoop(env),
                   own |-> FieldsWritten(p, args, env)]
  <2>1. /\ bpfring' = Append(bpfring, r) /\ UNCHANGED <<shown, mask>>
        /\ ~(who = "agent" /\ secpid = agentpid)
    BY <1>4 DEF Event
  <2>2. who = "other"
    BY <2>1 DEF PidInv
  <2>3. "who" \in DOMAIN r /\ r.who = "other"
    BY <2>2
  <2> HIDE DEF r
  <2>4. bpfring \in Seq(S \cup {r})
    BY <1>1
  <2>5. bpfring' \in Seq(S \cup {r}) /\ Others(S \cup {r})
    BY <1>1, <2>1, <2>3, <2>4
  <2> QED BY <2>1, <2>5 DEF EventsInv
<1>5. ASSUME NEW i \in DOMAIN bpfring, Submit(i)
      PROVE  EventsInv'
  <2> DEFINE r == [bpfring[i] EXCEPT !.busy = FALSE]
  <2>1. bpfring' = [bpfring EXCEPT ![i] = r] /\ UNCHANGED <<shown, mask>>
    BY <1>5 DEF Submit
  <2>2. bpfring[i] \in S
    BY <1>1
  <2>3. "who" \in DOMAIN r /\ r.who = "other"
    BY <1>1, <2>2
  <2> HIDE DEF r
  <2>4. bpfring \in Seq(S \cup {r})
    BY <1>1
  <2>5. bpfring' \in Seq(S \cup {r}) /\ Others(S \cup {r})
    BY <1>1, <2>1, <2>3, <2>4
  <2> QED BY <2>1, <2>5 DEF EventsInv
<1>6. CASE Deliver
  <2>1. /\ bpfring # <<>> /\ bpfring' = Tail(bpfring) /\ mask' = mask
    BY <1>6 DEF Deliver
  <2>2. Head(bpfring) \in S /\ bpfring' \in Seq(S)
    BY <1>1, <2>1
  <2>3. shown' = shown \/ /\ TopicOf(shown'.prog) \in mask'
                          /\ shown'.who = Head(bpfring).who
    BY <1>6 DEF Deliver, Pushed
  <2>4. Head(bpfring).who = "other"
    BY <1>1, <2>2
  <2>5. shown' # NothingShown => TopicOf(shown'.prog) \in mask' /\ shown'.who = "other"
    BY <2>1, <2>3, <2>4 DEF EventsInv
  <2> QED BY <1>1, <2>2, <2>5 DEF EventsInv
<1>7. Daemon \/ OpenSkeleton \/ LoadSkeleton \/ AttachSkeleton \/ LoaderFails \/ RingNew
      \/ DisableProgBasedOnMask \/ Enable \/ Loop \/ PollReturns \/ StopProgs => UNCHANGED <<bpfring, shown, mask>>
  BY DEF Daemon, OpenSkeleton, LoadSkeleton, AttachSkeleton, LoaderFails, RingNew,
         DisableProgBasedOnMask, Enable, Loop, PollReturns, StopProgs, ringVars
<1> QED BY <1>2, <1>3, <1>4, <1>5, <1>6, <1>7 DEF ProbesNext, probeVars, ringVars

LEMMA EventsInit == ProbesInit => PidInv /\ EventsInv
<1>1. <<>> \in Seq({}) /\ \A r \in {} : "who" \in DOMAIN r /\ r.who = "other"
  OBVIOUS
<1>2. ProbesInit =>
        \E T : bpfring \in Seq(T) /\ \A r \in T : "who" \in DOMAIN r /\ r.who = "other"
  BY <1>1, Zenon DEF ProbesInit
<1>3. ProbesInit => EventsInv
  BY <1>2, Zenon DEF ProbesInit, EventsInv
<1>4. ProbesInit => PidInv
  BY DEF ProbesInit, PidInv, Opened
<1> QED BY <1>3, <1>4

\* What is published is of a topic that was asked for and never the agent's
\* own doing: the programs have its process from before they are attached, and
\* events of programs that are taken away later are dropped on delivery.
THEOREM OnlyWantedPublished == ProbesSpec => []PublishedWanted
<1>1. ProbesInit => PidInv /\ EventsInv
  BY EventsInit
<1>2. PidInv /\ EventsInv /\ [ProbesNext]_probeVars => PidInv' /\ EventsInv'
  BY PidStep, EventsStep
<1>3. EventsInv => PublishedWanted
  BY DEF EventsInv, PublishedWanted
<1> QED BY <1>1, <1>2, <1>3, PTL DEF ProbesSpec

----------------------------------------------------------------------------
(* eBPF loaders: the types of the rest.                                     *)

RestTyped ==
  /\ kind \in Kinds /\ mask \subseteq KindTopics(kind)
  /\ secpid \in {"unset", "parent", "child"} /\ agentpid \in {"parent", "child"}
  /\ Len(bpfring) \in 0 .. RingSlots /\ events \in 0 .. MaxEvents
  /\ lap \in 0 .. RingSlots - 1
  /\ exiting \in BOOLEAN /\ call \in 0 .. Len(DisableOrder(kind)) + 1

LEMMA RestStep ==
  ASSUME TableTyped, TableInv, EventsInv, RestTyped, [ProbesNext]_probeVars
  PROVE  RestTyped'
<1> USE ProbesAssumption DEF RestTyped
<1>0. /\ Len(DisableOrder(kind)) \in Nat
      /\ DOMAIN DisableOrder(kind) = 1 .. Len(DisableOrder(kind))
  <2>1. CASE kind = "process"
    BY <2>1 DEF DisableOrder
  <2>2. CASE kind = "file"
    BY <2>2 DEF DisableOrder
  <2> QED BY <2>1, <2>2 DEF TableTyped
<1>1. PICK S : bpfring \in Seq(S)
  BY DEF EventsInv
<1>2. CASE UNCHANGED probeVars
  BY <1>2 DEF probeVars
<1>3. CASE Daemon
  BY <1>3 DEF Daemon, tableVars, ringVars
<1>4. CASE OpenSkeleton
  BY <1>4 DEF OpenSkeleton, PidRecorded, tableVars, ringVars
<1>5. CASE LoadSkeleton \/ AttachSkeleton \/ LoaderFails \/ Loop \/ PollReturns
  <2>1. UNCHANGED <<kind, mask, call, agentpid, secpid, exiting, bpfring, lap, events>>
    BY <1>5 DEF LoadSkeleton, AttachSkeleton, LoaderFails, Loop, PollReturns, ringVars
  <2> QED BY <2>1
<1>6. CASE RingNew \/ Enable
  <2>1. call' \in {0, 1} /\ UNCHANGED <<kind, mask, agentpid, secpid, exiting, bpfring, lap, events>>
    BY <1>6 DEF RingNew, Enable, ringVars
  <2>2. call' \in 0 .. Len(DisableOrder(kind)) + 1
    BY <1>0, <2>1
  <2> QED BY <2>1, <2>2
<1>7. CASE DisableProgBasedOnMask
  <2>1. /\ call \in DOMAIN DisableOrder(kind) /\ call' = call + 1
        /\ UNCHANGED <<kind, mask, agentpid, secpid, exiting, bpfring, lap, events>>
    BY <1>7 DEF DisableProgBasedOnMask, ringVars
  <2>2. call' \in 0 .. Len(DisableOrder(kind)) + 1
    BY <1>0, <2>1
  <2> QED BY <2>1, <2>2
<1>8. CASE Cleanup
  <2>1. bpfring' = <<>> /\ UNCHANGED <<kind, mask, call, agentpid, secpid, exiting, lap, events>>
    BY <1>8 DEF Cleanup
  <2>2. Len(bpfring') = 0
    BY <2>1
  <2> QED BY <2>1, <2>2
<1>9. CASE StopProgs
  BY <1>9 DEF StopProgs, tableVars, ringVars
<1>10. CASE Deliver
  <2>1. /\ bpfring # <<>> /\ bpfring' = Tail(bpfring)
        /\ UNCHANGED <<kind, mask, call, agentpid, secpid, exiting, lap, events>>
    BY <1>10 DEF Deliver
  <2>2. Len(bpfring') = Len(bpfring) - 1 /\ Len(bpfring) # 0
    BY <1>1, <2>1
  <2> QED BY <2>1, <2>2
<1>11. ASSUME NEW p, NEW who, NEW args, NEW env, Event(p, who, args, env)
       PROVE  RestTyped'
  <2>1. /\ events < MaxEvents /\ events' = events + 1
        /\ Len(bpfring) < RingSlots /\ lap' = (lap + 1) % RingSlots
        /\ \E r : bpfring' = Append(bpfring, r)
        /\ UNCHANGED <<kind, mask, call, agentpid, secpid, exiting>>
    BY <1>11 DEF Event, Reserved
  <2>2. PICK r : bpfring' = Append(bpfring, r)
    BY <2>1
  <2>3. bpfring \in Seq(S \cup {r})
    BY <1>1
  <2>4. Len(bpfring') = Len(bpfring) + 1
    BY <2>2, <2>3
  <2>5. Len(bpfring') \in 0 .. RingSlots /\ events' \in 0 .. MaxEvents
    BY <2>1, <2>4
  <2>6. lap' \in 0 .. RingSlots - 1
    BY <2>1
  <2> QED BY <2>1, <2>5, <2>6
<1>12. ASSUME NEW i \in DOMAIN bpfring, Submit(i)
       PROVE  RestTyped'
  <2> DEFINE r == [bpfring[i] EXCEPT !.busy = FALSE]
  <2>1. /\ bpfring' = [bpfring EXCEPT ![i] = r]
        /\ UNCHANGED <<kind, mask, call, agentpid, secpid, exiting, lap, events>>
    BY <1>12 DEF Submit, tableVars
  <2> HIDE DEF r
  <2>2. Len(bpfring') = Len(bpfring)
    BY <1>1, <2>1
  <2> QED BY <2>1, <2>2
<1> QED BY <1>2, <1>3, <1>4, <1>5, <1>6, <1>7, <1>8, <1>9, <1>10, <1>11, <1>12 DEF ProbesNext

LEMMA ProbesTyped == ProbesSpec => []ProbesTypeOK
<1>1. ProbesInit => TableTyped /\ TableInv /\ RestTyped
  <2>1. ProbesInit => TableTyped /\ TableInv
    BY TableInit
  <2>2. SUFFICES ASSUME ProbesInit
                 PROVE  RestTyped
    BY <2>1
  <2>3. kind \in {"process", "file"}
    BY <2>2, ProbesAssumption DEF ProbesInit
  <2>4. Len(DisableOrder(kind)) \in Nat
    <3>1. CASE kind = "process"
      BY <3>1 DEF DisableOrder
    <3>2. CASE kind = "file"
      BY <3>2 DEF DisableOrder
    <3> QED BY <2>3, <3>1, <3>2
  <2>5. bpfring = <<>> /\ lap = 0 /\ events = 0 /\ call = 0 /\ exiting = FALSE
        /\ kind \in Kinds /\ mask \subseteq KindTopics(kind)
        /\ secpid = "unset" /\ agentpid = "parent"
    BY <2>2 DEF ProbesInit
  <2>6. Len(bpfring) \in 0 .. RingSlots
    BY <2>5, ProbesAssumption
  <2>7. lap \in 0 .. RingSlots - 1 /\ events \in 0 .. MaxEvents
    BY <2>5, ProbesAssumption
  <2>8. call \in 0 .. Len(DisableOrder(kind)) + 1
    BY <2>4, <2>5
  <2> QED BY <2>5, <2>6, <2>7, <2>8 DEF RestTyped
<1>2. ProbesInit => PidInv /\ EventsInv
  BY EventsInit
<1>3. /\ TableTyped /\ TableInv /\ PidInv /\ EventsInv /\ RestTyped /\ [ProbesNext]_probeVars
      => TableTyped' /\ TableInv' /\ PidInv' /\ EventsInv' /\ RestTyped'
  BY TableStep, PidStep, EventsStep, RestStep
<1>4. TableTyped /\ TableInv /\ RestTyped => ProbesTypeOK
  <2> SUFFICES ASSUME TableTyped, TableInv, RestTyped
               PROVE  ProbesTypeOK
    OBVIOUS
  <2>1. ProgramCount \in Nat
    BY OrderFacts DEF TableTyped
  <2>2. Len(progtab) = ProgramCount
    BY <2>1 DEF TableTyped
  <2>3. Tabled \subseteq ProgramSet(kind)
    BY <2>1 DEF TableTyped, Tabled
  <2>4. links \subseteq Tabled
    BY DEF TableInv, Early
  <2>5. progcnt \in 0 .. Len(progtab)
    BY <2>2 DEF TableTyped
  <2>6. loader \in LoaderSteps \cup {"booting", "disabling", "loop", "polling", "cleanup", "ended"}
    BY DEF TableInv, Early, LoaderSteps
  <2>7. Len(bpfring) <= RingSlots
    BY ProbesAssumption DEF RestTyped
  <2> QED BY <2>3, <2>4, <2>5, <2>6, <2>7 DEF RestTyped, ProbesTypeOK
<1> QED BY <1>1, <1>2, <1>3, <1>4, PTL DEF ProbesSpec

----------------------------------------------------------------------------
(* Induction and recursive functions.  The library's induction theorems      *)
(* take a predicate; these take a set, and follow from the finite intervals'  *)
(* being well-founded under inclusion.                                       *)

LEMMA LeastNatural ==
  ASSUME NEW T \in SUBSET Nat, T # {}
  PROVE  \E m \in T : \A k \in T : ~(k < m)
<1> DEFINE R == StrictSubsetOrdering(Nat)
           F == {0 .. n - 1 : n \in T}
<1>1. IsWellFoundedOn(R, FiniteSubsetsOf(Nat))
  BY FS_StrictSubsetOrderingWellFounded
<1>2. F \subseteq FiniteSubsetsOf(Nat) /\ F # {}
  <2>1. \A n \in Nat : 0 .. n - 1 \in SUBSET Nat /\ IsFiniteSet(0 .. n - 1)
    BY FS_Interval
  <2> QED BY <2>1 DEF FiniteSubsetsOf
<1>3. \A x, y \in SUBSET Nat : x \subseteq y /\ x # y => <<x, y>> \in R
  BY DEF StrictSubsetOrdering
<1> HIDE DEF R
<1>4. \E x \in F : \A y \in F : ~(<<y, x>> \in R)
  <2> HIDE DEF F
  <2> QED BY <1>1, <1>2, WFMin
<1>5. PICK m \in T : \A y \in F : ~(<<y, 0 .. m - 1>> \in R)
  BY <1>4
<1>6. ASSUME NEW k \in T, k < m
      PROVE  FALSE
  <2>1. 0 .. k - 1 \subseteq 0 .. m - 1 /\ k \in 0 .. m - 1 /\ k \notin 0 .. k - 1
    BY <1>6
  <2>2. 0 .. k - 1 \in SUBSET Nat /\ 0 .. m - 1 \in SUBSET Nat /\ 0 .. k - 1 # 0 .. m - 1
    BY <2>1
  <2>3. <<0 .. k - 1, 0 .. m - 1>> \in R
    BY <1>3, <2>1, <2>2
  <2> QED BY <1>5, <2>3
<1> QED BY <1>6

LEMMA Induction ==
  ASSUME NEW T, 0 \in T, \A n \in Nat : n \in T => n + 1 \in T
  PROVE  Nat \subseteq T
<1> DEFINE B == Nat \ T
<1>1. SUFFICES ASSUME B # {}
               PROVE  FALSE
  OBVIOUS
<1>2. PICK m \in B : \A k \in B : ~(k < m)
  <2>1. B \in SUBSET Nat
    OBVIOUS
  <2> HIDE DEF B
  <2> QED BY <1>1, <2>1, LeastNatural
<1>3. m # 0 /\ m - 1 \in Nat /\ m - 1 \notin B
  BY <1>2
<1> QED BY <1>2, <1>3

LEMMA InductionUpTo ==
  ASSUME NEW T, NEW n \in Nat, 0 \in T, \A i \in 1 .. n : i - 1 \in T => i \in T
  PROVE  0 .. n \subseteq T
<1> DEFINE U == {m \in Nat : m <= n => m \in T}
<1>1. 0 \in U
  OBVIOUS
<1>2. ASSUME NEW m \in Nat, m \in U
      PROVE  m + 1 \in U
  <2>1. SUFFICES ASSUME m + 1 <= n
                 PROVE  m + 1 \in T
    OBVIOUS
  <2>2. m \in T /\ m + 1 \in 1 .. n /\ (m + 1) - 1 = m
    BY <1>2, <2>1
  <2> QED BY <2>2
<1>3. Nat \subseteq U
  <2> HIDE DEF U
  <2> QED BY <1>1, <1>2, Induction
<1> QED BY <1>3

\* A function given by its first value and by what each makes of the last.
StepsOf(V, n) == [V \X (1 .. n) -> V]
Walks(V, n) == [0 .. n -> V]
Follows(g, a, n, F) == g[0] = a /\ \A i \in 1 .. n : g[i] = F[<<g[i - 1], i>>]
LEMMA Recursion ==
  ASSUME NEW V, NEW a \in V, NEW n \in Nat, NEW F \in StepsOf(V, n)
  PROVE  \E g \in Walks(V, n) : Follows(g, a, n, F)
<1>0. F \in [V \X (1 .. n) -> V]
  BY DEF StepsOf
<1> DEFINE Defined(m) ==
             \E g \in [0 .. m -> V] : g[0] = a /\ \A i \in 1 .. m : g[i] = F[<<g[i - 1], i>>]
           T == {m \in 0 .. n : Defined(m)}
<1>1. 0 \in T
  <2> DEFINE g == [i \in 0 .. 0 |-> a]
  <2>1. g \in [0 .. 0 -> V] /\ g[0] = a /\ 1 .. 0 = {}
    OBVIOUS
  <2> HIDE DEF g
  <2>2. Defined(0)
    BY <2>1
  <2> QED BY <2>2
<1>2. ASSUME NEW m \in 1 .. n, m - 1 \in T
      PROVE  m \in T
  <2>1. PICK g \in [0 .. m - 1 -> V] :
          g[0] = a /\ \A i \in 1 .. m - 1 : g[i] = F[<<g[i - 1], i>>]
    BY <1>2
  <2> DEFINE h == [i \in 0 .. m |-> IF i = m THEN F[<<g[m - 1], m>>] ELSE g[i]]
  <2>2. g[m - 1] \in V /\ <<g[m - 1], m>> \in V \X (1 .. n)
    <3>1. m - 1 \in 0 .. m - 1
      OBVIOUS
    <3> QED BY <3>1
  <2>3. h \in [0 .. m -> V]
    BY <1>0, <2>2
  <2>4. h[m] = F[<<g[m - 1], m>>] /\ \A i \in 0 .. m - 1 : h[i] = g[i]
    OBVIOUS
  <2> HIDE DEF h
  <2>5. h[0] = a
    BY <2>1, <2>4
  <2>6. ASSUME NEW i \in 1 .. m
        PROVE  h[i] = F[<<h[i - 1], i>>]
    <3>1. i - 1 \in 0 .. m - 1 /\ (i # m => i \in 1 .. m - 1 /\ i \in 0 .. m - 1)
      OBVIOUS
    <3> QED BY <2>1, <2>4, <3>1
  <2>7. Defined(m)
    BY <2>3, <2>5, <2>6
  <2> QED BY <2>7
<1>3. 0 .. n \subseteq T
  <2> HIDE DEF T
  <2> QED BY <1>1, <1>2, InductionUpTo
<1>4. n \in T
  BY <1>3
<1> QED BY <1>4 DEF Walks, Follows

----------------------------------------------------------------------------
(* eBPF programs: the arguments' text.                                      *)

Chars == {Space, EndMark} \cup (Nat \X Nat)

\* The functions that ArgvLoop and Joined compute.
At(args) == CHOOSE at :
  at = [i \in 0 .. Len(args) |-> IF i = 0 THEN <<>> ELSE ArgvStep(at[i - 1], args, i)]
All(args) == CHOOSE all :
  all = [i \in 0 .. Len(args) |-> IF i = 0 THEN <<>> ELSE JoinStep(all[i - 1], args, i)]

LEMMA CharsFacts ==
  /\ Space \in Chars /\ EndMark \in Chars
  /\ \A i, j \in Nat : Char(i, j) \in Chars
<1>1. Space \in Chars /\ EndMark \in Chars
  BY DEF Chars, Space, EndMark
<1>2. \A i, j \in Nat : Char(i, j) \in Chars
  BY DEF Chars, Char
<1> QED BY <1>1, <1>2

LEMMA Short ==
  /\ \A S : <<>> \in Seq(S)
  /\ Len(<<>>) = 0
  /\ \A S : \A x \in S : <<x>> \in Seq(S) /\ Len(<<x>>) = 1 /\ <<x>>[1] = x
OBVIOUS

LEMMA FunSeq ==
  ASSUME NEW S, NEW n \in Nat, NEW f \in [1 .. n -> S]
  PROVE  f \in Seq(S) /\ Len(f) = n
OBVIOUS

LEMMA ExceptSeq ==
  ASSUME NEW S, NEW s \in Seq(S), NEW i \in 1 .. Len(s), NEW x \in S
  PROVE  /\ [s EXCEPT ![i] = x] \in Seq(S) /\ Len([s EXCEPT ![i] = x]) = Len(s)
         /\ [s EXCEPT ![i] = x][i] = x
         /\ \A k \in 1 .. Len(s) : k # i => [s EXCEPT ![i] = x][k] = s[k]
OBVIOUS

LEMMA Concat ==
  ASSUME NEW S, NEW s \in Seq(S), NEW t \in Seq(S)
  PROVE  /\ s \o t \in Seq(S) /\ Len(s \o t) = Len(s) + Len(t)
         /\ \A k \in 1 .. Len(s) : (s \o t)[k] = s[k]
         /\ \A k \in 1 .. Len(t) : (s \o t)[Len(s) + k] = t[k]
<1>1. s \o t \in Seq(S) /\ Len(s \o t) = Len(s) + Len(t)
  OBVIOUS
<1>2. \A k \in 1 .. Len(s) : (s \o t)[k] = s[k]
  OBVIOUS
<1>3. \A k \in 1 .. Len(t) : (s \o t)[Len(s) + k] = t[k]
  OBVIOUS
<1> QED BY <1>1, <1>2, <1>3

LEMMA CopyOfFacts ==
  ASSUME NEW i \in Nat, NEW n \in Nat \ {0}
  PROVE  /\ CopyOf(i, n) \in Seq(Chars) /\ Len(CopyOf(i, n)) = n
         /\ \A j \in 1 .. n - 1 : CopyOf(i, n)[j] = Char(i, j)
         /\ CopyOf(i, n)[n] = EndMark
<1>1. \A j \in 1 .. n : (IF j = n THEN EndMark ELSE Char(i, j)) \in Chars
  BY CharsFacts
<1>2. CopyOf(i, n) \in [1 .. n -> Chars]
  BY <1>1 DEF CopyOf
<1>3. CopyOf(i, n) \in Seq(Chars) /\ Len(CopyOf(i, n)) = n
  BY <1>2, FunSeq
<1>4. \A j \in 1 .. n : CopyOf(i, n)[j] = IF j = n THEN EndMark ELSE Char(i, j)
  BY DEF CopyOf
<1> QED BY <1>3, <1>4

LEMMA SpacesFacts ==
  ASSUME NEW n \in Nat
  PROVE  /\ Spaces(n) \in Seq(Chars) /\ Len(Spaces(n)) = n
         /\ \A j \in 1 .. n : Spaces(n)[j] = Space
<1>1. Spaces(n) \in [1 .. n -> Chars]
  BY CharsFacts DEF Spaces
<1> QED BY <1>1, FunSeq DEF Spaces

LEMMA ArgumentFacts ==
  ASSUME NEW i \in Nat, NEW n \in Nat
  PROVE  /\ Argument(i, n) \in Seq(Chars) /\ Len(Argument(i, n)) = n
         /\ \A j \in 1 .. n : Argument(i, n)[j] = Char(i, j)
<1>1. Argument(i, n) \in [1 .. n -> Chars]
  BY CharsFacts DEF Argument
<1> QED BY <1>1, FunSeq DEF Argument

\* What one argument adds to the buffer, and to the text.
LEMMA CopyArgFacts ==
  ASSUME NEW args \in Seq(Nat), NEW i \in 1 .. Len(args), NEW buf \in Seq(Chars),
         Len(buf) < ArgvSize
  PROVE  /\ CopyArg(buf, args, i) \in Seq(Chars)
         /\ Copied(buf, args, i) \in 1 .. ArgvSize - Len(buf)
         /\ Len(CopyArg(buf, args, i)) = Len(buf) + Copied(buf, args, i)
         /\ \A k \in 1 .. Len(buf) : CopyArg(buf, args, i)[k] = buf[k]
         /\ \A j \in 1 .. Copied(buf, args, i) - 1 :
              CopyArg(buf, args, i)[Len(buf) + j] = Char(i, j)
<1>1. /\ Copied(buf, args, i) \in 1 .. ArgvSize - Len(buf)
      /\ Copied(buf, args, i) \in Nat \ {0} /\ i \in Nat
  BY ProbesAssumption DEF Copied
<1> DEFINE n == Copied(buf, args, i)
<1> HIDE DEF n
<1>2. n \in Nat \ {0} /\ i \in Nat
  BY <1>1 DEF n
<1>3. /\ CopyOf(i, n) \in Seq(Chars) /\ Len(CopyOf(i, n)) = n
      /\ \A j \in 1 .. n - 1 : CopyOf(i, n)[j] = Char(i, j)
  BY <1>2, CopyOfFacts
<1>a. CopyOf(i, n) \in Seq(Chars)
  BY <1>3
<1>4. /\ buf \o CopyOf(i, n) \in Seq(Chars)
      /\ Len(buf \o CopyOf(i, n)) = Len(buf) + Len(CopyOf(i, n))
      /\ \A k \in 1 .. Len(buf) : (buf \o CopyOf(i, n))[k] = buf[k]
      /\ \A k \in 1 .. Len(CopyOf(i, n)) :
           (buf \o CopyOf(i, n))[Len(buf) + k] = CopyOf(i, n)[k]
  BY <1>a, Concat, SMT
<1>5. \A j \in 1 .. n - 1 : (buf \o CopyOf(i, n))[Len(buf) + j] = Char(i, j)
  BY <1>2, <1>3, <1>4
<1>6. CopyArg(buf, args, i) = buf \o CopyOf(i, n)
  BY DEF CopyArg, n
<1> QED BY <1>1, <1>3, <1>4, <1>5, <1>6 DEF n

Sep(i) == IF i = 1 THEN 0 ELSE 1

LEMMA JoinStepFacts ==
  ASSUME NEW args \in Seq(Nat), NEW i \in 1 .. Len(args), NEW text \in Seq(Chars)
  PROVE  /\ JoinStep(text, args, i) \in Seq(Chars)
         /\ Len(JoinStep(text, args, i)) = Len(text) + Sep(i) + args[i]
         /\ \A k \in 1 .. Len(text) : JoinStep(text, args, i)[k] = text[k]
         /\ i # 1 => JoinStep(text, args, i)[Len(text) + 1] = Space
         /\ \A j \in 1 .. args[i] :
              JoinStep(text, args, i)[Len(text) + Sep(i) + j] = Char(i, j)
<1>1. args[i] \in Nat /\ i \in Nat /\ Sep(i) \in Nat /\ (i # 1 => Sep(i) = 1)
  BY DEF Sep
<1> DEFINE mid == Spaces(Sep(i))
           most == text \o mid
           tail == Argument(i, args[i])
<1>2. JoinStep(text, args, i) = most \o tail
  BY DEF JoinStep, Sep
<1>3. mid \in Seq(Chars) /\ Len(mid) = Sep(i) /\ \A j \in 1 .. Sep(i) : mid[j] = Space
  BY <1>1, SpacesFacts
<1>4. tail \in Seq(Chars) /\ Len(tail) = args[i] /\ \A j \in 1 .. args[i] : tail[j] = Char(i, j)
  BY <1>1, ArgumentFacts
<1> HIDE DEF mid, tail
<1>a. mid \in Seq(Chars)
  BY <1>3
<1>b. tail \in Seq(Chars)
  BY <1>4
<1>5. /\ most \in Seq(Chars) /\ Len(most) = Len(text) + Len(mid)
      /\ \A k \in 1 .. Len(text) : most[k] = text[k]
      /\ \A k \in 1 .. Len(mid) : most[Len(text) + k] = mid[k]
  BY <1>a, Concat, SMT
<1>c. most \in Seq(Chars)
  BY <1>5
<1> HIDE DEF most
<1>6. /\ most \o tail \in Seq(Chars) /\ Len(most \o tail) = Len(most) + Len(tail)
      /\ \A k \in 1 .. Len(most) : (most \o tail)[k] = most[k]
      /\ \A k \in 1 .. Len(tail) : (most \o tail)[Len(most) + k] = tail[k]
  BY <1>b, <1>c, Concat, SMT
<1> DEFINE whole == most \o tail
<1>7. /\ whole \in Seq(Chars) /\ Len(whole) = Len(text) + Sep(i) + args[i]
      /\ \A k \in 1 .. Len(most) : whole[k] = most[k]
      /\ \A k \in 1 .. args[i] : whole[Len(text) + Sep(i) + k] = tail[k]
  BY <1>3, <1>4, <1>5, <1>6
<1> HIDE DEF whole
<1>8. Len(text) \in Nat /\ Len(most) = Len(text) + Sep(i)
  BY <1>3, <1>5
<1>9. \A k \in 1 .. Len(text) : whole[k] = text[k]
  <2>1. \A k \in 1 .. Len(text) : k \in 1 .. Len(most)
    BY <1>1, <1>8
  <2> QED BY <1>5, <1>7, <2>1
<1>10. i # 1 => whole[Len(text) + 1] = Space
  <2>1. i # 1 => Len(text) + 1 \in 1 .. Len(most) /\ 1 \in 1 .. Len(mid)
    BY <1>1, <1>3, <1>8
  <2> QED BY <1>3, <1>5, <1>7, <2>1
<1> QED BY <1>2, <1>4, <1>7, <1>9, <1>10 DEF whole

\* The buffer has the text so far as far as it fits, and one character after
\* it: the space before the next argument, unless there is no room for one.
Fits(n) == IF n < ArgvSize THEN n ELSE ArgvSize - 1
SameSoFar(buf, text) ==
  /\ buf \in Seq(Chars) /\ text \in Seq(Chars)
  /\ Len(buf) = Fits(Len(text)) + 1
  /\ \A k \in 1 .. Fits(Len(text)) : buf[k] = text[k]
  /\ Len(buf) < ArgvSize => buf[Len(buf)] = Space

\* A full buffer stays as it is, and the text's beginning is the same.
LEMMA SameFull ==
  ASSUME NEW args \in Seq(Nat), NEW i \in 1 .. Len(args), NEW buf, NEW text,
         SameSoFar(buf, text), Len(buf) >= ArgvSize
  PROVE  SameSoFar(buf, JoinStep(text, args, i))
<1> DEFINE next == JoinStep(text, args, i)
           nb == Len(buf)
           nt == Len(text)
           nn == Len(next)
<1>1. ArgvSize \in Nat \ {0} /\ args[i] \in Nat /\ Sep(i) \in Nat
  BY ProbesAssumption DEF Sep
<1>2. /\ buf \in Seq(Chars) /\ text \in Seq(Chars) /\ nb \in Nat /\ nt \in Nat
      /\ nb = Fits(nt) + 1 /\ \A k \in 1 .. Fits(nt) : buf[k] = text[k]
  BY DEF SameSoFar
<1>3. /\ next \in Seq(Chars) /\ nn = nt + Sep(i) + args[i]
      /\ \A k \in 1 .. nt : next[k] = text[k]
  BY <1>2, JoinStepFacts
<1>4. nb >= ArgvSize
  OBVIOUS
<1> HIDE DEF next, nb, nt, nn
<1>5. Fits(nt) = ArgvSize - 1 /\ nb = ArgvSize /\ nt >= ArgvSize - 1
  BY <1>1, <1>2, <1>4 DEF Fits
<1>6. Fits(nn) = ArgvSize - 1
  <2> DEFINE gap == Sep(i)
             more == args[i]
  <2>1. /\ ArgvSize \in Nat \ {0} /\ gap \in Nat /\ more \in Nat /\ nt \in Nat
        /\ nn = nt + gap + more /\ nt >= ArgvSize - 1
    BY <1>1, <1>2, <1>3, <1>5
  <2> HIDE DEF gap, more
  <2>2. nn \in Nat /\ nn >= ArgvSize - 1
    BY <2>1
  <2> QED BY <2>1, <2>2 DEF Fits
<1>7. \A k \in 1 .. ArgvSize - 1 : buf[k] = next[k]
  <2>1. \A k \in 1 .. ArgvSize - 1 : k \in 1 .. nt
    BY <1>1, <1>2, <1>5
  <2> QED BY <1>2, <1>3, <1>5, <2>1
<1>8. /\ nb = Fits(nn) + 1 /\ ~(nb < ArgvSize)
      /\ \A k \in 1 .. Fits(nn) : buf[k] = next[k]
  BY <1>1, <1>5, <1>6, <1>7
<1> QED BY <1>2, <1>3, <1>8 DEF SameSoFar, next, nb, nn

LEMMA SameRoom ==
  ASSUME NEW args \in Seq(Nat), NEW i \in 1 .. Len(args), NEW buf \in Seq(Chars),
         NEW text \in Seq(Chars), Len(buf) < ArgvSize, Len(buf) = Len(text) + Sep(i),
         \A k \in 1 .. Len(text) : buf[k] = text[k],
         i # 1 => buf[Len(text) + 1] = Space, i <= MaxArgs
  PROVE  SameSoFar(ArgvStep(buf, args, i), JoinStep(text, args, i))
<1> DEFINE next == JoinStep(text, args, i)
           len == Copied(buf, args, i)
           longer == CopyArg(buf, args, i)
           done == ArgvStep(buf, args, i)
           nb == Len(buf)
           nt == Len(text)
           nn == Len(next)
           nl == Len(longer)
           nd == Len(done)
<1>1. /\ ArgvSize \in Nat \ {0} /\ args[i] \in Nat /\ Sep(i) \in Nat
      /\ (i = 1 => Sep(i) = 0) /\ (i # 1 => Sep(i) = 1)
  BY ProbesAssumption DEF Sep
<1>2. /\ nb \in Nat /\ nt \in Nat /\ nb = nt + Sep(i) /\ nb < ArgvSize
      /\ \A k \in 1 .. nt : buf[k] = text[k]
      /\ i # 1 => buf[nt + 1] = Space
  OBVIOUS
<1>3. /\ next \in Seq(Chars) /\ nn = nt + Sep(i) + args[i]
      /\ \A k \in 1 .. nt : next[k] = text[k]
      /\ i # 1 => next[nt + 1] = Space
      /\ \A j \in 1 .. args[i] : next[nt + Sep(i) + j] = Char(i, j)
  BY JoinStepFacts
<1>4. /\ longer \in Seq(Chars) /\ len \in 1 .. ArgvSize - nb /\ nl = nb + len
      /\ \A k \in 1 .. nb : longer[k] = buf[k]
      /\ \A j \in 1 .. len - 1 : longer[nb + j] = Char(i, j)
  BY CopyArgFacts
<1>5. len = IF args[i] + 1 > ArgvSize - nb THEN ArgvSize - nb ELSE args[i] + 1
  BY DEF Copied
<1>6. done = IF nl >= ArgvSize THEN longer ELSE [longer EXCEPT ![nl] = Space]
  <2>1. ~(i > MaxArgs)
    BY ProbesAssumption
  <2> QED BY <1>1, <1>2, <2>1 DEF ArgvStep
<1> HIDE DEF next, len, done, nb, nt, nn
<1>7. /\ done \in Seq(Chars) /\ nd = nl
      /\ \A k \in 1 .. nl - 1 : done[k] = longer[k]
      /\ nl < ArgvSize => done[nl] = Space
  <2>1. longer \in Seq(Chars) /\ nl \in Nat /\ nl >= 1
    BY <1>2, <1>4
  <2>2. CASE nl >= ArgvSize
    BY <1>1, <1>6, <2>1, <2>2
  <2>3. CASE ~(nl >= ArgvSize)
    <3>1. done = [longer EXCEPT ![nl] = Space]
      BY <1>6, <2>3
    <3> HIDE DEF longer
    <3>2. [longer EXCEPT ![Len(longer)] = Space] \in Seq(Chars)
      BY <2>1, CharsFacts
    <3>3. Len([longer EXCEPT ![Len(longer)] = Space]) = Len(longer)
      BY <2>1
    <3>4. \A k \in 1 .. nl - 1 : [longer EXCEPT ![Len(longer)] = Space][k] = longer[k]
      BY <2>1
    <3>5. [longer EXCEPT ![Len(longer)] = Space][Len(longer)] = Space
      BY <2>1
    <3> QED BY <3>1, <3>2, <3>3, <3>4, <3>5
  <2> QED BY <2>2, <2>3
<1> HIDE DEF longer, nl, nd
<1> DEFINE x == args[i]
           gap == Sep(i)
<1>n. /\ x \in Nat /\ gap \in Nat /\ nb \in Nat /\ nt \in Nat /\ ArgvSize \in Nat \ {0}
      /\ nb = nt + gap /\ nb < ArgvSize /\ nn = nt + gap + x
      /\ len \in 1 .. ArgvSize - nb /\ nl = nb + len
      /\ len = IF x + 1 > ArgvSize - nb THEN ArgvSize - nb ELSE x + 1
  BY <1>1, <1>2, <1>3, <1>4, <1>5
<1> HIDE DEF x, gap
<1>8. Fits(nn) = nl - 1 /\ nn \in Nat /\ nl \in Nat
  BY <1>n DEF Fits
<1>9. ASSUME NEW k \in 1 .. nl - 1
      PROVE  longer[k] = next[k]
  <2>1. CASE k \in 1 .. nt
    <3>1. k \in 1 .. nb
      BY <1>1, <1>2, <2>1
    <3> QED BY <1>2, <1>3, <1>4, <2>1, <3>1
  <2>2. CASE i # 1 /\ k = nt + 1
    <3>1. k \in 1 .. nb
      BY <1>1, <1>2, <2>2
    <3> QED BY <1>2, <1>3, <1>4, <2>2, <3>1
  <2>3. CASE k > nb
    <3>0. k - nb \in Nat /\ k = nb + (k - nb)
      BY <1>2, <1>8, <2>3
    <3>1. PICK j \in Nat : k = nb + j
      BY <3>0
    <3>2. j \in 1 .. len - 1 /\ j \in 1 .. x
      BY <1>n, <2>3, <3>1
    <3>3. longer[k] = Char(i, j) /\ next[k] = Char(i, j)
      BY <1>2, <1>3, <1>4, <3>1, <3>2 DEF x
    <3> QED BY <3>3
  <2>4. k \in 1 .. nt \/ (i # 1 /\ k = nt + 1) \/ k > nb
    BY <1>1, <1>2, <1>8
  <2> QED BY <2>1, <2>2, <2>3, <2>4
<1>10. /\ nd = Fits(nn) + 1 /\ \A k \in 1 .. Fits(nn) : done[k] = next[k]
       /\ nd < ArgvSize => done[nd] = Space
  BY <1>7, <1>8, <1>9
<1> QED BY <1>3, <1>7, <1>10 DEF SameSoFar, nn, nd, next, done

LEMMA SameStep ==
  ASSUME NEW args \in Seq(Nat), NEW i \in 1 .. Len(args), NEW buf, NEW text,
         IF i = 1 THEN buf = <<>> /\ text = <<>> ELSE SameSoFar(buf, text),
         i <= MaxArgs
  PROVE  SameSoFar(ArgvStep(buf, args, i), JoinStep(text, args, i))
<1>1. CASE i = 1
  <2>1. buf = <<>> /\ text = <<>>
    BY <1>1
  <2>2. buf \in Seq(Chars) /\ text \in Seq(Chars) /\ Len(buf) = 0 /\ Len(text) = 0
    BY <2>1, Short
  <2>3. ArgvSize > 0 /\ Sep(i) = 0
    BY <1>1, ProbesAssumption DEF Sep
  <2>4. Len(buf) < ArgvSize /\ Len(buf) = Len(text) + Sep(i)
        /\ \A k \in 1 .. Len(text) : buf[k] = text[k]
    BY <2>2, <2>3
  <2> QED BY <1>1, <2>2, <2>4, SameRoom
<1>2. CASE i # 1
  <2>1. SameSoFar(buf, text)
    BY <1>2
  <2>2. buf \in Seq(Chars) /\ text \in Seq(Chars) /\ Len(buf) \in Nat /\ Len(text) \in Nat
    BY <2>1 DEF SameSoFar
  <2>3. CASE Len(buf) >= ArgvSize
    <3>1. ArgvStep(buf, args, i) = buf
      BY <2>3 DEF ArgvStep
    <3> QED BY <2>1, <2>3, <3>1, SameFull
  <2>4. CASE ~(Len(buf) >= ArgvSize)
    <3> DEFINE nb == Len(buf)
               nt == Len(text)
    <3>1. /\ nb = Fits(nt) + 1 /\ \A k \in 1 .. Fits(nt) : buf[k] = text[k]
          /\ nb < ArgvSize => buf[nb] = Space
      BY <2>1 DEF SameSoFar
    <3>2. nb \in Nat /\ nt \in Nat /\ ~(nb >= ArgvSize)
      BY <2>2, <2>4
    <3> HIDE DEF nb, nt
    <3>3. nb < ArgvSize /\ Fits(nt) = nt /\ nb = nt + Sep(i)
      BY <1>2, <3>1, <3>2, ProbesAssumption DEF Fits, Sep
    <3>4. nb < ArgvSize /\ nb = nt + Sep(i) /\ (\A k \in 1 .. nt : buf[k] = text[k])
          /\ buf[nt + 1] = Space
      BY <1>2, <3>1, <3>3 DEF Sep
    <3> QED BY <2>2, <3>4, SameRoom DEF nb, nt
  <2> QED BY <2>3, <2>4
<1> QED BY <1>1, <1>2

LEMMA ArgvStepTyped ==
  ASSUME NEW args \in Seq(Nat), NEW i \in 1 .. Len(args), NEW buf \in Seq(Chars)
  PROVE  ArgvStep(buf, args, i) \in Seq(Chars)
<1>1. CASE Len(buf) >= ArgvSize \/ i > MaxArgs
  BY <1>1 DEF ArgvStep
<1>2. CASE ~(Len(buf) >= ArgvSize \/ i > MaxArgs)
  <2> DEFINE longer == CopyArg(buf, args, i)
  <2>1. Len(buf) < ArgvSize
    BY <1>2, ProbesAssumption
  <2>2. longer \in Seq(Chars)
    BY <2>1, CopyArgFacts
  <2>3. ArgvStep(buf, args, i) =
          IF Len(longer) >= ArgvSize THEN longer ELSE [longer EXCEPT ![Len(longer)] = Space]
    BY <1>2 DEF ArgvStep
  <2> HIDE DEF longer
  <2>4. Len(longer) \in 1 .. Len(longer)
    <3>1. Len(longer) = Len(buf) + Copied(buf, args, i) /\ Copied(buf, args, i) \in 1 .. ArgvSize - Len(buf)
      BY <2>1, CopyArgFacts DEF longer
    <3> QED BY <2>1, <3>1, ProbesAssumption
  <2>5. [longer EXCEPT ![Len(longer)] = Space] \in Seq(Chars)
    BY <2>2, <2>4, CharsFacts, ExceptSeq
  <2> QED BY <2>2, <2>3, <2>5
<1> QED BY <1>1, <1>2

LEMMA AtFacts ==
  ASSUME NEW args \in Seq(Nat)
  PROVE  /\ At(args) \in [0 .. Len(args) -> Seq(Chars)] /\ At(args)[0] = <<>>
         /\ \A i \in 1 .. Len(args) : At(args)[i] = ArgvStep(At(args)[i - 1], args, i)
<1> DEFINE n == Len(args)
           F == [x \in Seq(Chars) \X (1 .. n) |-> ArgvStep(x[1], args, x[2])]
           Is(at) == at = [i \in 0 .. n |-> IF i = 0 THEN <<>> ELSE ArgvStep(at[i - 1], args, i)]
<1>1. n \in Nat /\ <<>> \in Seq(Chars)
  BY Short
<1>2. F \in [Seq(Chars) \X (1 .. n) -> Seq(Chars)]
  BY ArgvStepTyped
<1>3. \A buf \in Seq(Chars), i \in 1 .. n : F[<<buf, i>>] = ArgvStep(buf, args, i)
  OBVIOUS
<1> HIDE DEF F
<1>4. PICK g \in [0 .. n -> Seq(Chars)] :
        g[0] = <<>> /\ \A i \in 1 .. n : g[i] = F[<<g[i - 1], i>>]
  <2> DEFINE none == <<>>
             V == Seq(Chars)
  <2>1. none \in V /\ n \in Nat /\ F \in [V \X (1 .. n) -> V]
    BY <1>1, <1>2
  <2> HIDE DEF n, none, V
  <2>2. \E g \in [0 .. n -> V] : g[0] = none /\ \A i \in 1 .. n : g[i] = F[<<g[i - 1], i>>]
    <3>1. F \in StepsOf(V, n)
      BY <2>1 DEF StepsOf
    <3>2. \E g \in Walks(V, n) : Follows(g, none, n, F)
      BY <2>1, <3>1, Recursion
    <3> QED BY <3>2 DEF Walks, Follows
  <2> QED BY <2>2 DEF none, V
<1>5. \A i \in 0 .. n : g[i] = IF i = 0 THEN <<>> ELSE ArgvStep(g[i - 1], args, i)
  <2>1. SUFFICES ASSUME NEW i \in 1 .. n
                 PROVE  g[i] = ArgvStep(g[i - 1], args, i)
    BY <1>1, <1>4
  <2>2. i - 1 \in 0 .. n
    BY <1>1
  <2> QED BY <1>3, <1>4, <2>2
<1>6. Is(g)
  BY <1>4, <1>5
<1>7. At(args) = CHOOSE at : Is(at)
  BY DEF At
<1> HIDE DEF Is
<1>8. Is(At(args))
  BY <1>6, <1>7
<1> USE DEF Is
<1>9. \A i \in 0 .. n : At(args)[i] = IF i = 0 THEN <<>> ELSE ArgvStep(At(args)[i - 1], args, i)
  <2> DEFINE a == At(args)
  <2>1. a = [i \in 0 .. n |-> IF i = 0 THEN <<>> ELSE ArgvStep(a[i - 1], args, i)]
    BY <1>8
  <2> HIDE DEF a
  <2>2. \A i \in 0 .. n : a[i] = IF i = 0 THEN <<>> ELSE ArgvStep(a[i - 1], args, i)
    BY <2>1
  <2> QED BY <2>2 DEF a
<1>10. DOMAIN At(args) = 0 .. n /\ At(args) = [i \in 0 .. n |-> At(args)[i]]
  <2> DEFINE a == At(args)
  <2>1. a = [i \in 0 .. n |-> IF i = 0 THEN <<>> ELSE ArgvStep(a[i - 1], args, i)]
    BY <1>8
  <2> HIDE DEF a
  <2>2. DOMAIN a = 0 .. n /\ a = [i \in 0 .. n |-> a[i]]
    BY <2>1
  <2> QED BY <2>2 DEF a
<1>11. \A i \in 0 .. n : At(args)[i] \in Seq(Chars)
  <2> DEFINE T == {i \in 0 .. n : At(args)[i] \in Seq(Chars)}
  <2>1. 0 \in T
    <3>1. 0 \in 0 .. n
      BY <1>1
    <3>2. At(args)[0] = <<>>
      BY <1>9, <3>1
    <3> QED BY <1>1, <3>1, <3>2
  <2>2. ASSUME NEW i \in 1 .. n, i - 1 \in T
        PROVE  i \in T
    <3>1. i \in 0 .. n /\ i # 0
      BY <1>1
    <3>2. At(args)[i] = ArgvStep(At(args)[i - 1], args, i)
      BY <1>9, <3>1
    <3> QED BY <2>2, <3>1, <3>2, ArgvStepTyped
  <2> HIDE DEF T
  <2>3. 0 .. n \subseteq T
    BY <1>1, <2>1, <2>2, InductionUpTo
  <2> QED BY <2>3 DEF T
<1>12. At(args) \in [0 .. n -> Seq(Chars)]
  BY <1>1, <1>10, <1>11
<1> QED BY <1>1, <1>9, <1>12

LEMMA AllFacts ==
  ASSUME NEW args \in Seq(Nat)
  PROVE  /\ All(args) \in [0 .. Len(args) -> Seq(Chars)] /\ All(args)[0] = <<>>
         /\ \A i \in 1 .. Len(args) : All(args)[i] = JoinStep(All(args)[i - 1], args, i)
<1> DEFINE n == Len(args)
           F == [x \in Seq(Chars) \X (1 .. n) |-> JoinStep(x[1], args, x[2])]
           Is(all) == all = [i \in 0 .. n |-> IF i = 0 THEN <<>> ELSE JoinStep(all[i - 1], args, i)]
<1>1. n \in Nat /\ <<>> \in Seq(Chars)
  BY Short
<1>2. F \in [Seq(Chars) \X (1 .. n) -> Seq(Chars)]
  BY JoinStepFacts
<1>3. \A buf \in Seq(Chars), i \in 1 .. n : F[<<buf, i>>] = JoinStep(buf, args, i)
  OBVIOUS
<1> HIDE DEF F
<1>4. PICK g \in [0 .. n -> Seq(Chars)] :
        g[0] = <<>> /\ \A i \in 1 .. n : g[i] = F[<<g[i - 1], i>>]
  <2> DEFINE none == <<>>
             V == Seq(Chars)
  <2>1. none \in V /\ n \in Nat /\ F \in [V \X (1 .. n) -> V]
    BY <1>1, <1>2
  <2> HIDE DEF n, none, V
  <2>2. \E g \in [0 .. n -> V] : g[0] = none /\ \A i \in 1 .. n : g[i] = F[<<g[i - 1], i>>]
    <3>1. F \in StepsOf(V, n)
      BY <2>1 DEF StepsOf
    <3>2. \E g \in Walks(V, n) : Follows(g, none, n, F)
      BY <2>1, <3>1, Recursion
    <3> QED BY <3>2 DEF Walks, Follows
  <2> QED BY <2>2 DEF none, V
<1>5. \A i \in 0 .. n : g[i] = IF i = 0 THEN <<>> ELSE JoinStep(g[i - 1], args, i)
  <2>1. SUFFICES ASSUME NEW i \in 1 .. n
                 PROVE  g[i] = JoinStep(g[i - 1], args, i)
    BY <1>1, <1>4
  <2>2. i - 1 \in 0 .. n
    BY <1>1
  <2> QED BY <1>3, <1>4, <2>2
<1>6. Is(g)
  BY <1>4, <1>5
<1>7. All(args) = CHOOSE all : Is(all)
  BY DEF All
<1> HIDE DEF Is
<1>8. Is(All(args))
  BY <1>6, <1>7
<1> USE DEF Is
<1>9. \A i \in 0 .. n : All(args)[i] = IF i = 0 THEN <<>> ELSE JoinStep(All(args)[i - 1], args, i)
  <2> DEFINE a == All(args)
  <2>1. a = [i \in 0 .. n |-> IF i = 0 THEN <<>> ELSE JoinStep(a[i - 1], args, i)]
    BY <1>8
  <2> HIDE DEF a
  <2>2. \A i \in 0 .. n : a[i] = IF i = 0 THEN <<>> ELSE JoinStep(a[i - 1], args, i)
    BY <2>1
  <2> QED BY <2>2 DEF a
<1>10. DOMAIN All(args) = 0 .. n /\ All(args) = [i \in 0 .. n |-> All(args)[i]]
  <2> DEFINE a == All(args)
  <2>1. a = [i \in 0 .. n |-> IF i = 0 THEN <<>> ELSE JoinStep(a[i - 1], args, i)]
    BY <1>8
  <2> HIDE DEF a
  <2>2. DOMAIN a = 0 .. n /\ a = [i \in 0 .. n |-> a[i]]
    BY <2>1
  <2> QED BY <2>2 DEF a
<1>11. \A i \in 0 .. n : All(args)[i] \in Seq(Chars)
  <2> DEFINE T == {i \in 0 .. n : All(args)[i] \in Seq(Chars)}
  <2>1. 0 \in T
    <3>1. 0 \in 0 .. n
      BY <1>1
    <3>2. All(args)[0] = <<>>
      BY <1>9, <3>1
    <3> QED BY <1>1, <3>1, <3>2
  <2>2. ASSUME NEW i \in 1 .. n, i - 1 \in T
        PROVE  i \in T
    <3>1. i \in 0 .. n /\ i # 0
      BY <1>1
    <3>2. All(args)[i] = JoinStep(All(args)[i - 1], args, i)
      BY <1>9, <3>1
    <3> QED BY <2>2, <3>1, <3>2, JoinStepFacts
  <2> HIDE DEF T
  <2>3. 0 .. n \subseteq T
    BY <1>1, <2>1, <2>2, InductionUpTo
  <2> QED BY <2>3 DEF T
<1>12. All(args) \in [0 .. n -> Seq(Chars)]
  BY <1>1, <1>10, <1>11
<1> QED BY <1>1, <1>9, <1>12

\* What the loop goes over is not changed by the arguments after MaxArgs.
LEMMA FirstFacts ==
  ASSUME NEW args \in Seq(Nat), args # <<>>
  PROVE  /\ FirstArgs(args) \in Seq(Nat) /\ Len(FirstArgs(args)) \in 1 .. Len(args)
         /\ Len(FirstArgs(args)) <= MaxArgs
         /\ Len(FirstArgs(args)) = MaxArgs \/ Len(FirstArgs(args)) = Len(args)
         /\ \A i \in 1 .. Len(FirstArgs(args)) : FirstArgs(args)[i] = args[i]
<1> DEFINE m == IF Len(args) < MaxArgs THEN Len(args) ELSE MaxArgs
<1>1. /\ m \in 1 .. Len(args) /\ m <= MaxArgs /\ (m = MaxArgs \/ m = Len(args))
      /\ 1 <= m + 1
  BY ProbesAssumption
<1>2. FirstArgs(args) = SubSeq(args, 1, m)
  BY DEF FirstArgs
<1> HIDE DEF m
<1>3. \A i \in 1 .. m : args[i] \in Nat
  BY <1>1
<1>4. /\ SubSeq(args, 1, m) \in Seq(Nat) /\ Len(SubSeq(args, 1, m)) = m
      /\ \A i \in 1 .. m : SubSeq(args, 1, m)[i] = args[i]
  BY <1>1, <1>3
<1> QED BY <1>1, <1>2, <1>4

\* Whatever the arguments, and wherever in them the buffer ends, what the
\* loop leaves in it is the text of the first MaxArgs of them, cut to one less
\* than its size.
LEMMA ArgvIsJoined ==
  ASSUME NEW args \in Seq(Nat), args # <<>>
  PROVE  ArgvLoop(args) = Append(Joined(FirstArgs(args)), EndMark)
<1> DEFINE n == Len(args)
           cut == FirstArgs(args)
           m == Len(cut)
           buf == At(args)[n]
           text == All(cut)[m]
<1>0. /\ cut \in Seq(Nat) /\ m \in 1 .. n /\ m <= MaxArgs /\ (m = MaxArgs \/ m = n)
      /\ \A i \in 1 .. m : cut[i] = args[i]
  BY FirstFacts
<1> HIDE DEF cut
<1>1. n \in Nat /\ n >= 1 /\ m \in Nat /\ m >= 1
  BY <1>0
<1>2. ArgvLoop(args) = IF buf = <<>> THEN <<>> ELSE [buf EXCEPT ![Len(buf)] = EndMark]
  BY DEF ArgvLoop, At
<1>3. Joined(cut) = SubSeq(text, 1, Fits(Len(text)))
  BY DEF Joined, All, Fits
<1>4. SameSoFar(buf, text)
  <2> DEFINE T == {0} \cup {i \in 1 .. n : i <= m => SameSoFar(At(args)[i], All(cut)[i])}
             U == {i \in 0 .. n : i >= m => At(args)[i] = At(args)[m]}
  <2>1. ASSUME NEW i \in 1 .. n, i - 1 \in T
        PROVE  i \in T
    <3>0. SUFFICES ASSUME i <= m
                   PROVE  SameSoFar(At(args)[i], All(cut)[i])
      OBVIOUS
    <3>1. i \in 1 .. m /\ i <= MaxArgs
      BY <1>0, <1>1, <3>0, ProbesAssumption
    <3>2. /\ At(args)[i] = ArgvStep(At(args)[i - 1], args, i)
          /\ All(cut)[i] = JoinStep(All(cut)[i - 1], cut, i)
      BY <1>0, <3>1, AtFacts, AllFacts
    <3>3. JoinStep(All(cut)[i - 1], cut, i) = JoinStep(All(cut)[i - 1], args, i)
      BY <1>0, <3>1 DEF JoinStep
    <3>4. i = 1 => At(args)[i - 1] = <<>> /\ All(cut)[i - 1] = <<>>
      BY <1>0, AtFacts, AllFacts
    <3>5. i # 1 => SameSoFar(At(args)[i - 1], All(cut)[i - 1])
      <4>1. i # 1 => i - 1 \in 1 .. n /\ i - 1 <= m
        BY <1>1, <3>0
      <4> QED BY <2>1, <4>1
    <3>6. SameSoFar(ArgvStep(At(args)[i - 1], args, i), JoinStep(All(cut)[i - 1], args, i))
      BY <3>1, <3>4, <3>5, SameStep
    <3> QED BY <3>2, <3>3, <3>6
  <2>2. 0 \in T
    OBVIOUS
  <2>3. ASSUME NEW i \in 1 .. n, i - 1 \in U
        PROVE  i \in U
    <3>0. SUFFICES ASSUME i > m
                   PROVE  At(args)[i] = At(args)[m]
      BY <1>0, <1>1
    <3>1. i > MaxArgs
      BY <1>0, <3>0
    <3>2. At(args)[i] = ArgvStep(At(args)[i - 1], args, i)
      BY AtFacts
    <3>3. ArgvStep(At(args)[i - 1], args, i) = At(args)[i - 1]
      BY <3>1 DEF ArgvStep
    <3>4. i - 1 >= m
      BY <1>1, <3>0
    <3> QED BY <2>3, <3>2, <3>3, <3>4
  <2>4. 0 \in U
    BY <1>1
  <2> HIDE DEF T, U
  <2>5. 0 .. n \subseteq T /\ 0 .. n \subseteq U
    BY <1>1, <2>1, <2>2, <2>3, <2>4, InductionUpTo
  <2>6. SameSoFar(At(args)[m], All(cut)[m])
    <3>1. m \in T /\ m # 0
      BY <1>0, <1>1, <2>5
    <3> QED BY <1>1, <3>1 DEF T
  <2>7. At(args)[n] = At(args)[m]
    <3>1. n \in U /\ n >= m
      BY <1>0, <1>1, <2>5
    <3> QED BY <3>1 DEF U
  <2> QED BY <2>6, <2>7
<1> HIDE DEF n, m, buf, text
<1> DEFINE f == Fits(Len(text))
           shows == SubSeq(text, 1, f)
<1>5. /\ buf \in Seq(Chars) /\ text \in Seq(Chars) /\ Len(buf) = f + 1
      /\ \A k \in 1 .. f : buf[k] = text[k]
  BY <1>4 DEF SameSoFar
<1>6. f \in 0 .. Len(text) /\ f \in Nat
  <2>1. Len(text) \in Nat
    BY <1>5
  <2> QED BY <2>1, ProbesAssumption DEF Fits
<1> HIDE DEF f
<1>7. shows \in Seq(Chars) /\ Len(shows) = f /\ \A k \in 1 .. f : shows[k] = text[k]
  BY <1>5, <1>6
<1> HIDE DEF shows
<1>8. buf # <<>> /\ Len(buf) \in 1 .. Len(buf)
  BY <1>5, <1>6, Short
<1> DEFINE ended == [buf EXCEPT ![Len(buf)] = EndMark]
<1>9. /\ ended \in Seq(Chars) /\ Len(ended) = f + 1 /\ ended[f + 1] = EndMark
      /\ \A k \in 1 .. f : ended[k] = buf[k]
  <2>1. /\ ended \in Seq(Chars) /\ Len(ended) = Len(buf) /\ ended[Len(buf)] = EndMark
        /\ \A k \in 1 .. Len(buf) : k # Len(buf) => ended[k] = buf[k]
    BY <1>5, <1>8, CharsFacts, ExceptSeq
  <2> HIDE DEF ended
  <2>2. \A k \in 1 .. f : k \in 1 .. f + 1 /\ k # f + 1
    BY <1>6
  <2> QED BY <1>5, <2>1, <2>2
<1> DEFINE whole == Append(shows, EndMark)
<1>10. /\ whole \in Seq(Chars) /\ Len(whole) = f + 1 /\ whole[f + 1] = EndMark
       /\ \A k \in 1 .. f : whole[k] = shows[k]
  BY <1>6, <1>7, CharsFacts
<1> HIDE DEF ended, whole
<1>11. ended = whole
  <2>1. \A k \in 1 .. f + 1 : ended[k] = whole[k]
    <3>1. \A k \in 1 .. f + 1 : k \in 1 .. f \/ k = f + 1
      BY <1>6
    <3> QED BY <1>5, <1>7, <1>9, <1>10, <3>1
  <2> QED BY <1>6, <1>9, <1>10, <2>1
<1> QED BY <1>2, <1>3, <1>8, <1>11 DEF ended, whole, shows, f, cut

\* Every field that is shown of a program's record is one it wrote, but for
\* those that OldFields names.
LEMMA ShownFields ==
  ASSUME NEW p \in ProgramSet("process") \cup ProgramSet("file"), NEW args, NEW env, NEW held, NEW old
  PROVE  (FieldsShown(p, held) \ FieldsWritten(p, args, env)) \cap old \subseteq OldFields(p)
<1>1. p \in {"handle_exec", "handle_execve_cmd", "handle_exit", "handle_fork",
             "handle_commit_creds", "handle_bprm_check", "do_filp_open_exit",
             "fexit_vfs_write", "fexit_vfs_unlink", "fexit_vfs_read", "fexit_vfs_utimes",
             "fexit_chmod_common", "fexit_chown_common", "fentry__vfs_setxattr_noperm",
             "fentry__vfs_removexattr_locked", "fentry_vfs_rename"}
  <2>1. ASSUME NEW i \in DOMAIN ProgramOrder("process")
        PROVE  ProgramOrder("process")[i] \in
                 {"handle_exec", "handle_execve_cmd", "handle_exit", "handle_fork",
                  "handle_commit_creds", "handle_bprm_check"}
    BY DEF ProgramOrder
  <2>2. ASSUME NEW i \in DOMAIN ProgramOrder("file")
        PROVE  ProgramOrder("file")[i] \in
                 {"do_filp_open_exit", "fexit_vfs_write", "fexit_vfs_unlink", "fexit_vfs_read",
                  "fexit_vfs_utimes", "fexit_chmod_common", "fexit_chown_common",
                  "fentry__vfs_setxattr_noperm", "fentry__vfs_removexattr_locked",
                  "fentry_vfs_rename"}
    BY DEF ProgramOrder
  <2> QED BY <2>1, <2>2 DEF ProgramSet
<1>2. (p \in ProgramSet("process")) = (p \in {"handle_exec", "handle_execve_cmd", "handle_exit",
        "handle_fork", "handle_commit_creds", "handle_bprm_check"})
  <2>1. 1 \in 1 .. 6 /\ 2 \in 1 .. 6 /\ 3 \in 1 .. 6 /\ 4 \in 1 .. 6 /\ 5 \in 1 .. 6 /\ 6 \in 1 .. 6
    OBVIOUS
  <2>2. DOMAIN ProgramOrder("process") = 1 .. 6
    BY DEF ProgramOrder
  <2>3. /\ ProgramOrder("process")[1] = "handle_exec"
        /\ ProgramOrder("process")[2] = "handle_execve_cmd"
        /\ ProgramOrder("process")[3] = "handle_exit"
        /\ ProgramOrder("process")[4] = "handle_fork"
        /\ ProgramOrder("process")[5] = "handle_commit_creds"
        /\ ProgramOrder("process")[6] = "handle_bprm_check"
    BY DEF ProgramOrder
  <2>4. \A i \in 1 .. 6 : i = 1 \/ i = 2 \/ i = 3 \/ i = 4 \/ i = 5 \/ i = 6
    OBVIOUS
  <2>5. ProgramSet("process") = {"handle_exec", "handle_execve_cmd", "handle_exit",
        "handle_fork", "handle_commit_creds", "handle_bprm_check"}
    BY <2>1, <2>2, <2>3, <2>4 DEF ProgramSet
  <2> QED BY <2>5
<1>3. CASE p \in {"handle_exec", "handle_fork", "handle_bprm_check"}
  <2>1. TopicOf(p) = "CREATPROCESS"
    BY <1>3 DEF TopicOf, Creates
  <2> QED BY <1>2, <1>3, <2>1 DEF FieldsShown, FieldsWritten, FieldsOfMany, FieldsOfOne,
                                 ProcessFields, OldFields
<1>4. CASE p = "handle_exit"
  <2>1. TopicOf(p) = "DESTROYPROCESS"
    BY <1>4 DEF TopicOf, Creates
  <2> QED BY <1>2, <1>4, <2>1 DEF FieldsShown, FieldsWritten, FieldsOfMany, FieldsOfOne,
                                 ProcessFields, OldFields
<1>5. CASE p = "handle_commit_creds"
  <2>1. TopicOf(p) = "SETPROCESSATTR"
    BY <1>5 DEF TopicOf, Creates
  <2> QED BY <1>2, <1>5, <2>1 DEF FieldsShown, FieldsWritten, FieldsOfMany, FieldsOfOne,
                                 ProcessFields, OldFields
<1>6. CASE p = "handle_execve_cmd"
  <2>1. TopicOf(p) = "EXECCMD"
    BY <1>6 DEF TopicOf, Creates
  <2> QED BY <1>2, <1>6, <2>1 DEF FieldsShown, FieldsWritten, FieldsOfMany, FieldsOfOne,
                                 ProcessFields, OldFields
<1>7. CASE p \in {"do_filp_open_exit", "fexit_vfs_write", "fexit_vfs_unlink", "fexit_vfs_read"}
  <2>1. TopicOf(p) \in {"CREATEFILE", "WRITEFILE", "DELFILE", "READFILE"}
    BY <1>7 DEF TopicOf, Creates
  <2> QED BY <1>2, <1>7, <2>1 DEF FieldsShown, FieldsWritten, FieldsOfMany, FieldsOfOne,
                                 FileFields, OldFields
<1>8. CASE p \in {"fexit_vfs_utimes", "fexit_chmod_common", "fexit_chown_common",
                  "fentry__vfs_setxattr_noperm", "fentry__vfs_removexattr_locked",
                  "fentry_vfs_rename"}
  <2>1. TopicOf(p) = "SETFILEATTR"
    BY <1>8 DEF TopicOf, Creates
  <2> QED BY <1>2, <1>8, <2>1 DEF FieldsShown, FieldsWritten, FieldsOfMany, FieldsOfOne,
                                 FileFields, OldFields
<1> QED BY <1>1, <1>3, <1>4, <1>5, <1>6, <1>7, <1>8

\* A record's fields and arguments are those of the program that reserved it;
\* what was shown last obeys TextsOwn.
Own(r) ==
  /\ {"prog", "args", "argv", "env", "envp", "own"} \subseteq DOMAIN r
  /\ r.prog \in ProgramSet("process") \cup ProgramSet("file")
  /\ r.args \in Seq(Nat) /\ r.argv = ArgvLoop(r.args)
  /\ r.env \in Seq(Nat) /\ r.envp = ArgvLoop(r.env)
  /\ r.own = FieldsWritten(r.prog, r.args, r.env)
TextsInv ==
  /\ \E S : bpfring \in Seq(S) /\ \A r \in S : Own(r)
  /\ TextsOwn

LEMMA TextsStep ==
  ASSUME TableTyped, TableInv, TextsInv, [ProbesNext]_probeVars
  PROVE  TextsInv'
<1>1. PICK S : bpfring \in Seq(S) /\ \A r \in S : Own(r)
  BY DEF TextsInv
<1>2. CASE UNCHANGED <<bpfring, shown>>
  <2>1. TextsOwn' = TextsOwn
    BY <1>2 DEF TextsOwn
  <2> QED BY <1>2, <2>1 DEF TextsInv
<1>3. CASE Cleanup
  <2>1. bpfring' = <<>> /\ shown' = shown
    BY <1>3 DEF Cleanup
  <2>2. bpfring' \in Seq(S)
    BY <2>1
  <2>3. TextsOwn'
    BY <2>1 DEF TextsOwn, TextsInv
  <2> QED BY <1>1, <2>2, <2>3 DEF TextsInv
<1>4. ASSUME NEW p \in links, NEW who,
             NEW args \in IF p = "handle_execve_cmd" THEN ArgLists ELSE {<<>>},
             NEW env \in IF p = "handle_execve_cmd" THEN ArgLists ELSE {<<>>},
             Event(p, who, args, env)
      PROVE  TextsInv'
  <2> DEFINE r == [prog |-> p, who |-> who, busy |-> TRUE, slot |-> lap, args |-> args,
                   argv |-> ArgvLoop(args), env |-> env, envp |-> ArgvLoop(env),
                   own |-> FieldsWritten(p, args, env)]
  <2>1. bpfring' = Append(bpfring, r) /\ shown' = shown
    BY <1>4 DEF Event
  <2>2. args \in Seq(Nat) /\ env \in Seq(Nat)
    <3>1. <<>> \in Seq(Nat)
      OBVIOUS
    <3>2. (args \in ArgLists \/ args = <<>>) /\ (env \in ArgLists \/ env = <<>>)
      OBVIOUS
    <3> QED BY <3>1, <3>2, ProbesAssumption
  <2>3. p \in ProgramSet("process") \cup ProgramSet("file")
    <3>1. Tabled \subseteq ProgramSet(kind)
      BY OrderFacts DEF TableTyped, Tabled
    <3>2. links \subseteq Tabled
      BY DEF TableInv, Early
    <3>3. p \in ProgramSet(kind)
      BY <3>1, <3>2
    <3> QED BY <3>3 DEF TableTyped
  <2>4. Own(r)
    BY <2>2, <2>3 DEF Own
  <2> HIDE DEF r
  <2>5. bpfring \in Seq(S \cup {r})
    BY <1>1
  <2>6. bpfring' \in Seq(S \cup {r}) /\ \A q \in S \cup {r} : Own(q)
    BY <1>1, <2>1, <2>4, <2>5
  <2>7. TextsOwn'
    BY <2>1 DEF TextsOwn, TextsInv
  <2> QED BY <2>6, <2>7 DEF TextsInv
<1>5. ASSUME NEW i \in DOMAIN bpfring, Submit(i)
      PROVE  TextsInv'
  <2> DEFINE r == [bpfring[i] EXCEPT !.busy = FALSE]
  <2>1. bpfring' = [bpfring EXCEPT ![i] = r] /\ shown' = shown
    BY <1>5 DEF Submit
  <2>2. Own(bpfring[i])
    BY <1>1
  <2>3. /\ {"prog", "args", "argv", "env", "envp", "own"} \subseteq DOMAIN r
        /\ r.prog = bpfring[i].prog /\ r.own = bpfring[i].own
        /\ r.args = bpfring[i].args /\ r.argv = bpfring[i].argv
        /\ r.env = bpfring[i].env /\ r.envp = bpfring[i].envp
    BY <2>2 DEF Own
  <2> HIDE DEF r
  <2>4. Own(r)
    BY <2>2, <2>3 DEF Own
  <2>5. bpfring \in Seq(S \cup {r})
    BY <1>1
  <2>6. bpfring' \in Seq(S \cup {r}) /\ \A q \in S \cup {r} : Own(q)
    BY <1>1, <2>1, <2>4, <2>5
  <2>7. TextsOwn'
    BY <2>1 DEF TextsOwn, TextsInv
  <2> QED BY <2>6, <2>7 DEF TextsInv
<1>6. CASE Deliver
  <2> DEFINE r == Head(bpfring)
             held == r.own \cup dirt[r.slot]
  <2>1. /\ bpfring # <<>> /\ bpfring' = Tail(bpfring)
        /\ shown' = shown \/ /\ shown'.prog = r.prog /\ shown'.args = r.args
                             /\ shown'.argv = r.argv
                             /\ shown'.env = r.env /\ shown'.envp = r.envp
                             /\ shown'.stale = (FieldsShown(r.prog, held) \ r.own) \cap dirt[r.slot]
    BY <1>6 DEF Deliver
  <2>2. r \in S /\ bpfring' \in Seq(S)
    BY <1>1, <2>1
  <2>3. Own(r)
    BY <1>1, <2>2
  <2> HIDE DEF r
  <2>4. CASE shown' = shown
    <3>1. TextsOwn'
      BY <2>4 DEF TextsOwn, TextsInv
    <3> QED BY <1>1, <2>2, <3>1 DEF TextsInv
  <2>5. CASE shown' # shown
    <3>1. shown'.stale \subseteq OldFields(r.prog)
      <4>1. r.own = FieldsWritten(r.prog, r.args, r.env)
            /\ r.prog \in ProgramSet("process") \cup ProgramSet("file")
        BY <2>3 DEF Own
      <4> HIDE DEF held
      <4>2. (FieldsShown(r.prog, held) \ FieldsWritten(r.prog, r.args, r.env)) \cap dirt[r.slot]
              \subseteq OldFields(r.prog)
        BY <4>1, ShownFields
      <4> QED BY <2>1, <2>5, <4>1, <4>2
    <3>2. IsTextOf(r.argv, r.args) /\ IsTextOf(r.envp, r.env)
      BY <2>3, ArgvIsJoined DEF Own, IsTextOf
    <3>3. TextsOwn'
      BY <2>1, <2>5, <3>1, <3>2 DEF TextsOwn
    <3> QED BY <1>1, <2>2, <3>3 DEF TextsInv
  <2> QED BY <2>4, <2>5
<1>7. Daemon \/ OpenSkeleton \/ LoadSkeleton \/ AttachSkeleton \/ LoaderFails \/ RingNew
      \/ DisableProgBasedOnMask \/ Enable \/ Loop \/ PollReturns \/ StopProgs => UNCHANGED <<bpfring, shown>>
  BY DEF Daemon, OpenSkeleton, LoadSkeleton, AttachSkeleton, LoaderFails, RingNew,
         DisableProgBasedOnMask, Enable, Loop, PollReturns, StopProgs, ringVars
<1> QED BY <1>2, <1>3, <1>4, <1>5, <1>6, <1>7 DEF ProbesNext, probeVars, ringVars

\* A published text shows what its own event wrote but for four places, and of
\* the arguments and of the environment the first MAX_NUM_ARGS, in order and
\* cut to the buffer, for every list of them, every size of buffer and ring,
\* every MAX_NUM_ARGS, and whatever lay in the ring before.
THEOREM TextsShownOwn == ProbesSpec => []TextsOwn
<1>1. ProbesInit => TableTyped /\ TableInv /\ TextsInv
  <2>1. ProbesInit => TableTyped /\ TableInv
    BY TableInit
  <2>2. <<>> \in Seq({}) /\ \A r \in {} : Own(r)
    OBVIOUS
  <2>3. ProbesInit => \E T : bpfring \in Seq(T) /\ \A r \in T : Own(r)
    BY <2>2, Zenon DEF ProbesInit
  <2>4. ProbesInit => TextsOwn
    BY DEF ProbesInit, TextsOwn
  <2> QED BY <2>1, <2>3, <2>4, Zenon DEF TextsInv
<1>2. /\ TableTyped /\ TableInv /\ TextsInv /\ [ProbesNext]_probeVars
      => TableTyped' /\ TableInv' /\ TextsInv'
  BY TableStep, TextsStep
<1>3. TextsInv => TextsOwn
  BY DEF TextsInv
<1> QED BY <1>1, <1>2, <1>3, PTL DEF ProbesSpec

=============================================================================
