------------------------------- MODULE Probes -------------------------------
(***************************************************************************)
(* One of the agent's two eBPF loader threads, with its programs: fentry.c  *)
(* and fentry.bpf.c for processes, their file_ counterparts for files.  The *)
(* programs run on any CPU as soon as they are attached, before the thread  *)
(* takes those away that the topic mask excludes; a record lies in the BPF  *)
(* ring's memory, which is not cleared between laps; the converter prints   *)
(* the fields that its topic calls for, whoever wrote them.                 *)
(***************************************************************************)
EXTENDS Naturals, Sequences

CONSTANTS
  Kinds,        \* subset of {"process", "file"}
  RingSlots,    \* records that the BPF ring has room for
  ArgvSize,     \* MAX_TEXT_SIZE
  MaxArgs,      \* MAX_NUM_ARGS
  ArgLists,     \* execve's lists of arguments, and of environment strings, up to
                \* the first that cannot be read: sequences of lengths
  ProbeFailures,\* steps of the loader that may fail
  MaxEvents     \* bound: records reserved

LoaderSteps == {"opening", "loading", "attaching", "ringing"}
ASSUME ProbesAssumption ==
  /\ Kinds \subseteq {"process", "file"}
  /\ RingSlots \in Nat \ {0} /\ ArgvSize \in Nat \ {0}
  /\ MaxArgs \in Nat \ {0} /\ MaxEvents \in Nat
  /\ ArgLists \subseteq Seq(Nat)
  /\ ProbeFailures \subseteq LoaderSteps

\* The programs in the order of their skeleton, each with its topic.
ProgramOrder(k) ==
  IF k = "process"
  THEN <<"handle_exec", "handle_execve_cmd", "handle_exit", "handle_fork",
         "handle_commit_creds", "handle_bprm_check">>
  ELSE <<"do_filp_open_exit", "fexit_vfs_write", "fexit_vfs_unlink", "fexit_vfs_read",
         "fexit_vfs_utimes", "fexit_chmod_common", "fexit_chown_common",
         "fentry__vfs_setxattr_noperm", "fentry__vfs_removexattr_locked", "fentry_vfs_rename">>
ProgramSet(k) == {ProgramOrder(k)[i] : i \in DOMAIN ProgramOrder(k)}
Creates == {"handle_exec", "handle_fork", "handle_bprm_check"}
TopicOf(p) ==
  CASE p \in Creates -> "CREATPROCESS"
    [] p = "handle_execve_cmd" -> "EXECCMD"
    [] p = "handle_exit" -> "DESTROYPROCESS"
    [] p = "handle_commit_creds" -> "SETPROCESSATTR"
    [] p = "do_filp_open_exit" -> "CREATEFILE"
    [] p = "fexit_vfs_write" -> "WRITEFILE"
    [] p = "fexit_vfs_unlink" -> "DELFILE"
    [] p = "fexit_vfs_read" -> "READFILE"
    [] OTHER -> "SETFILEATTR"
KindTopics(k) == {TopicOf(p) : p \in ProgramSet(k)}

VARIABLES
  kind, mask,     \* the thread's programs, and the topics in topic_mask
  agentpid,       \* the agent's process: "parent" until daemon() has forked
  loader,         \* where the thread is
  secpid,         \* secdetector_pid in the programs' read-only data
  progtab, progcnt,\* the skeleton's table of programs and its prog_cnt
  links,          \* programs attached
  unlinks,        \* how often each program's link was destroyed
  call,           \* the call of DisableProgBasedOnMask that is next
  exiting,
  bpfring,        \* records, oldest first
  lap, dirt,      \* slot of the next record; fields each slot's memory holds
  events,         \* records reserved so far
  shown           \* history: the last record converted, and what was printed

probeVars == <<kind, mask, agentpid, loader, secpid, progtab, progcnt, links, unlinks,
               call, exiting, bpfring, lap, dirt, events, shown>>
ringVars == <<bpfring, lap, dirt, events>>
tableVars == <<progtab, progcnt, links, unlinks>>

NothingShown == [prog |-> "none"]

ProbesInit ==
  /\ kind \in Kinds /\ mask \in SUBSET KindTopics(kind)
  /\ agentpid = "parent" /\ loader = "booting" /\ secpid = "unset"
  /\ progtab = ProgramOrder(kind) /\ progcnt = Len(progtab)
  /\ links = {} /\ unlinks = [p \in ProgramSet(kind) |-> 0]
  /\ call = 0 /\ exiting = FALSE
  /\ bpfring = <<>> /\ lap = 0 /\ dirt = [s \in 0 .. RingSlots - 1 |-> {}] /\ events = 0
  /\ shown = NothingShown

----------------------------------------------------------------------------
(* The loader thread.                                                       *)

\* daemon(), unless in debug mode; then the threads are started.
Daemon ==
  /\ loader = "booting"
  /\ agentpid' \in {"parent", "child"}
  /\ loader' = "opening"
  /\ UNCHANGED <<kind, mask, call, secpid, tableVars, exiting, ringVars, shown>>

PidRecorded == agentpid

OpenSkeleton ==
  /\ loader = "opening"
  /\ secpid' = PidRecorded
  /\ loader' = "loading"
  /\ UNCHANGED <<kind, mask, call, agentpid, tableVars, exiting, ringVars, shown>>

LoadSkeleton ==
  /\ loader = "loading" /\ loader' = "attaching"
  /\ UNCHANGED <<kind, mask, call, agentpid, secpid, tableVars, exiting, ringVars, shown>>

\* Programs are attached in the table's order; one that fails leaves those
\* before it attached until the cleanup.
AttachSkeleton ==
  /\ loader = "attaching"
  /\ \E n \in 0 .. progcnt :
       /\ n = progcnt \/ "attaching" \in ProbeFailures
       /\ links' = {progtab[i] : i \in 1 .. n}
       /\ loader' = IF n = progcnt THEN "ringing" ELSE "cleanup"
  /\ UNCHANGED <<kind, mask, call, agentpid, secpid, progtab, progcnt, unlinks, exiting, ringVars, shown>>

LoaderFails ==
  /\ loader \in ProbeFailures \ {"attaching"}
  /\ loader' = IF loader = "opening" THEN "ended" ELSE "cleanup"
  /\ UNCHANGED <<kind, mask, call, agentpid, secpid, tableVars, exiting, ringVars, shown>>

RingNew ==
  /\ loader = "ringing" /\ loader' = "disabling" /\ call' = 1
  /\ UNCHANGED <<kind, mask, agentpid, secpid, tableVars, exiting, ringVars, shown>>

\* Where the table has the program.
Places(p) == {i \in 1 .. progcnt : progtab[i] = p}

\* Mutant: the last entry is not moved, only left out.
DisableProgNoSwap(p) ==
  IF Places(p) = {} THEN UNCHANGED tableVars
  ELSE /\ progcnt' = progcnt - 1 /\ progtab' = progtab
       /\ links' = links \ {p}
       /\ unlinks' = [unlinks EXCEPT ![p] = @ + 1]

\* DisableProg: the link is destroyed, and the last entry takes the place.
\* Names are unique, so that it makes no difference that only one of the two
\* versions breaks out of its loop.
DisableProg(p) ==
  IF Places(p) = {} THEN UNCHANGED tableVars
  ELSE /\ progcnt' = progcnt - 1
       /\ progtab' = [i \in DOMAIN progtab |->
                        IF i \in Places(p) THEN progtab[progcnt] ELSE progtab[i]]
       /\ links' = links \ {p}
       /\ unlinks' = [unlinks EXCEPT ![p] = @ + 1]

\* DisableProgBasedOnMask, one of its calls after the other, while the programs
\* that are still attached run; then the loop is entered.
DisableOrder(k) ==
  IF k = "process"
  THEN <<"handle_exec", "handle_fork", "handle_bprm_check", "handle_exit",
         "handle_commit_creds", "handle_execve_cmd">>
  ELSE <<"do_filp_open_exit", "fexit_vfs_unlink", "fexit_vfs_write", "fexit_vfs_read",
         "fexit_vfs_utimes", "fexit_chown_common", "fexit_chmod_common",
         "fentry__vfs_setxattr_noperm", "fentry__vfs_removexattr_locked", "fentry_vfs_rename">>
DisableProgBasedOnMask ==
  /\ loader = "disabling" /\ call \in DOMAIN DisableOrder(kind)
  /\ LET p == DisableOrder(kind)[call] IN
       IF TopicOf(p) \in mask THEN UNCHANGED tableVars ELSE DisableProg(p)
  /\ call' = call + 1
  /\ UNCHANGED <<kind, mask, agentpid, loader, secpid, exiting, ringVars, shown>>

Enable ==
  /\ loader = "disabling" /\ call \notin DOMAIN DisableOrder(kind)
  /\ loader' = "loop" /\ call' = 0
  /\ UNCHANGED <<kind, mask, agentpid, secpid, tableVars, exiting, ringVars, shown>>

Loop ==
  /\ loader = "loop"
  /\ loader' = IF exiting THEN "cleanup" ELSE "polling"
  /\ UNCHANGED <<kind, mask, call, agentpid, secpid, tableVars, exiting, ringVars, shown>>

\* The poll returns when there is no finished record, within its second; a
\* signal or an error ends the loop.
PollReturns ==
  /\ loader = "polling"
  /\ \/ loader' = "loop" /\ (bpfring # <<>> => Head(bpfring).busy)
     \/ loader' = "cleanup"
  /\ UNCHANGED <<kind, mask, call, agentpid, secpid, tableVars, exiting, ringVars, shown>>

\* ring_buffer__free, and the skeleton's destruction: what prog_cnt covers is
\* detached.
Cleanup ==
  /\ loader = "cleanup"
  /\ LET rest == {progtab[i] : i \in 1 .. progcnt} IN
       /\ unlinks' = [p \in DOMAIN unlinks |-> unlinks[p] + (IF p \in rest THEN 1 ELSE 0)]
       /\ links' = links \ rest
  /\ bpfring' = <<>> /\ loader' = "ended"
  /\ UNCHANGED <<kind, mask, call, agentpid, secpid, progtab, progcnt, exiting, lap, dirt, events, shown>>

\* StopProcesseBPFProg, StopFileBPFProg.
StopProgs ==
  /\ loader # "booting" /\ ~exiting
  /\ exiting' = TRUE
  /\ UNCHANGED <<kind, mask, call, agentpid, loader, secpid, tableVars, ringVars, shown>>

----------------------------------------------------------------------------
(* The programs, on whatever CPU the event happens.                         *)

\* The outcomes of the probed calls that a program reports.
Outcomes == [ret : {"error", "zero", "more"}, regular : BOOLEAN, created : BOOLEAN]
Reports(p, out) ==
  CASE p = "do_filp_open_exit" -> out.ret # "error" /\ out.regular /\ out.created
    [] p = "fexit_vfs_write" -> out.ret = "more" /\ out.regular
    [] p = "fexit_vfs_unlink" -> out.ret = "zero"
    [] p = "fexit_vfs_read" -> out.ret = "zero" /\ out.regular
    [] p = "handle_commit_creds" -> out.created  \* another uid or gid
    [] OTHER -> TRUE

\* The groups of fields that a program alone of its topic writes, or not.
FieldsOfOne(p, args, env) ==
  CASE p = "handle_bprm_check" -> {"bprm"}
    [] p = "handle_exit" -> {"exit_code"}
    [] p = "handle_commit_creds" -> {"new_ids"}
    [] p = "handle_execve_cmd" -> {"filename"} \cup (IF args = <<>> THEN {} ELSE {"argv"})
                                  \cup (IF env = <<>> THEN {} ELSE {"envp"})
    [] p = "fentry_vfs_rename" -> {"values"}
    [] OTHER -> {}

\* get_common_info of either file, with the namespaces for a process; every
\* program of the other file copies a file's name.
ProcessFields == {"common", "process"}
FileFields == {"common", "filename"}
FieldsOfMany(p) == IF p \in ProgramSet("process") THEN ProcessFields ELSE FileFields

\* Mutant: chmod does not say what was set.
FieldsWrittenNoAttr(p, args, env) ==
  FieldsOfMany(p) \cup FieldsOfOne(p, args, env)
  \cup (IF TopicOf(p) = "SETFILEATTR" /\ p # "fexit_chmod_common" THEN {"attr"} ELSE {})

FieldsWritten(p, args, env) ==
  FieldsOfMany(p) \cup FieldsOfOne(p, args, env)
  \cup (IF TopicOf(p) = "SETFILEATTR" THEN {"attr"} ELSE {})

\* Argument i's character j, the space and the terminating 0.
Char(i, j) == <<i, j>>
Space == " "
EndMark == "end"

\* Argument i, of the length given, as bpf_probe_read_str copies it to pos: cut
\* to what is left, with a terminating 0.
Copied(buf, args, i) ==
  IF args[i] + 1 > ArgvSize - Len(buf) THEN ArgvSize - Len(buf) ELSE args[i] + 1
CopyOf(i, n) == [j \in 1 .. n |-> IF j = n THEN EndMark ELSE Char(i, j)]
CopyArg(buf, args, i) == buf \o CopyOf(i, Copied(buf, args, i))

\* The loop over argv, and the same over envp: pos is the buffer's length.  The
\* 0 becomes a space unless the buffer is full, the last space a 0 again; once
\* the buffer is full, or MAX_NUM_ARGS are copied, the loop has ended.
ArgvStep(buf, args, i) ==
  IF Len(buf) >= ArgvSize \/ i > MaxArgs THEN buf
  ELSE LET longer == CopyArg(buf, args, i)
       IN IF Len(longer) >= ArgvSize THEN longer ELSE [longer EXCEPT ![Len(longer)] = Space]
ArgvLoop(args) ==
  LET at[i \in 0 .. Len(args)] == IF i = 0 THEN <<>> ELSE ArgvStep(at[i - 1], args, i)
      buf == at[Len(args)]
  IN IF buf = <<>> THEN <<>> ELSE [buf EXCEPT ![Len(buf)] = EndMark]

\* Mutant: the result of the reservation is not looked at.
ReservedAlways == TRUE

\* bpf_ringbuf_reserve gives nothing if the ring is full: the event is lost.
Reserved == Len(bpfring) < RingSlots

Event(p, who, args, env) ==
  /\ p \in links /\ events < MaxEvents
  /\ Reserved
  /\ ~(who = "agent" /\ secpid = agentpid)
  /\ \E out \in Outcomes : Reports(p, out)
  /\ bpfring' = Append(bpfring,
       [prog |-> p, who |-> who, busy |-> TRUE, slot |-> lap,
        args |-> args, argv |-> ArgvLoop(args), env |-> env, envp |-> ArgvLoop(env),
        own |-> FieldsWritten(p, args, env)])
  /\ lap' = (lap + 1) % RingSlots
  /\ events' = events + 1
  /\ UNCHANGED <<kind, mask, call, agentpid, loader, secpid, tableVars, exiting, dirt, shown>>

Submit(i) ==
  /\ i \in DOMAIN bpfring /\ bpfring[i].busy
  /\ bpfring' = [bpfring EXCEPT ![i].busy = FALSE]
  /\ UNCHANGED <<kind, mask, call, agentpid, loader, secpid, tableVars, exiting, lap, dirt, events, shown>>

----------------------------------------------------------------------------
(* The callback: ebpf_event_to_text and push_log.                           *)

\* bprm_file is shown if have_bprm is set in memory, by this event or before.
FieldsShown(p, held) ==
  LET t == TopicOf(p) IN
  {"common"}
  \cup (CASE t = "CREATPROCESS" -> {"process"} \cup (held \cap {"bprm"})
          [] t = "DESTROYPROCESS" -> {"process", "exit_code"}
          [] t = "SETPROCESSATTR" -> {"process", "new_ids"}
          [] t = "EXECCMD" -> {"filename", "argv", "envp"}
          [] t = "SETFILEATTR" -> {"filename", "attr", "values"}
          [] OTHER -> {"filename"})

\* Mutant: topics that are not wanted are pushed as well.
PushedAll(p) == TRUE

Pushed(p) == TopicOf(p) \in mask

Deliver ==
  /\ loader = "polling"
  /\ bpfring # <<>> /\ ~Head(bpfring).busy
  /\ LET r == Head(bpfring)
         held == r.own \cup dirt[r.slot]
     IN /\ shown' = IF Pushed(r.prog)
                    THEN [prog |-> r.prog, who |-> r.who, args |-> r.args, argv |-> r.argv,
                          env |-> r.env, envp |-> r.envp,
                          stale |-> (FieldsShown(r.prog, held) \ r.own) \cap dirt[r.slot]]
                    ELSE shown
        /\ dirt' = [dirt EXCEPT ![r.slot] = held]
  /\ bpfring' = Tail(bpfring)
  /\ UNCHANGED <<kind, mask, call, agentpid, loader, secpid, tableVars, exiting, lap, events>>

ProbesNext ==
  \/ Daemon \/ OpenSkeleton \/ LoadSkeleton \/ AttachSkeleton \/ LoaderFails
  \/ RingNew \/ DisableProgBasedOnMask \/ Enable
  \/ Loop \/ PollReturns \/ Deliver \/ Cleanup \/ StopProgs
  \/ \E p \in links, who \in {"agent", "other"} :
       \E args, env \in IF p = "handle_execve_cmd" THEN ArgLists ELSE {<<>>} :
         Event(p, who, args, env)
  \/ \E i \in DOMAIN bpfring : Submit(i)
ProbesSpec == ProbesInit /\ [][ProbesNext]_probeVars

----------------------------------------------------------------------------
ProbesTypeOK ==
  /\ kind \in Kinds /\ mask \subseteq KindTopics(kind)
  /\ loader \in LoaderSteps \cup {"booting", "disabling", "loop", "polling", "cleanup", "ended"}
  /\ secpid \in {"unset", "parent", "child"} /\ agentpid \in {"parent", "child"}
  /\ links \subseteq ProgramSet(kind) /\ progcnt \in 0 .. Len(progtab)
  /\ Len(bpfring) <= RingSlots /\ events \in 0 .. MaxEvents /\ lap \in 0 .. RingSlots - 1
  /\ exiting \in BOOLEAN /\ call \in 0 .. Len(DisableOrder(kind)) + 1

\* While the thread polls, exactly the programs of the wanted topics are
\* attached; when it ends, however it came to that, nothing is, and no link
\* was destroyed twice, though the table was rearranged program by program.
AttachedMatchMask ==
  /\ loader \in {"loop", "polling"} =>
       links = {p \in ProgramSet(kind) : TopicOf(p) \in mask}
  /\ loader = "ended" => links = {}
  /\ \A p \in DOMAIN unlinks : unlinks[p] <= 1

\* What is published is about a wanted topic and another process, though
\* programs that are not wanted ran before they were taken away, and though
\* publishing makes the agent itself open, write and fork.
PublishedWanted ==
  shown # NothingShown => TopicOf(shown.prog) \in mask /\ shown.who # "agent"

\* A published text shows what its own event wrote, but for fields left from
\* the slot's earlier records in four places: bprm_file after an exec or a
\* fork, the values of an attribute other than a rename, argv of an execve
\* without arguments, and envp of one without an environment.  Of the arguments
\* the first MAX_NUM_ARGS are shown, in order, separated by spaces and cut to
\* the buffer's size less one, wherever in them that falls; so are the strings
\* of the environment.
OldFields(p) ==
  CASE p \in {"handle_exec", "handle_fork"} -> {"bprm"}
    [] p = "handle_execve_cmd" -> {"argv", "envp"}
    [] TopicOf(p) = "SETFILEATTR" /\ p # "fentry_vfs_rename" -> {"values"}
    [] OTHER -> {}
Spaces(n) == [j \in 1 .. n |-> Space]
Argument(i, n) == [j \in 1 .. n |-> Char(i, j)]
JoinStep(text, args, i) == text \o Spaces(IF i = 1 THEN 0 ELSE 1) \o Argument(i, args[i])
Joined(args) ==
  LET all[i \in 0 .. Len(args)] == IF i = 0 THEN <<>> ELSE JoinStep(all[i - 1], args, i)
      text == all[Len(args)]
  IN SubSeq(text, 1, IF Len(text) < ArgvSize THEN Len(text) ELSE ArgvSize - 1)
FirstArgs(args) == SubSeq(args, 1, IF Len(args) < MaxArgs THEN Len(args) ELSE MaxArgs)
IsTextOf(text, args) == args # <<>> => text = Append(Joined(FirstArgs(args)), EndMark)
TextsOwn ==
  shown # NothingShown =>
    /\ shown.stale \subseteq OldFields(shown.prog)
    /\ IsTextOf(shown.argv, shown.args) /\ IsTextOf(shown.envp, shown.env)
=============================================================================
