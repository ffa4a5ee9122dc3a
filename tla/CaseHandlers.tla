---------------------------- MODULE CaseHandlers ----------------------------
(***************************************************************************)
(* Two of the case modules: program_action, whose kprobe handlers gather    *)
(* what they report about the current task from several allocations and     *)
(* references; and kmodule_baseline, whose timer's work lists the loaded    *)
(* modules into a global list, reports it and empties it, under two mutexes *)
(* that its removal takes in the other order.                               *)
(***************************************************************************)
EXTENDS Naturals, Sequences, FiniteSets, SequencesExt

CONSTANTS
  Callers,     \* tasks that call ptrace_attach or do_pipe2
  ModuleLists, \* module_kset->list, as it may be: sequences of names
  NameLength,  \* length of each name
  TextRoom,    \* NAME_LEN less the heading, the time stamp and ", "
  CaseFails    \* whether allocations may fail

ASSUME CasesAssumption ==
  /\ TextRoom \in Nat /\ CaseFails \in BOOLEAN
  /\ ModuleLists \subseteq Seq(DOMAIN NameLength)
  /\ NameLength \in [DOMAIN NameLength -> Nat]

Nobody == "nobody"

VARIABLES
  hpc,       \* per caller: the step of its handler
  probe,     \* per caller: the handler that runs
  fs,        \* per caller: whether the task has an fs_struct, which it alone drops
  held,      \* per caller: what it has allocated or referenced
  stray,     \* history: a path was put that had not been taken
  bpc,       \* the timer's work: its step
  upc,       \* the removal: "loaded", "wanted", its steps, "gone"
  hookmutex, casemutex,
  present,   \* the modules that the work found
  blist,     \* chkrkatt_module_list, the last added first
  bheld,     \* what report_kmodule_baseline has allocated
  breport,   \* module names in the text it reports
  bfailed    \* history: an allocation of this work has failed

handlerVars == <<hpc, probe, fs, held, stray>>
baseVars == <<bpc, upc, hookmutex, casemutex, present, blist, bheld, breport, bfailed>>
caseVars == <<handlerVars, baseVars>>

CasesInit ==
  /\ hpc = [c \in Callers |-> "idle"]
  /\ probe = [c \in Callers |-> "pipe2"]
  /\ fs = [c \in Callers |-> TRUE]
  /\ held = [c \in Callers |-> {}] /\ stray = FALSE
  /\ bpc = "idle" /\ upc = "loaded" /\ hookmutex = Nobody /\ casemutex = Nobody
  /\ present = <<>> /\ blist = <<>> /\ bheld = {} /\ breport = <<>> /\ bfailed = FALSE

----------------------------------------------------------------------------
(* ptrace_attach_pre_handler and do_pipe2_pre_handler.                      *)

Move(c, step) == hpc' = [hpc EXCEPT ![c] = step]
Holding(c, s) == held' = [held EXCEPT ![c] = s]

HandlerStart(c) ==
  /\ hpc[c] = "idle"
  /\ \E k \in {"ptrace", "pipe2"} : probe' = [probe EXCEPT ![c] = k]
  /\ \E b \in BOOLEAN : fs' = [fs EXCEPT ![c] = b]
  /\ Move(c, "info") /\ UNCHANGED <<held, stray, baseVars>>

\* The next thing allocated or referenced, and the step that follows.  The root
\* and the working directory are not had of a task without fs_struct: -ENOENT,
\* and the handler goes on.
GetSteps == [info |-> "umask", root |-> "put_root", cwd |-> "put_cwd",
             timestamp |-> "text", text |-> "send"]
Obtain(c) ==
  /\ hpc[c] \in DOMAIN GetSteps
  /\ Holding(c, held[c] \cup (IF hpc[c] \in {"root", "cwd"} /\ ~fs[c] THEN {} ELSE {hpc[c]}))
  /\ Move(c, GetSteps[hpc[c]])
  /\ UNCHANGED <<probe, fs, stray, baseVars>>

\* Mutant: a task without fs_struct has no umask to report.
UmaskChecked(c) ==
  /\ hpc[c] = "umask" /\ Move(c, "exe")
  /\ UNCHANGED <<probe, fs, held, stray, baseVars>>

\* tsk->fs->umask, with no look at fs: a task that has none goes no further.
Umask(c) ==
  /\ hpc[c] = "umask" /\ Move(c, IF fs[c] THEN "exe" ELSE "oops")
  /\ UNCHANGED <<probe, fs, held, stray, baseVars>>

\* No process_info: the handler ends.  No time stamp: it goes on with none.  No
\* text: all is given back.
NoMem(c) ==
  /\ CaseFails /\ hpc[c] \in {"info", "timestamp", "text"}
  /\ Move(c, IF hpc[c] = "timestamp" THEN "text" ELSE "idle")
  /\ Holding(c, IF hpc[c] = "text" THEN {} ELSE held[c])
  /\ UNCHANGED <<probe, fs, stray, baseVars>>

\* get_process_path: nothing for a task that is exiting, its name for one that
\* has no executable.
Exe(c) ==
  /\ hpc[c] = "exe"
  /\ \/ Move(c, "idle") /\ Holding(c, {})
     \/ Move(c, "put_exe") /\ Holding(c, held[c] \cup {"exe"})
     \/ Move(c, "root") /\ UNCHANGED held
  /\ UNCHANGED <<probe, fs, stray, baseVars>>

\* path_put is called whether the path was taken or not.
PutSteps == [put_exe |-> <<"exe", "root">>, put_root |-> <<"root", "cwd">>,
             put_cwd |-> <<"cwd", "args">>]
Put(c) ==
  /\ hpc[c] \in DOMAIN PutSteps
  /\ Holding(c, held[c] \ {PutSteps[hpc[c]][1]})
  /\ stray' = (stray \/ PutSteps[hpc[c]][1] \notin held[c])
  /\ Move(c, PutSteps[hpc[c]][2])
  /\ UNCHANGED <<probe, fs, baseVars>>

\* ptrace_attach of no task, or on another architecture.
Args(c) ==
  /\ hpc[c] = "args"
  /\ \/ Move(c, "timestamp") /\ UNCHANGED held
     \/ probe[c] = "ptrace" /\ Move(c, "idle") /\ Holding(c, {})
  /\ UNCHANGED <<probe, fs, stray, baseVars>>

Send(c) ==
  /\ hpc[c] = "send"
  /\ Move(c, "idle") /\ Holding(c, held[c] \ {"text", "timestamp", "info"})
  /\ UNCHANGED <<probe, fs, stray, baseVars>>

----------------------------------------------------------------------------
(* The work of the baseline's timer.                                        *)

WorkStart ==
  /\ bpc = "idle" /\ upc \notin {"stop", "gone"}
  /\ IF hookmutex = Nobody THEN hookmutex' = "work" /\ bpc' = "trylock"
     ELSE UNCHANGED <<hookmutex, bpc>>
  /\ bfailed' = FALSE
  /\ UNCHANGED <<handlerVars, upc, casemutex, present, blist, bheld, breport>>

\* Mutant: the work waits for the mutex.
TryCaseMutexWaits ==
  /\ bpc = "trylock" /\ casemutex = Nobody
  /\ casemutex' = "work" /\ bpc' = "scan"
  /\ UNCHANGED <<handlerVars, hookmutex, upc, present, blist, bheld, breport, bfailed>>

\* check_watching_kmodule.
TryCaseMutex ==
  /\ bpc = "trylock"
  /\ IF casemutex = Nobody
     THEN casemutex' = "work" /\ bpc' = "scan" /\ UNCHANGED hookmutex
     ELSE bpc' = "idle" /\ hookmutex' = Nobody /\ UNCHANGED casemutex
  /\ UNCHANGED <<handlerVars, upc, present, blist, bheld, breport, bfailed>>

\* add_kmodule_baseline_name, for the first n of the names: list_add puts each
\* in front.
Added(s, n) == Reverse(SubSeq(s, 1, n)) \o blist

\* check_kmodule_baseline, under the kset's spinlock: the first name for which
\* there is no memory ends the list, and what there is is reported.
Scan ==
  /\ bpc = "scan"
  /\ \E s \in ModuleLists : \E n \in 0 .. Len(s) :
       /\ n = Len(s) \/ CaseFails
       /\ present' = s /\ blist' = Added(s, n)
       /\ bfailed' = (n < Len(s))
  /\ bpc' = "all" /\ breport' = <<>>
  /\ UNCHANGED <<handlerVars, upc, hookmutex, casemutex, bheld>>

\* The three buffers of report_kmodule_baseline.
BufferSteps == [all |-> "header", header |-> "compose", compose |-> "report"]
Buffer ==
  /\ bpc \in DOMAIN BufferSteps
  /\ bheld' = bheld \cup {bpc} /\ bpc' = BufferSteps[bpc]
  /\ UNCHANGED <<handlerVars, upc, hookmutex, casemutex, present, blist, breport, bfailed>>

NoBuffer ==
  /\ CaseFails /\ bpc \in DOMAIN BufferSteps
  /\ bpc' = IF bpc = "all" THEN "free" ELSE "out"
  /\ bfailed' = TRUE
  /\ UNCHANGED <<handlerVars, upc, hookmutex, casemutex, present, blist, bheld, breport>>

\* A name that does not fit is left out, a shorter one after it may fit again.
AddName(acc, name) ==
  IF acc[1] + NameLength[name] < TextRoom
  THEN <<acc[1] + NameLength[name] + 2, Append(acc[2], name)>> ELSE acc
Fitting(names) ==
  LET acc[i \in 0 .. Len(names)] == IF i = 0 THEN <<0, <<>>>> ELSE AddName(acc[i - 1], names[i])
  IN acc[Len(names)][2]
Report ==
  /\ bpc = "report"
  /\ breport' = Fitting(blist)
  /\ bheld' = bheld \ {"compose"} /\ bpc' = "out"
  /\ UNCHANGED <<handlerVars, upc, hookmutex, casemutex, present, blist, bfailed>>

Out ==
  /\ bpc = "out"
  /\ bheld' = bheld \ {"header", "all"} /\ bpc' = "free"
  /\ UNCHANGED <<handlerVars, upc, hookmutex, casemutex, present, blist, breport, bfailed>>

\* Mutant: the list is kept for the next work.
ListFreedNot == blist

\* free_kmodule_baseline.
ListFreed == <<>>

FreeList ==
  /\ bpc = "free"
  /\ blist' = ListFreed /\ bpc' = "idle"
  /\ hookmutex' = Nobody /\ casemutex' = Nobody
  /\ UNCHANGED <<handlerVars, upc, present, bheld, breport, bfailed>>

----------------------------------------------------------------------------
(* unregister_secDetector_kmodule_baseline.                                 *)

UnloadWanted ==
  /\ upc = "loaded" /\ upc' = "wanted"
  /\ UNCHANGED <<handlerVars, bpc, hookmutex, casemutex, present, blist, bheld, breport, bfailed>>
UnloadCase ==
  /\ upc = "wanted" /\ casemutex = Nobody
  /\ casemutex' = "unload" /\ upc' = "hooks"
  /\ UNCHANGED <<handlerVars, bpc, hookmutex, present, blist, bheld, breport, bfailed>>
UnloadHooks ==
  /\ upc = "hooks" /\ hookmutex = Nobody
  /\ hookmutex' = "unload" /\ upc' = "stop"
  /\ UNCHANGED <<handlerVars, bpc, casemutex, present, blist, bheld, breport, bfailed>>

\* The timer is deleted and its work waited for.
UnloadStop ==
  /\ upc = "stop" /\ bpc = "idle"
  /\ hookmutex' = Nobody /\ casemutex' = Nobody /\ upc' = "gone"
  /\ UNCHANGED <<handlerVars, bpc, present, blist, bheld, breport, bfailed>>

BaselineWork ==
  \/ TryCaseMutex \/ Scan \/ Buffer \/ NoBuffer \/ Report \/ Out \/ FreeList
Unloading == UnloadHooks \/ UnloadStop
CasesNext ==
  \/ \E c \in Callers :
       HandlerStart(c) \/ Obtain(c) \/ Umask(c) \/ NoMem(c) \/ Exe(c) \/ Put(c) \/ Args(c)
       \/ Send(c)
  \/ WorkStart \/ BaselineWork \/ UnloadWanted \/ UnloadCase \/ Unloading

\* The kernel's worker and rmmod get to run.  Whoever waits for a mutex gets it
\* in the end, though a timer's work may take and leave it in between.
CasesFairness == WF_caseVars(BaselineWork) /\ SF_caseVars(Unloading)
CasesSpec == CasesInit /\ [][CasesNext]_caseVars /\ CasesFairness

----------------------------------------------------------------------------
CasesTypeOK ==
  /\ hpc \in [Callers -> {"idle", "send", "exe", "args", "info", "root", "cwd", "timestamp",
                          "text", "put_exe", "put_root", "put_cwd", "umask", "oops"}]
  /\ fs \in [Callers -> BOOLEAN] /\ stray \in BOOLEAN
  /\ probe \in [Callers -> {"ptrace", "pipe2"}]
  /\ bpc \in {"idle", "trylock", "scan", "all", "header", "compose", "report", "out", "free"}
  /\ upc \in {"loaded", "wanted", "hooks", "stop", "gone"}
  /\ {hookmutex, casemutex} \subseteq {"work", "unload", Nobody}
  /\ present \in ModuleLists \cup {<<>>} /\ bfailed \in BOOLEAN

\* A handler that returns has given back every allocation and reference, by
\* whichever of its early returns, and no handler puts a path that it has not
\* taken: the unlooked-at -ENOENT of get_task_root and get_task_cwd would be
\* that, but a task without fs_struct has come to an oops before.  The
\* baseline's work gives back all it has, too; its list is empty whenever the
\* module may go.
CasesLeaveNothing ==
  /\ \A c \in Callers : hpc[c] = "idle" => held[c] = {}
  /\ ~stray
  /\ bpc = "idle" => blist = <<>> /\ bheld = {}

\* The reported list is of modules that were loaded at this work's time, each
\* once, in the reverse of their order; it is all of them if no allocation
\* failed and all their names fit: nothing of an earlier work is in it.
IsSubseqOf(s, t) == \E place \in [DOMAIN s -> DOMAIN t] :
  /\ \A i \in DOMAIN s : s[i] = t[place[i]]
  /\ \A i, j \in DOMAIN s : i < j => place[i] < place[j]
TextLength(s) ==
  LET sum[i \in 0 .. Len(s)] == IF i = 0 THEN 0 ELSE sum[i - 1] + NameLength[s[i]] + 2
  IN sum[Len(s)]
BaselineReported ==
  bpc = "out" /\ breport # <<>> =>
    /\ IsSubseqOf(breport, Reverse(present))
    /\ ~bfailed /\ TextLength(Reverse(present)) <= TextRoom => breport = Reverse(present)

\* Once the removal has the case's mutex it comes to an end, though the work
\* may hold the other mutex at that moment and want this one.
BaselineUnloads == upc = "hooks" ~> upc = "gone"
=============================================================================
