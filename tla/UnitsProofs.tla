---------------------------- MODULE UnitsProofs ----------------------------
(***************************************************************************)
(* TLAPS proofs about the parts that share no state: what a preset workflow  *)
(* and the case handlers leave allocated, what the workflow reports, when    *)
(* the resource monitor's reader may fail; and that a behaviour of the sum   *)
(* of the units is one of each unit, so that what is proved of a unit holds  *)
(* of the sum.                                                               *)
(***************************************************************************)
EXTENDS MCUnits, DriverCoreProofs, ProbesProofs

----------------------------------------------------------------------------
(* Case handlers: what is held at each step.                                *)

\* The task's information is held from its allocation to the end, a reference
\* from the step that takes it to the step that puts it back.  Whoever comes to
\* its paths has an fs_struct, so that none is put that was not taken.
HeldAt(s) ==
  CASE s \in {"idle", "info"} -> {}
    [] s = "put_exe" -> {"info", "exe"}
    [] s = "put_root" -> {"info", "root"}
    [] s = "put_cwd" -> {"info", "cwd"}
    [] s = "text" -> {"info", "timestamp"}
    [] s = "send" -> {"info", "timestamp", "text"}
    [] OTHER -> {"info"}
HandlersInv ==
  /\ hpc \in [Callers -> {"idle", "send", "exe", "args", "info", "root", "cwd", "timestamp",
                          "text", "put_exe", "put_root", "put_cwd", "umask", "oops"}]
  /\ held \in [Callers -> SUBSET {"info", "exe", "root", "cwd", "timestamp", "text"}]
  /\ fs \in [Callers -> BOOLEAN] /\ stray = FALSE
  /\ \A c \in Callers :
       /\ held[c] \subseteq HeldAt(hpc[c])
       /\ hpc[c] \in {"exe", "put_exe", "root", "put_root", "cwd", "put_cwd"} => fs[c] = TRUE
       /\ hpc[c] = "put_exe" => "exe" \in held[c]
       /\ hpc[c] = "put_root" => "root" \in held[c]
       /\ hpc[c] = "put_cwd" => "cwd" \in held[c]

\* The work's list is filled by the scan, its buffers come one by one.
BuffersAt(s) ==
  CASE s = "header" -> {"all"}
    [] s = "compose" -> {"all", "header"}
    [] s = "report" -> {"all", "header", "compose"}
    [] s = "out" -> {"all", "header"}
    [] OTHER -> {}
WorkInv ==
  /\ bpc \in {"idle", "trylock", "scan", "all", "header", "compose", "report", "out", "free"}
  /\ bheld \subseteq BuffersAt(bpc)
  /\ bpc \in {"idle", "trylock", "scan"} => blist = <<>>

LEMMA CasesStart ==
  ASSUME CasesInit
  PROVE  HandlersInv /\ WorkInv
<1>1. HandlersInv
  BY DEF CasesInit, HandlersInv, HeldAt
<1>2. WorkInv
  BY DEF CasesInit, WorkInv, BuffersAt
<1> QED BY <1>1, <1>2

LEMMA HandlersStep ==
  ASSUME HandlersInv, [CasesNext]_caseVars
  PROVE  HandlersInv'
<1> USE DEF HandlersInv, Move, Holding
<1>1. CASE UNCHANGED handlerVars
  BY <1>1 DEF handlerVars
<1>2. ASSUME NEW c \in Callers, HandlerStart(c)
      PROVE  HandlersInv'
  BY <1>2 DEF HandlerStart, HeldAt
<1>3. ASSUME NEW c \in Callers, Obtain(c)
      PROVE  HandlersInv'
  <2>1. /\ hpc[c] \in {"info", "root", "cwd", "timestamp", "text"}
        /\ hpc' = [hpc EXCEPT ![c] = GetSteps[hpc[c]]]
        /\ held' = [held EXCEPT ![c] = held[c] \cup
                      (IF hpc[c] \in {"root", "cwd"} /\ ~fs[c] THEN {} ELSE {hpc[c]})]
        /\ UNCHANGED <<fs, stray>>
    BY <1>3 DEF Obtain, GetSteps
  <2>2. /\ GetSteps["info"] = "umask" /\ GetSteps["root"] = "put_root"
        /\ GetSteps["cwd"] = "put_cwd" /\ GetSteps["timestamp"] = "text"
        /\ GetSteps["text"] = "send"
    BY DEF GetSteps
  <2>3. held' = [held EXCEPT ![c] = held[c] \cup {hpc[c]}]
    BY <2>1
  <2> QED BY <2>1, <2>2, <2>3 DEF HeldAt
<1>4. ASSUME NEW c \in Callers, NoMem(c)
      PROVE  HandlersInv'
  BY <1>4 DEF NoMem, HeldAt
<1>5. ASSUME NEW c \in Callers, Exe(c)
      PROVE  HandlersInv'
  BY <1>5 DEF Exe, HeldAt
<1>6. ASSUME NEW c \in Callers, Put(c)
      PROVE  HandlersInv'
  <2>1. /\ hpc[c] \in {"put_exe", "put_root", "put_cwd"}
        /\ hpc' = [hpc EXCEPT ![c] = PutSteps[hpc[c]][2]]
        /\ held' = [held EXCEPT ![c] = held[c] \ {PutSteps[hpc[c]][1]}]
        /\ stray' = (stray \/ PutSteps[hpc[c]][1] \notin held[c])
        /\ UNCHANGED fs
    BY <1>6 DEF Put, PutSteps
  <2>2. /\ PutSteps["put_exe"] = <<"exe", "root">> /\ PutSteps["put_root"] = <<"root", "cwd">>
        /\ PutSteps["put_cwd"] = <<"cwd", "args">>
    BY DEF PutSteps
  <2>3. PutSteps[hpc[c]][1] \in held[c] /\ hpc' = [hpc EXCEPT ![c] = PutSteps[hpc[c]][2]]
    BY <2>1, <2>2
  <2>4. stray' = FALSE
    BY <2>1, <2>3
  <2> QED BY <2>1, <2>2, <2>4 DEF HeldAt
<1>7. ASSUME NEW c \in Callers, Args(c)
      PROVE  HandlersInv'
  BY <1>7 DEF Args, HeldAt
<1>8. ASSUME NEW c \in Callers, Send(c)
      PROVE  HandlersInv'
  BY <1>8 DEF Send, HeldAt
<1>9. ASSUME NEW c \in Callers, Umask(c)
      PROVE  HandlersInv'
  BY <1>9 DEF Umask, HeldAt
<1>10. WorkStart \/ BaselineWork \/ UnloadWanted \/ UnloadCase \/ Unloading =>
        UNCHANGED handlerVars
  BY DEF WorkStart, BaselineWork, UnloadWanted, UnloadCase, Unloading, TryCaseMutex, Scan,
         Buffer, NoBuffer, Report, Out, FreeList, UnloadHooks, UnloadStop
<1> QED BY <1>1, <1>2, <1>3, <1>4, <1>5, <1>6, <1>7, <1>8, <1>9, <1>10
     DEF CasesNext, caseVars

LEMMA WorkStep ==
  ASSUME WorkInv, [CasesNext]_caseVars
  PROVE  WorkInv'
<1> USE DEF WorkInv, BuffersAt
<1>1. CASE UNCHANGED <<bpc, blist, bheld>>
  BY <1>1
<1>2. CASE WorkStart BY <1>2 DEF WorkStart
<1>3. CASE TryCaseMutex BY <1>3 DEF TryCaseMutex
<1>4. CASE Scan BY <1>4 DEF Scan
<1>5. CASE Buffer
  <2>1. /\ bpc \in {"all", "header", "compose"} /\ bheld' = bheld \cup {bpc}
        /\ bpc' = BufferSteps[bpc] /\ UNCHANGED blist
    BY <1>5 DEF Buffer, BufferSteps
  <2>2. /\ BufferSteps["all"] = "header" /\ BufferSteps["header"] = "compose"
        /\ BufferSteps["compose"] = "report"
    BY DEF BufferSteps
  <2> QED BY <2>1, <2>2
<1>6. CASE NoBuffer BY <1>6 DEF NoBuffer, BufferSteps
<1>7. CASE Report BY <1>7 DEF Report
<1>8. CASE Out BY <1>8 DEF Out
<1>9. CASE FreeList BY <1>9 DEF FreeList, ListFreed
<1>10. UnloadWanted \/ UnloadCase \/ Unloading => UNCHANGED <<bpc, blist, bheld>>
  BY DEF UnloadWanted, UnloadCase, Unloading, UnloadHooks, UnloadStop
<1>11. ASSUME NEW c \in Callers,
              HandlerStart(c) \/ Obtain(c) \/ Umask(c) \/ NoMem(c) \/ Exe(c) \/ Put(c)
                \/ Args(c) \/ Send(c)
       PROVE  UNCHANGED <<bpc, blist, bheld>>
  BY <1>11 DEF HandlerStart, Obtain, Umask, NoMem, Exe, Put, Args, Send, baseVars
<1> QED BY <1>1, <1>2, <1>3, <1>4, <1>5, <1>6, <1>7, <1>8, <1>9, <1>10, <1>11
     DEF CasesNext, BaselineWork, caseVars, baseVars

\* A handler that returns holds nothing, by whichever of its early returns and
\* whatever allocation failed, and none puts a path that it has not taken,
\* whichever tasks are without an fs_struct; nor does the baseline's work hold
\* anything, whose list is empty again whenever the module may be removed.
THEOREM HandlersLeaveNothing == CasesSpec => []CasesLeaveNothing
<1>1. CasesInit => HandlersInv /\ WorkInv
  BY CasesStart
<1>2. HandlersInv /\ WorkInv /\ [CasesNext]_caseVars => HandlersInv' /\ WorkInv'
  BY HandlersStep, WorkStep
<1>3. HandlersInv /\ WorkInv => CasesLeaveNothing
  BY DEF HandlersInv, WorkInv, HeldAt, BuffersAt, CasesLeaveNothing
<1> QED BY <1>1, <1>2, <1>3, PTL DEF CasesSpec

----------------------------------------------------------------------------
(* Preset workflow: its variables' types.                                   *)

SwitchVals == [name : SwitchNames, val : {0, 1}]
Changes == [name : SwitchNames, old : {0, 1}, new : {0, 1}]

\* No more items than collectors called so far, none between runs.
ItemsInv ==
  /\ Len(items) <= Len(Switches)
  /\ step = "collect" => Len(items) < pos
  /\ step \in {"out", "idle"} => items = <<>>

LEMMA SwitchNamed ==
  ASSUME NEW i \in DOMAIN Switches
  PROVE  Switches[i] \in SwitchNames
BY DEF SwitchNames

LEMMA ItemTyped ==
  ASSUME items \in Seq(SwitchVals), NEW i \in DOMAIN items
  PROVE  items[i].name \in SwitchNames /\ items[i].val \in {0, 1}
<1>1. items[i] \in SwitchVals
  OBVIOUS
<1> QED BY <1>1 DEF SwitchVals

LEMMA PresetTypeStep ==
  ASSUME PresetTypeOK, ItemsInv, [PresetNext]_presetVars
  PROVE  PresetTypeOK' /\ ItemsInv'
<1>0. items \in Seq(SwitchVals)
  BY DEF PresetTypeOK, SwitchVals
<1> USE PresetAssumption DEF PresetTypeOK, ItemsInv, Absent
<1>1. CASE UNCHANGED presetVars
  BY <1>1 DEF presetVars
<1>2. CASE PresetRegister
  BY <1>2 DEF PresetRegister
<1>3. CASE PresetUnregister
  <2>1. /\ step' = "out" /\ tagged' = FALSE /\ saved' = <<>> /\ missing' = FALSE
        /\ seen' = [s \in SwitchNames |-> 2] /\ step = "idle"
        /\ UNCHANGED <<cpu, items, pos, entries, reply>>
    BY <1>3 DEF PresetUnregister
  <2>2. saved' \in Seq({0, 1}) /\ seen' \in [SwitchNames -> {0, 1, 2}]
    BY <2>1
  <2> QED BY <2>1, <2>2
<1>4. CASE CollectStart
  BY <1>4 DEF CollectStart
<1>5. CASE Collect
  <2>1. /\ pos \in DOMAIN Switches /\ step = "collect" /\ pos' = pos + 1
        /\ items' = Append(items, [name |-> Switches[pos], val |-> cpu[Switches[pos]]])
        /\ UNCHANGED <<cpu, step, tagged, saved, entries, reply, seen, missing>>
    BY <1>5 DEF Collect, AtCollector
  <2>2. [name |-> Switches[pos], val |-> cpu[Switches[pos]]] \in SwitchVals
    BY <2>1, SwitchNamed DEF SwitchVals
  <2>3. items' \in Seq(SwitchVals) /\ Len(items') = Len(items) + 1
    BY <2>1, <2>2 DEF SwitchVals
  <2>4. pos \in 1 .. Len(Switches)
    BY <2>1
  <2> QED BY <2>1, <2>3, <2>4 DEF SwitchVals
<1>6. CASE CollectFails
  BY <1>6 DEF CollectFails, AtCollector
<1>7. CASE Analyze
  BY <1>7 DEF Analyze
<1>8. CASE FirstMeasure
  <2>1. \A i \in DOMAIN items : items[i].val \in {0, 1}
    BY <1>0, ItemTyped
  <2>2. DOMAIN items = 1 .. Len(items) /\ Len(items) \in Nat
    OBVIOUS
  <2>3. saved' \in Seq({0, 1})
    <3>1. saved' = [i \in 1 .. Len(items) |-> items[i].val]
      BY <1>8, <2>2 DEF FirstMeasure
    <3> QED BY <2>1, <2>2, <3>1
  <2> QED BY <1>8, <2>3 DEF FirstMeasure
<1>9. CASE CompareStart
  BY <1>9 DEF CompareStart
<1>10. CASE CompareSame
  BY <1>10 DEF CompareSame, AtItem
<1>11. CASE CompareChanged
  <2>1. /\ pos \in DOMAIN items /\ step = "compare" /\ pos <= Len(saved) /\ pos' = pos + 1
        /\ entries' = Append(entries, [name |-> items[pos].name, old |-> saved[pos],
                                       new |-> items[pos].val])
        /\ saved' = [saved EXCEPT ![pos] = items[pos].val] /\ reply' = "report"
        /\ UNCHANGED <<cpu, step, items, tagged, seen, missing>>
    BY <1>11 DEF CompareChanged, AtItem, SavedNow
  <2>2. /\ items[pos].name \in SwitchNames /\ items[pos].val \in {0, 1} /\ saved[pos] \in {0, 1}
        /\ pos \in 1 .. Len(items)
    <3>1. items[pos].name \in SwitchNames /\ items[pos].val \in {0, 1}
      BY <1>0, <2>1, ItemTyped
    <3>2. pos \in 1 .. Len(items) /\ pos \in 1 .. Len(saved)
      BY <2>1
    <3>3. saved[pos] \in {0, 1}
      BY <3>2
    <3> QED BY <3>1, <3>2, <3>3
  <2>3. [name |-> items[pos].name, old |-> saved[pos], new |-> items[pos].val] \in Changes
    BY <2>2 DEF Changes
  <2>4. entries' \in Seq(Changes)
    BY <2>1, <2>3 DEF Changes
  <2>5. saved' \in Seq({0, 1})
    BY <2>1, <2>2
  <2>6. pos' \in 0 .. Len(Switches) + 1
    BY <2>1, <2>2
  <2> QED BY <2>1, <2>4, <2>5, <2>6 DEF Changes
<1>12. CASE CompareEnd
  BY <1>12 DEF CompareEnd
<1>13. CASE Respond
  <2> DEFINE Its == {items[i] : i \in DOMAIN items}
  <2>1. \A it \in Its : it.val \in {0, 1}
    BY <1>0, ItemTyped
  <2>2. ASSUME NEW s \in SwitchNames
        PROVE  (IF \E i \in DOMAIN items : items[i].name = s
                THEN (CHOOSE it \in Its : it.name = s).val ELSE seen[s]) \in {0, 1, Absent}
    <3>1. CASE \E i \in DOMAIN items : items[i].name = s
      <4>1. \E it \in Its : it.name = s
        BY <3>1
      <4>2. (CHOOSE it \in Its : it.name = s) \in Its
        BY <4>1
      <4> QED BY <2>1, <3>1, <4>2
    <3>2. CASE ~ \E i \in DOMAIN items : items[i].name = s
      BY <3>2
    <3> QED BY <3>1, <3>2
  <2>3. seen' = [s \in SwitchNames |-> IF \E i \in DOMAIN items : items[i].name = s
                                       THEN (CHOOSE it \in Its : it.name = s).val ELSE seen[s]]
    BY <1>13 DEF Respond
  <2>4. seen' \in [SwitchNames -> {0, 1, Absent}]
    BY <2>2, <2>3
  <2>5. items' = <<>> /\ entries' = <<>> /\ reply' = "ok" /\ step' = "idle" /\ pos' = 0
        /\ UNCHANGED <<cpu, tagged, saved, missing>>
    BY <1>13 DEF Respond
  <2> QED BY <2>4, <2>5
<1>14. WildResponse \/ CompareOverrun \/ RespondNull =>
         /\ UNCHANGED <<cpu, items, tagged, saved, pos, entries, reply, seen, missing>>
         /\ step' = "oops"
  BY DEF WildResponse, CompareOverrun, RespondNull
<1>15. CASE /\ UNCHANGED <<cpu, items, tagged, saved, pos, entries, reply, seen, missing>>
            /\ step' = "oops"
  BY <1>15
<1>16. ASSUME NEW s \in SwitchNames, Flip(s)
       PROVE  PresetTypeOK' /\ ItemsInv'
  BY <1>16 DEF Flip
<1> QED BY <1>1, <1>2, <1>3, <1>4, <1>5, <1>6, <1>7, <1>8, <1>9, <1>10, <1>11, <1>12, <1>13,
           <1>14, <1>15, <1>16
     DEF PresetNext, FirstMeasureFails, CompareStartFails, CompareChangedFails, TextFails

LEMMA PresetTyped == PresetSpec => [](PresetTypeOK /\ ItemsInv)
<1>1. ASSUME PresetInit
      PROVE  PresetTypeOK /\ ItemsInv
  <2>1. /\ <<>> \in Seq([name : SwitchNames, val : {0, 1}]) /\ <<>> \in Seq({0, 1})
        /\ <<>> \in Seq([name : SwitchNames, old : {0, 1}, new : {0, 1}])
        /\ Len(<<>>) = 0
    OBVIOUS
  <2>2. Len(Switches) \in Nat /\ 0 \in 0 .. Len(Switches) + 1 /\ 0 <= Len(Switches)
    BY PresetAssumption
  <2>3. seen \in [SwitchNames -> {0, 1, Absent}]
    BY <1>1 DEF PresetInit
  <2> QED BY <1>1, <2>1, <2>2, <2>3 DEF PresetInit, PresetTypeOK, ItemsInv
<1>2. PresetTypeOK /\ ItemsInv /\ [PresetNext]_presetVars => PresetTypeOK' /\ ItemsInv'
  BY PresetTypeStep
<1> QED BY <1>1, <1>2, PTL DEF PresetSpec

----------------------------------------------------------------------------
(* Preset workflow: what is allocated at each step of a run.                *)

Responses == <<"responses", 0>>
Data == <<"data", 0>>
ItemBlocks == {<<"item", i>> : i \in DOMAIN items}
HeapInv ==
  /\ step = "out" => heap = {} /\ ~tagged
  /\ step = "idle" => heap \subseteq {Responses, Data}
  /\ step = "collect" => heap \subseteq {Responses, Data} \cup ItemBlocks
  /\ step = "measure" => ~tagged /\ heap \subseteq {Responses} \cup ItemBlocks
  /\ step = "compare" => tagged /\ heap \subseteq {Responses, Data} \cup ItemBlocks \cup Scratch
  /\ step = "respond" => tagged /\ heap \subseteq {Responses, Data, <<"text", 0>>} \cup ItemBlocks
  /\ step \in {"idle", "collect", "measure", "compare", "respond"} => ((Data \in heap) = tagged)

LEMMA HeapStep ==
  ASSUME PresetTypeOK, ItemsInv, HeapInv, [PresetNext]_presetVars
  PROVE  HeapInv'
<1> USE DEF Responses, Data
<1>0. tagged \in BOOLEAN
  BY DEF PresetTypeOK
<1>1. CASE UNCHANGED <<step, items, tagged, entries, heap>>
  BY <1>1 DEF HeapInv, ItemBlocks, Scratch
<1>2. WildResponse \/ CompareOverrun \/ RespondNull =>
        UNCHANGED <<items, tagged, entries, heap>> /\ step' = "oops"
  BY DEF WildResponse, CompareOverrun, RespondNull
<1>3. CASE UNCHANGED <<items, tagged, entries, heap>> /\ step' = "oops"
  BY <1>3 DEF HeapInv
<1>4. CASE PresetRegister
  <2>1. /\ step = "out" /\ step' = "idle" /\ heap' \subseteq {Responses}
        /\ UNCHANGED <<items, tagged, entries>>
    BY <1>4 DEF PresetRegister
  <2>2. tagged' = FALSE /\ (Data \in heap') = FALSE
    BY <1>0, <2>1 DEF HeapInv
  <2>3. (Data \in heap') = tagged'
    BY <2>1, <2>2
  <2> QED BY <2>1, <2>3 DEF HeapInv
<1>5. CASE PresetUnregister
  <2>1. heap' = heap \ (DataFreed \cup {Responses}) /\ step = "idle" /\ step' = "out"
        /\ tagged' = FALSE /\ entries' = entries
    BY <1>5 DEF PresetUnregister
  <2>2. heap' = {}
    BY <2>1 DEF HeapInv, DataFreed
  <2> QED BY <2>1, <2>2, <1>0 DEF HeapInv
<1>6. CASE CollectStart
  BY <1>6 DEF CollectStart, HeapInv, ItemBlocks
<1>17. CASE Collect
  <2>1. PICK it : items' = Append(items, it)
    BY <1>17 DEF Collect
  <2>2. items \in Seq(SwitchVals \cup {it})
    <3>1. items \in Seq(SwitchVals)
      BY DEF PresetTypeOK, SwitchVals
    <3> QED BY <3>1
  <2>3. Len(items') \in DOMAIN items' /\ DOMAIN items \subseteq DOMAIN items'
    BY <2>1, <2>2
  <2>4. /\ step = "collect" /\ heap' = heap \cup {<<"item", Len(items')>>}
        /\ UNCHANGED <<step, tagged, entries>>
    BY <1>17 DEF Collect, AtCollector
  <2>5. ItemBlocks \cup {<<"item", Len(items')>>} \subseteq ItemBlocks'
    BY <2>3 DEF ItemBlocks
  <2>6. heap' \subseteq {Responses, Data} \cup ItemBlocks'
    BY <2>4, <2>5 DEF HeapInv
  <2>7. (Data \in heap') = tagged'
    BY <2>4 DEF HeapInv
  <2> QED BY <2>4, <2>6, <2>7 DEF HeapInv
<1>18. CASE CollectFails
  BY <1>1, <1>18 DEF CollectFails
<1>19. CASE Analyze
  <2>1. /\ step = "collect" /\ step' = (IF tagged THEN "compare" ELSE "measure")
        /\ UNCHANGED <<items, tagged, entries, heap>>
    BY <1>19 DEF Analyze
  <2>2. heap \subseteq {Responses, Data} \cup ItemBlocks /\ (Data \in heap) = tagged
    BY <2>1 DEF HeapInv
  <2>3. ItemBlocks' = ItemBlocks
    BY <2>1 DEF ItemBlocks
  <2>4. ~tagged => heap \subseteq {Responses} \cup ItemBlocks
    BY <2>2, <1>0
  <2> QED BY <1>0, <2>1, <2>2, <2>3, <2>4 DEF HeapInv
<1>7. CASE FirstMeasure
  <2>1. /\ step = "measure" /\ tagged' = TRUE /\ heap' = heap \cup {Data} /\ step' = "respond"
        /\ UNCHANGED <<items, entries>>
    BY <1>7 DEF FirstMeasure
  <2> QED BY <2>1 DEF HeapInv, ItemBlocks
<1>8. CASE CompareStart
  <2>1. /\ step = "compare" /\ heap' = heap \cup {<<"array", 0>>}
        /\ UNCHANGED <<step, items, tagged, entries>>
    BY <1>8 DEF CompareStart
  <2>2. heap' \subseteq {Responses, Data} \cup ItemBlocks' \cup Scratch'
    BY <2>1 DEF HeapInv, ItemBlocks, Scratch
  <2> QED BY <2>1, <2>2 DEF HeapInv
<1>9. CASE CompareSame
  BY <1>1, <1>9 DEF CompareSame
<1>10. CASE CompareChanged
  <2>1. PICK e : entries' = Append(entries, e)
    BY <1>10 DEF CompareChanged
  <2>2. entries \in Seq(Changes)
    BY DEF PresetTypeOK, Changes
  <2>3. entries \in Seq(Changes \cup {e})
    BY <2>2
  <2>4. /\ entries' \in Seq(Changes \cup {e}) /\ Len(entries') \in DOMAIN entries'
        /\ DOMAIN entries \subseteq DOMAIN entries'
    BY <2>1, <2>3
  <2>5. /\ step = "compare" /\ heap' = heap \cup {<<"entry", Len(entries')>>}
        /\ UNCHANGED <<step, items, tagged>>
    BY <1>10 DEF CompareChanged, AtItem
  <2>6. Scratch \cup {<<"entry", Len(entries')>>} \subseteq Scratch'
    BY <2>4 DEF Scratch
  <2>7. heap' \subseteq {Responses, Data} \cup ItemBlocks' \cup Scratch'
    BY <2>5, <2>6 DEF HeapInv, ItemBlocks
  <2>8. (Data \in heap') = tagged'
    BY <2>5 DEF HeapInv
  <2> QED BY <2>4, <2>5, <2>7, <2>8 DEF HeapInv
<1>11. CASE CompareEnd
  <2>1. /\ step = "compare" /\ step' = "respond" /\ UNCHANGED <<items, tagged, entries>>
        /\ heap' \subseteq (heap \ Scratch) \cup {<<"text", 0>>} /\ heap \ Scratch \subseteq heap'
    BY <1>11 DEF CompareEnd
  <2>2. Data \notin Scratch
    BY DEF Scratch
  <2>3. (Data \in heap') = tagged'
    BY <2>1, <2>2 DEF HeapInv
  <2>4. heap' \subseteq {Responses, Data, <<"text", 0>>} \cup ItemBlocks'
    BY <2>1 DEF HeapInv, ItemBlocks
  <2> QED BY <2>1, <2>3, <2>4 DEF HeapInv
<1>12. CASE Respond
  <2>1. /\ step = "respond" /\ step' = "idle" /\ entries' = <<>> /\ tagged' = tagged
        /\ heap' = heap \ ({<<"text", 0>>} \cup ItemBlocks)
    BY <1>12 DEF Respond, ItemBlocks
  <2>2. Data \notin ItemBlocks
    BY DEF ItemBlocks
  <2>3. (Data \in heap') = tagged'
    BY <2>1, <2>2 DEF HeapInv
  <2>4. heap' \subseteq {Responses, Data}
    BY <2>1 DEF HeapInv
  <2> QED BY <2>1, <2>2, <2>3, <2>4 DEF HeapInv
<1>13. ASSUME NEW s \in SwitchNames, Flip(s)
       PROVE  UNCHANGED <<step, items, tagged, entries, heap>>
  BY <1>13 DEF Flip
<1> QED BY <1>1, <1>2, <1>3, <1>4, <1>5, <1>6, <1>7, <1>8, <1>9, <1>10, <1>11, <1>12, <1>13,
           <1>17, <1>18, <1>19
     DEF PresetNext, presetVars, FirstMeasureFails, CompareStartFails, CompareChangedFails,
         TextFails

\* Whatever allocation fails, a run that does not oops frees all it allocated
\* but the saved values, and unregistering frees those and the responses.
THEOREM PresetCleansUp == PresetSpec => []RunsCleanUp
<1>1. PresetInit => HeapInv
  BY DEF PresetInit, HeapInv
<1>2. PresetTypeOK /\ ItemsInv /\ HeapInv /\ [PresetNext]_presetVars => HeapInv'
  BY HeapStep
<1>3. HeapInv => RunsCleanUp
  BY DEF HeapInv, RunsCleanUp, Responses, Data
<1> QED BY <1>1, <1>2, <1>3, PresetTyped, PTL DEF PresetSpec

----------------------------------------------------------------------------
(* Preset workflow: what the reports say.                                   *)

\* The entry for switch i, and the entries of the first n switches.
EntryOf(i) == [name |-> Switches[i], old |-> seen[Switches[i]], new |-> items[i].val]
ChangedUpTo(n) == {EntryOf(i) : i \in {j \in 1 .. n : seen[Switches[j]] # items[j].val}}
EntrySet == {entries[i] : i \in DOMAIN entries}

\* While no collector has failed, items and saved values are in the order of
\* the switches; behind pos the saved values are those of the last measure,
\* before it those of this one, and what differs is in the entries.
ExactInv ==
  /\ \A i \in DOMAIN items : items[i].name = Switches[i]
  /\ step = "collect" => Len(items) = pos - 1
  /\ step \in {"measure", "compare", "respond"} => Len(items) = Len(Switches)
  /\ tagged => Len(saved) = Len(Switches)
  /\ ~tagged => \A s \in SwitchNames : seen[s] = Absent
  /\ tagged /\ step \in {"idle", "collect"} =>
       \A i \in DOMAIN Switches : saved[i] = seen[Switches[i]]
  /\ step = "compare" =>
       /\ \A i \in DOMAIN Switches :
            /\ saved[i] = IF i < pos THEN items[i].val ELSE seen[Switches[i]]
            /\ seen[Switches[i]] \in {0, 1}
       /\ EntrySet = ChangedUpTo(pos - 1)
  /\ step = "respond" =>
       /\ \A i \in DOMAIN Switches : saved[i] = items[i].val
       /\ EntrySet = ChangedSince
EntriesInv == step \in {"out", "idle", "collect", "measure"} => entries = <<>>

LEMMA RangeOfAppend ==
  ASSUME NEW S, NEW e \in Seq(S), NEW x \in S, NEW f, f = Append(e, x)
  PROVE  {f[i] : i \in DOMAIN f} = {e[i] : i \in DOMAIN e} \cup {x}
<1>1. /\ DOMAIN f = 1 .. Len(e) + 1 /\ Len(e) \in Nat /\ f[Len(e) + 1] = x
      /\ DOMAIN e = 1 .. Len(e) /\ \A i \in 1 .. Len(e) : f[i] = e[i]
  OBVIOUS
<1>2. 1 .. Len(e) + 1 = 1 .. Len(e) \cup {Len(e) + 1}
  BY <1>1
<1> QED BY <1>1, <1>2

LEMMA ChangedGrows ==
  ASSUME NEW n \in Nat
  PROVE  ChangedUpTo(n + 1) = ChangedUpTo(n) \cup
           (IF seen[Switches[n + 1]] # items[n + 1].val THEN {EntryOf(n + 1)} ELSE {})
<1> DEFINE J(k) == {j \in 1 .. k : seen[Switches[j]] # items[j].val}
<1>1. 1 .. n + 1 = 1 .. n \cup {n + 1}
  OBVIOUS
<1>2. CASE seen[Switches[n + 1]] # items[n + 1].val
  <2>1. J(n + 1) = J(n) \cup {n + 1}
    BY <1>1, <1>2
  <2> HIDE DEF J
  <2>2. {EntryOf(i) : i \in J(n + 1)} = {EntryOf(i) : i \in J(n)} \cup {EntryOf(n + 1)}
    BY <2>1
  <2> QED BY <1>2, <2>2 DEF ChangedUpTo, J
<1>3. CASE seen[Switches[n + 1]] = items[n + 1].val
  <2>1. J(n + 1) = J(n)
    BY <1>1, <1>3
  <2> QED BY <1>3, <2>1 DEF ChangedUpTo
<1> QED BY <1>2, <1>3

LEMMA ExactStep ==
  ASSUME PresetTypeOK, ItemsInv, HeapInv, EntriesInv, ~missing => ExactInv,
         [PresetNext]_presetVars
  PROVE  EntriesInv' /\ (~missing' => ExactInv')
<1>0. /\ DOMAIN Switches = 1 .. Len(Switches) /\ Len(Switches) \in Nat
      /\ \A i, j \in DOMAIN Switches : Switches[i] = Switches[j] => i = j
      /\ \A i \in DOMAIN Switches : Switches[i] \in SwitchNames
  BY PresetAssumption, SwitchNamed
<1>00. /\ items \in Seq(SwitchVals) /\ entries \in Seq(Changes) /\ pos \in Nat
       /\ DOMAIN items = 1 .. Len(items) /\ Len(items) \in Nat /\ tagged \in BOOLEAN
       /\ saved \in Seq({0, 1}) /\ DOMAIN saved = 1 .. Len(saved) /\ Len(saved) \in Nat
       /\ missing \in BOOLEAN /\ Len(items) <= Len(Switches)
  <2>1. Len(Switches) + 1 \in Nat
    BY <1>0
  <2> QED BY <2>1 DEF PresetTypeOK, ItemsInv, SwitchVals, Changes
<1> DEFINE Same == UNCHANGED <<items, saved, entries, seen, tagged>>
<1>1. CASE UNCHANGED <<items, saved, entries, seen, tagged, step, pos, missing>>
  <2>1. EntrySet' = EntrySet /\ ChangedUpTo(pos - 1)' = ChangedUpTo(pos - 1)
    BY <1>1 DEF EntrySet, ChangedUpTo, EntryOf
  <2>2. ChangedSince' = ChangedSince
    BY <1>1 DEF ChangedSince
  <2> QED BY <1>1, <2>1, <2>2 DEF EntriesInv, ExactInv
<1>2. CASE PresetRegister
  <2>1. step = "out" /\ step' = "idle" /\ Same /\ UNCHANGED <<pos, missing>>
    BY <1>2 DEF PresetRegister
  <2>2. ~tagged
    BY <2>1 DEF HeapInv
  <2> QED BY <2>1, <2>2 DEF EntriesInv, ExactInv
<1>3. CASE PresetUnregister
  <2>1. /\ step = "idle" /\ step' = "out" /\ ~tagged' /\ UNCHANGED <<items, entries>>
        /\ seen' = [s \in SwitchNames |-> Absent]
    BY <1>3 DEF PresetUnregister
  <2>2. items = <<>> /\ DOMAIN items = {}
    BY <2>1 DEF ItemsInv
  <2> QED BY <2>1, <2>2 DEF EntriesInv, ExactInv
<1>4. CASE CollectStart
  <2>1. step = "idle" /\ step' = "collect" /\ pos' = 1 /\ Same /\ missing' = missing
    BY <1>4 DEF CollectStart
  <2>2. items = <<>> /\ Len(items) = 0
    BY <2>1 DEF ItemsInv
  <2> QED BY <2>1, <2>2 DEF EntriesInv, ExactInv
<1>5. CASE Collect
  <2>1. /\ step = "collect" /\ step' = "collect" /\ pos \in DOMAIN Switches /\ pos' = pos + 1
        /\ items' = Append(items, [name |-> Switches[pos], val |-> cpu[Switches[pos]]])
        /\ UNCHANGED <<saved, entries, seen, tagged, missing>>
    BY <1>5 DEF Collect, AtCollector
  <2>2. SUFFICES ASSUME ~missing
                 PROVE  ExactInv'
    BY <2>1 DEF EntriesInv
  <2>3. Len(items) = pos - 1 /\ \A i \in DOMAIN items : items[i].name = Switches[i]
    BY <2>1, <2>2 DEF ExactInv
  <2> DEFINE it == [name |-> Switches[pos], val |-> cpu[Switches[pos]]]
  <2>4. it.name = Switches[pos]
    OBVIOUS
  <2> HIDE DEF it
  <2>5. /\ Len(items') = pos /\ DOMAIN items' = 1 .. pos /\ items'[pos] = it
        /\ \A i \in 1 .. pos - 1 : items'[i] = items[i]
    BY <1>00, <2>1, <2>3 DEF it
  <2>6. \A i \in DOMAIN items' : items'[i].name = Switches[i]
    <3> SUFFICES ASSUME NEW i \in 1 .. pos
                 PROVE  items'[i].name = Switches[i]
      BY <2>5
    <3>1. i = pos \/ i \in 1 .. pos - 1
      BY <1>00
    <3> QED BY <1>00, <2>3, <2>4, <2>5, <3>1
  <2>7. Len(items') = pos' - 1
    BY <1>00, <2>1, <2>5
  <2> QED BY <2>1, <2>2, <2>6, <2>7 DEF ExactInv
<1>6. CASE CollectFails
  <2>1. missing' /\ step' = step /\ entries' = entries
    BY <1>6 DEF CollectFails
  <2> QED BY <2>1 DEF EntriesInv
<1>7. CASE Analyze
  <2>1. /\ step = "collect" /\ step' = (IF tagged THEN "compare" ELSE "measure")
        /\ pos = Len(Switches) + 1 /\ pos' = 0 /\ Same /\ missing' = missing
    BY <1>7 DEF Analyze
  <2>2. SUFFICES ASSUME ~missing
                 PROVE  ExactInv'
    BY <2>1 DEF EntriesInv
  <2>3. Len(items') = Len(Switches)
    <3>1. Len(items) = pos - 1
      BY <2>1, <2>2 DEF ExactInv
    <3> QED BY <1>0, <2>1, <3>1
  <2>4. ASSUME tagged
        PROVE  /\ \A i \in DOMAIN Switches :
                    /\ saved'[i] = IF i < pos' THEN items'[i].val ELSE seen'[Switches[i]]
                    /\ seen'[Switches[i]] \in {0, 1}
               /\ EntrySet' = ChangedUpTo(pos - 1)'
    <3>1. Len(saved) = Len(Switches) /\ \A i \in DOMAIN Switches : saved[i] = seen[Switches[i]]
      BY <2>1, <2>2, <2>4 DEF ExactInv
    <3>2. \A i \in DOMAIN Switches : saved[i] \in {0, 1} /\ ~(i < 0)
      BY <1>0, <1>00, <3>1
    <3>3. entries' = <<>> /\ 1 .. pos' - 1 = {}
      BY <2>1 DEF EntriesInv
    <3>4. EntrySet' = {} /\ ChangedUpTo(pos - 1)' = {}
      BY <3>3 DEF EntrySet, ChangedUpTo
    <3> QED BY <2>1, <3>1, <3>2, <3>4
  <2> QED BY <2>1, <2>2, <2>3, <2>4, <1>00 DEF ExactInv
<1>8. CASE FirstMeasure
  <2>1. /\ step = "measure" /\ step' = "respond" /\ tagged' = TRUE
        /\ saved' = [i \in DOMAIN items |-> items[i].val]
        /\ UNCHANGED <<items, pos, entries, seen, missing>>
    BY <1>8 DEF FirstMeasure
  <2>2. SUFFICES ASSUME ~missing
                 PROVE  ExactInv'
    BY <2>1 DEF EntriesInv
  <2>3. ~tagged /\ entries = <<>>
    BY <2>1 DEF HeapInv, EntriesInv
  <2>4. /\ Len(items) = Len(Switches) /\ \A s \in SwitchNames : seen[s] = Absent
        /\ \A i \in DOMAIN items : items[i].name = Switches[i]
    BY <2>1, <2>2, <2>3 DEF ExactInv
  <2>5. EntrySet' = {}
    BY <2>1, <2>3 DEF EntrySet
  <2>6. ChangedSince' = {}
    <3>1. \A i \in DOMAIN items : seen[items[i].name] = Absent
      BY <1>0, <1>00, <2>4
    <3> QED BY <2>1, <3>1 DEF ChangedSince
  <2>7. Len(saved') = Len(Switches) /\ \A i \in DOMAIN Switches : saved'[i] = items[i].val
    BY <1>0, <1>00, <2>1, <2>4
  <2> QED BY <2>1, <2>2, <2>4, <2>5, <2>6, <2>7 DEF ExactInv
<1>9. CASE CompareStart
  <2>1. step = "compare" /\ pos = 0 /\ pos' = 1 /\ Same /\ UNCHANGED <<step, missing>>
    BY <1>9 DEF CompareStart
  <2>2. SUFFICES ASSUME ~missing
                 PROVE  ExactInv'
    BY <2>1 DEF EntriesInv
  <2>3. EntrySet' = EntrySet /\ ChangedUpTo(pos - 1) = {} /\ ChangedUpTo(pos - 1)' = {}
    BY <2>1 DEF EntrySet, ChangedUpTo
  <2>4. \A i \in DOMAIN Switches : ~(i < 0) /\ ~(i < 1)
    BY <1>0
  <2> QED BY <2>1, <2>2, <2>3, <2>4 DEF ExactInv
<1>10. ASSUME AtItem, pos <= Len(saved), ~missing
       PROVE  /\ pos \in DOMAIN Switches /\ pos \in 1 .. Len(items) /\ pos - 1 \in Nat
              /\ step = "compare" /\ Len(items) = Len(Switches) /\ Len(saved) = Len(Switches)
              /\ tagged
              /\ items[pos].name = Switches[pos] /\ saved[pos] = seen[Switches[pos]]
              /\ EntrySet = ChangedUpTo(pos - 1)
              /\ ChangedUpTo(pos) = ChangedUpTo(pos - 1) \cup
                   (IF Changed THEN {EntryOf(pos)} ELSE {})
  <2>1. pos \in DOMAIN items /\ step = "compare"
    BY <1>10 DEF AtItem
  <2>2. tagged
    BY <2>1 DEF HeapInv
  <2>3. /\ Len(items) = Len(Switches) /\ Len(saved) = Len(Switches)
        /\ items[pos].name = Switches[pos] /\ EntrySet = ChangedUpTo(pos - 1)
        /\ \A i \in DOMAIN Switches :
             saved[i] = IF i < pos THEN items[i].val ELSE seen[Switches[i]]
    BY <1>10, <2>1, <2>2 DEF ExactInv
  <2>4. pos \in DOMAIN Switches /\ pos \in 1 .. Len(items) /\ pos - 1 \in Nat /\ ~(pos < pos)
    BY <1>0, <1>00, <2>1, <2>3
  <2>5. saved[pos] = seen[Switches[pos]]
    BY <2>3, <2>4
  <2>6. (pos - 1) + 1 = pos
    BY <1>00
  <2>7. ChangedUpTo(pos) = ChangedUpTo(pos - 1) \cup
          (IF seen[Switches[pos]] # items[pos].val THEN {EntryOf(pos)} ELSE {})
    BY <2>4, <2>6, ChangedGrows
  <2> QED BY <2>1, <2>2, <2>3, <2>4, <2>5, <2>7 DEF Changed
<1>11. CASE CompareSame
  <2>1. /\ AtItem /\ pos <= Len(saved) /\ ~Changed /\ pos' = pos + 1
        /\ Same /\ UNCHANGED <<step, missing>>
    BY <1>11 DEF CompareSame
  <2>2. SUFFICES ASSUME ~missing
                 PROVE  ExactInv'
    BY <2>1 DEF EntriesInv
  <2>3. saved[pos] = items[pos].val
    BY <2>1 DEF Changed
  <2>4. \A i \in DOMAIN Switches :
          /\ saved'[i] = IF i < pos' THEN items'[i].val ELSE seen'[Switches[i]]
          /\ seen'[Switches[i]] \in {0, 1}
    <3> SUFFICES ASSUME NEW i \in DOMAIN Switches
                 PROVE  /\ saved[i] = IF i < pos + 1 THEN items[i].val ELSE seen[Switches[i]]
                        /\ seen[Switches[i]] \in {0, 1}
      BY <2>1
    <3>1. /\ saved[i] = IF i < pos THEN items[i].val ELSE seen[Switches[i]]
          /\ seen[Switches[i]] \in {0, 1}
      BY <1>10, <2>1, <2>2 DEF ExactInv
    <3>2. i \in Nat /\ pos \in Nat
      BY <1>0, <1>00
    <3> QED BY <2>3, <3>1, <3>2
  <2>5. EntrySet' = ChangedUpTo(pos - 1)'
    <3>1. ChangedUpTo(pos - 1)' = ChangedUpTo(pos) /\ EntrySet' = EntrySet
      <4>1. (pos + 1) - 1 = pos
        BY <1>00
      <4> QED BY <2>1, <4>1 DEF ChangedUpTo, EntryOf, EntrySet
    <3> QED BY <1>10, <2>1, <2>2, <3>1
  <2> QED BY <1>10, <2>1, <2>2, <2>4, <2>5 DEF ExactInv
<1>12. CASE CompareChanged
  <2>1. /\ AtItem /\ pos <= Len(saved) /\ Changed /\ pos' = pos + 1
        /\ entries' = Append(entries, [name |-> items[pos].name, old |-> saved[pos],
                                       new |-> items[pos].val])
        /\ saved' = [saved EXCEPT ![pos] = items[pos].val]
        /\ UNCHANGED <<items, seen, tagged, step, missing>>
    BY <1>12 DEF CompareChanged, SavedNow
  <2>2. SUFFICES ASSUME ~missing
                 PROVE  ExactInv'
    BY <2>1 DEF EntriesInv, AtItem
  <2>3. /\ pos \in 1 .. Len(saved) /\ pos \in DOMAIN items
        /\ Len(saved') = Len(saved) /\ saved'[pos] = items[pos].val
        /\ \A i \in 1 .. Len(saved) : i # pos => saved'[i] = saved[i]
    BY <1>00, <1>10, <2>1, <2>2 DEF AtItem
  <2>4. \A i \in DOMAIN Switches :
          /\ saved'[i] = IF i < pos' THEN items'[i].val ELSE seen'[Switches[i]]
          /\ seen'[Switches[i]] \in {0, 1}
    <3> SUFFICES ASSUME NEW i \in DOMAIN Switches
                 PROVE  /\ saved'[i] = IF i < pos + 1 THEN items[i].val ELSE seen[Switches[i]]
                        /\ seen[Switches[i]] \in {0, 1}
      BY <2>1
    <3>1. /\ saved[i] = IF i < pos THEN items[i].val ELSE seen[Switches[i]]
          /\ seen[Switches[i]] \in {0, 1}
      BY <1>10, <2>1, <2>2 DEF ExactInv
    <3>2. i \in Nat /\ pos \in Nat /\ i \in 1 .. Len(saved)
      BY <1>0, <1>00, <1>10, <2>1, <2>2
    <3>3. CASE i = pos
      BY <2>3, <3>1, <3>2, <3>3
    <3>4. CASE i # pos
      BY <2>3, <3>1, <3>2, <3>4
    <3> QED BY <3>3, <3>4
  <2>5. EntrySet' = ChangedUpTo(pos - 1)'
    <3> DEFINE e == [name |-> items[pos].name, old |-> saved[pos], new |-> items[pos].val]
    <3>1. e = EntryOf(pos)
      BY <1>10, <2>1, <2>2 DEF EntryOf
    <3>2. e \in Changes
      <4>1. items[pos].name \in SwitchNames /\ items[pos].val \in {0, 1}
        BY <1>00, <2>3, ItemTyped
      <4>2. saved[pos] \in {0, 1}
        BY <1>00, <2>3
      <4> QED BY <4>1, <4>2 DEF Changes
    <3>3. entries' = Append(entries, e)
      BY <2>1
    <3> HIDE DEF e
    <3>4. EntrySet' = EntrySet \cup {e}
      <4>1. entries \in Seq(Changes)
        BY <1>00
      <4>2. {entries'[i] : i \in DOMAIN entries'} = {entries[i] : i \in DOMAIN entries} \cup {e}
        BY <3>2, <3>3, <4>1, RangeOfAppend
      <4> QED BY <4>2 DEF EntrySet
    <3>5. ChangedUpTo(pos - 1)' = ChangedUpTo(pos)
      <4>1. (pos + 1) - 1 = pos
        BY <1>00
      <4> QED BY <2>1, <4>1 DEF ChangedUpTo, EntryOf
    <3> QED BY <1>10, <2>1, <2>2, <3>1, <3>4, <3>5
  <2> QED BY <1>10, <2>1, <2>2, <2>3, <2>4, <2>5 DEF ExactInv
<1>13. CASE CompareEnd
  <2>1. /\ step = "compare" /\ step' = "respond" /\ pos = Len(items) + 1
        /\ Same /\ UNCHANGED <<pos, missing>>
    BY <1>13 DEF CompareEnd
  <2>2. SUFFICES ASSUME ~missing
                 PROVE  ExactInv'
    BY <2>1 DEF EntriesInv
  <2>3. /\ Len(items) = Len(Switches) /\ \A i \in DOMAIN items : items[i].name = Switches[i]
        /\ EntrySet = ChangedUpTo(pos - 1)
        /\ \A i \in DOMAIN Switches :
             /\ saved[i] = IF i < pos THEN items[i].val ELSE seen[Switches[i]]
             /\ seen[Switches[i]] \in {0, 1}
    BY <2>1, <2>2 DEF ExactInv
  <2>4. \A i \in DOMAIN Switches : i \in Nat /\ i < pos
    BY <1>0, <1>00, <2>1, <2>3
  <2>5. pos - 1 = Len(items)
    BY <1>00, <2>1
  <2>6. ChangedUpTo(Len(items)) = ChangedSince
    <3> DEFINE J == {j \in 1 .. Len(items) : seen[Switches[j]] # items[j].val}
               K == {j \in DOMAIN items : seen[items[j].name] \notin {Absent, items[j].val}}
    <3>1. J = K
      BY <1>0, <1>00, <2>3 DEF Absent
    <3>2. \A i \in K : EntryOf(i) = [name |-> items[i].name, old |-> seen[items[i].name],
                                     new |-> items[i].val]
      BY <2>3 DEF EntryOf
    <3> HIDE DEF J, K
    <3>3. {EntryOf(i) : i \in J} = {[name |-> items[i].name, old |-> seen[items[i].name],
                                     new |-> items[i].val] : i \in K}
      BY <3>1, <3>2
    <3> QED BY <3>3 DEF J, K, ChangedUpTo, ChangedSince
  <2>7. EntrySet' = ChangedSince'
    <3>1. EntrySet' = EntrySet /\ ChangedSince' = ChangedSince
      BY <2>1 DEF EntrySet, ChangedSince
    <3> QED BY <2>3, <2>5, <2>6, <3>1
  <2>8. \A i \in DOMAIN Switches : saved'[i] = items'[i].val
    BY <2>1, <2>3, <2>4
  <2> QED BY <2>1, <2>2, <2>3, <2>7, <2>8 DEF ExactInv
<1>14. CASE Respond
  <2> DEFINE Its == {items[i] : i \in DOMAIN items}
  <2>1. /\ step = "respond" /\ step' = "idle" /\ items' = <<>> /\ entries' = <<>>
        /\ seen' = [s \in SwitchNames |-> IF \E i \in DOMAIN items : items[i].name = s
                                          THEN (CHOOSE it \in Its : it.name = s).val
                                          ELSE seen[s]]
        /\ UNCHANGED <<tagged, saved, missing>>
    BY <1>14 DEF Respond
  <2>2. SUFFICES ASSUME ~missing
                 PROVE  ExactInv'
    BY <2>1 DEF EntriesInv
  <2>3. tagged
    BY <2>1 DEF HeapInv
  <2>4. /\ Len(saved) = Len(Switches) /\ Len(items) = Len(Switches)
        /\ \A i \in DOMAIN items : items[i].name = Switches[i]
        /\ \A i \in DOMAIN Switches : saved[i] = items[i].val
    BY <2>1, <2>2, <2>3 DEF ExactInv
  <2>5. ASSUME NEW i \in DOMAIN Switches
        PROVE  saved'[i] = seen'[Switches[i]]
    <3>1. i \in DOMAIN items /\ items[i].name = Switches[i] /\ Switches[i] \in SwitchNames
      BY <1>0, <1>00, <2>4
    <3>2. \A it \in Its : it.name = Switches[i] => it = items[i]
      BY <1>0, <1>00, <2>4
    <3>3. items[i] \in Its
      BY <3>1
    <3> HIDE DEF Its
    <3>4. (CHOOSE it \in Its : it.name = Switches[i]) = items[i]
      BY <3>1, <3>2, <3>3
    <3>5. seen'[Switches[i]] = items[i].val
      BY <2>1, <3>1, <3>4
    <3> QED BY <2>1, <2>4, <3>5
  <2>6. DOMAIN items' = {}
    BY <2>1
  <2> QED BY <2>1, <2>2, <2>3, <2>4, <2>5, <2>6 DEF ExactInv
<1>15. WildResponse \/ CompareOverrun \/ RespondNull =>
         Same /\ UNCHANGED <<pos, missing>> /\ step' = "oops"
  BY DEF WildResponse, CompareOverrun, RespondNull
<1>16. CASE Same /\ UNCHANGED <<pos, missing>> /\ step' = "oops"
  BY <1>16 DEF EntriesInv, ExactInv
<1>17. ASSUME NEW s \in SwitchNames, Flip(s)
       PROVE  UNCHANGED <<items, saved, entries, seen, tagged, step, pos, missing>>
  BY <1>17 DEF Flip
<1> QED BY <1>1, <1>2, <1>3, <1>4, <1>5, <1>6, <1>7, <1>8, <1>9, <1>11, <1>12, <1>13, <1>14,
           <1>15, <1>16, <1>17
     DEF PresetNext, presetVars, FirstMeasureFails, CompareStartFails, CompareChangedFails,
         TextFails

\* As long as no collector has failed, a report names exactly the switches that
\* differ from the last measure, with their own old and new values, for every
\* number of switches and whatever they do while the work runs.
THEOREM ReportsNameChanges == PresetSpec => []ReportsExact
<1>1. PresetInit => HeapInv
  BY DEF PresetInit, HeapInv
<1>2. PresetInit => EntriesInv /\ (~missing => ExactInv)
  <2> SUFFICES ASSUME PresetInit
               PROVE  EntriesInv /\ ExactInv
    OBVIOUS
  <2>1. items = <<>> /\ DOMAIN items = {}
    BY DEF PresetInit
  <2> QED BY <2>1 DEF PresetInit, EntriesInv, ExactInv
<1>3. /\ PresetTypeOK /\ ItemsInv /\ HeapInv /\ EntriesInv /\ (~missing => ExactInv)
      /\ [PresetNext]_presetVars
      => HeapInv' /\ EntriesInv' /\ (~missing => ExactInv)'
  BY HeapStep, ExactStep
<1>4. (~missing => ExactInv) => ReportsExact
  BY DEF ExactInv, ReportsExact, EntrySet
<1> QED BY <1>1, <1>2, <1>3, <1>4, PresetTyped, PTL DEF PresetSpec

----------------------------------------------------------------------------
(* Resource monitor: what is in the file, and what a reader has of it.      *)

\* The first k of a sample's n parts.
Parts(s, n, k) == [j \in 1 .. k |-> <<s, j, n>>]

LEMMA PartsFacts ==
  ASSUME NEW s \in Nat, NEW n \in Nat, NEW k \in Nat
  PROVE  /\ Parts(s, n, k) \in Seq(Nat \X Nat \X Nat)
         /\ Len(Parts(s, n, k)) = k /\ DOMAIN Parts(s, n, k) = 1 .. k
         /\ \A j \in 1 .. k : Parts(s, n, k)[j] = <<s, j, n>>
BY DEF Parts

LEMMA PartsGrow ==
  ASSUME NEW s \in Nat, NEW n \in Nat
  PROVE  /\ Parts(s, n, 0) = <<>>
         /\ \A k \in Nat : Append(Parts(s, n, k), <<s, k + 1, n>>) = Parts(s, n, k + 1)
BY DEF Parts

\* One sample's parts in order make a whole text if they are all there, and no
\* other way.
LEMMA PartsWhole ==
  ASSUME NEW s \in Nat, NEW n \in Nat, NEW k \in Nat
  PROVE  /\ k = n /\ n > 0 => Whole(Parts(s, n, k))
         /\ Patched(Parts(s, n, k)) => k = n /\ n > 0
<1> DEFINE p == Parts(s, n, k)
<1>1. Len(p) = k /\ DOMAIN p = 1 .. k /\ \A j \in 1 .. k : p[j] = <<s, j, n>>
  BY PartsFacts
<1> HIDE DEF p
<1>2. k = n /\ n > 0 => Whole(p)
  <2> SUFFICES ASSUME k = n, n > 0
               PROVE  Whole(p)
    OBVIOUS
  <2>1. 1 \in 1 .. k
    OBVIOUS
  <2>2. p[1][1] = s /\ p # <<>>
    BY <1>1, <2>1, Len(<<>>) = 0
  <2> QED BY <1>1, <2>2 DEF Whole
<1>3. Patched(p) => k = n /\ n > 0
  <2> SUFFICES ASSUME Patched(p)
               PROVE  k = n /\ n > 0
    OBVIOUS
  <2>1. 1 \in 1 .. k
    <3>1. k = 0 => p = <<>>
      BY PartsGrow DEF p
    <3> QED BY <3>1 DEF Patched
  <2>2. p[1][3] = k /\ p[1] = <<s, 1, n>>
    BY <1>1, <2>1 DEF Patched
  <2> QED BY <2>1, <2>2
<1> QED BY <1>2, <1>3 DEF p

\* What WritePart finds to be the next part's place.
LEMMA PartsCount ==
  ASSUME NEW s \in Nat, NEW n \in Nat, NEW k \in Nat
  PROVE  Count([j \in DOMAIN Parts(s, n, k) |-> Parts(s, n, k)[j][1]], s) = k
<1> DEFINE f == [j \in DOMAIN Parts(s, n, k) |-> Parts(s, n, k)[j][1]]
<1>1. DOMAIN f = 1 .. k /\ \A j \in 1 .. k : f[j] = s
  <2>1. DOMAIN Parts(s, n, k) = 1 .. k /\ \A j \in 1 .. k : Parts(s, n, k)[j] = <<s, j, n>>
    BY PartsFacts
  <2> QED BY <2>1
<1> HIDE DEF f
<1>2. {j \in DOMAIN f : f[j] = s} = 1 .. k
  BY <1>1
<1>3. Cardinality(1 .. k) = k
  BY FS_Interval
<1>4. Count(f, s) = k
  BY <1>2, <1>3 DEF Count
<1> QED BY <1>4 DEF f

\* The file holds the parts of one sample, in order; all of them unless it is
\* being written, or was when the program ended, or could not be.
FileInv ==
  /\ wstep \in {"sample", "create", "write", "dead"}
  /\ rstep \in {"open", "read", "parse", "printed", "failed", "dead"}
  /\ (wstep = "dead") = (rstep \in {"failed", "dead"})
  /\ leftover \in BOOLEAN /\ cut \in BOOLEAN /\ overlap \in BOOLEAN
  /\ sampleno \in Nat /\ nparts \in Nat
  /\ wstep \in {"create", "write"} => nparts > 0
  /\ wstep = "write" =>
       ~leftover /\ ~cut /\ \E k \in Nat : k < nparts /\ jsonfile = Parts(sampleno, nparts, k)
  /\ jsonfile = Absent0 \/ \E s, n, k \in Nat :
       /\ jsonfile = Parts(s, n, k)
       /\ wstep \notin {"write", "dead"} /\ ~leftover /\ ~cut => k = n /\ n > 0

\* A reader that nobody has written under holds a beginning of the file.
ReadInv ==
  /\ rstep \in {"read", "parse"} /\ ~overlap =>
       /\ wstep # "write"
       /\ \E s, n, k, m \in Nat :
            /\ jsonfile = Parts(s, n, k) /\ got = Parts(s, n, m) /\ m <= k
            /\ rstep = "parse" => m = k
            /\ ~leftover /\ ~cut => k = n /\ n > 0
  /\ rstep = "printed" /\ ~overlap => Whole(got)
  /\ rstep = "failed" /\ ~overlap /\ ~leftover /\ ~cut => Quoted(got)

\* A step of the reader's, which leaves the file.
LEMMA FileKept ==
  ASSUME FileInv, UNCHANGED <<jsonfile, leftover, cut, sampleno, nparts>>,
         overlap' \in BOOLEAN, wstep' \in {wstep, "dead"},
         rstep' \in {"open", "read", "parse", "printed", "failed", "dead"},
         (wstep' = "dead") = (rstep' \in {"failed", "dead"})
  PROVE  FileInv'
<1>1. CASE wstep' = wstep
  BY <1>1 DEF FileInv, Parts
<1>2. CASE wstep' = "dead"
  BY <1>2 DEF FileInv, Parts
<1> QED BY <1>1, <1>2

\* Neither thread outlives the other.
LEMMA DeadTogether ==
  ASSUME FileInv
  PROVE  wstep = "dead" <=> rstep \in {"failed", "dead"}
<1>1. (wstep = "dead") = (rstep \in {"failed", "dead"})
  BY DEF FileInv
<1> QED BY <1>1

LEMMA FileStep ==
  ASSUME FileInv, [MonitorNext]_monVars
  PROVE  FileInv'
<1>1. CASE UNCHANGED monVars
  BY <1>1 DEF FileInv, monVars, Parts
<1>2. CASE TakeSample
  BY <1>2, MonitorAssumption DEF TakeSample, FileInv, fileVars, readVars, Parts
<1>3. CASE SampleThrows
  BY <1>3 DEF SampleThrows, FileInv, fileVars, dataVars, Parts
<1>4. CASE CreateOk
  <2>1. /\ wstep = "create" /\ wstep' = "write" /\ jsonfile' = <<>> /\ ~leftover' /\ ~cut'
        /\ UNCHANGED <<sampleno, nparts, rstep>> /\ overlap' \in BOOLEAN
    BY <1>4 DEF CreateOk, CreateFile, Touches, Truncated, FileInv
  <2>2. sampleno \in Nat /\ nparts \in Nat /\ 0 < nparts /\ 0 \in Nat
    BY <2>1 DEF FileInv
  <2>3. jsonfile' = Parts(sampleno', nparts', 0)
    BY <2>1, <2>2, PartsGrow
  <2>4. /\ \E k \in Nat : k < nparts' /\ jsonfile' = Parts(sampleno', nparts', k)
        /\ \E s, n, k \in Nat : jsonfile' = Parts(s, n, k)
    BY <2>1, <2>2, <2>3
  <2>5. /\ wstep' \in {"sample", "create", "write", "dead"}
        /\ rstep' \in {"open", "read", "parse", "printed", "failed", "dead"}
        /\ (wstep' = "dead") = (rstep' \in {"failed", "dead"})
    BY <2>1 DEF FileInv
  <2>6. leftover' \in BOOLEAN /\ cut' \in BOOLEAN /\ wstep' \in {"write", "dead"} /\ nparts' > 0
    BY <1>4, <2>1, <2>2 DEF CreateOk
  <2> QED BY <2>1, <2>2, <2>4, <2>5, <2>6, Zenon DEF FileInv
<1>5. CASE CreateElsewhere
  BY <1>5 DEF CreateElsewhere, CreateFile, FileInv, fileVars, Parts
<1>6. CASE WritePart
  <2>1. PICK k \in Nat : k < nparts /\ jsonfile = Parts(sampleno, nparts, k)
    BY <1>6 DEF WritePart, FileInv
  <2>2. sampleno \in Nat /\ nparts \in Nat
    BY DEF FileInv
  <2>3. Len(jsonfile) = k /\ \A j \in 1 .. k : jsonfile[j] = <<sampleno, j, nparts>>
    BY <2>1, <2>2, PartsFacts
  <2>4. Count([j \in DOMAIN jsonfile |-> jsonfile[j][1]], sampleno) = k
    BY <2>1, <2>2, PartsCount
  <2>5. jsonfile' = Parts(sampleno, nparts, k + 1)
    <3>1. jsonfile' = [j \in 1 .. (IF k < k + 1 THEN k + 1 ELSE k) |->
                         IF j = k + 1 THEN <<sampleno, k + 1, nparts>> ELSE jsonfile[j]]
      BY <1>6, <2>3, <2>4 DEF WritePart
    <3>2. jsonfile' = [j \in 1 .. k + 1 |-> <<sampleno, j, nparts>>]
      BY <2>3, <3>1
    <3> QED BY <3>2 DEF Parts
  <2>6. /\ wstep = "write" /\ wstep' = IF k + 1 = nparts THEN "sample" ELSE "write"
        /\ UNCHANGED <<leftover, cut, sampleno, nparts, rstep>> /\ overlap' \in BOOLEAN
    BY <1>6, <2>4 DEF WritePart, Touches, dataVars, FileInv
  <2>7. k + 1 \in Nat /\ (k + 1 = nparts \/ k + 1 < nparts)
    BY <2>1, <2>2
  <2> QED BY <2>1, <2>2, <2>5, <2>6, <2>7 DEF FileInv
<1>7. CASE OpenToRead
  <2>1. /\ UNCHANGED <<jsonfile, leftover, cut, sampleno, nparts>> /\ overlap' = (wstep = "write")
        /\ rstep = "open" /\ rstep' = (IF jsonfile = Absent0 THEN "dead" ELSE "read")
        /\ wstep' = (IF jsonfile = Absent0 THEN "dead" ELSE wstep)
    BY <1>7 DEF OpenToRead, fileVars, dataVars
  <2>2. wstep # "dead"
    <3>1. rstep = "open"
      BY <2>1
    <3> QED BY <3>1, DeadTogether
  <2>3. overlap' \in BOOLEAN
    BY <2>1
  <2>4. CASE jsonfile = Absent0
    <3>1. wstep' = "dead" /\ rstep' = "dead"
      BY <2>1, <2>4
    <3>2. (wstep' = "dead") = (rstep' \in {"failed", "dead"})
      BY <3>1
    <3> QED BY <2>1, <2>3, <3>1, <3>2, FileKept
  <2>5. CASE jsonfile # Absent0
    <3>1. wstep' = wstep /\ rstep' = "read"
      BY <2>1, <2>5
    <3>2. (wstep' = "dead") = (rstep' \in {"failed", "dead"})
      BY <2>2, <3>1
    <3> QED BY <2>1, <2>3, <3>1, <3>2, FileKept
  <2> QED BY <2>4, <2>5
<1>8. CASE ReadPart
  BY <1>8 DEF ReadPart, FileInv, fileVars, dataVars, Parts
<1>9. CASE ParsePrint
  BY <1>9 DEF ParsePrint, FileInv, fileVars, dataVars, Parts
<1>10. CASE ParseError
  BY <1>10 DEF ParseError, FileInv, fileVars, dataVars, Parts
<1>11. CASE ReaderSleeps
  <2>1. /\ UNCHANGED <<jsonfile, leftover, cut, sampleno, nparts, wstep>> /\ overlap' = FALSE
        /\ rstep = "printed" /\ rstep' = "open"
    BY <1>11 DEF ReaderSleeps, fileVars, dataVars
  <2>2. wstep # "dead"
    BY <2>1, DeadTogether
  <2>3. (wstep' = "dead") = (rstep' \in {"failed", "dead"})
    BY <2>1, <2>2
  <2>4. overlap' \in BOOLEAN /\ rstep' \in {"open", "read", "parse", "printed", "failed", "dead"}
    BY <2>1
  <2> QED BY <2>1, <2>3, <2>4, FileKept
<1>12. CASE Restart
  <2>1. /\ UNCHANGED <<jsonfile, cut, sampleno, nparts>> /\ overlap' = FALSE
        /\ wstep' = "sample" /\ rstep' = "open" /\ leftover' = (jsonfile # Absent0)
    BY <1>12 DEF Restart
  <2>2. jsonfile = Absent0 \/ \E s, n, k \in Nat : jsonfile = Parts(s, n, k)
    BY DEF FileInv
  <2>3. /\ (wstep' = "dead") = (rstep' \in {"failed", "dead"})
        /\ leftover' \in BOOLEAN /\ cut' \in BOOLEAN /\ overlap' \in BOOLEAN
        /\ sampleno' \in Nat /\ nparts' \in Nat
        /\ wstep' \in {"sample", "create", "write", "dead"}
        /\ rstep' \in {"open", "read", "parse", "printed", "failed", "dead"}
    <3>1. wstep' = "sample" /\ rstep' = "open"
      BY <2>1
    <3>2. (wstep' = "dead") = (rstep' \in {"failed", "dead"})
      BY <3>1
    <3>3. leftover' \in BOOLEAN /\ overlap' \in BOOLEAN
      BY <2>1
    <3>4. cut \in BOOLEAN /\ sampleno \in Nat /\ nparts \in Nat
      BY DEF FileInv
    <3>5. cut' \in BOOLEAN /\ sampleno' \in Nat /\ nparts' \in Nat
      BY <2>1, <3>4
    <3> QED BY <3>1, <3>2, <3>3, <3>5
  <2>4. jsonfile' = Absent0 \/ (leftover' /\ \E s, n, k \in Nat : jsonfile' = Parts(s, n, k))
    BY <2>1, <2>2 DEF Parts
  <2> QED BY <2>1, <2>3, <2>4 DEF FileInv
<1>13. CASE WriteCut
  BY <1>13 DEF WriteCut, FileInv, dataVars, readVars, Parts
<1>14. CASE ReadThrows
  BY <1>14 DEF ReadThrows, FileInv, fileVars, dataVars, Parts
<1> QED BY <1>1, <1>2, <1>3, <1>4, <1>5, <1>6, <1>7, <1>8, <1>9, <1>10, <1>11, <1>12, <1>13,
           <1>14
     DEF MonitorNext

LEMMA ReadStep ==
  ASSUME FileInv, ReadInv, [MonitorNext]_monVars
  PROVE  ReadInv'
<1>1. CASE UNCHANGED monVars
  BY <1>1 DEF ReadInv, monVars, Parts, Whole, Quoted
<1>2. CASE TakeSample
  <2>1. rstep # "failed" /\ UNCHANGED <<fileVars, readVars>> /\ wstep' = "create"
    BY <1>2 DEF TakeSample, FileInv
  <2> QED BY <2>1 DEF ReadInv, fileVars, readVars, Parts, Whole
<1>3. CASE SampleThrows
  BY <1>3 DEF SampleThrows, ReadInv
<1>4. CASE CreateOk
  <2>1. /\ UNCHANGED <<rstep, got>> /\ overlap' = (overlap \/ rstep \in {"read", "parse"})
        /\ wstep = "create"
    BY <1>4 DEF CreateOk, CreateFile, Touches
  <2>2. rstep # "failed"
    BY <2>1 DEF FileInv
  <2> QED BY <2>1, <2>2 DEF ReadInv, Whole
<1>5. CASE CreateElsewhere
  BY <1>5 DEF CreateElsewhere, CreateFile, ReadInv, fileVars, Parts, Whole, Quoted
<1>6. CASE WritePart
  <2>1. /\ UNCHANGED <<rstep, got, leftover>> /\ wstep = "write"
        /\ overlap' = (overlap \/ rstep \in {"read", "parse"})
    BY <1>6 DEF WritePart, Touches
  <2>2. rstep # "failed"
    BY <2>1 DEF FileInv
  <2> QED BY <2>1, <2>2 DEF ReadInv, Whole
<1>7. CASE OpenToRead
  <2>1. /\ rstep = "open" /\ got' = <<>> /\ overlap' = (wstep = "write")
        /\ rstep' = (IF jsonfile = Absent0 THEN "dead" ELSE "read")
        /\ wstep' = (IF jsonfile = Absent0 THEN "dead" ELSE wstep)
        /\ UNCHANGED <<jsonfile, leftover, cut>>
    BY <1>7 DEF OpenToRead, fileVars
  <2>2. CASE jsonfile = Absent0
    BY <2>1, <2>2 DEF ReadInv
  <2>3. CASE jsonfile # Absent0
    <3>1. PICK s, n, k \in Nat : /\ jsonfile = Parts(s, n, k)
                                 /\ wstep \notin {"write", "dead"} /\ ~leftover /\ ~cut => k = n /\ n > 0
      BY <2>3 DEF FileInv
    <3>2. wstep # "dead"
      BY <2>1 DEF FileInv
    <3>3. got' = Parts(s, n, 0) /\ 0 <= k /\ 0 \in Nat
      BY <2>1, PartsGrow
    <3> QED BY <2>1, <2>3, <3>1, <3>2, <3>3 DEF ReadInv
  <2> QED BY <2>2, <2>3
<1>8. CASE ReadPart
  <2>1. /\ rstep = "read" /\ UNCHANGED <<wstep, jsonfile, leftover, cut, overlap>>
        /\ \/ /\ Len(got) + 1 <= Len(jsonfile) /\ rstep' = "read"
              /\ got' = Append(got, jsonfile[Len(got) + 1])
           \/ ~(Len(got) + 1 <= Len(jsonfile)) /\ rstep' = "parse" /\ got' = got
    BY <1>8 DEF ReadPart, fileVars
  <2>2. CASE overlap
    BY <2>1, <2>2 DEF ReadInv
  <2>3. CASE ~overlap
    <3>1. PICK s, n, k, m \in Nat :
            /\ jsonfile = Parts(s, n, k) /\ got = Parts(s, n, m) /\ m <= k
            /\ ~leftover /\ ~cut => k = n /\ n > 0
      BY <2>1, <2>3 DEF ReadInv
    <3>2. Len(jsonfile) = k /\ Len(got) = m /\ \A j \in 1 .. k : jsonfile[j] = <<s, j, n>>
      BY <3>1, PartsFacts
    <3>3. wstep # "write"
      BY <2>1, <2>3 DEF ReadInv
    <3>4. CASE m + 1 <= k
      <4>1. jsonfile[m + 1] = <<s, m + 1, n>>
        BY <3>2, <3>4
      <4>2. got' = Parts(s, n, m + 1) /\ rstep' = "read"
        <5>1. got' = Append(Parts(s, n, m), <<s, m + 1, n>>) /\ rstep' = "read"
          BY <2>1, <3>1, <3>2, <3>4, <4>1
        <5> QED BY <5>1, PartsGrow
      <4>3. m + 1 \in Nat
        OBVIOUS
      <4> QED BY <2>1, <3>1, <3>3, <3>4, <4>2, <4>3 DEF ReadInv
    <3>5. CASE ~(m + 1 <= k)
      <4>1. m = k /\ rstep' = "parse" /\ got' = got
        BY <2>1, <3>1, <3>2, <3>5
      <4> QED BY <2>1, <3>1, <3>3, <4>1 DEF ReadInv
    <3> QED BY <3>4, <3>5
  <2> QED BY <2>2, <2>3
<1>9. CASE ParsePrint
  <2>1. /\ rstep = "parse" /\ Patched(got) /\ rstep' = "printed"
        /\ UNCHANGED <<got, overlap>>
    BY <1>9 DEF ParsePrint
  <2>2. ~overlap => Whole(got)
    <3>1. SUFFICES ASSUME ~overlap
                   PROVE  Whole(got)
      OBVIOUS
    <3>2. PICK s, n, k \in Nat : got = Parts(s, n, k)
      BY <2>1, <3>1 DEF ReadInv
    <3>3. k = n /\ n > 0
      BY <2>1, <3>2, PartsWhole
    <3> QED BY <3>2, <3>3, PartsWhole
  <2> QED BY <2>1, <2>2 DEF ReadInv, Whole
<1>10. CASE ParseError
  <2>1. /\ rstep = "parse" /\ (~Whole(got) \/ Quoted(got)) /\ rstep' = "failed"
        /\ UNCHANGED <<got, overlap, leftover, cut, quoted>>
    BY <1>10 DEF ParseError, fileVars, dataVars
  <2>2. overlap \/ leftover \/ cut \/ Quoted(got)
    <3>1. SUFFICES ASSUME ~overlap, ~leftover, ~cut, ~Quoted(got)
                   PROVE  FALSE
      OBVIOUS
    <3>2. PICK s, n, k \in Nat : got = Parts(s, n, k) /\ k = n /\ n > 0
      BY <2>1, <3>1 DEF ReadInv
    <3>3. Whole(got)
      BY <3>2, PartsWhole
    <3> QED BY <2>1, <3>1, <3>3
  <2>3. Quoted(got)' = Quoted(got)
    BY <2>1 DEF Quoted
  <2> QED BY <2>1, <2>2, <2>3 DEF ReadInv
<1>11. CASE ReaderSleeps
  BY <1>11 DEF ReaderSleeps, ReadInv
<1>12. CASE Restart
  BY <1>12 DEF Restart, ReadInv
<1>13. CASE WriteCut
  <2>1. wstep = "write" /\ UNCHANGED <<rstep, got, overlap>> /\ rstep # "failed"
    BY <1>13 DEF WriteCut, readVars, FileInv
  <2> QED BY <2>1 DEF ReadInv, Whole
<1>14. CASE ReadThrows
  BY <1>14 DEF ReadThrows, ReadInv
<1> QED BY <1>1, <1>2, <1>3, <1>4, <1>5, <1>6, <1>7, <1>8, <1>9, <1>10, <1>11, <1>12, <1>13,
           <1>14
     DEF MonitorNext

\* Without a lock between the threads, the reader ends over a text only if it
\* was written while it was read, left by an earlier run or written short, or
\* lost a backslash that it needed, and prints what no sample said only in the
\* first two cases: however many parts a sample has, whatever names it shows,
\* and however often the program dies.
THEOREM ReaderRaces == MonitorSpec => []ReaderFailuresExplained
<1>1. MonitorInit => FileInv /\ ReadInv
  <2>1. MonitorInit => FileInv
    <3>1. SUFFICES ASSUME MonitorInit
                   PROVE  FileInv
      OBVIOUS
    <3>2. /\ wstep \in {"sample", "create", "write", "dead"}
          /\ rstep \in {"open", "read", "parse", "printed", "failed", "dead"}
          /\ (wstep = "dead") = (rstep \in {"failed", "dead"})
      BY <3>1 DEF MonitorInit
    <3>3. leftover \in BOOLEAN /\ cut \in BOOLEAN /\ overlap \in BOOLEAN
      BY <3>1 DEF MonitorInit
    <3>4. sampleno \in Nat /\ nparts \in Nat
      BY <3>1 DEF MonitorInit
    <3>5. wstep \notin {"create", "write"} /\ jsonfile = Absent0
      BY <3>1 DEF MonitorInit
    <3> QED BY <3>2, <3>3, <3>4, <3>5, Zenon DEF FileInv
  <2>2. MonitorInit => ReadInv
    BY DEF MonitorInit, ReadInv
  <2> QED BY <2>1, <2>2
<1>2. FileInv /\ ReadInv /\ [MonitorNext]_monVars => FileInv' /\ ReadInv'
  BY FileStep, ReadStep
<1>3. ReadInv => ReaderFailuresExplained
  BY DEF ReadInv, ReaderFailuresExplained
<1> QED BY <1>1, <1>2, <1>3, PTL DEF MonitorSpec

----------------------------------------------------------------------------
(* Functions on the sequences that the units' loops walk along.             *)

LEMMA TypedAlong ==
  ASSUME NEW V, NEW n \in Nat, NEW h, h = [i \in 0 .. n |-> h[i]], h[0] \in V,
         \A i \in 1 .. n : h[i - 1] \in V => h[i] \in V
  PROVE  h \in [0 .. n -> V]
<1> DEFINE T == {i \in 0 .. n : h[i] \in V}
<1>1. 0 \in T /\ \A i \in 1 .. n : i - 1 \in T => i \in T
  OBVIOUS
<1> HIDE DEF T
<1>2. 0 .. n \subseteq T
  BY <1>1, InductionUpTo
<1>3. \A i \in 0 .. n : h[i] \in V
  BY <1>2 DEF T
<1> QED BY <1>3

LEMMA NatRecursion ==
  \A n \in Nat : \A F \in [Nat \X (1 .. n) -> Nat] :
    \E g \in [0 .. n -> Nat] : g[0] = 0 /\ \A i \in 1 .. n : g[i] = F[<<g[i - 1], i>>]
<1> TAKE n \in Nat
<1> DEFINE V == Nat
           zero == 0
<1>1. zero \in V
  OBVIOUS
<1> HIDE DEF V, zero
<1>2. ASSUME NEW F \in [V \X (1 .. n) -> V]
      PROVE  \E g \in [0 .. n -> V] : g[0] = zero /\ \A i \in 1 .. n : g[i] = F[<<g[i - 1], i>>]
  <2>1. F \in StepsOf(V, n)
    BY DEF StepsOf
  <2>2. \E g \in Walks(V, n) : Follows(g, zero, n, F)
    BY <1>1, <2>1, Recursion
  <2> QED BY <2>2 DEF Walks, Follows
<1> QED BY <1>2 DEF V, zero

\* What Total and TextLength add up.
Sums(s) == CHOOSE sum :
  sum = [i \in 0 .. Len(s) |-> IF i = 0 THEN 0 ELSE sum[i - 1] + s[i]]
Lengths(s) == CHOOSE sum :
  sum = [i \in 0 .. Len(s) |-> IF i = 0 THEN 0 ELSE sum[i - 1] + NameLength[s[i]] + 2]

LEMMA SumsFacts ==
  ASSUME NEW s \in Seq(Nat)
  PROVE  /\ Sums(s) \in [0 .. Len(s) -> Nat] /\ Sums(s)[0] = 0
         /\ \A i \in 1 .. Len(s) : Sums(s)[i] = Sums(s)[i - 1] + s[i]
<1> DEFINE n == Len(s)
           F == [x \in Nat \X (1 .. n) |-> x[1] + s[x[2]]]
           Is(sum) == sum = [i \in 0 .. n |-> IF i = 0 THEN 0 ELSE sum[i - 1] + s[i]]
           h == Sums(s)
<1>1. n \in Nat /\ \A i \in 1 .. n : s[i] \in Nat
  OBVIOUS
<1> HIDE DEF n
<1>2. F \in [Nat \X (1 .. n) -> Nat] /\ \A x \in Nat, i \in 1 .. n : F[<<x, i>>] = x + s[i]
  BY <1>1
<1> HIDE DEF F
<1>3. PICK g \in [0 .. n -> Nat] : g[0] = 0 /\ \A i \in 1 .. n : g[i] = F[<<g[i - 1], i>>]
  <2>1. n \in Nat /\ F \in [Nat \X (1 .. n) -> Nat]
    BY <1>1, <1>2
  <2> QED BY <2>1, NatRecursion
<1>4. \A i \in 1 .. n : g[i] = g[i - 1] + s[i]
  <2>1. \A i \in 1 .. n : i - 1 \in 0 .. n
    BY <1>1
  <2> QED BY <1>2, <1>3, <2>1
<1>5. Is(g)
  BY <1>3, <1>4
<1>6. h = CHOOSE sum : Is(sum)
  BY DEF Sums, n
<1> HIDE DEF Is, h
<1>7. Is(h)
  BY <1>5, <1>6
<1>8. /\ h = [i \in 0 .. n |-> h[i]] /\ h[0] = 0
      /\ \A i \in 1 .. n : h[i] = h[i - 1] + s[i]
  <2>1. h = [i \in 0 .. n |-> IF i = 0 THEN 0 ELSE h[i - 1] + s[i]]
    BY <1>7 DEF Is
  <2>2. \A i \in 0 .. n : h[i] = IF i = 0 THEN 0 ELSE h[i - 1] + s[i]
    BY <2>1
  <2>3. h = [i \in 0 .. n |-> h[i]]
    BY <2>1
  <2>4. 0 \in 0 .. n /\ \A i \in 1 .. n : i \in 0 .. n /\ i # 0
    BY <1>1
  <2> QED BY <2>2, <2>3, <2>4
<1>9. h \in [0 .. n -> Nat]
  <2>1. h[0] \in Nat
    BY <1>8
  <2>a. ASSUME NEW i \in 1 .. n, h[i - 1] \in Nat
        PROVE  h[i] \in Nat
    <3>1. h[i] = h[i - 1] + s[i] /\ s[i] \in Nat
      BY <1>1, <1>8
    <3> QED BY <2>a, <3>1
  <2>2. h = [i \in 0 .. n |-> h[i]]
    BY <1>8
  <2> QED BY <1>1, <2>1, <2>a, <2>2, TypedAlong
<1> QED BY <1>8, <1>9 DEF h, n

LEMMA LengthsFacts ==
  ASSUME NEW s \in Seq(DOMAIN NameLength)
  PROVE  /\ Lengths(s) \in [0 .. Len(s) -> Nat] /\ Lengths(s)[0] = 0
         /\ \A i \in 1 .. Len(s) :
              Lengths(s)[i] = Lengths(s)[i - 1] + NameLength[s[i]] + 2
<1> DEFINE n == Len(s)
           F == [x \in Nat \X (1 .. n) |-> x[1] + NameLength[s[x[2]]] + 2]
           Is(sum) == sum = [i \in 0 .. n |-> IF i = 0 THEN 0 ELSE sum[i - 1] + NameLength[s[i]] + 2]
           h == Lengths(s)
<1>1. n \in Nat /\ \A i \in 1 .. n : NameLength[s[i]] \in Nat
  BY CasesAssumption
<1> HIDE DEF n
<1>2. /\ F \in [Nat \X (1 .. n) -> Nat]
      /\ \A x \in Nat, i \in 1 .. n : F[<<x, i>>] = x + NameLength[s[i]] + 2
  BY <1>1
<1> HIDE DEF F
<1>3. PICK g \in [0 .. n -> Nat] : g[0] = 0 /\ \A i \in 1 .. n : g[i] = F[<<g[i - 1], i>>]
  <2>1. n \in Nat /\ F \in [Nat \X (1 .. n) -> Nat]
    BY <1>1, <1>2
  <2> QED BY <2>1, NatRecursion
<1>4. \A i \in 1 .. n : g[i] = g[i - 1] + NameLength[s[i]] + 2
  <2>1. \A i \in 1 .. n : i - 1 \in 0 .. n
    BY <1>1
  <2> QED BY <1>2, <1>3, <2>1
<1>5. Is(g)
  BY <1>3, <1>4
<1>6. h = CHOOSE sum : Is(sum)
  BY DEF Lengths, n
<1> HIDE DEF Is, h
<1>7. Is(h)
  BY <1>5, <1>6
<1>8. /\ h = [i \in 0 .. n |-> h[i]] /\ h[0] = 0
      /\ \A i \in 1 .. n : h[i] = h[i - 1] + NameLength[s[i]] + 2
  <2>1. h = [i \in 0 .. n |-> IF i = 0 THEN 0 ELSE h[i - 1] + NameLength[s[i]] + 2]
    BY <1>7 DEF Is
  <2>2. \A i \in 0 .. n : h[i] = IF i = 0 THEN 0 ELSE h[i - 1] + NameLength[s[i]] + 2
    BY <2>1
  <2>3. h = [i \in 0 .. n |-> h[i]]
    BY <2>1
  <2>4. 0 \in 0 .. n /\ \A i \in 1 .. n : i \in 0 .. n /\ i # 0
    BY <1>1
  <2> QED BY <2>2, <2>3, <2>4
<1>9. h \in [0 .. n -> Nat]
  <2>1. h[0] \in Nat
    BY <1>8
  <2>a. ASSUME NEW i \in 1 .. n, h[i - 1] \in Nat
        PROVE  h[i] \in Nat
    <3>1. h[i] = h[i - 1] + NameLength[s[i]] + 2 /\ NameLength[s[i]] \in Nat
      BY <1>1, <1>8
    <3> QED BY <2>a, <3>1
  <2>2. h = [i \in 0 .. n |-> h[i]]
    BY <1>8
  <2> QED BY <1>1, <2>1, <2>a, <2>2, TypedAlong
<1> QED BY <1>8, <1>9 DEF h, n

\* How often x is among the first k of s.
Upto(s, x, k) == Cardinality({i \in 1 .. k : s[i] = x})

LEMMA UptoFacts ==
  ASSUME NEW S, NEW s \in Seq(S), NEW x
  PROVE  /\ Upto(s, x, 0) = 0 /\ Upto(s, x, Len(s)) = Count(s, x) /\ Count(s, x) \in Nat
         /\ \A k \in 1 .. Len(s) :
              /\ Upto(s, x, k) \in Nat /\ Upto(s, x, k - 1) \in Nat
              /\ Upto(s, x, k) = Upto(s, x, k - 1) + IF s[k] = x THEN 1 ELSE 0
<1> DEFINE E(k) == {i \in 1 .. k : s[i] = x}
<1>1. \A k \in Nat : IsFiniteSet(E(k)) /\ Cardinality(E(k)) \in Nat
  <2> SUFFICES ASSUME NEW k \in Nat PROVE IsFiniteSet(E(k)) /\ Cardinality(E(k)) \in Nat
    OBVIOUS
  <2>1. IsFiniteSet(1 .. k) /\ E(k) \in SUBSET (1 .. k)
    BY FS_Interval
  <2>2. IsFiniteSet(E(k))
    BY <2>1, FS_Subset
  <2> QED BY <2>2, FS_CardinalityType
<1>2. E(0) = {} /\ Cardinality({}) = 0
  BY FS_EmptySet
<1>3. Len(s) \in Nat /\ DOMAIN s = 1 .. Len(s)
  OBVIOUS
<1>4. ASSUME NEW k \in 1 .. Len(s)
      PROVE  Cardinality(E(k)) = Cardinality(E(k - 1)) + IF s[k] = x THEN 1 ELSE 0
  <2>1. k - 1 \in Nat /\ k \notin E(k - 1)
    OBVIOUS
  <2>2. IsFiniteSet(E(k - 1)) /\ Cardinality(E(k - 1)) \in Nat
    BY <1>1, <2>1
  <2>3. CASE s[k] = x
    <3>1. E(k) = E(k - 1) \cup {k}
      BY <2>3
    <3> HIDE DEF E
    <3> QED BY <2>1, <2>2, <2>3, <3>1, FS_AddElement
  <2>4. CASE s[k] # x
    <3>1. E(k) = E(k - 1)
      BY <2>4
    <3> HIDE DEF E
    <3> QED BY <2>2, <2>4, <3>1
  <2> QED BY <2>3, <2>4
<1>5. Upto(s, x, Len(s)) = Count(s, x)
  BY <1>3 DEF Upto, Count
<1>6. \A k \in Nat : Upto(s, x, k) = Cardinality(E(k))
  BY DEF Upto
<1> HIDE DEF E
<1>7. ASSUME NEW k \in 1 .. Len(s)
      PROVE  /\ Upto(s, x, k) \in Nat /\ Upto(s, x, k - 1) \in Nat
             /\ Upto(s, x, k) = Upto(s, x, k - 1) + IF s[k] = x THEN 1 ELSE 0
  <2>1. k \in Nat /\ k - 1 \in Nat
    BY <1>3
  <2>2. Upto(s, x, k) = Cardinality(E(k)) /\ Upto(s, x, k - 1) = Cardinality(E(k - 1))
    BY <1>6, <2>1
  <2>3. Cardinality(E(k)) \in Nat /\ Cardinality(E(k - 1)) \in Nat
    BY <1>1, <2>1
  <2>4. Cardinality(E(k)) = Cardinality(E(k - 1)) + IF s[k] = x THEN 1 ELSE 0
    BY <1>4
  <2> QED BY <2>2, <2>3, <2>4
<1>8. Upto(s, x, 0) = 0 /\ Count(s, x) \in Nat
  <2>1. 0 \in Nat
    OBVIOUS
  <2>2. Upto(s, x, 0) = 0
    BY <1>2, <1>6, <2>1
  <2> QED BY <1>1, <1>3, <1>5, <1>6, <2>2
<1> QED BY <1>5, <1>7, <1>8

LEMMA CountAppend ==
  ASSUME NEW S, NEW s \in Seq(S), NEW y \in S, NEW x
  PROVE  Count(Append(s, y), x) = Count(s, x) + IF y = x THEN 1 ELSE 0
<1> DEFINE t == Append(s, y)
           n == Len(s)
<1>1. /\ t \in Seq(S) /\ Len(t) = n + 1 /\ t[n + 1] = y /\ n \in Nat
      /\ \A i \in 1 .. n : t[i] = s[i]
  OBVIOUS
<1> HIDE DEF t
<1>2. n + 1 \in 1 .. Len(t) /\ (n + 1) - 1 = n
  BY <1>1
<1>3. Count(t, x) = Upto(t, x, n) + IF y = x THEN 1 ELSE 0
  BY <1>1, <1>2, UptoFacts
<1>4. Upto(t, x, n) = Upto(s, x, n)
  <2>1. {i \in 1 .. n : t[i] = x} = {i \in 1 .. n : s[i] = x}
    BY <1>1
  <2> QED BY <2>1 DEF Upto
<1>5. Upto(s, x, n) = Count(s, x)
  BY UptoFacts
<1> QED BY <1>3, <1>4, <1>5 DEF t

----------------------------------------------------------------------------
(* Resource monitor: what the collectors compute.                           *)

\* A sequence without its element m, and how often x is left in it.
LEMMA RemoveAtFacts ==
  ASSUME NEW S, NEW s \in Seq(S), NEW m \in 1 .. Len(s)
  PROVE  /\ RemoveAt(s, m) \in Seq(S) /\ Len(RemoveAt(s, m)) = Len(s) - 1
         /\ \A i \in 1 .. m - 1 : RemoveAt(s, m)[i] = s[i]
         /\ \A i \in m .. Len(s) - 1 : RemoveAt(s, m)[i] = s[i + 1]
<1> DEFINE n == Len(s)
           a == SubSeq(s, 1, m - 1)
           b == SubSeq(s, m + 1, n)
<1>1. n \in Nat /\ m \in Nat /\ m >= 1 /\ m <= n
  OBVIOUS
<1>2. a \in Seq(S) /\ Len(a) = m - 1 /\ \A i \in 1 .. m - 1 : a[i] = s[i]
  OBVIOUS
<1>3. b \in Seq(S) /\ Len(b) = n - m /\ \A i \in 1 .. n - m : b[i] = s[m + i]
  OBVIOUS
<1>4. RemoveAt(s, m) = a \o b
  BY DEF RemoveAt
<1> HIDE DEF a, b, n
<1>a. a \in Seq(S)
  BY <1>2
<1>b. b \in Seq(S)
  BY <1>3
<1>5. /\ a \o b \in Seq(S) /\ Len(a \o b) = Len(a) + Len(b)
      /\ \A k \in 1 .. Len(a) : (a \o b)[k] = a[k]
      /\ \A k \in 1 .. Len(b) : (a \o b)[Len(a) + k] = b[k]
  BY <1>a, <1>b, Concat, SMT
<1> DEFINE t == a \o b
<1> HIDE DEF t
<1>c. t \in Seq(S) /\ Len(t) = Len(a) + Len(b)
  BY <1>5 DEF t
<1>d. /\ \A k \in 1 .. Len(a) : t[k] = a[k]
      /\ \A k \in 1 .. Len(b) : t[Len(a) + k] = b[k]
  BY <1>5 DEF t
<1>6. /\ t \in Seq(S) /\ Len(t) = n - 1
      /\ \A k \in 1 .. m - 1 : t[k] = s[k]
      /\ \A k \in 1 .. n - m : t[m - 1 + k] = s[m + k]
  <2>1. Len(t) = n - 1
    BY <1>1, <1>2, <1>3, <1>c
  <2>2. \A k \in 1 .. m - 1 : t[k] = s[k]
    BY <1>2, <1>d
  <2>3. \A k \in 1 .. n - m : t[m - 1 + k] = s[m + k]
    BY <1>2, <1>3, <1>d
  <2> QED BY <1>c, <2>1, <2>2, <2>3
<1>7. ASSUME NEW i \in m .. n - 1
      PROVE  t[i] = s[i + 1]
  <2>1. /\ i + 1 - m \in 1 .. n - m /\ m - 1 + (i + 1 - m) = i
        /\ m + (i + 1 - m) = i + 1
    BY <1>1
  <2> QED BY <1>6, <2>1
<1> QED BY <1>4, <1>6, <1>7 DEF t, n

LEMMA CountRemoveAt ==
  ASSUME NEW S, NEW s \in Seq(S), NEW m \in 1 .. Len(s), NEW x
  PROVE  Count(RemoveAt(s, m), x) = Count(s, x) - IF s[m] = x THEN 1 ELSE 0
<1> DEFINE n == Len(s)
           t == RemoveAt(s, m)
           d == IF s[m] = x THEN 1 ELSE 0
           T == {k \in 0 .. n - 1 :
                   Upto(t, x, k) = IF k < m THEN Upto(s, x, k) ELSE Upto(s, x, k + 1) - d}
<1>1. n \in Nat /\ m \in Nat /\ m >= 1 /\ m <= n /\ n - 1 \in Nat /\ d \in {0, 1}
  OBVIOUS
<1>2. /\ t \in Seq(S) /\ Len(t) = n - 1
      /\ \A i \in 1 .. m - 1 : t[i] = s[i]
      /\ \A i \in m .. n - 1 : t[i] = s[i + 1]
  BY RemoveAtFacts
<1>a. t \in Seq(S)
  BY <1>2
<1> HIDE DEF t
<1>3. /\ Upto(s, x, 0) = 0 /\ Upto(s, x, n) = Count(s, x)
      /\ \A k \in 1 .. n :
           /\ Upto(s, x, k) \in Nat /\ Upto(s, x, k - 1) \in Nat
           /\ Upto(s, x, k) = Upto(s, x, k - 1) + IF s[k] = x THEN 1 ELSE 0
  BY UptoFacts
<1>4. /\ Upto(t, x, 0) = 0 /\ Upto(t, x, n - 1) = Count(t, x)
      /\ \A k \in 1 .. n - 1 :
           Upto(t, x, k) = Upto(t, x, k - 1) + IF t[k] = x THEN 1 ELSE 0
  <2>1. /\ Upto(t, x, 0) = 0 /\ Upto(t, x, Len(t)) = Count(t, x)
        /\ \A k \in 1 .. Len(t) :
             Upto(t, x, k) = Upto(t, x, k - 1) + IF t[k] = x THEN 1 ELSE 0
    BY <1>a, UptoFacts
  <2>2. Len(t) = n - 1
    BY <1>2
  <2> QED BY <2>1, <2>2
<1>5. 0 \in T
  BY <1>1, <1>3, <1>4
<1>6. ASSUME NEW k \in 1 .. n - 1, k - 1 \in T
      PROVE  k \in T
  <2>1. k \in 1 .. n /\ k + 1 \in 1 .. n /\ (k + 1) - 1 = k /\ k \in 0 .. n - 1
    BY <1>1
  <2>2. Upto(t, x, k) = Upto(t, x, k - 1) + IF t[k] = x THEN 1 ELSE 0
    BY <1>4
  <2>3. /\ Upto(s, x, k) \in Nat /\ Upto(s, x, k - 1) \in Nat /\ Upto(s, x, k + 1) \in Nat
        /\ Upto(s, x, k) = Upto(s, x, k - 1) + IF s[k] = x THEN 1 ELSE 0
        /\ Upto(s, x, k + 1) = Upto(s, x, k) + IF s[k + 1] = x THEN 1 ELSE 0
    BY <1>3, <2>1
  <2>4. Upto(t, x, k - 1) = IF k - 1 < m THEN Upto(s, x, k - 1) ELSE Upto(s, x, (k - 1) + 1) - d
    BY <1>6
  <2>5. CASE k < m
    <3>a. k \in 1 .. m - 1 /\ k - 1 < m
      BY <1>1, <2>5
    <3>1. t[k] = s[k] /\ k - 1 < m
      BY <1>2, <3>a
    <3> QED BY <2>1, <2>2, <2>3, <2>4, <2>5, <3>1
  <2>6. CASE k = m
    <3>a. k \in m .. n - 1 /\ k - 1 < m
      BY <1>1, <2>6
    <3>1. t[k] = s[k + 1] /\ k - 1 < m /\ d = IF s[k] = x THEN 1 ELSE 0
      BY <1>2, <2>6, <3>a
    <3> HIDE DEF d
    <3>2. Upto(t, x, k) = Upto(s, x, k + 1) - d
      BY <1>1, <2>2, <2>3, <2>4, <2>6, <3>1
    <3> QED BY <1>1, <2>1, <2>6, <3>2
  <2>7. CASE k > m
    <3>a. k \in m .. n - 1 /\ ~(k - 1 < m) /\ (k - 1) + 1 = k
      BY <1>1, <2>7
    <3>1. t[k] = s[k + 1] /\ ~(k - 1 < m) /\ (k - 1) + 1 = k
      BY <1>2, <3>a
    <3> HIDE DEF d
    <3>2. Upto(t, x, k) = Upto(s, x, k + 1) - d
      BY <1>1, <2>2, <2>3, <2>4, <3>1
    <3> QED BY <1>1, <2>1, <2>7, <3>2
  <2> QED BY <1>1, <2>5, <2>6, <2>7
<1>7. n - 1 \in T
  <2> HIDE DEF T
  <2>1. 0 .. n - 1 \subseteq T
    BY <1>1, <1>5, <1>6, InductionUpTo
  <2> QED BY <1>1, <2>1
<1>8. Count(t, x) = Count(s, x) - d
  <2>1. Upto(t, x, n - 1) = IF n - 1 < m THEN Upto(s, x, n - 1) ELSE Upto(s, x, (n - 1) + 1) - d
    BY <1>7
  <2>2. n \in 1 .. n /\ (n - 1) + 1 = n
    BY <1>1
  <2>3. CASE n = m
    <3>1. Upto(s, x, n) = Upto(s, x, n - 1) + d /\ Upto(s, x, n - 1) \in Nat
      BY <1>3, <2>2, <2>3
    <3> QED BY <1>1, <1>3, <1>4, <2>1, <2>3, <3>1
  <2>4. CASE n # m
    <3>1. ~(n - 1 < m)
      BY <1>1, <2>4
    <3>2. Upto(t, x, n - 1) = Upto(s, x, n) - d
      BY <2>1, <2>2, <3>1
    <3> HIDE DEF d
    <3> QED BY <1>3, <1>4, <3>2
  <2> QED BY <2>3, <2>4
<1> QED BY <1>8 DEF t

\* One connection either strikes off a login from its address, or stays.
StruckOrLeft(logins, left, addr, l, u) ==
  /\ Count(logins, addr) > 0 =>
       u = left /\ \A x : Count(l, x) = Count(logins, x) - IF addr = x THEN 1 ELSE 0
  /\ Count(logins, addr) = 0 =>
       l = logins /\ \A x : Count(u, x) = Count(left, x) + IF addr = x THEN 1 ELSE 0
LEMMA StrikeOffFacts ==
  ASSUME NEW S, NEW logins \in Seq(S), NEW left \in Seq(S), NEW addr \in S
  PROVE  \E l, u \in Seq(S) : /\ StrikeOff(<<logins, left>>, addr) = <<l, u>>
                              /\ StruckOrLeft(logins, left, addr, l, u)
<1> DEFINE found == {i \in DOMAIN logins : logins[i] = addr}
           first == CHOOSE i \in found : \A j \in found : i <= j
<1>1. DOMAIN logins = 1 .. Len(logins) /\ Len(logins) \in Nat
  OBVIOUS
<1>2. IsFiniteSet(found) /\ found \in SUBSET Nat /\ Count(logins, addr) = Cardinality(found)
  <2>1. IsFiniteSet(1 .. Len(logins)) /\ found \in SUBSET (1 .. Len(logins))
    BY <1>1, FS_Interval
  <2>2. IsFiniteSet(found)
    BY <2>1, FS_Subset
  <2> QED BY <1>1, <2>1, <2>2 DEF Count
<1>3. Count(logins, addr) = 0 <=> found = {}
  BY <1>2, FS_EmptySet
<1>4. StrikeOff(<<logins, left>>, addr) =
        IF found = {} THEN <<logins, Append(left, addr)>> ELSE <<RemoveAt(logins, first), left>>
  BY DEF StrikeOff
<1>5. CASE found = {}
  <2>1. Append(left, addr) \in Seq(S)
    OBVIOUS
  <2>2. \A x : Count(Append(left, addr), x) = Count(left, x) + IF addr = x THEN 1 ELSE 0
    BY CountAppend
  <2>3. StrikeOff(<<logins, left>>, addr) = <<logins, Append(left, addr)>>
    BY <1>4, <1>5
  <2>4. Count(logins, addr) = 0 /\ ~(Count(logins, addr) > 0)
    BY <1>3, <1>5
  <2>5. StruckOrLeft(logins, left, addr, logins, Append(left, addr))
    BY <2>2, <2>4 DEF StruckOrLeft
  <2> QED BY <2>1, <2>3, <2>5
<1>6. CASE found # {}
  <2>1. first \in found
    <3>1. PICK m \in found : \A k \in found : ~(k < m)
      BY <1>2, <1>6, LeastNatural
    <3>2. \A k \in found : m <= k
      <4>1. \A k \in found : k \in Nat /\ m \in Nat
        BY <1>2
      <4> QED BY <3>1, <4>1
    <3> QED BY <3>1, <3>2
  <2>2. first \in 1 .. Len(logins) /\ logins[first] = addr
    BY <1>1, <2>1
  <2> HIDE DEF first
  <2>3. RemoveAt(logins, first) \in Seq(S)
    BY <2>2, RemoveAtFacts
  <2>4. \A x : Count(RemoveAt(logins, first), x) = Count(logins, x) - IF addr = x THEN 1 ELSE 0
    BY <2>2, CountRemoveAt
  <2>5. Count(logins, addr) # 0
    BY <1>3, <1>6
  <2>6. StruckOrLeft(logins, left, addr, RemoveAt(logins, first), left)
    BY <2>4, <2>5 DEF StruckOrLeft
  <2> QED BY <1>4, <1>6, <2>3, <2>6
<1> QED BY <1>5, <1>6

LEMMA StrikeOffTyped ==
  ASSUME NEW S, NEW x \in Seq(S) \X Seq(S), NEW addr \in S
  PROVE  StrikeOff(x, addr) \in Seq(S) \X Seq(S)
<1>1. PICK l, u \in Seq(S) : x = <<l, u>>
  OBVIOUS
<1>2. \E p, q \in Seq(S) :
        StrikeOff(<<l, u>>, addr) = <<p, q>> /\ StruckOrLeft(l, u, addr, p, q)
  BY StrikeOffFacts
<1>3. \E p, q \in Seq(S) : StrikeOff(<<l, u>>, addr) = <<p, q>>
  BY <1>2
<1> QED BY <1>1, <1>3

\* What Unauthenticated computes on the way.
Struck(logins, conns) == CHOOSE acc :
  acc = [i \in 0 .. Len(conns) |->
           IF i = 0 THEN <<logins, <<>>>> ELSE StrikeOff(acc[i - 1], conns[i])]

LEMMA StruckFacts ==
  ASSUME NEW S, NEW c \in Seq(S), NEW logins \in Seq(S)
  PROVE  /\ Struck(logins, c) \in [0 .. Len(c) -> Seq(S) \X Seq(S)]
         /\ Struck(logins, c)[0] = <<logins, <<>>>>
         /\ \A i \in 1 .. Len(c) : Struck(logins, c)[i] = StrikeOff(Struck(logins, c)[i - 1], c[i])
<1> DEFINE n == Len(c)
           V == Seq(S) \X Seq(S)
           a == <<logins, <<>>>>
           F == [x \in V \X (1 .. n) |-> StrikeOff(x[1], c[x[2]])]
           Is(acc) == acc = [i \in 0 .. n |-> IF i = 0 THEN a ELSE StrikeOff(acc[i - 1], c[i])]
           h == Struck(logins, c)
<1>1. n \in Nat /\ a \in V /\ \A i \in 1 .. n : c[i] \in S
  <2>1. a \in V
    BY Short
  <2> QED BY <2>1
<1>2. \A x \in V, i \in 1 .. n : StrikeOff(x, c[i]) \in V
  BY <1>1, StrikeOffTyped
<1> HIDE DEF n, a
<1>3. F \in [V \X (1 .. n) -> V] /\ \A x \in V, i \in 1 .. n : F[<<x, i>>] = StrikeOff(x, c[i])
  <2> HIDE DEF V
  <2> QED BY <1>2
<1> HIDE DEF F
<1>4. PICK g \in [0 .. n -> V] : g[0] = a /\ \A i \in 1 .. n : g[i] = F[<<g[i - 1], i>>]
  <2>1. F \in StepsOf(V, n)
    BY <1>3 DEF StepsOf
  <2>2. a \in V /\ n \in Nat
    BY <1>1
  <2> HIDE DEF V
  <2>3. \E g \in Walks(V, n) : Follows(g, a, n, F)
    BY <2>1, <2>2, Recursion
  <2> QED BY <2>3 DEF Walks, Follows
<1> HIDE DEF V
<1>5. \A i \in 1 .. n : g[i] = StrikeOff(g[i - 1], c[i])
  <2>1. \A i \in 1 .. n : i - 1 \in 0 .. n
    BY <1>1
  <2> QED BY <1>3, <1>4, <2>1
<1>6. Is(g)
  BY <1>4, <1>5
<1>7. h = CHOOSE acc : Is(acc)
  BY DEF Struck, n, a
<1> HIDE DEF Is, h
<1>8. Is(h)
  BY <1>6, <1>7
<1>9. h = [i \in 0 .. n |-> h[i]]
  BY <1>8 DEF Is
<1>10. h[0] = a /\ \A i \in 1 .. n : h[i] = StrikeOff(h[i - 1], c[i])
  <2>1. \A i \in 0 .. n : h[i] = IF i = 0 THEN a ELSE StrikeOff(h[i - 1], c[i])
    BY <1>8 DEF Is
  <2>2. 0 \in 0 .. n /\ \A i \in 1 .. n : i \in 0 .. n /\ i # 0
    BY <1>1
  <2> QED BY <2>1, <2>2
<1>11. h[0] \in V /\ \A i \in 1 .. n : h[i - 1] \in V => h[i] \in V
  BY <1>1, <1>2, <1>10
<1>12. h \in [0 .. n -> V]
  BY <1>1, <1>9, <1>11, TypedAlong
<1> QED BY <1>10, <1>12 DEF h, n, V, a

\* Of every address, what is left of the logins and of the connections when
\* the first k connections have been gone through.
LEMMA SshCounts ==
  ASSUME NEW S, NEW c \in Seq(S), NEW logins \in Seq(S), NEW x
  PROVE  Count(Struck(logins, c)[Len(c)][2], x) =
           IF Count(c, x) > Count(logins, x) THEN Count(c, x) - Count(logins, x) ELSE 0
<1> DEFINE n == Len(c)
           l == Count(logins, x)
           U(k) == Upto(c, x, k)
           h == Struck(logins, c)
           A(k) == Count(h[k][1], x)
           B(k) == Count(h[k][2], x)
           T == {k \in 0 .. n : /\ A(k) = IF l > U(k) THEN l - U(k) ELSE 0
                                /\ B(k) = IF U(k) > l THEN U(k) - l ELSE 0}
<1>1. /\ h \in [0 .. n -> Seq(S) \X Seq(S)] /\ h[0] = <<logins, <<>>>>
      /\ \A i \in 1 .. n : h[i] = StrikeOff(h[i - 1], c[i])
  BY StruckFacts
<1>2. /\ U(0) = 0 /\ U(n) = Count(c, x) /\ Count(c, x) \in Nat
      /\ \A k \in 1 .. n : /\ U(k) \in Nat /\ U(k - 1) \in Nat
                           /\ U(k) = U(k - 1) + IF c[k] = x THEN 1 ELSE 0
  BY UptoFacts
<1>3. l \in Nat
  BY UptoFacts
<1>4. n \in Nat /\ \A k \in 1 .. n : c[k] \in S
  OBVIOUS
<1> HIDE DEF h, U, l, n
<1>5. 0 \in T
  <2>1. A(0) = l
    BY <1>1 DEF l
  <2>2. B(0) = 0
    <3>1. h[0][2] = <<>> /\ {i \in DOMAIN <<>> : <<>>[i] = x} = {}
      BY <1>1
    <3> QED BY <3>1, FS_EmptySet DEF Count
  <2> HIDE DEF A, B
  <2> QED BY <1>2, <1>3, <1>4, <2>1, <2>2
<1>6. ASSUME NEW k \in 1 .. n, k - 1 \in T
      PROVE  k \in T
  <2>1. PICK l0, u0 \in Seq(S) : h[k - 1] = <<l0, u0>>
    <3>1. k - 1 \in 0 .. n
      BY <1>4
    <3> QED BY <1>1, <3>1
  <2>2. PICK p, q \in Seq(S) : /\ StrikeOff(<<l0, u0>>, c[k]) = <<p, q>>
                               /\ StruckOrLeft(l0, u0, c[k], p, q)
    BY <1>4, StrikeOffFacts
  <2>3. h[k] = <<p, q>>
    BY <1>1, <2>1, <2>2
  <2>4. /\ A(k - 1) = Count(l0, x) /\ B(k - 1) = Count(u0, x)
        /\ A(k) = Count(p, x) /\ B(k) = Count(q, x)
    BY <2>1, <2>3
  <2>5. Count(l0, x) \in Nat /\ Count(u0, x) \in Nat /\ Count(l0, c[k]) \in Nat
    BY UptoFacts
  <2>6. /\ A(k - 1) = IF l > U(k - 1) THEN l - U(k - 1) ELSE 0
        /\ B(k - 1) = IF U(k - 1) > l THEN U(k - 1) - l ELSE 0
    BY <1>6
  <2>7. U(k) \in Nat /\ U(k - 1) \in Nat /\ U(k) = U(k - 1) + IF c[k] = x THEN 1 ELSE 0
    BY <1>2
  <2>8. k \in 0 .. n
    BY <1>4
  <2> HIDE DEF A, B
  <2>9. CASE c[k] # x
    <3>1. Count(p, x) = Count(l0, x) /\ Count(q, x) = Count(u0, x)
      <4>1. CASE Count(l0, c[k]) > 0
        <5>1. q = u0 /\ Count(p, x) = Count(l0, x) - IF c[k] = x THEN 1 ELSE 0
          BY <2>2, <4>1 DEF StruckOrLeft
        <5> QED BY <2>5, <2>9, <5>1
      <4>2. CASE Count(l0, c[k]) = 0
        <5>1. p = l0 /\ Count(q, x) = Count(u0, x) + IF c[k] = x THEN 1 ELSE 0
          BY <2>2, <4>2 DEF StruckOrLeft
        <5> QED BY <2>5, <2>9, <5>1
      <4> QED BY <2>5, <4>1, <4>2
    <3>2. U(k) = U(k - 1)
      BY <2>7, <2>9
    <3> QED BY <2>4, <2>6, <2>8, <3>1, <3>2
  <2>10. CASE c[k] = x
    <3>2. U(k) = U(k - 1) + 1
      BY <2>7, <2>10
    <3>3. CASE Count(l0, x) > 0
      <4>1. q = u0 /\ Count(p, x) = Count(l0, x) - 1
        BY <2>2, <2>10, <3>3 DEF StruckOrLeft
      <4> QED BY <1>3, <2>4, <2>5, <2>6, <2>7, <2>8, <3>2, <3>3, <4>1
    <3>4. CASE Count(l0, x) = 0
      <4>1. p = l0 /\ Count(q, x) = Count(u0, x) + 1
        BY <2>2, <2>10, <3>4 DEF StruckOrLeft
      <4> QED BY <1>3, <2>4, <2>5, <2>6, <2>7, <2>8, <3>2, <3>4, <4>1
    <3> QED BY <2>5, <3>3, <3>4
  <2> QED BY <2>9, <2>10
<1> HIDE DEF T
<1>7. 0 .. n \subseteq T
  BY <1>4, <1>5, <1>6, InductionUpTo
<1>8. B(n) = IF U(n) > l THEN U(n) - l ELSE 0
  BY <1>4, <1>7 DEF T
<1> QED BY <1>2, <1>8 DEF h, U, l, n

LEMMA SshIsRight ==
  ASSUME NEW w \in Worlds, NEW p, NEW s, s.ssh = Unauthenticated(w)
  PROVE  SshRight(p, w, s)
<1>1. w.conns \in Seq(STRING) /\ w.logins \in Seq(STRING)
  BY MonitorAssumption
<1>2. Unauthenticated(w) = Struck(w.logins, w.conns)[Len(w.conns)][2]
  BY DEF Unauthenticated, Struck
<1>3. \A x : Count(Struck(w.logins, w.conns)[Len(w.conns)][2], x) = Excess(w, x)
  BY <1>1, SshCounts DEF Excess
<1> QED BY <1>2, <1>3 DEF SshRight

\* How often a member of A is in s: the counts of A's members, added up.
AnyOf(s, A) == Cardinality({i \in DOMAIN s : s[i] \in A})
LEMMA AnyOfOneMore ==
  ASSUME NEW S, NEW s \in Seq(S), NEW A, NEW x, x \notin A
  PROVE  /\ AnyOf(s, A) \in Nat /\ Count(s, x) \in Nat
         /\ AnyOf(s, A \cup {x}) = AnyOf(s, A) + Count(s, x)
<1> DEFINE P == {i \in DOMAIN s : s[i] \in A}
           Q == {i \in DOMAIN s : s[i] = x}
<1>1. IsFiniteSet(DOMAIN s)
  <2>1. DOMAIN s = 1 .. Len(s) /\ Len(s) \in Nat
    OBVIOUS
  <2> QED BY <2>1, FS_Interval
<1>2. P \in SUBSET (DOMAIN s) /\ Q \in SUBSET (DOMAIN s)
  OBVIOUS
<1>3. IsFiniteSet(P) /\ IsFiniteSet(Q)
  BY <1>1, <1>2, FS_Subset
<1>4. P \cap Q = {} /\ {i \in DOMAIN s : s[i] \in A \cup {x}} = P \cup Q
  OBVIOUS
<1>5. Cardinality(P) \in Nat /\ Cardinality(Q) \in Nat
  BY <1>3, FS_CardinalityType
<1>6. Cardinality(P \cup Q) = Cardinality(P) + Cardinality(Q)
  <2> HIDE DEF P, Q
  <2>1. Cardinality(P \cap Q) = 0
    BY <1>4, FS_EmptySet
  <2>2. Cardinality(P \cup Q) = Cardinality(P) + Cardinality(Q) - Cardinality(P \cap Q)
    BY <1>3, FS_Union
  <2> QED BY <1>5, <2>1, <2>2
<1> QED BY <1>4, <1>5, <1>6 DEF AnyOf, Count

\* Every connection is in one of the states.
LEMMA TcpCounts ==
  ASSUME NEW t \in Seq(TcpStates \cup {"LISTEN"})
  PROVE  Len(t) = Count(t, "LISTEN") + Count(t, "ESTABLISHED") + Count(t, "SYN_SENT")
                  + Count(t, "SYN_RECV") + Count(t, "FIN_WAIT1") + Count(t, "FIN_WAIT2")
                  + Count(t, "TIME_WAIT") + Count(t, "CLOSE") + Count(t, "CLOSE_WAIT")
                  + Count(t, "LAST_ACK") + Count(t, "CLOSING")
<1> DEFINE A1 == {"LISTEN"}                A2 == A1 \cup {"ESTABLISHED"}
           A3 == A2 \cup {"SYN_SENT"}      A4 == A3 \cup {"SYN_RECV"}
           A5 == A4 \cup {"FIN_WAIT1"}     A6 == A5 \cup {"FIN_WAIT2"}
           A7 == A6 \cup {"TIME_WAIT"}     A8 == A7 \cup {"CLOSE"}
           A9 == A8 \cup {"CLOSE_WAIT"}    A10 == A9 \cup {"LAST_ACK"}
           A11 == A10 \cup {"CLOSING"}
           c1 == Count(t, "LISTEN")        c2 == Count(t, "ESTABLISHED")
           c3 == Count(t, "SYN_SENT")      c4 == Count(t, "SYN_RECV")
           c5 == Count(t, "FIN_WAIT1")     c6 == Count(t, "FIN_WAIT2")
           c7 == Count(t, "TIME_WAIT")     c8 == Count(t, "CLOSE")
           c9 == Count(t, "CLOSE_WAIT")    c10 == Count(t, "LAST_ACK")
           c11 == Count(t, "CLOSING")
<1>1. /\ "ESTABLISHED" \notin A1 /\ "SYN_SENT" \notin A2 /\ "SYN_RECV" \notin A3
      /\ "FIN_WAIT1" \notin A4 /\ "FIN_WAIT2" \notin A5 /\ "TIME_WAIT" \notin A6
      /\ "CLOSE" \notin A7 /\ "CLOSE_WAIT" \notin A8 /\ "LAST_ACK" \notin A9
      /\ "CLOSING" \notin A10
  OBVIOUS
<1>2. AnyOf(t, A1) = c1
  BY DEF AnyOf, Count
<1>3. AnyOf(t, A11) = Len(t)
  <2>1. DOMAIN t = 1 .. Len(t) /\ Len(t) \in Nat /\ \A i \in DOMAIN t : t[i] \in TcpStates \cup {"LISTEN"}
    OBVIOUS
  <2>2. TcpStates \cup {"LISTEN"} = A11
    BY DEF TcpStates
  <2>3. {i \in DOMAIN t : t[i] \in A11} = 1 .. Len(t)
    BY <2>1, <2>2
  <2> DEFINE n == Len(t)
  <2>4. n \in Int /\ n >= 0 /\ 1 \in Int
    BY <2>1
  <2> HIDE DEF A11, n
  <2>5. Cardinality(1 .. n) = n
    BY <2>4, FS_Interval
  <2> QED BY <2>3, <2>5 DEF AnyOf, n
<1>4. /\ AnyOf(t, A1) \in Nat /\ AnyOf(t, A2) = AnyOf(t, A1) + c2 /\ c2 \in Nat
      /\ AnyOf(t, A3) = AnyOf(t, A2) + c3 /\ c3 \in Nat
      /\ AnyOf(t, A4) = AnyOf(t, A3) + c4 /\ c4 \in Nat
      /\ AnyOf(t, A5) = AnyOf(t, A4) + c5 /\ c5 \in Nat
  <2> HIDE DEF A1, A2, A3, A4, A5
  <2> QED BY <1>1, AnyOfOneMore DEF A2, A3, A4, A5
<1>5. /\ AnyOf(t, A6) = AnyOf(t, A5) + c6 /\ c6 \in Nat
      /\ AnyOf(t, A7) = AnyOf(t, A6) + c7 /\ c7 \in Nat
      /\ AnyOf(t, A8) = AnyOf(t, A7) + c8 /\ c8 \in Nat
      /\ AnyOf(t, A9) = AnyOf(t, A8) + c9 /\ c9 \in Nat
      /\ AnyOf(t, A10) = AnyOf(t, A9) + c10 /\ c10 \in Nat
      /\ AnyOf(t, A11) = AnyOf(t, A10) + c11 /\ c11 \in Nat
  <2> HIDE DEF A5, A6, A7, A8, A9, A10, A11
  <2> QED BY <1>1, AnyOfOneMore DEF A6, A7, A8, A9, A10, A11
<1> HIDE DEF A1, A2, A3, A4, A5, A6, A7, A8, A9, A10, A11,
             c1, c2, c3, c4, c5, c6, c7, c8, c9, c10, c11
<1>6. AnyOf(t, A5) = c1 + c2 + c3 + c4 + c5 /\ AnyOf(t, A5) \in Nat
  BY <1>2, <1>4
<1>7. AnyOf(t, A11) = AnyOf(t, A5) + c6 + c7 + c8 + c9 + c10 + c11
  BY <1>5, <1>6
<1>8. Len(t) = c1 + c2 + c3 + c4 + c5 + c6 + c7 + c8 + c9 + c10 + c11
  BY <1>3, <1>6, <1>7
<1> QED BY <1>8 DEF c1, c2, c3, c4, c5, c6, c7, c8, c9, c10, c11

LEMMA TcpIsRight ==
  ASSUME NEW w \in Worlds, NEW p, NEW s, s.tcp = Tcp(w)
  PROVE  TcpRight(p, w, s)
<1> DEFINE C(x) == Count(w.tcp, x)
<1>1. w.tcp \in Seq(TcpStates \cup {"LISTEN"})
  BY MonitorAssumption
<1>2. \A x : C(x) \in Nat
  BY <1>1, UptoFacts
<1>3. Len(w.tcp) = C("LISTEN") + C("ESTABLISHED") + C("SYN_SENT") + C("SYN_RECV")
                   + C("FIN_WAIT1") + C("FIN_WAIT2") + C("TIME_WAIT") + C("CLOSE")
                   + C("CLOSE_WAIT") + C("LAST_ACK") + C("CLOSING")
  BY <1>1, TcpCounts
<1>4. /\ s.tcp.total = Len(w.tcp) /\ s.tcp.half = C("SYN_SENT") + C("SYN_RECV")
      /\ \A x \in TcpStates : s.tcp.counts[x] = C(x)
  BY DEF Tcp
<1> HIDE DEF C
<1>5. C("LISTEN") = Count(w.tcp, "LISTEN")
  BY DEF C
<1>6. /\ s.tcp.counts["ESTABLISHED"] = C("ESTABLISHED") /\ s.tcp.counts["FIN_WAIT1"] = C("FIN_WAIT1")
      /\ s.tcp.counts["FIN_WAIT2"] = C("FIN_WAIT2") /\ s.tcp.counts["TIME_WAIT"] = C("TIME_WAIT")
      /\ s.tcp.counts["CLOSE"] = C("CLOSE") /\ s.tcp.counts["CLOSE_WAIT"] = C("CLOSE_WAIT")
      /\ s.tcp.counts["LAST_ACK"] = C("LAST_ACK") /\ s.tcp.counts["CLOSING"] = C("CLOSING")
  BY <1>4 DEF TcpStates
<1>7. /\ C("LISTEN") \in Nat /\ C("ESTABLISHED") \in Nat /\ C("SYN_SENT") \in Nat
      /\ C("SYN_RECV") \in Nat /\ C("FIN_WAIT1") \in Nat /\ C("FIN_WAIT2") \in Nat
      /\ C("TIME_WAIT") \in Nat /\ C("CLOSE") \in Nat /\ C("CLOSE_WAIT") \in Nat
      /\ C("LAST_ACK") \in Nat /\ C("CLOSING") \in Nat
  BY <1>2
<1>8. s.tcp.total = C("LISTEN") + C("ESTABLISHED") + s.tcp.half + C("FIN_WAIT1") + C("FIN_WAIT2")
                    + C("TIME_WAIT") + C("CLOSE") + C("CLOSE_WAIT") + C("LAST_ACK") + C("CLOSING")
  <2>1. s.tcp.total = Len(w.tcp) /\ s.tcp.half = C("SYN_SENT") + C("SYN_RECV")
    BY <1>4
  <2> QED BY <1>3, <1>7, <2>1
<1> QED BY <1>5, <1>6, <1>8 DEF TcpRight

LEMMA SmallMod ==
  ASSUME NEW M \in Nat \ {0}, NEW a \in Nat, a < M
  PROVE  a % M = a
<1> DEFINE q == a \div M
           r == a % M
<1>1. q \in Nat /\ r \in 0 .. M - 1 /\ a = M * q + r
  BY SMT
<1> HIDE DEF q, r
<1>2. CASE q = 0
  BY <1>1, <1>2, SMT DEF r
<1>3. CASE q # 0
  <2>1. M * q >= M
    <3>1. PICK d \in Nat : q = d + 1
      <4>1. q - 1 \in Nat /\ q = (q - 1) + 1
        BY <1>1, <1>3
      <4> QED BY <4>1
    <3>2. M * q = M * d + M /\ M * d >= 0
      BY <3>1, SMT
    <3> QED BY <1>1, <3>2, SMT
  <2> QED BY <1>1, <2>1, SMT
<1> QED BY <1>2, <1>3

LEMMA WorldCounters ==
  ASSUME NEW w \in Worlds \cup {NoWorld}
  PROVE  w.busy \in Nat /\ w.idle \in Nat
<1>1. CASE w \in Worlds
  BY <1>1, MonitorAssumption
<1>2. CASE w = NoWorld
  BY <1>2 DEF NoWorld
<1> QED BY <1>1, <1>2

LEMMA CpuIsRight ==
  ASSUME NEW w \in Worlds, NEW p \in Worlds \cup {NoWorld}, NEW s, s.cpu = CpuUsage(p, w)
  PROVE  CpuRight(p, w, s)
<1> DEFINE b == w.busy
           i == w.idle
           b0 == p.busy
           i0 == p.idle
           M == CounterMod
<1> SUFFICES ASSUME b >= b0, i >= i0, b + i < M
             PROVE  s.cpu[1] <= s.cpu[2] /\ s.cpu[1] * (b + i - b0 - i0) = s.cpu[2] * (b - b0)
  BY DEF CpuRight
<1>1. b \in Nat /\ i \in Nat /\ b0 \in Nat /\ i0 \in Nat /\ M \in Nat \ {0}
  BY WorldCounters, MonitorAssumption
<1>2. s.cpu = LET total == (b + i - b0 - i0) % M
                  idle == (i - i0) % M
              IN IF total = 0 THEN <<0, 1>> ELSE <<(total - idle) % M, total>>
  BY DEF CpuUsage
<1> HIDE DEF b, i, b0, i0, M
<1> DEFINE t == b + i - b0 - i0
           d == i - i0
           e == b - b0
<1>3. t \in Nat /\ d \in Nat /\ e \in Nat /\ t < M /\ d < M /\ e < M /\ t = e + d
  BY <1>1
<1>4. t % M = t /\ d % M = d /\ e % M = e /\ t - d = e
  <2> HIDE DEF t, d, e
  <2> QED BY <1>1, <1>3, SmallMod
<1>5. s.cpu = IF t = 0 THEN <<0, 1>> ELSE <<e, t>>
  BY <1>2, <1>4
<1>6. s.cpu[1] <= s.cpu[2] /\ s.cpu[1] * t = s.cpu[2] * e
  <2> HIDE DEF t, d, e
  <2>1. CASE t = 0
    <3>1. e = 0 /\ s.cpu[1] = 0 /\ s.cpu[2] = 1
      BY <1>3, <1>5, <2>1
    <3> QED BY <2>1, <3>1
  <2>2. CASE t # 0
    <3>1. s.cpu[1] = e /\ s.cpu[2] = t
      BY <1>5, <2>2
    <3>2. e * t = t * e
      BY <1>3, SMT
    <3>3. e <= t
      BY <1>3
    <3> QED BY <3>1, <3>2, <3>3
  <2> QED BY <2>1, <2>2
<1> QED BY <1>6

LEMMA DiskIsRight ==
  ASSUME NEW w \in Worlds, NEW p \in Worlds \cup {NoWorld}, NEW s, s.disk = DiskDiffs(p, w)
  PROVE  DiskRight(p, w, s)
<1> SUFFICES ASSUME \A i \in DOMAIN w.disks :
                      i \in DOMAIN p.disks => p.disks[i].mount = w.disks[i].mount,
                    NEW i \in DOMAIN s.disk, NEW j \in DOMAIN p.disks,
                    p.disks[j].mount = w.disks[i].mount,
                    p.disks[j].unit = "G", w.disks[i].unit = "G"
             PROVE  s.disk[i] = InG(w.disks[i]) - InG(p.disks[j])
  BY DEF DiskRight
<1> DEFINE a == Len(p.disks)
           b == Len(w.disks)
<1>1. b \in Nat /\ DOMAIN w.disks = 1 .. b
  BY MonitorAssumption
<1>2. /\ a \in Nat /\ DOMAIN p.disks = 1 .. a
      /\ \A k, l \in DOMAIN p.disks : p.disks[k].mount = p.disks[l].mount => k = l
  <2>1. CASE p \in Worlds
    BY <2>1, MonitorAssumption
  <2>2. CASE p = NoWorld
    <3>1. p.disks = <<>>
      BY <2>2 DEF NoWorld
    <3> QED BY <3>1
  <2> QED BY <2>1, <2>2
<1>3. i \in 1 .. (IF a < b THEN a ELSE b)
  BY DEF DiskDiffs
<1>4. s.disk[i] = IF w.disks[i].unit = "G" /\ p.disks[i].unit = "G"
                  THEN w.disks[i].used - p.disks[i].used ELSE 0
  BY <1>3 DEF DiskDiffs
<1> HIDE DEF a, b
<1>5. i \in DOMAIN p.disks /\ i \in DOMAIN w.disks
  BY <1>1, <1>2, <1>3
<1>6. i = j
  BY <1>2, <1>5
<1> QED BY <1>4, <1>6 DEF InG

LEMMA PidIsRight ==
  ASSUME NEW w \in Worlds, NEW p, NEW s, s.pid = Pids(w)
  PROVE  PidRight(p, w, s)
<1> DEFINE ps == w.procs
           n == Len(ps)
           f == [i \in DOMAIN ps |-> ps[i][1]]
           g == [i \in DOMAIN ps |-> IF ps[i][2] = 0 THEN 0 ELSE ps[i][2] - 1]
           T == {k \in 0 .. n : Sums(f)[k] = Sums(g)[k] + k}
<1> SUFFICES ASSUME \A i \in DOMAIN ps : ps[i][1] = ps[i][2] /\ ps[i][1] > 0
             PROVE  s.pid.threads = s.pid.processes + s.pid.others
  BY DEF PidRight
<1>1. ps \in Seq(Nat \X Nat) /\ n \in Nat /\ DOMAIN ps = 1 .. n
  BY MonitorAssumption
<1>2. s.pid.processes = n /\ s.pid.threads = Total(f) /\ s.pid.others = Total(g)
  BY DEF Pids
<1>a. \A i \in DOMAIN ps : ps[i][1] = ps[i][2] /\ ps[i][1] > 0
  OBVIOUS
<1> HIDE DEF ps
<1>3. ASSUME NEW i \in 1 .. n
      PROVE  ps[i][1] \in Nat /\ ps[i][2] \in Nat /\ ps[i][1] = ps[i][2] /\ ps[i][1] > 0
  <2>1. ps[i] \in Nat \X Nat /\ i \in DOMAIN ps
    BY <1>1
  <2>2. ps[i][1] = ps[i][2] /\ ps[i][1] > 0
    BY <1>a, <2>1
  <2> QED BY <2>1, <2>2
<1> HIDE DEF n
<1>4. f \in Seq(Nat) /\ Len(f) = n /\ \A i \in 1 .. n : f[i] = ps[i][1]
  BY <1>1, <1>3
<1>5. /\ g \in Seq(Nat) /\ Len(g) = n
      /\ \A i \in 1 .. n : g[i] = IF ps[i][2] = 0 THEN 0 ELSE ps[i][2] - 1
  BY <1>1, <1>3
<1>6. \A i \in 1 .. n : f[i] \in Nat /\ g[i] \in Nat /\ f[i] = g[i] + 1
  <2> HIDE DEF f, g
  <2>1. ASSUME NEW i \in 1 .. n
        PROVE  f[i] \in Nat /\ g[i] \in Nat /\ f[i] = g[i] + 1
    <3>1. f[i] = ps[i][1] /\ g[i] = IF ps[i][2] = 0 THEN 0 ELSE ps[i][2] - 1
      BY <1>4, <1>5
    <3>2. ps[i][1] \in Nat /\ ps[i][1] = ps[i][2] /\ ps[i][1] > 0
      BY <1>3
    <3> QED BY <3>1, <3>2
  <2> QED BY <2>1
<1> HIDE DEF f, g
<1>7. /\ Sums(f) \in [0 .. n -> Nat] /\ Sums(f)[0] = 0
      /\ \A i \in 1 .. n : Sums(f)[i] = Sums(f)[i - 1] + f[i]
  BY <1>4, SumsFacts
<1>8. /\ Sums(g) \in [0 .. n -> Nat] /\ Sums(g)[0] = 0
      /\ \A i \in 1 .. n : Sums(g)[i] = Sums(g)[i - 1] + g[i]
  BY <1>5, SumsFacts
<1>9. 0 \in T
  BY <1>1, <1>7, <1>8
<1>10. ASSUME NEW k \in 1 .. n, k - 1 \in T
       PROVE  k \in T
  <2>1. k \in 0 .. n /\ k - 1 \in 0 .. n /\ k \in Nat
    BY <1>1
  <2>2. Sums(g)[k - 1] \in Nat /\ Sums(f)[k - 1] = Sums(g)[k - 1] + (k - 1)
    BY <1>8, <1>10, <2>1
  <2>3. Sums(f)[k] = Sums(f)[k - 1] + f[k] /\ Sums(g)[k] = Sums(g)[k - 1] + g[k]
    BY <1>7, <1>8
  <2>4. f[k] = g[k] + 1 /\ g[k] \in Nat
    BY <1>6
  <2>5. Sums(f)[k] = Sums(g)[k] + k
    BY <2>1, <2>2, <2>3, <2>4
  <2> QED BY <2>1, <2>5
<1>11. n \in T
  <2> HIDE DEF T
  <2>1. 0 .. n \subseteq T
    BY <1>1, <1>9, <1>10, InductionUpTo
  <2> QED BY <1>1, <2>1
<1>12. Sums(f)[n] = n + Sums(g)[n]
  <2>1. Sums(f)[n] = Sums(g)[n] + n /\ Sums(g)[n] \in Nat
    BY <1>1, <1>8, <1>11
  <2> QED BY <1>1, <2>1
<1>13. Total(f) = Sums(f)[n] /\ Total(g) = Sums(g)[n]
  BY <1>4, <1>5 DEF Total, Sums
<1> QED BY <1>2, <1>12, <1>13

\* What is computed is held until the file is created, with what it came from.
SampleInv ==
  /\ now \in Worlds \cup {NoWorld}
  /\ wstep = "create" => /\ sample = Sampled(before, now)
                         /\ now \in Worlds /\ before \in Worlds \cup {NoWorld}

LEMMA SampleStep ==
  ASSUME SampleInv, [MonitorNext]_monVars
  PROVE  SampleInv'
<1> USE DEF SampleInv, fileVars, readVars, dataVars
<1>1. CASE UNCHANGED <<wstep, dataVars>>
  BY <1>1 DEF Sampled
<1>2. CASE TakeSample
  <2>1. PICK w \in Worlds : now' = w /\ before' = now /\ sample' = Sampled(now, w)
    BY <1>2 DEF TakeSample
  <2>2. sample' = Sampled(before', now')
    BY <2>1
  <2> QED BY <2>1, <2>2 DEF Sampled
<1>3. ASSUME wstep' # "create", now' \in {now, NoWorld}
      PROVE  SampleInv'
  BY <1>3
<1>4. \/ SampleThrows \/ CreateOk \/ CreateElsewhere \/ WritePart \/ WriteCut \/ ReadThrows
      \/ ParseError \/ Restart
      => wstep' # "create" /\ now' \in {now, NoWorld}
  BY DEF SampleThrows, CreateOk, CreateElsewhere, CreateFile, WritePart, WriteCut, ReadThrows,
         ParseError, Restart
<1>5. CASE OpenToRead
  <2>1. now' = now /\ (wstep' = "dead" \/ UNCHANGED <<wstep, dataVars>>)
    BY <1>5 DEF OpenToRead
  <2> QED BY <1>1, <1>3, <2>1
<1>6. ReadPart \/ ParsePrint \/ ReaderSleeps => UNCHANGED <<wstep, dataVars>>
  BY DEF ReadPart, ParsePrint, ReaderSleeps
<1>7. UNCHANGED monVars => UNCHANGED <<wstep, dataVars>>
  BY DEF monVars
<1> QED BY <1>1, <1>2, <1>3, <1>4, <1>5, <1>6, <1>7 DEF MonitorNext

\* Whatever two moments of the system a sample was computed from, it says what
\* it is named for: the collectors' loops and differences, for any connections,
\* logins, disks, counters and processes.
THEOREM SamplesSayWhatTheySaw == MonitorSpec => []SamplesRight
<1>1. MonitorInit => SampleInv
  BY DEF MonitorInit, SampleInv
<1>2. SampleInv /\ [MonitorNext]_monVars => SampleInv'
  BY SampleStep
<1>3. SampleInv => SamplesRight
  <2> SUFFICES ASSUME SampleInv, wstep = "create"
               PROVE  /\ SshRight(before, now, sample) /\ TcpRight(before, now, sample)
                      /\ CpuRight(before, now, sample) /\ DiskRight(before, now, sample)
                      /\ PidRight(before, now, sample)
    BY DEF SamplesRight
  <2>1. sample = Sampled(before, now) /\ now \in Worlds /\ before \in Worlds \cup {NoWorld}
    BY DEF SampleInv
  <2>2. /\ sample.ssh = Unauthenticated(now) /\ sample.tcp = Tcp(now)
        /\ sample.cpu = CpuUsage(before, now) /\ sample.disk = DiskDiffs(before, now)
        /\ sample.pid = Pids(now)
    BY <2>1 DEF Sampled
  <2> QED BY <2>1, <2>2, SshIsRight, TcpIsRight, CpuIsRight, DiskIsRight, PidIsRight
<1> QED BY <1>1, <1>2, <1>3, PTL DEF MonitorSpec

----------------------------------------------------------------------------
(* The types of the monitor's and the case handlers' variables.             *)

LEMMA MonitorTyped == MonitorSpec => []MonitorTypeOK
<1>1. MonitorInit => MonitorTypeOK
  <2> SUFFICES ASSUME MonitorInit
               PROVE  MonitorTypeOK
    OBVIOUS
  <2>1. /\ wstep = "sample" /\ rstep = "open" /\ leftover = FALSE /\ overlap = FALSE
        /\ cut = FALSE /\ quoted = {}
        /\ sampleno = 0 /\ nparts = 0 /\ runs = 1 /\ now = NoWorld /\ before = NoWorld
    BY DEF MonitorInit
  <2>2. sampleno \in 0 .. MaxSamples /\ nparts \in 0 .. MaxParts /\ runs \in 1 .. MaxRuns
    BY <2>1, MonitorAssumption
  <2>3. (wstep = "dead") = (rstep \in {"failed", "dead"})
    BY <2>1
  <2>4. /\ leftover \in BOOLEAN /\ cut \in BOOLEAN /\ overlap \in BOOLEAN
        /\ quoted \subseteq 1 .. MaxSamples
    BY <2>1
  <2>5. now \in Worlds \cup {NoWorld} /\ before \in Worlds \cup {NoWorld}
    BY <2>1
  <2>6. /\ wstep \in {"sample", "create", "write", "dead"}
        /\ rstep \in {"open", "read", "parse", "printed", "failed", "dead"}
    BY <2>1
  <2> QED BY <2>2, <2>3, <2>4, <2>5, <2>6, Zenon DEF MonitorTypeOK
<1>2. MonitorTypeOK /\ [MonitorNext]_monVars => MonitorTypeOK'
  <2> SUFFICES ASSUME MonitorTypeOK, [MonitorNext]_monVars
               PROVE  MonitorTypeOK'
    OBVIOUS
  <2> USE MonitorAssumption DEF MonitorTypeOK, fileVars, readVars, dataVars
  <2>1. CASE UNCHANGED monVars
    BY <2>1 DEF monVars
  <2>2. CASE TakeSample
    <3>1. /\ wstep = "sample" /\ wstep' = "create" /\ rstep' = rstep /\ now' \in Worlds
          /\ before' = now /\ nparts' \in 1 .. MaxParts
          /\ sampleno < MaxSamples /\ sampleno' = sampleno + 1
          /\ quoted' \in {quoted, quoted \cup {sampleno + 1}}
          /\ UNCHANGED <<leftover, cut, overlap, runs>>
      BY <2>2 DEF TakeSample
    <3>2. sampleno' \in 1 .. MaxSamples /\ nparts' \in 0 .. MaxParts
      BY <3>1
    <3> QED BY <3>1, <3>2
  <2>3. CASE SampleThrows
    BY <2>3 DEF SampleThrows
  <2>4. CASE CreateOk
    BY <2>4 DEF CreateOk, CreateFile, Touches
  <2>5. CASE CreateElsewhere
    BY <2>5 DEF CreateElsewhere, CreateFile
  <2>6. CASE WritePart
    <3>1. /\ wstep = "write" /\ wstep' \in {"sample", "write"}
          /\ overlap' = (overlap \/ rstep \in {"read", "parse"})
          /\ UNCHANGED <<leftover, cut, dataVars, rstep, runs>>
      BY <2>6 DEF WritePart, Touches
    <3> QED BY <3>1
  <2>7. CASE OpenToRead
    BY <2>7 DEF OpenToRead
  <2>8. CASE ReadPart
    <3>1. /\ rstep = "read" /\ rstep' \in {"read", "parse"}
          /\ UNCHANGED <<wstep, leftover, cut, dataVars, overlap, runs>>
      BY <2>8 DEF ReadPart
    <3> QED BY <3>1
  <2>9. CASE ParsePrint
    BY <2>9 DEF ParsePrint
  <2>10. CASE ParseError
    BY <2>10 DEF ParseError
  <2>11. CASE ReaderSleeps
    <3>1. /\ rstep = "printed" /\ rstep' = "open" /\ overlap' = FALSE
          /\ UNCHANGED <<wstep, leftover, cut, dataVars, runs>>
      BY <2>11 DEF ReaderSleeps
    <3>2. wstep # "dead"
      BY <3>1
    <3>3. (wstep' = "dead") = (rstep' \in {"failed", "dead"})
      BY <3>1, <3>2
    <3> QED BY <3>1, <3>3
  <2>12. CASE Restart
    <3>1. /\ wstep' = "sample" /\ rstep' = "open" /\ overlap' = FALSE
          /\ runs < MaxRuns /\ runs' = runs + 1 /\ now' = NoWorld /\ before' = NoWorld
          /\ UNCHANGED <<cut, quoted, sampleno, nparts>> /\ leftover' \in BOOLEAN
      BY <2>12 DEF Restart
    <3>2. runs' \in 1 .. MaxRuns
      BY <3>1
    <3>3. (wstep' = "dead") = (rstep' \in {"failed", "dead"})
      BY <3>1
    <3>4. now' \in Worlds \cup {NoWorld} /\ before' \in Worlds \cup {NoWorld}
      BY <3>1
    <3>5. /\ quoted' \subseteq 1 .. MaxSamples /\ cut' \in BOOLEAN
          /\ sampleno' \in 0 .. MaxSamples /\ nparts' \in 0 .. MaxParts
      BY <3>1
    <3> QED BY <3>1, <3>2, <3>3, <3>4, <3>5, Zenon
  <2>13. CASE WriteCut
    BY <2>13 DEF WriteCut
  <2>14. CASE ReadThrows
    BY <2>14 DEF ReadThrows
  <2> QED BY <2>1, <2>2, <2>3, <2>4, <2>5, <2>6, <2>7, <2>8, <2>9, <2>10, <2>11, <2>12, <2>13,
             <2>14
       DEF MonitorNext
<1> QED BY <1>1, <1>2, PTL DEF MonitorSpec

\* What CasesTypeOK says beyond HandlersInv and WorkInv.
BaselineTyped ==
  /\ probe \in [Callers -> {"ptrace", "pipe2"}]
  /\ upc \in {"loaded", "wanted", "hooks", "stop", "gone"}
  /\ {hookmutex, casemutex} \subseteq {"work", "unload", Nobody}
  /\ present \in ModuleLists \cup {<<>>} /\ bfailed \in BOOLEAN

LEMMA BaselineTypeStep ==
  ASSUME BaselineTyped, [CasesNext]_caseVars
  PROVE  BaselineTyped'
<1> USE DEF BaselineTyped
<1>1. CASE UNCHANGED <<probe, baseVars>>
  BY <1>1 DEF baseVars
<1>2. ASSUME NEW c \in Callers, HandlerStart(c)
      PROVE  BaselineTyped'
  BY <1>2 DEF HandlerStart, baseVars
<1>3. \A c \in Callers : Obtain(c) \/ Umask(c) \/ NoMem(c) \/ Exe(c) \/ Put(c) \/ Args(c) \/ Send(c)
        => UNCHANGED <<probe, baseVars>>
  BY DEF Obtain, Umask, NoMem, Exe, Put, Args, Send
<1>4. CASE WorkStart
  BY <1>4 DEF WorkStart, handlerVars
<1>5. CASE TryCaseMutex
  BY <1>5 DEF TryCaseMutex, handlerVars
<1>6. CASE Scan
  <2>1. /\ present' \in ModuleLists /\ bfailed' \in BOOLEAN
        /\ UNCHANGED <<probe, upc, hookmutex, casemutex>>
    BY <1>6 DEF Scan, handlerVars
  <2> QED BY <2>1
<1>7. CASE Buffer \/ Report \/ Out
  <2>1. UNCHANGED <<probe, upc, hookmutex, casemutex, present, bfailed>>
    BY <1>7 DEF Buffer, Report, Out, handlerVars
  <2> QED BY <2>1
<1>8. CASE NoBuffer
  BY <1>8 DEF NoBuffer, handlerVars
<1>9. CASE FreeList
  BY <1>9 DEF FreeList, handlerVars
<1>10. CASE UnloadWanted
  BY <1>10 DEF UnloadWanted, handlerVars
<1>11. CASE UnloadCase
  BY <1>11 DEF UnloadCase, handlerVars
<1>12. CASE UnloadHooks
  BY <1>12 DEF UnloadHooks, handlerVars
<1>13. CASE UnloadStop
  BY <1>13 DEF UnloadStop, handlerVars
<1> QED BY <1>1, <1>2, <1>3, <1>4, <1>5, <1>6, <1>7, <1>8, <1>9, <1>10, <1>11, <1>12, <1>13
     DEF CasesNext, BaselineWork, Unloading, caseVars, handlerVars

LEMMA CasesTyped == CasesSpec => []CasesTypeOK
<1>1. CasesInit => HandlersInv /\ WorkInv /\ BaselineTyped
  <2>1. CasesInit => BaselineTyped
    BY DEF CasesInit, BaselineTyped
  <2> QED BY <2>1, CasesStart
<1>2. /\ HandlersInv /\ WorkInv /\ BaselineTyped /\ [CasesNext]_caseVars
      => HandlersInv' /\ WorkInv' /\ BaselineTyped'
  BY HandlersStep, WorkStep, BaselineTypeStep
<1>3. HandlersInv /\ WorkInv /\ BaselineTyped => CasesTypeOK
  BY DEF HandlersInv, WorkInv, BaselineTyped, CasesTypeOK
<1> QED BY <1>1, <1>2, <1>3, PTL DEF CasesSpec

----------------------------------------------------------------------------
(* Baseline: what Report puts into the text.                                *)

\* The text's length and its names on the way along the list.
Composed(names) == CHOOSE acc :
  acc = [i \in 0 .. Len(names) |-> IF i = 0 THEN <<0, <<>>>> ELSE AddName(acc[i - 1], names[i])]
Names == DOMAIN NameLength

LEMMA AddNameTyped ==
  ASSUME NEW x \in Nat \X Seq(Names), NEW name \in Names
  PROVE  AddName(x, name) \in Nat \X Seq(Names)
<1>1. NameLength[name] \in Nat
  BY CasesAssumption DEF Names
<1>2. x[1] \in Nat /\ x[2] \in Seq(Names)
  OBVIOUS
<1> DEFINE text == x[2]
           len == NameLength[name]
<1> HIDE DEF text, len
<1>3. Append(text, name) \in Seq(Names)
  BY <1>2 DEF text
<1>4. x[1] + len + 2 \in Nat
  BY <1>1, <1>2 DEF len
<1>5. AddName(x, name) = IF x[1] + len < TextRoom
                         THEN <<x[1] + len + 2, Append(text, name)>> ELSE x
  BY DEF AddName, text, len
<1>6. <<x[1] + len + 2, Append(text, name)>> \in Nat \X Seq(Names)
  BY <1>3, <1>4
<1> QED BY <1>5, <1>6

LEMMA FitsFacts ==
  ASSUME NEW s \in Seq(Names)
  PROVE  /\ Composed(s) \in [0 .. Len(s) -> Nat \X Seq(Names)]
         /\ Composed(s)[0] = <<0, <<>>>>
         /\ \A i \in 1 .. Len(s) : Composed(s)[i] = AddName(Composed(s)[i - 1], s[i])
<1> DEFINE n == Len(s)
           V == Nat \X Seq(Names)
           a == <<0, <<>>>>
           F == [x \in V \X (1 .. n) |-> AddName(x[1], s[x[2]])]
           Is(acc) == acc = [i \in 0 .. n |-> IF i = 0 THEN a ELSE AddName(acc[i - 1], s[i])]
           h == Composed(s)
<1>1. n \in Nat /\ a \in V /\ \A i \in 1 .. n : s[i] \in Names
  <2>1. <<>> \in Seq(Names)
    OBVIOUS
  <2>2. a \in V
    BY <2>1
  <2> QED BY <2>2
<1>2. \A x \in V, i \in 1 .. n : AddName(x, s[i]) \in V
  BY <1>1, AddNameTyped
<1> HIDE DEF n, a
<1>3. F \in [V \X (1 .. n) -> V] /\ \A x \in V, i \in 1 .. n : F[<<x, i>>] = AddName(x, s[i])
  <2> HIDE DEF V
  <2> QED BY <1>2
<1> HIDE DEF F
<1>4. PICK g \in [0 .. n -> V] : g[0] = a /\ \A i \in 1 .. n : g[i] = F[<<g[i - 1], i>>]
  <2>1. F \in StepsOf(V, n)
    BY <1>3 DEF StepsOf
  <2>2. a \in V /\ n \in Nat
    BY <1>1
  <2> HIDE DEF V
  <2>3. \E g \in Walks(V, n) : Follows(g, a, n, F)
    BY <2>1, <2>2, Recursion
  <2> QED BY <2>3 DEF Walks, Follows
<1> HIDE DEF V
<1>5. \A i \in 1 .. n : g[i] = AddName(g[i - 1], s[i])
  <2>1. \A i \in 1 .. n : i - 1 \in 0 .. n
    BY <1>1
  <2> QED BY <1>3, <1>4, <2>1
<1>6. Is(g)
  BY <1>4, <1>5
<1>7. h = CHOOSE acc : Is(acc)
  BY DEF Composed, n, a
<1> HIDE DEF Is, h
<1>8. Is(h)
  BY <1>6, <1>7
<1>9. h = [i \in 0 .. n |-> h[i]]
  BY <1>8 DEF Is
<1>10. h[0] = a /\ \A i \in 1 .. n : h[i] = AddName(h[i - 1], s[i])
  <2>1. \A i \in 0 .. n : h[i] = IF i = 0 THEN a ELSE AddName(h[i - 1], s[i])
    BY <1>8 DEF Is
  <2>2. 0 \in 0 .. n /\ \A i \in 1 .. n : i \in 0 .. n /\ i # 0
    BY <1>1
  <2> QED BY <2>1, <2>2
<1>11. h[0] \in V /\ \A i \in 1 .. n : h[i - 1] \in V => h[i] \in V
  BY <1>1, <1>2, <1>10
<1>12. h \in [0 .. n -> V]
  BY <1>1, <1>9, <1>11, TypedAlong
<1> QED BY <1>10, <1>12 DEF h, n, V, a

\* The names in the text after the first k, by the step that added the last.
LEMMA FitsStep ==
  ASSUME NEW s \in Seq(Names), NEW k \in 1 .. Len(s)
  PROVE  LET l == Composed(s)[k - 1][1]
             t == Composed(s)[k - 1][2]
         IN /\ l \in Nat /\ t \in Seq(Names) /\ Composed(s)[k][2] \in Seq(Names)
            /\ IF l + NameLength[s[k]] < TextRoom
               THEN Composed(s)[k][1] = l + NameLength[s[k]] + 2 /\ Composed(s)[k][2] = Append(t, s[k])
               ELSE Composed(s)[k][1] = l /\ Composed(s)[k][2] = t
<1>1. k - 1 \in 0 .. Len(s) /\ k \in 0 .. Len(s)
  OBVIOUS
<1>2. Composed(s)[k - 1] \in Nat \X Seq(Names) /\ Composed(s)[k] \in Nat \X Seq(Names)
  BY <1>1, FitsFacts
<1>3. Composed(s)[k] = AddName(Composed(s)[k - 1], s[k])
  BY FitsFacts
<1> DEFINE x == Composed(s)[k - 1]
           y == Composed(s)[k]
<1> HIDE DEF x, y
<1>4. y = IF x[1] + NameLength[s[k]] < TextRoom
          THEN <<x[1] + NameLength[s[k]] + 2, Append(x[2], s[k])>> ELSE x
  BY <1>3 DEF AddName, x, y
<1>5. x[1] \in Nat /\ x[2] \in Seq(Names) /\ y[2] \in Seq(Names)
  BY <1>2 DEF x, y
<1>6. IF x[1] + NameLength[s[k]] < TextRoom
      THEN y[1] = x[1] + NameLength[s[k]] + 2 /\ y[2] = Append(x[2], s[k])
      ELSE y[1] = x[1] /\ y[2] = x[2]
  BY <1>4
<1> QED BY <1>5, <1>6 DEF x, y

\* If there is room for all, all are in it, in order.
LEMMA FittingAll ==
  ASSUME NEW s \in Seq(Names), Lengths(s)[Len(s)] <= TextRoom
  PROVE  Composed(s)[Len(s)][2] = s
<1> DEFINE n == Len(s)
           L(k) == Lengths(s)[k]
           A(k) == Composed(s)[k][1]
           B(k) == Composed(s)[k][2]
           T == {k \in 0 .. n : L(k) <= TextRoom =>
                   /\ A(k) = L(k) /\ Len(B(k)) = k
                   /\ \A i \in 1 .. k : B(k)[i] = s[i]}
<1>1. n \in Nat /\ TextRoom \in Nat /\ \A k \in 1 .. n : NameLength[s[k]] \in Nat /\ s[k] \in Names
  BY CasesAssumption DEF Names
<1>2. /\ L(0) = 0 /\ \A k \in 0 .. n : L(k) \in Nat
      /\ \A k \in 1 .. n : L(k) = L(k - 1) + NameLength[s[k]] + 2
  <2>1. s \in Seq(DOMAIN NameLength)
    BY DEF Names
  <2> QED BY <2>1, LengthsFacts
<1>3. A(0) = 0 /\ B(0) = <<>>
  BY FitsFacts
<1>4. B(n) \in Seq(Names)
  <2>1. Composed(s)[n] \in Nat \X Seq(Names)
    BY <1>1, FitsFacts
  <2> QED BY <2>1
<1>5. ASSUME NEW k \in 1 .. n
      PROVE  /\ A(k - 1) \in Nat /\ B(k - 1) \in Seq(Names)
             /\ A(k - 1) + NameLength[s[k]] < TextRoom =>
                  /\ A(k) = A(k - 1) + NameLength[s[k]] + 2
                  /\ B(k) = Append(B(k - 1), s[k])
  BY FitsStep
<1> HIDE DEF n, L, A, B
<1>6. 0 \in T
  <2>1. Len(B(0)) = 0
    BY <1>3
  <2>2. 0 \in 0 .. n /\ 1 .. 0 = {}
    BY <1>1
  <2> QED BY <1>2, <1>3, <2>1, <2>2
<1>7. ASSUME NEW k \in 1 .. n, k - 1 \in T
      PROVE  k \in T
  <2> SUFFICES ASSUME L(k) <= TextRoom
               PROVE  A(k) = L(k) /\ Len(B(k)) = k /\ \A i \in 1 .. k : B(k)[i] = s[i]
    <3>1. k \in 0 .. n
      BY <1>1
    <3> QED BY <3>1
  <2> DEFINE m == NameLength[s[k]]
  <2>1. /\ m \in Nat /\ L(k) = L(k - 1) + m + 2 /\ L(k - 1) \in Nat /\ k - 1 \in Nat
        /\ L(k - 1) <= TextRoom
    <3>1. k - 1 \in 0 .. n
      BY <1>1
    <3>2. m \in Nat /\ L(k) = L(k - 1) + m + 2 /\ L(k - 1) \in Nat
      BY <1>1, <1>2, <3>1
    <3> HIDE DEF m
    <3> QED BY <1>1, <3>1, <3>2
  <2>2. /\ A(k - 1) = L(k - 1) /\ Len(B(k - 1)) = k - 1
        /\ \A i \in 1 .. k - 1 : B(k - 1)[i] = s[i]
    BY <1>7, <2>1
  <2>3. A(k - 1) + m < TextRoom
    <3> HIDE DEF m
    <3> QED BY <1>1, <2>1, <2>2
  <2>4. A(k) = A(k - 1) + m + 2 /\ B(k) = Append(B(k - 1), s[k]) /\ B(k - 1) \in Seq(Names)
    BY <1>5, <2>3
  <2> HIDE DEF m
  <2>5. A(k) = L(k)
    BY <2>1, <2>2, <2>4
  <2> DEFINE t == B(k - 1)
             x == s[k]
  <2>6. x \in Names
    BY <1>1
  <2>7. t \in Seq(Names) /\ Len(t) = k - 1
    BY <2>2, <2>4
  <2> HIDE DEF t, x
  <2>8. /\ Len(Append(t, x)) = k /\ Append(t, x)[k] = x
        /\ \A i \in 1 .. k - 1 : Append(t, x)[i] = t[i]
    <3>1. Len(Append(t, x)) = Len(t) + 1 /\ Append(t, x)[Len(t) + 1] = x
          /\ \A i \in 1 .. Len(t) : Append(t, x)[i] = t[i]
      BY <2>6, <2>7
    <3>2. (k - 1) + 1 = k
      BY <1>1
    <3> QED BY <2>7, <3>1, <3>2
  <2>9. \A i \in 1 .. k : B(k)[i] = s[i]
    <3>1. \A i \in 1 .. k : i = k \/ i \in 1 .. k - 1
      BY <1>1
    <3> QED BY <2>2, <2>4, <2>8, <3>1 DEF t, x
  <2>10. Len(B(k)) = k
    BY <2>4, <2>8 DEF t, x
  <2> QED BY <2>5, <2>9, <2>10
<1>8. n \in T
  <2> HIDE DEF T
  <2>1. 0 .. n \subseteq T
    BY <1>1, <1>6, <1>7, InductionUpTo
  <2> QED BY <1>1, <2>1
<1>9. L(n) <= TextRoom
  BY DEF L, n
<1>10. Len(B(n)) = n /\ \A i \in 1 .. n : B(n)[i] = s[i]
  BY <1>8, <1>9
<1>11. B(n) = s
  <2> DEFINE t == B(n)
  <2>1. t \in Seq(Names) /\ Len(t) = Len(s) /\ \A i \in 1 .. Len(s) : t[i] = s[i]
    BY <1>4, <1>10 DEF n
  <2> HIDE DEF t
  <2>2. t = s
    BY <2>1
  <2> QED BY <2>2 DEF t
<1> QED BY <1>11 DEF B, n

\* What is in the text is of the list and in its order.
LEMMA FittingInOrder ==
  ASSUME NEW s \in Seq(Names)
  PROVE  IsSubseqOf(Composed(s)[Len(s)][2], s)
<1> DEFINE n == Len(s)
           B(k) == Composed(s)[k][2]
           Placing(k, place) ==
             /\ place \in [1 .. Len(B(k)) -> 1 .. k]
             /\ \A i \in 1 .. Len(B(k)) : B(k)[i] = s[place[i]]
             /\ \A i, j \in 1 .. Len(B(k)) : i < j => place[i] < place[j]
           T == {k \in 0 .. n : \E place : Placing(k, place)}
<1>1. n \in Nat /\ DOMAIN s = 1 .. n /\ \A k \in 1 .. n : s[k] \in Names
  OBVIOUS
<1>2. B(0) = <<>>
  BY FitsFacts
<1>3. B(n) \in Seq(Names)
  <2>1. Composed(s)[n] \in Nat \X Seq(Names)
    BY <1>1, FitsFacts
  <2> QED BY <2>1
<1>4. ASSUME NEW k \in 1 .. n
      PROVE  B(k - 1) \in Seq(Names) /\ B(k) \in {B(k - 1), Append(B(k - 1), s[k])}
  <2>1. LET l == Composed(s)[k - 1][1]
            t == Composed(s)[k - 1][2]
        IN /\ t \in Seq(Names)
           /\ IF l + NameLength[s[k]] < TextRoom
              THEN Composed(s)[k][2] = Append(t, s[k]) ELSE Composed(s)[k][2] = t
    BY FitsStep
  <2> QED BY <2>1
<1> HIDE DEF n, B
<1>5. 0 \in T
  <2>1. Len(B(0)) = 0 /\ 1 .. 0 = {}
    BY <1>2
  <2> DEFINE none == [i \in 1 .. 0 |-> 0]
  <2>2. none \in [1 .. 0 -> 1 .. 0]
    BY <2>1
  <2>3. Placing(0, none)
    <3> HIDE DEF none
    <3> QED BY <2>1, <2>2
  <2>4. 0 \in 0 .. n
    BY <1>1
  <2> HIDE DEF Placing
  <2> QED BY <2>3, <2>4
<1>6. ASSUME NEW k \in 1 .. n, k - 1 \in T
      PROVE  k \in T
  <2>1. PICK place : Placing(k - 1, place)
    BY <1>6
  <2>2. k \in 0 .. n /\ k \in Nat
    BY <1>1
  <2>3. CASE B(k) = B(k - 1)
    <3>1. 1 .. k - 1 \subseteq 1 .. k
      BY <2>2
    <3>2. Placing(k, place)
      BY <2>1, <2>3, <3>1
    <3> QED BY <2>2, <3>2
  <2>4. CASE B(k) = Append(B(k - 1), s[k])
    <3> DEFINE t == B(k - 1)
               u == B(k)
               m == Len(t)
               more == [i \in 1 .. m + 1 |-> IF i = m + 1 THEN k ELSE place[i]]
    <3>1. /\ Len(u) = m + 1 /\ m \in Nat /\ u[m + 1] = s[k]
          /\ \A i \in 1 .. m : u[i] = t[i]
      <4>1. t \in Seq(Names) /\ s[k] \in Names /\ u = Append(t, s[k])
        BY <1>1, <1>4, <2>4
      <4> HIDE DEF t, u
      <4> QED BY <4>1
    <3>2. /\ place \in [1 .. m -> 1 .. k - 1] /\ \A i \in 1 .. m : t[i] = s[place[i]]
          /\ \A i, j \in 1 .. m : i < j => place[i] < place[j]
      BY <2>1
    <3> HIDE DEF t, u, m
    <3>3. \A i \in 1 .. m : place[i] \in 1 .. k /\ place[i] < k /\ place[i] \in Nat
      BY <2>2, <3>2
    <3>4. \A i \in 1 .. m + 1 : i = m + 1 \/ (i \in 1 .. m /\ i # m + 1)
      BY <3>1
    <3>5. more \in [1 .. m + 1 -> 1 .. k]
      BY <2>2, <3>3, <3>4
    <3>6. \A i \in 1 .. m + 1 : u[i] = s[more[i]]
      BY <3>1, <3>2, <3>4
    <3>7. \A i, j \in 1 .. m + 1 : i < j => more[i] < more[j]
      <4> SUFFICES ASSUME NEW i \in 1 .. m + 1, NEW j \in 1 .. m + 1, i < j
                   PROVE  more[i] < more[j]
        OBVIOUS
      <4>1. i \in 1 .. m /\ i # m + 1 /\ more[i] = place[i]
        BY <3>1
      <4>2. CASE j = m + 1
        <5>1. more[j] = k
          BY <4>2
        <5> QED BY <3>3, <4>1, <5>1
      <4>3. CASE j # m + 1
        <5>1. j \in 1 .. m /\ more[j] = place[j]
          BY <3>4, <4>3
        <5> QED BY <3>2, <4>1, <5>1
      <4> QED BY <4>2, <4>3
    <3> HIDE DEF more
    <3>8. Placing(k, more)
      BY <3>1, <3>5, <3>6, <3>7 DEF u
    <3> QED BY <2>2, <3>8
  <2> QED BY <1>4, <2>3, <2>4
<1>7. n \in T
  <2> HIDE DEF T
  <2>1. 0 .. n \subseteq T
    BY <1>1, <1>5, <1>6, InductionUpTo
  <2> QED BY <1>1, <2>1
<1>8. PICK place : Placing(n, place)
  BY <1>7
<1> DEFINE t == B(n)
<1>9. DOMAIN t = 1 .. Len(t)
  BY <1>3
<1>10. IsSubseqOf(t, s)
  <2>1. place \in [DOMAIN t -> DOMAIN s]
    BY <1>1, <1>8, <1>9
  <2>2. /\ \A i \in DOMAIN t : t[i] = s[place[i]]
        /\ \A i, j \in DOMAIN t : i < j => place[i] < place[j]
    BY <1>8, <1>9
  <2> HIDE DEF t
  <2> QED BY <2>1, <2>2 DEF IsSubseqOf
<1> QED BY <1>10 DEF t, B, n

\* The reverse of the first m of a sequence ends the reverse of all of it.
LEMMA ReverseOfFirst ==
  ASSUME NEW S, NEW s \in Seq(S), NEW m \in 0 .. Len(s)
  PROVE  LET r == Reverse(SubSeq(s, 1, m))
             a == Reverse(s)
             d == Len(s) - m
         IN /\ r \in Seq(S) /\ Len(r) = m /\ DOMAIN r = 1 .. m
            /\ a \in Seq(S) /\ Len(a) = Len(s) /\ DOMAIN a = 1 .. Len(s)
            /\ \A i \in 1 .. m : d + i \in 1 .. Len(s) /\ r[i] = a[d + i]
            /\ m = Len(s) => r = a
<1> DEFINE n == Len(s)
           q == SubSeq(s, 1, m)
           d == n - m
<1>1. n \in Nat /\ m \in Nat /\ m <= n
  OBVIOUS
<1>2. \A i \in 1 .. n : s[i] \in S
  OBVIOUS
<1>3. q \in Seq(S) /\ Len(q) = m /\ \A i \in 1 .. m : q[i] = s[i]
  OBVIOUS
<1> DEFINE r == [i \in 1 .. m |-> q[(m - i) + 1]]
           a == [i \in 1 .. n |-> s[(n - i) + 1]]
<1>4. Reverse(q) = r /\ Reverse(s) = a
  BY <1>3 DEF Reverse
<1> HIDE DEF n, q
<1>5. \A i \in 1 .. m : (m - i) + 1 \in 1 .. m /\ (m - i) + 1 \in 1 .. n
  BY <1>1
<1>6. \A i \in 1 .. n : (n - i) + 1 \in 1 .. n
  BY <1>1
<1>7. r \in Seq(S) /\ Len(r) = m /\ DOMAIN r = 1 .. m /\ \A i \in 1 .. m : r[i] = s[(m - i) + 1]
  <2>1. \A i \in 1 .. m : q[(m - i) + 1] = s[(m - i) + 1] /\ s[(m - i) + 1] \in S
    BY <1>2, <1>3, <1>5
  <2> QED BY <1>1, <2>1
<1>8. a \in Seq(S) /\ Len(a) = n /\ DOMAIN a = 1 .. n
  BY <1>1, <1>2, <1>6
<1>9. ASSUME NEW i \in 1 .. m
      PROVE  d + i \in 1 .. n /\ r[i] = a[d + i]
  <2>1. d + i \in 1 .. n /\ (n - (d + i)) + 1 = (m - i) + 1
    BY <1>1
  <2> QED BY <1>7, <2>1
<1>10. m = n => r = a
  <2>1. ASSUME m = n PROVE r = a
    <3>1. \A i \in 1 .. n : q[(m - i) + 1] = s[(n - i) + 1]
      BY <1>3, <1>5, <2>1
    <3> QED BY <2>1, <3>1
  <2> QED BY <2>1
<1> HIDE DEF r, a
<1> QED BY <1>4, <1>7, <1>8, <1>9, <1>10 DEF n, q

LEMMA SubseqOfEnd ==
  ASSUME NEW S, NEW b \in Seq(S), NEW r \in Seq(S), NEW a \in Seq(S), NEW d \in Nat,
         IsSubseqOf(b, r),
         \A i \in DOMAIN r : d + i \in DOMAIN a /\ r[i] = a[d + i]
  PROVE  IsSubseqOf(b, a)
<1>1. PICK place \in [DOMAIN b -> DOMAIN r] :
        /\ \A i \in DOMAIN b : b[i] = r[place[i]]
        /\ \A i, j \in DOMAIN b : i < j => place[i] < place[j]
  BY DEF IsSubseqOf
<1> DEFINE shifted == [i \in DOMAIN b |-> d + place[i]]
<1>2. DOMAIN r \subseteq Nat
  <2>1. DOMAIN r = 1 .. Len(r) /\ Len(r) \in Nat
    OBVIOUS
  <2> QED BY <2>1
<1>3. shifted \in [DOMAIN b -> DOMAIN a]
  BY <1>1
<1>4. \A i \in DOMAIN b : b[i] = a[shifted[i]]
  BY <1>1
<1>5. \A i, j \in DOMAIN b : i < j => shifted[i] < shifted[j]
  <2> SUFFICES ASSUME NEW i \in DOMAIN b, NEW j \in DOMAIN b, i < j
               PROVE  d + place[i] < d + place[j]
    OBVIOUS
  <2>1. place[i] \in Nat /\ place[j] \in Nat /\ place[i] < place[j]
    BY <1>1, <1>2
  <2> QED BY <2>1
<1> HIDE DEF shifted
<1> QED BY <1>3, <1>4, <1>5 DEF IsSubseqOf

\* The list is of the modules that this work found, reversed, all of them if
\* no allocation failed; the text is Report's or none.
ListFound ==
  \E m \in 0 .. Len(present) : /\ blist = Reverse(SubSeq(present, 1, m))
                               /\ ~bfailed => m = Len(present)
ListInv ==
  /\ bpc \in {"all", "header", "compose", "report", "out"} => ListFound
  /\ bpc \in {"all", "header", "compose", "report"} => breport = <<>>
  /\ bpc = "out" => breport \in {<<>>, Fitting(blist)}

LEMMA ListStep ==
  ASSUME WorkInv, BaselineTyped, ListInv, [CasesNext]_caseVars
  PROVE  ListInv'
<1> USE DEF ListInv
<1>1. CASE UNCHANGED <<bpc, present, blist, breport, bfailed>>
  BY <1>1 DEF ListFound, Fitting, AddName
<1>2. CASE bpc' \in {"idle", "trylock", "scan", "free"}
  BY <1>2
<1>3. CASE TryCaseMutex
  BY <1>2, <1>3 DEF TryCaseMutex
<1>4. CASE Scan
  <2>1. PICK s \in ModuleLists : \E n \in 0 .. Len(s) :
          /\ present' = s /\ blist' = Added(s, n) /\ bfailed' = (n < Len(s))
    BY <1>4 DEF Scan
  <2>2. PICK n \in 0 .. Len(s) :
          present' = s /\ blist' = Added(s, n) /\ bfailed' = (n < Len(s))
    BY <2>1
  <2>3. blist = <<>> /\ bpc' = "all" /\ breport' = <<>>
    BY <1>4 DEF Scan, WorkInv
  <2>4. s \in Seq(Names)
    BY CasesAssumption DEF Names
  <2>5. Reverse(SubSeq(s, 1, n)) \in Seq(Names)
    BY <2>4, ReverseOfFirst
  <2>6. blist' = Reverse(SubSeq(s, 1, n))
    <3> DEFINE r == Reverse(SubSeq(s, 1, n))
    <3> HIDE DEF r
    <3>1. r \o <<>> = r
      BY <2>5 DEF r
    <3> QED BY <2>2, <2>3, <3>1 DEF Added, r
  <2>7. ~bfailed' => n = Len(s)
    <3>1. Len(s) \in Nat
      BY <2>4
    <3> DEFINE l == Len(s)
    <3> HIDE DEF l
    <3>2. l \in Nat /\ n \in 0 .. l /\ bfailed' = (n < l)
      BY <2>2, <3>1 DEF l
    <3>3. ASSUME n # l
          PROVE  bfailed'
      <4>1. n < l
        BY <3>2, <3>3
      <4>2. (n < l) = TRUE
        BY <4>1
      <4> HIDE DEF l
      <4> QED BY <3>2, <4>2, Zenon
    <3> QED BY <3>3 DEF l
  <2>8. ListFound'
    <3>1. present' = s /\ n \in 0 .. Len(s)
      BY <2>2
    <3> QED BY <2>6, <2>7, <3>1, Zenon DEF ListFound
  <2>9. bpc' # "out"
    BY <2>3
  <2> QED BY <2>3, <2>8, <2>9, Zenon
<1>5. CASE Buffer
  <2>1. /\ bpc \in {"all", "header", "compose"} /\ bpc' \in {"header", "compose", "report"}
        /\ UNCHANGED <<present, blist, breport, bfailed>>
    <3>1. /\ bpc \in {"all", "header", "compose"} /\ bpc' = BufferSteps[bpc]
          /\ UNCHANGED <<present, blist, breport, bfailed>>
      BY <1>5 DEF Buffer, BufferSteps
    <3>2. /\ BufferSteps["all"] = "header" /\ BufferSteps["header"] = "compose"
          /\ BufferSteps["compose"] = "report"
      BY DEF BufferSteps
    <3> QED BY <3>1, <3>2
  <2> QED BY <2>1 DEF ListFound
<1>6. CASE NoBuffer
  <2>1. /\ bpc \in {"all", "header", "compose"} /\ bpc' \in {"free", "out"} /\ bfailed' = TRUE
        /\ UNCHANGED <<present, blist, breport>>
    BY <1>6 DEF NoBuffer, BufferSteps
  <2> QED BY <2>1 DEF ListFound
<1>7. CASE Report
  <2>1. /\ bpc = "report" /\ bpc' = "out" /\ breport' = Fitting(blist)
        /\ UNCHANGED <<present, blist, bfailed>>
    BY <1>7 DEF Report
  <2> QED BY <2>1 DEF ListFound, Fitting, AddName
<1>8. CASE Out
  BY <1>2, <1>8 DEF Out
<1>9. CASE FreeList
  BY <1>2, <1>9 DEF FreeList
<1>10. CASE WorkStart
  <2>1. bpc = "idle" /\ bpc' \in {"idle", "trylock"}
    BY <1>10 DEF WorkStart
  <2> QED BY <1>2, <2>1
<1>11. UnloadWanted \/ UnloadCase \/ Unloading =>
         UNCHANGED <<bpc, present, blist, breport, bfailed>>
  BY DEF UnloadWanted, UnloadCase, Unloading, UnloadHooks, UnloadStop
<1>12. ASSUME NEW c \in Callers,
              HandlerStart(c) \/ Obtain(c) \/ Umask(c) \/ NoMem(c) \/ Exe(c) \/ Put(c)
                \/ Args(c) \/ Send(c)
       PROVE  UNCHANGED <<bpc, present, blist, breport, bfailed>>
  BY <1>12 DEF HandlerStart, Obtain, Umask, NoMem, Exe, Put, Args, Send, baseVars
<1>13. UNCHANGED caseVars => UNCHANGED <<bpc, present, blist, breport, bfailed>>
  BY DEF caseVars, baseVars
<1> QED BY <1>1, <1>3, <1>4, <1>5, <1>6, <1>7, <1>8, <1>9, <1>10, <1>11, <1>12, <1>13
     DEF CasesNext, BaselineWork

\* The baseline's report names loaded modules only, in the reverse of their
\* order and each once, and all of them if no allocation failed and all fit:
\* whatever the modules, their names' lengths and the text's room.
THEOREM BaselineIsReported == CasesSpec => []BaselineReported
<1>1. CasesInit => HandlersInv /\ WorkInv /\ BaselineTyped /\ ListInv
  <2>1. CasesInit => BaselineTyped /\ ListInv
    BY DEF CasesInit, BaselineTyped, ListInv
  <2> QED BY <2>1, CasesStart
<1>2. /\ HandlersInv /\ WorkInv /\ BaselineTyped /\ ListInv /\ [CasesNext]_caseVars
      => HandlersInv' /\ WorkInv' /\ BaselineTyped' /\ ListInv'
  BY HandlersStep, WorkStep, BaselineTypeStep, ListStep
<1>3. BaselineTyped /\ ListInv => BaselineReported
  <2> SUFFICES ASSUME BaselineTyped, ListInv, bpc = "out", breport # <<>>
               PROVE  /\ IsSubseqOf(breport, Reverse(present))
                      /\ (~bfailed /\ TextLength(Reverse(present)) <= TextRoom
                            => breport = Reverse(present))
    BY DEF BaselineReported
  <2>1. present \in Seq(Names)
    <3>1. <<>> \in Seq(Names)
      OBVIOUS
    <3> QED BY <3>1, CasesAssumption DEF BaselineTyped, Names
  <2>2. breport = Fitting(blist)
    BY DEF ListInv
  <2>3. PICK m \in 0 .. Len(present) : /\ blist = Reverse(SubSeq(present, 1, m))
                                       /\ ~bfailed => m = Len(present)
    BY DEF ListInv, ListFound
  <2> DEFINE r == Reverse(SubSeq(present, 1, m))
             a == Reverse(present)
             n == Len(present)
             d == n - m
  <2>4. /\ r \in Seq(Names) /\ Len(r) = m /\ DOMAIN r = 1 .. m
        /\ a \in Seq(Names) /\ Len(a) = n /\ DOMAIN a = 1 .. n
        /\ \A i \in 1 .. m : d + i \in 1 .. n /\ r[i] = a[d + i]
        /\ m = n => r = a
    BY <2>1, ReverseOfFirst
  <2>5. d \in Nat
    <3>1. n \in Nat
      BY <2>1
    <3> HIDE DEF n
    <3> QED BY <3>1 DEF n
  <2>6. Fitting(r) = Composed(r)[Len(r)][2]
    BY DEF Fitting, Composed
  <2> HIDE DEF r, a, n, d
  <2>7. breport = Composed(r)[Len(r)][2]
    BY <2>2, <2>3, <2>6 DEF r
  <2>8. breport \in Seq(Names)
    <3>1. Len(r) \in 0 .. Len(r)
      BY <2>4
    <3>2. Composed(r)[Len(r)] \in Nat \X Seq(Names)
      BY <2>4, <3>1, FitsFacts
    <3> QED BY <2>7, <3>2
  <2>9. IsSubseqOf(breport, r)
    BY <2>4, <2>7, FittingInOrder
  <2>10. IsSubseqOf(breport, a)
    BY <2>4, <2>5, <2>8, <2>9, SubseqOfEnd
  <2>11. ASSUME ~bfailed, TextLength(a) <= TextRoom
         PROVE  breport = a
    <3>1. r = a
      BY <2>3, <2>4, <2>11 DEF n
    <3>2. TextLength(a) = Lengths(a)[Len(a)]
      BY DEF TextLength, Lengths
    <3> QED BY <2>4, <2>7, <2>11, <3>1, <3>2, FittingAll
  <2> QED BY <2>10, <2>11 DEF a
<1> QED BY <1>1, <1>2, <1>3, PTL DEF CasesSpec

----------------------------------------------------------------------------
(* The sum of the units.                                                    *)

\* A step of the sum is one of a single unit, in which the others' variables
\* stay: a behaviour of the sum is one of every unit, with that unit's
\* fairness.
LEMMA SumOfUnits ==
  Spec => CoreSpec /\ PresetSpec /\ ProbesSpec /\ MonitorSpec /\ CasesSpec
<1>1. Init => CoreInit /\ PresetInit /\ ProbesInit /\ MonitorInit /\ CasesInit
  BY DEF Init
<1>2. [Next]_vars => /\ [CoreNext]_coreVars /\ [PresetNext]_presetVars
                     /\ [ProbesNext]_probeVars /\ [MonitorNext]_monVars
                     /\ [CasesNext]_caseVars
  <2>1. CASE UNCHANGED vars
    BY <2>1 DEF vars
  <2>2. CASE Next
    BY <2>2 DEF Next, coreRest, presetRests, probesRest, monitorRests, casesRest
  <2> QED BY <2>1, <2>2
<1> QED BY <1>1, <1>2, PTL DEF Spec, CoreSpec, PresetSpec, ProbesSpec, MonitorSpec, CasesSpec

\* Every variable of every unit stays in its type: the log's fifo and the BPF
\* ring within their sizes, for every size and any number of tasks, programs,
\* switches, samples and callers.
THEOREM UnitsTypeCorrect == Spec => []UnitsTypeOK
<1>1. UnitsTypeOK <=> /\ CoreTypeOK /\ PresetTypeOK /\ ProbesTypeOK
                      /\ MonitorTypeOK /\ CasesTypeOK
  BY DEF UnitsTypeOK
<1> QED BY <1>1, SumOfUnits, CoreTypeCorrect, PresetTyped, ProbesTyped, MonitorTyped,
           CasesTyped, PTL

\* What was proved of each unit holds of the sum that is model-checked.
THEOREM UnitsSafe ==
  Spec => []( /\ CoreMemory /\ LoneWriteKept /\ ReportsExact /\ RunsCleanUp
              /\ AttachedMatchMask /\ PublishedWanted /\ TextsOwn
              /\ ReaderFailuresExplained /\ SamplesRight
              /\ CasesLeaveNothing /\ BaselineReported )
BY SumOfUnits, RecordsOwned, LoneWriterHeard, ReportsNameChanges, PresetCleansUp,
   MaskObeyed, OnlyWantedPublished, TextsShownOwn, ReaderRaces, SamplesSayWhatTheySaw,
   HandlersLeaveNothing, BaselineIsReported, PTL

=============================================================================
