-------------------------- MODULE PresetWorkflow --------------------------
(***************************************************************************)
(* preset_workflow, as the memory_corruption case configures it: a timer's *)
(* work item collects the CPU's protection switches, the save check         *)
(* compares them with those of the measure before and reports what          *)
(* changed.  It runs under g_hook_list_array_mutex, alone with respect to   *)
(* registration; what makes it hard is that any allocation may fail and     *)
(* that saved values are found by their position.                           *)
(***************************************************************************)
EXTENDS Naturals, Sequences

CONSTANTS
  Switches,    \* names that collect_function_switch collects, in order
  PresetFails  \* whether allocations may fail

\* collect_SMEP_tag and the others give nothing where the name is NULL; each has
\* a name of its own.
ASSUME PresetAssumption ==
  /\ Switches \in Seq(STRING) /\ Len(Switches) > 0
  /\ \A i, j \in DOMAIN Switches : Switches[i] = Switches[j] => i = j
  /\ PresetFails \in BOOLEAN

SwitchNames == {Switches[i] : i \in DOMAIN Switches}
Absent == 2    \* no value was seen yet

VARIABLES
  cpu,      \* the switches' bits in CR0, CR4 or SCTLR_EL1
  step,     \* "out", "idle", the step of a run, or "oops"
  items,    \* collect_data_list: name and value
  tagged,   \* sc_data.init_tag
  saved,    \* sc_data.data
  pos,      \* data_index of the comparison
  entries,  \* response_arrays: name, old and new value
  reply,    \* what the analysis returns: "ok" or "report"
  heap,     \* live allocations
  seen,     \* history: value of each switch at the last measure, by name
  missing   \* history: a collector has failed since registration

presetVars == <<cpu, step, items, tagged, saved, pos, entries, reply, heap, seen, missing>>

PresetInit ==
  /\ cpu \in [SwitchNames -> {0, 1}]
  /\ step = "out"
  /\ items = <<>> /\ tagged = FALSE /\ saved = <<>> /\ pos = 0
  /\ entries = <<>> /\ reply = "ok" /\ heap = {}
  /\ seen = [s \in SwitchNames |-> Absent] /\ missing = FALSE

\* A protection is switched on or off under the detector's nose.
Flip(s) ==
  /\ cpu' = [cpu EXCEPT ![s] = 1 - @]
  /\ UNCHANGED <<step, items, tagged, saved, pos, entries, reply, heap, seen, missing>>

\* The padding leaves response_array NULL if its kmalloc fails.
PresetRegister ==
  /\ step = "out"
  /\ step' = "idle"
  /\ \/ heap' = {<<"responses", 0>>}
     \/ PresetFails /\ heap' = {}
  /\ UNCHANGED <<cpu, items, tagged, saved, pos, entries, reply, seen, missing>>

\* Mutant: only the responses are freed.
DataFreedNever == {}

\* free_analyze_status_data goes by the type that the first measure set.
DataFreed == IF tagged THEN {<<"data", 0>>} ELSE {}

PresetUnregister ==
  /\ step = "idle"
  /\ step' = "out"
  /\ heap' = heap \ (DataFreed \cup {<<"responses", 0>>})
  /\ tagged' = FALSE /\ saved' = <<>>
  /\ seen' = [s \in SwitchNames |-> Absent] /\ missing' = FALSE
  /\ UNCHANGED <<cpu, items, pos, entries, reply>>

\* preset_workflow calls one collector after the other.  Each appends its item,
\* unless one of its two allocations fails.
CollectStart ==
  /\ step = "idle" /\ step' = "collect" /\ pos' = 1
  /\ UNCHANGED <<cpu, items, tagged, saved, entries, reply, heap, seen, missing>>

AtCollector == step = "collect" /\ pos \in DOMAIN Switches
Collect ==
  /\ AtCollector
  /\ items' = Append(items, [name |-> Switches[pos], val |-> cpu[Switches[pos]]])
  /\ heap' = heap \cup {<<"item", Len(items')>>}
  /\ pos' = pos + 1
  /\ UNCHANGED <<cpu, step, tagged, saved, entries, reply, seen, missing>>

CollectFails ==
  /\ AtCollector /\ PresetFails
  /\ missing' = TRUE /\ pos' = pos + 1
  /\ UNCHANGED <<cpu, step, items, tagged, saved, entries, reply, heap, seen>>

\* analyze_save_check.
Analyze ==
  /\ step = "collect" /\ pos = Len(Switches) + 1
  /\ step' = IF tagged THEN "compare" ELSE "measure"
  /\ pos' = 0
  /\ UNCHANGED <<cpu, items, tagged, saved, entries, reply, heap, seen, missing>>

\* A negative result, stored in a uint32_t, passes the test for >= 0 and
\* indexes response_array far outside.
WildResponse ==
  /\ PresetFails
  /\ step' = "oops"
  /\ UNCHANGED <<cpu, items, tagged, saved, pos, entries, reply, heap, seen, missing>>

\* analyze_save_check_init.
FirstMeasure ==
  /\ step = "measure"
  /\ saved' = [i \in DOMAIN items |-> items[i].val]
  /\ tagged' = TRUE
  /\ heap' = heap \cup {<<"data", 0>>}
  /\ step' = "respond"
  /\ UNCHANGED <<cpu, items, pos, entries, reply, seen, missing>>

FirstMeasureFails == step = "measure" /\ WildResponse

\* analyze_save_check_normal: the array, then each item in turn.
CompareStart ==
  /\ step = "compare" /\ pos = 0
  /\ pos' = 1
  /\ heap' = heap \cup {<<"array", 0>>}
  /\ UNCHANGED <<cpu, step, items, tagged, saved, entries, reply, seen, missing>>

CompareStartFails == step = "compare" /\ pos = 0 /\ WildResponse

AtItem == step = "compare" /\ pos \in DOMAIN items
Changed == items[pos].val # saved[pos]

\* There are more items than the first measure saved: the comparison reads,
\* and may write, beyond the array.
CompareOverrun ==
  /\ AtItem /\ pos > Len(saved)
  /\ step' = "oops"
  /\ UNCHANGED <<cpu, items, tagged, saved, pos, entries, reply, heap, seen, missing>>

CompareSame ==
  /\ AtItem /\ pos <= Len(saved) /\ ~Changed
  /\ pos' = pos + 1
  /\ UNCHANGED <<cpu, step, items, tagged, saved, entries, reply, heap, seen, missing>>

\* Mutant: the value reported is not saved.
SavedKept == saved

SavedNow == [saved EXCEPT ![pos] = items[pos].val]

CompareChanged ==
  /\ AtItem /\ pos <= Len(saved) /\ Changed
  /\ entries' = Append(entries, [name |-> items[pos].name, old |-> saved[pos],
                                 new |-> items[pos].val])
  /\ heap' = heap \cup {<<"entry", Len(entries')>>}
  /\ saved' = SavedNow
  /\ reply' = "report" /\ pos' = pos + 1
  /\ UNCHANGED <<cpu, step, items, tagged, seen, missing>>

CompareChangedFails == AtItem /\ pos <= Len(saved) /\ Changed /\ WildResponse

\* The text is put together, with or without a time stamp, and everything the
\* analysis allocated is freed, but for the text.
Scratch == {<<"array", 0>>} \cup {<<"entry", i>> : i \in DOMAIN entries}
CompareEnd ==
  /\ step = "compare" /\ pos = Len(items) + 1
  /\ heap' = (heap \ Scratch) \cup (IF reply = "report" THEN {<<"text", 0>>} ELSE {})
  /\ step' = "respond"
  /\ UNCHANGED <<cpu, items, tagged, saved, pos, entries, reply, seen, missing>>

TextFails ==
  /\ step = "compare" /\ pos = Len(items) + 1 /\ reply = "report"
  /\ WildResponse

\* The response is looked up in response_array, then all is freed.
Respond ==
  /\ step = "respond" /\ <<"responses", 0>> \in heap
  /\ heap' = heap \ ({<<"text", 0>>} \cup {<<"item", i>> : i \in DOMAIN items})
  /\ seen' = [s \in SwitchNames |->
                IF \E i \in DOMAIN items : items[i].name = s
                THEN (CHOOSE it \in {items[i] : i \in DOMAIN items} : it.name = s).val
                ELSE seen[s]]
  /\ items' = <<>> /\ entries' = <<>> /\ reply' = "ok"
  /\ step' = "idle" /\ pos' = 0
  /\ UNCHANGED <<cpu, tagged, saved, missing>>

RespondNull ==
  /\ step = "respond" /\ <<"responses", 0>> \notin heap
  /\ step' = "oops"
  /\ UNCHANGED <<cpu, items, tagged, saved, pos, entries, reply, heap, seen, missing>>

PresetNext ==
  \/ \E s \in SwitchNames : Flip(s)
  \/ PresetRegister \/ PresetUnregister
  \/ CollectStart \/ Collect \/ CollectFails \/ Analyze
  \/ FirstMeasure \/ FirstMeasureFails
  \/ CompareStart \/ CompareStartFails \/ CompareOverrun \/ CompareSame
  \/ CompareChanged \/ CompareChangedFails \/ CompareEnd \/ TextFails
  \/ Respond \/ RespondNull
PresetSpec == PresetInit /\ [][PresetNext]_presetVars

----------------------------------------------------------------------------
PresetTypeOK ==
  /\ cpu \in [SwitchNames -> {0, 1}]
  /\ step \in {"out", "idle", "collect", "measure", "compare", "respond", "oops"}
  /\ items \in Seq([name : SwitchNames, val : {0, 1}])
  /\ tagged \in BOOLEAN /\ saved \in Seq({0, 1})
  /\ pos \in 0 .. Len(Switches) + 1
  /\ entries \in Seq([name : SwitchNames, old : {0, 1}, new : {0, 1}])
  /\ reply \in {"ok", "report"} /\ missing \in BOOLEAN
  /\ seen \in [SwitchNames -> {0, 1, Absent}]

\* As long as no collector has failed, a report names exactly the switches
\* whose value is another than at the measure before, with their own old and
\* new values: no change is reported twice, or under another's name.
ChangedSince == {[name |-> items[i].name, old |-> seen[items[i].name], new |-> items[i].val] :
  i \in {j \in DOMAIN items : seen[items[j].name] \notin {Absent, items[j].val}}}
ReportsExact ==
  (step = "respond" /\ ~missing) => {entries[i] : i \in DOMAIN entries} = ChangedSince

\* Between runs nothing is allocated but the responses and the saved values,
\* after removal nothing at all, whatever failed short of an oops.
RunsCleanUp ==
  /\ step = "idle" => heap \subseteq {<<"responses", 0>>, <<"data", 0>>} /\ ((<<"data", 0>> \in heap) = tagged)
  /\ step = "out" => heap = {}
=============================================================================
