------------------------------- MODULE MCUnits -------------------------------
(***************************************************************************)
(* The parts of the program that share no state, checked side by side: a   *)
(* behaviour is one of a single unit, chosen at the start, while the others *)
(* rest in an initial state.  The states of the run are the sum of the      *)
(* units' states, not their product.                                        *)
(***************************************************************************)
EXTENDS DriverCore, PresetWorkflow, Probes, ResourceMonitor, CaseHandlers

VARIABLE unit

coreRest == UNCHANGED coreVars
presetRests == UNCHANGED presetVars
probesRest == UNCHANGED probeVars
monitorRests == UNCHANGED monVars
casesRest == UNCHANGED caseVars

Init ==
  /\ unit \in {"core", "preset", "probes", "monitor", "cases"}
  /\ CoreInit /\ PresetInit /\ ProbesInit /\ MonitorInit /\ CasesInit
  /\ unit # "preset" => cpu = [s \in SwitchNames |-> 0]
  /\ unit # "probes" => kind = "file" /\ mask = {}

Next ==
  /\ UNCHANGED unit
  /\ \/ unit = "core" /\ CoreNext /\ presetRests /\ probesRest /\ monitorRests /\ casesRest
     \/ unit = "preset" /\ PresetNext /\ coreRest /\ probesRest /\ monitorRests /\ casesRest
     \/ unit = "probes" /\ ProbesNext /\ coreRest /\ presetRests /\ monitorRests /\ casesRest
     \/ unit = "monitor" /\ MonitorNext /\ coreRest /\ presetRests /\ probesRest /\ casesRest
     \/ unit = "cases" /\ CasesNext /\ coreRest /\ presetRests /\ probesRest /\ monitorRests

vars == <<unit, coreVars, presetVars, probeVars, monVars, caseVars>>
Spec == Init /\ [][Next]_vars /\ CoreFairness /\ CasesFairness

\* Every variable of every unit stays in its type; the rings of the log and of
\* the programs never hold more than their size.
UnitsTypeOK ==
  CoreTypeOK /\ PresetTypeOK /\ ProbesTypeOK /\ MonitorTypeOK /\ CasesTypeOK

----------------------------------------------------------------------------
(* Instances.                                                               *)

MCSwitches == <<"SMEP", "WP">>

\* Lists that end before, at and behind the buffer's 4 bytes; one is of more
\* arguments than are copied.
MCArgLists == {<<>>, <<1, 1>>, <<4>>, <<0, 0, 2>>}

World(c, l, t, d, b, i, u, p, s, q) ==
  [conns |-> c, logins |-> l, tcp |-> t, disks |-> d, busy |-> b, idle |-> i, used |-> u,
   procs |-> p, sockstat |-> s, quote |-> q]
Disk(m, u, g) == [mount |-> m, used |-> u, unit |-> g]

\* Connections with more and with fewer logins; disks that grow, come and go,
\* and are not in G; an idle counter that goes back; threads that end between
\* two looks; no sockstat; a file system's name with a quote in it.
MCWorlds == {
  World(<<>>, <<>>, <<>>, <<>>, 0, 0, 0, <<<<1, 1>>>>, FALSE, FALSE),
  World(<<"a", "a", "b">>, <<"a">>, <<"LISTEN", "ESTABLISHED">>,
        <<Disk("/", 3, "G"), Disk("/x", 5, "G")>>, 2, 3, 4, <<<<2, 2>>, <<1, 1>>>>, TRUE, FALSE),
  World(<<"a">>, <<"a", "a">>, <<"SYN_SENT", "SYN_RECV", "LISTEN">>,
        <<Disk("/", 4, "G"), Disk("/x", 5, "M")>>, 3, 3, 5, <<<<2, 1>>, <<1, 1>>>>, TRUE, FALSE),
  World(<<"b", "a">>, <<"b">>, <<"CLOSE_WAIT", "TIME_WAIT">>,
        <<Disk("/x", 6, "G")>>, 4, 2, 0, <<<<2, 0>>, <<0, 0>>>>, TRUE, TRUE),
  World(<<"b", "b", "a">>, <<"a", "b">>, <<"ESTABLISHED", "ESTABLISHED">>,
        <<Disk("/", 1, "G"), Disk("/x", 9, "G"), Disk("/y", 1, "G")>>, 5, 4, 2, <<<<3, 3>>>>, TRUE, FALSE)}

MCModuleLists == {<<"m1", "m2", "m3">>, <<"m3", "m1">>}
MCNameLength == [m1 |-> 3, m2 |-> 6, m3 |-> 2]
=============================================================================
