--------------------------- MODULE MCHookManager ---------------------------
(* Small instances of HookManager for TLC.                                  *)
EXTENDS HookManager

CONSTANTS A, B, kp, tm, lsm, c1, c2

MCModules == {A, B}
MCKprobes == {kp}
MCTimers == {tm}
MCOther == {lsm}
MCCpus == {c1}
MCTwoCpus == {c1, c2}

\* Both modules hook the same kprobe and the same timer.
MCShared == [m \in MCModules |-> IF m = A THEN <<kp, tm>> ELSE <<tm, kp>>]

\* Every step of registering may fail.
MCAnything == {kp, tm, "proc"}

\* A module with a timer, and one whose kprobe is not in this kernel.
MCApart == [m \in MCModules |-> IF m = A THEN <<tm>> ELSE <<kp>>]
MCNoKprobe == {kp}

MCTries == {B}
MCParams == {A}

\* Keeps to the behaviours in which no register fails under an id other than
\* 0, the one that unregistering after a failure takes to be its own.
FailsUnderOwnId == \A m \in Modules : RegisterFails(m) => newid[m] = 0
=============================================================================
