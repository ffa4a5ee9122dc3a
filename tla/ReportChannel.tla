--------------------------- MODULE ReportChannel ---------------------------
(***************************************************************************)
(* What the path from secDetector_report() in the kernel to ringbuf_cb() in *)
(* the secDetectord agent promises, with the ring, the positions and the    *)
(* wake-ups taken away.  Reports are numbered in the order the kernel       *)
(* accepts them.  Each accepted report is finished once (its text is        *)
(* complete), reports are handed to the callback strictly in the order of   *)
(* acceptance and only when finished, and a report is handed again only if  *)
(* the agent died before acknowledging it: delivery is at least once.       *)
(***************************************************************************)
EXTENDS Naturals

VARIABLES
  accepted,  \* number of reports the kernel has accepted
  finished,  \* set of the reports whose text is complete
  handed,    \* last report handed to the callback
  acked      \* last report the agent has released to the kernel

vars == <<accepted, finished, handed, acked>>

Init == /\ accepted = 0
        /\ finished = {}
        /\ handed = 0
        /\ acked = 0

\* The kernel takes a new report into the channel.
Accept == /\ accepted' = accepted + 1
          /\ UNCHANGED <<finished, handed, acked>>

\* The text of an accepted report becomes complete, in any order.
Finish == \E i \in 1..accepted \ finished :
             /\ finished' = finished \cup {i}
             /\ UNCHANGED <<accepted, handed, acked>>

\* The first report not acknowledged is handed to the callback, maybe again.
Hand == /\ acked + 1 \in finished
        /\ handed' = acked + 1
        /\ UNCHANGED <<accepted, finished, acked>>

\* A report that has been handed is acknowledged: it is never handed again.
Ack == /\ acked < handed
       /\ acked' = acked + 1
       /\ UNCHANGED <<accepted, finished, handed>>

Next == Accept \/ Finish \/ Hand \/ Ack

Spec == Init /\ [][Next]_vars
=============================================================================
