--------------------------- MODULE MCPubSubServer ---------------------------
(* Small instances of PubSubServer for TLC.                                 *)
EXTENDS PubSubServer

CONSTANTS c1, c2, c3, t1, t2

MCClients == {c1, c2, c3}
MCLeavers == {c1}
MCMortals == {c1, c2}
MCTopics == {t1}
\* What the third wants, the agent's topic_mask excludes.
MCTopicsOf == [c \in MCClients |-> IF c = c3 THEN {} ELSE {t1}]
MCProbes == <<"process">>

\* Two applications, for the properties that need fairness.
MCPair == {c1, c2}
MCSecond == {c2}
MCPairTopics == [c \in MCPair |-> {t1}]

\* One application that never dies.
MCOne == {c1}
MCOneTopics == [c \in MCOne |-> {t1}]
MCNobody == {}
=============================================================================
