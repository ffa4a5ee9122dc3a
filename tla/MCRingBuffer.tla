---------------------------- MODULE MCRingBuffer ----------------------------
(* Small instances of RingBuffer for TLC.                                   *)
EXTENDS RingBufferInv, TLC

CONSTANTS p1, p2, a1, a2

MCProducers == {p1, p2}
MCNmi == {p2}
MCAgents == {a1, a2}
MCOneAgent == {a1}

\* The two agents are interchangeable, the producers are not (one is an NMI).
MCSymmetry == Permutations(MCAgents)
=============================================================================
