--------------------------- MODULE RingBufferInv ---------------------------
(***************************************************************************)
(* The inductive invariants of RingBuffer: IndInv behind the safety of its  *)
(* records, for an agent that agrees with the kernel on the size of the     *)
(* ring and on a machine that does not reorder its loads; WakeInv behind    *)
(* its wake-ups, for any.                                                   *)
(***************************************************************************)
EXTENDS RingBuffer

\* The agent maps the ring the kernel has, and its loads stay in order.
MatchingAgent == UWords = KWords /\ WeakLoads = FALSE

\* The spinlock is held exactly through the steps between lock and unlock.
LockInv == \A p \in Producers : pPc[p] \in {"mark", "advance"} <=> spinlock = p

\* Records lie one after the other, up to producer_pos.
LogInv ==
  /\ \A i \in 1 .. Len(log) : log[i].size > 4 /\ End(i) <= producer_pos
  /\ \A i, j \in 1 .. Len(log) : i < j => End(i) <= log[j].pos
  /\ \A i \in 1 .. (Len(log) - 1) : log[i + 1].pos = End(i)
  /\ Len(log) > 0 => End(Len(log)) = producer_pos

\* consumer_pos is the start of the first record not acknowledged.
ConsInv ==
  /\ acked <= Len(log)
  /\ acked < Len(log) => consumer_pos = log[acked + 1].pos
  /\ acked = Len(log) => consumer_pos = producer_pos

\* What a producer knows at each step: its view of consumer_pos is never ahead
\* of it; once it has found room the room stays; it owns the record it writes.
ProdOK(p) ==
  /\ pPc[p] # "idle" => pSize[p] > 4
  /\ pPc[p] \in {"lock", "mark", "advance"} => pCons[p] <= consumer_pos
  /\ pPc[p] = "advance" =>
       /\ producer_pos + RecWords(pSize[p]) - consumer_pos < KWords
       /\ pRec[p] = Len(log) + 1
       /\ mem[KIndex(producer_pos)] = Hdr(pRec[p], pSize[p], TRUE)
  /\ pPc[p] \in {"fill", "commit"} =>
       pRec[p] \in Live /\ log[pRec[p]].size = pSize[p]
  /\ pPc[p] = "commit" =>
       \A w \in TextWords(log[pRec[p]].pos, pSize[p]) : mem[w] = Text(pRec[p])

ProdInv == \A p \in Producers : ProdOK(p)

\* A record has one writer.
OwnerInv ==
  \A p, q \in Producers :
    /\ pPc[p] \in {"fill", "commit"} /\ pPc[q] \in {"fill", "commit"}
    /\ pRec[p] = pRec[q]
    => p = q

\* What the agent knows at each step of its scan.
AgentOK(a) ==
  /\ cPc[a] # "closed" => g_isopen
  /\ cPc[a] \in {"load", "scan", "callback"} => cCons[a] = consumer_pos
  /\ cPc[a] \in {"scan", "callback", "store"} => cProd[a] <= producer_pos
  /\ cPc[a] \notin {"callback", "store"} => cHdr[a] = None
  /\ cPc[a] \in {"callback", "store"} =>
       /\ acked + 1 \in Committed
       /\ cHdr[a] = Hdr(acked + 1, log[acked + 1].size, FALSE)
  /\ cPc[a] = "store" => cCons[a] = End(acked + 1) /\ handed = acked + 1

AgentInv == \A a \in Agents : AgentOK(a)

\* The callback is at most one record ahead of what was acknowledged.
HandInv == handed \in {acked, acked + 1}

\* An agent in poll() is on the wait queue.
PollInv == \A a \in Agents : cPc[a] \in {"check", "sleep"} => waitq[a] # "off"

\* The numbers of the records that are being written.
NumberInv ==
  \A p \in Producers :
    /\ pPc[p] = "advance" => pRec[p] = Len(log) + 1
    /\ pPc[p] \in {"fill", "commit", "notify"} => pRec[p] \in DOMAIN log

\* The record that an agent sleeps in front of is the one whose producer wakes
\* it, under either policy: what comes later finds consumer_pos elsewhere.
FirstWakes ==
  \A a \in Agents :
    (cPc[a] = "sleep" /\ producer_pos # consumer_pos) =>
      \/ waitq[a] = "woken"
      \/ work
      \/ \E p \in Producers : /\ pPc[p] \in {"fill", "commit", "notify"}
                             /\ log[pRec[p]].pos = consumer_pos

WakeInv == LockInv /\ NumberInv /\ PollInv /\ FirstWakes

\* The inductive invariant: none of the safety properties is inductive without
\* the others and the parts above.  It relies on TypeOK and OneConsumer, which
\* are invariants without it.
IndInv ==
  /\ LockInv /\ LogInv /\ ConsInv /\ ProdInv /\ OwnerInv /\ AgentInv /\ HandInv
  /\ NoOverrun /\ LiveRecordsIntact /\ CallbackGetsWholeRecords
=============================================================================
