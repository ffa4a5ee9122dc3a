-------------------------- MODULE RingBufferProofs --------------------------
(***************************************************************************)
(* TLAPS proofs about RingBuffer.                                           *)
(***************************************************************************)
EXTENDS RingBufferInv, TLAPS

----------------------------------------------------------------------------
(* Arithmetic of the ring.                                                  *)

\* Quotient and remainder.
LEMMA DivMod ==
  ASSUME NEW K \in Nat \ {0}, NEW a \in Nat
  PROVE  /\ a % K \in 0 .. (K - 1)
         /\ a \div K \in Nat
         /\ a = K * (a \div K) + (a % K)
  BY SMT

\* Multiples of K that are equal or K apart.
LEMMA MultGap ==
  ASSUME NEW K \in Nat \ {0}, NEW q \in Nat, NEW r \in Nat, q < r
  PROVE  K * q + K <= K * r
<1>1. PICK d \in Nat : r = q + 1 + d
  <2>1. r - q - 1 \in Nat /\ r = q + 1 + (r - q - 1)
    OBVIOUS
  <2> QED BY <2>1
<1>2. K * r = K * q + K + K * d
  BY <1>1, SMT
<1>3. K * d >= 0
  BY SMT
<1> QED BY <1>2, <1>3, SMT

\* Two positions less than K apart fall on different words.
LEMMA ModDistinct ==
  ASSUME NEW K \in Nat \ {0}, NEW a \in Nat, NEW b \in Nat, a < b, b - a < K
  PROVE  a % K # b % K
<1> DEFINE q == a \div K
           r == b \div K
<1>1. q \in Nat /\ a = K * q + (a % K) /\ a % K \in 0 .. (K - 1)
  BY DivMod
<1>2. r \in Nat /\ b = K * r + (b % K) /\ b % K \in 0 .. (K - 1)
  BY DivMod
<1> SUFFICES ASSUME a % K = b % K PROVE FALSE
  OBVIOUS
<1>3. K * q \in Nat /\ K * r \in Nat
  BY <1>1, <1>2, SMT
<1> HIDE DEF q, r
<1>4. CASE q = r
  BY <1>1, <1>2, <1>3, <1>4, SMT
<1>5. CASE q < r
  <2>1. K * q + K <= K * r
    BY <1>1, <1>2, <1>5, MultGap
  <2> QED BY <2>1, <1>1, <1>2, <1>3, SMT
<1>6. CASE r < q
  <2>1. K * r + K <= K * q
    BY <1>1, <1>2, <1>6, MultGap
  <2> QED BY <2>1, <1>1, <1>2, <1>3, SMT
<1> QED BY <1>1, <1>2, <1>4, <1>5, <1>6, SMT

\* A representation as a multiple of K and a remainder is unique.
LEMMA ModUnique ==
  ASSUME NEW K \in Nat \ {0}, NEW q \in Nat, NEW r \in Nat,
         NEW x \in 0 .. (K - 1), NEW y \in 0 .. (K - 1), K * q + x = K * r + y
  PROVE  x = y
<1>1. K * q \in Nat /\ K * r \in Nat
  BY SMT
<1>2. CASE q = r
  BY <1>1, <1>2, SMT
<1>3. CASE q < r
  BY <1>1, <1>3, MultGap, SMT
<1>4. CASE r < q
  BY <1>1, <1>4, MultGap, SMT
<1> QED BY <1>2, <1>3, <1>4, SMT

\* Reducing a position before or after adding to it is the same.
LEMMA ModAdd ==
  ASSUME NEW K \in Nat \ {0}, NEW a \in Nat, NEW k \in Nat
  PROVE  ((a % K) + k) % K = (a + k) % K
<1>1. PICK q \in Nat, m \in 0 .. (K - 1) : m = a % K /\ a = K * q + m
  BY DivMod
<1>2. m + k \in Nat /\ a + k \in Nat
  BY SMT
<1>3. PICK u \in Nat, x \in 0 .. (K - 1) : x = (m + k) % K /\ m + k = K * u + x
  BY <1>2, DivMod
<1>4. PICK v \in Nat, y \in 0 .. (K - 1) : y = (a + k) % K /\ a + k = K * v + y
  BY <1>2, DivMod
<1>5. K * (q + u) = K * q + K * u /\ K * q \in Nat /\ K * u \in Nat /\ K * v \in Nat
  BY SMT
<1>6. K * (q + u) + x = K * v + y
  <2> DEFINE A == K * q
             B == K * u
             C == K * v
  <2>1. A \in Nat /\ B \in Nat /\ C \in Nat /\ K * (q + u) = A + B
    BY <1>5
  <2>2. a = A + m /\ m + k = B + x /\ a + k = C + y
    BY <1>1, <1>3, <1>4
  <2> HIDE DEF A, B, C
  <2>3. A + B + x = C + y
    BY <2>1, <2>2, SMT
  <2> QED BY <2>1, <2>3 DEF C
<1>7. q + u \in Nat
  BY SMT
<1>8. x = y
  BY <1>6, <1>7, ModUnique
<1> QED BY <1>1, <1>3, <1>4, <1>8

----------------------------------------------------------------------------
(* Layout of the ring.                                                      *)

LEMMA IndexType ==
  ASSUME NEW x \in Nat PROVE KIndex(x) \in 0 .. (KWords - 1)
  BY ConstantsAssumption, DivMod DEF KIndex

LEMMA IndexDistinct ==
  ASSUME NEW x \in Nat, NEW y \in Nat, x # y, x - y < KWords, y - x < KWords
  PROVE  KIndex(x) # KIndex(y)
<1>1. CASE x < y
  BY <1>1, ConstantsAssumption, ModDistinct DEF KIndex
<1>2. CASE y < x
  BY <1>2, ConstantsAssumption, ModDistinct DEF KIndex
<1> QED BY <1>1, <1>2

\* An agent with the right size of the ring finds the kernel's words.
LEMMA AgentIndex ==
  ASSUME MatchingAgent, NEW x \in Nat, NEW k \in Nat
  PROVE  UIndex(x, k) = KIndex(x + k)
  BY ConstantsAssumption, ModAdd DEF MatchingAgent, UIndex, KIndex

LEMMA AgentIndexType ==
  ASSUME NEW x \in Nat, NEW k \in Nat
  PROVE  UIndex(x, k) \in 0 .. (KWords - 1)
<1>1. x % UWords \in 0 .. (UWords - 1)
  BY ConstantsAssumption, DivMod
<1>2. (x % UWords) + k \in Nat
  BY <1>1, ConstantsAssumption
<1> QED BY <1>2, ConstantsAssumption, DivMod DEF UIndex

LEMMA RecWordsType ==
  ASSUME NEW size \in Nat
  PROVE  RecWords(size) \in Nat /\ RecWords(size) >= 1 /\ (size > 4 => RecWords(size) >= 2)
  BY SMT DEF RecWords

----------------------------------------------------------------------------
(* Types.                                                                   *)

\* The agent runs the callback on a header it has loaded.
HdrInv == \A a \in Agents : cPc[a] \in {"callback", "store"} => cHdr[a] \in Cells

LEMMA CellTypes ==
  ASSUME NEW i \in Nat, NEW size \in Nat, NEW busy \in BOOLEAN
  PROVE  Hdr(i, size, busy) \in Cells /\ Text(i) \in Cells /\ Zero \in Cells
  BY DEF Hdr, Text, Zero, Cells

LEMMA HdrLoadsType ==
  ASSUME NEW cell \in Cells PROVE HdrLoads(cell) \subseteq Cells
<1>1. {0} \cup {EntrySize(l) : l \in Lens} \subseteq Nat
  BY ConstantsAssumption DEF EntrySize
<1> QED BY <1>1 DEF HdrLoads, Cells

LEMMA LocalsTypes ==
  ASSUME TypeOK, HdrInv, NEW a \in Agents, NoLocals(a),
         cPc' = [cPc EXCEPT ![a] = "closed"] \/ cPc' = [cPc EXCEPT ![a] = "poll"]
  PROVE  /\ cCons' \in [Agents -> Nat]
         /\ cProd' \in [Agents -> Nat]
         /\ cGot' \in [Agents -> BOOLEAN]
         /\ cHdr' \in [Agents -> Cells \cup {None}]
         /\ HdrInv'
  BY DEF TypeOK, HdrInv, NoLocals

LEMMA TypeStep ==
  ASSUME TypeOK, HdrInv, [Next]_vars PROVE TypeOK' /\ HdrInv'
<1> USE DEF TypeOK, HdrInv, ringVars, prodVars, consVars, histVars
<1>1. ASSUME NEW p \in Producers, NEW len \in Lens, ReportBegin(p, len)
      PROVE  TypeOK' /\ HdrInv'
  <2>1. EntrySize(len) \in Nat
    BY ConstantsAssumption DEF EntrySize
  <2> QED BY <1>1, <2>1 DEF ReportBegin
<1>2. ASSUME NEW p \in Producers, LockRing(p) PROVE TypeOK' /\ HdrInv'
  BY <1>2 DEF LockRing
<1>3. ASSUME NEW p \in Producers, TryLockFails(p) PROVE TypeOK' /\ HdrInv'
  BY <1>3 DEF TryLockFails, Return
<1>4. ASSUME NEW p \in Producers, RingFull(p) PROVE TypeOK' /\ HdrInv'
  BY <1>4 DEF RingFull, Return
<1>5. ASSUME NEW p \in Producers, MarkBusy(p) PROVE TypeOK' /\ HdrInv'
  <2>1. Len(log) + 1 \in Nat /\ pSize[p] \in Nat
    OBVIOUS
  <2>2. Hdr(Len(log) + 1, pSize[p], TRUE) \in Cells
    BY <2>1, CellTypes
  <2> QED BY <1>5, <2>1, <2>2 DEF MarkBusy
<1>6. ASSUME NEW p \in Producers, Advance(p) PROVE TypeOK' /\ HdrInv'
  <2>1. RecWords(pSize[p]) \in Nat
    BY RecWordsType
  <2> QED BY <1>6, <2>1 DEF Advance
<1>7. ASSUME NEW p \in Producers, Fill(p) PROVE TypeOK' /\ HdrInv'
  <2>1. Text(pRec[p]) \in Cells
    BY CellTypes
  <2> QED BY <1>7, <2>1 DEF Fill
<1>8. ASSUME NEW p \in Producers, Commit(p) PROVE TypeOK' /\ HdrInv'
  <2>1. ASSUME NEW c \in Cells PROVE Hdr(c.rec, c.size, FALSE) \in Cells
    BY DEF Cells, Hdr
  <2>2. mem' \in [0 .. (KWords - 1) -> Cells]
    BY <1>8, <2>1 DEF Commit
  <2> QED BY <1>8, <2>2 DEF Commit
<1>9. ASSUME NEW p \in Producers, NEW flag \in WakeFlags, Notify(p, flag)
      PROVE  TypeOK' /\ HdrInv'
  BY <1>9 DEF Notify, Return, WakesConsumer
<1>10. ASSUME RunIrqWork PROVE TypeOK' /\ HdrInv'
  BY <1>10 DEF RunIrqWork
<1>11. ASSUME NEW a \in Agents, Open(a) PROVE TypeOK' /\ HdrInv'
  BY <1>11 DEF Open
<1>12. ASSUME NEW a \in Agents, PollWait(a) PROVE TypeOK' /\ HdrInv'
  BY <1>12 DEF PollWait
<1>13. ASSUME NEW a \in Agents, PollReturns(a) PROVE TypeOK' /\ HdrInv'
  BY <1>13 DEF PollReturns
<1>14. ASSUME NEW a \in Agents, PollSleeps(a) PROVE TypeOK' /\ HdrInv'
  BY <1>14 DEF PollSleeps
<1>15. ASSUME NEW a \in Agents, PollWakes(a) PROVE TypeOK' /\ HdrInv'
  BY <1>15 DEF PollWakes
<1>16. ASSUME NEW a \in Agents, EarlyHdrLoad(a) PROVE TypeOK' /\ HdrInv'
  <2>1. HdrLoads(mem[UIndex(cCons[a], 0)]) \subseteq Cells
    BY AgentIndexType, HdrLoadsType
  <2> QED BY <1>16, <2>1 DEF EarlyHdrLoad
<1>17. ASSUME NEW a \in Agents, LoadProd(a) PROVE TypeOK' /\ HdrInv'
  BY <1>17 DEF LoadProd
<1>18. ASSUME NEW a \in Agents, ReadHdr(a) PROVE TypeOK' /\ HdrInv'
  <2>1. HdrLoads(mem[UIndex(cCons[a], 0)]) \subseteq Cells
    BY AgentIndexType, HdrLoadsType
  <2>2. PICK h \in Cells :
          \/ h.busy /\ NoLocals(a) /\ cPc' = [cPc EXCEPT ![a] = "poll"]
          \/ /\ ~h.busy
             /\ cHdr' = [cHdr EXCEPT ![a] = h]
             /\ cGot' = [cGot EXCEPT ![a] = TRUE]
             /\ cPc' = [cPc EXCEPT ![a] = "callback"]
             /\ UNCHANGED <<cCons, cProd>>
    BY <1>18, <2>1 DEF ReadHdr
  <2>3. CASE NoLocals(a) /\ cPc' = [cPc EXCEPT ![a] = "poll"]
    BY <1>18, <2>3 DEF ReadHdr, NoLocals
  <2>4. CASE /\ cHdr' = [cHdr EXCEPT ![a] = h]
             /\ cGot' = [cGot EXCEPT ![a] = TRUE]
             /\ cPc' = [cPc EXCEPT ![a] = "callback"]
             /\ UNCHANGED <<cCons, cProd>>
    BY <1>18, <2>4 DEF ReadHdr
  <2> QED BY <2>2, <2>3, <2>4
<1>19. ASSUME NEW a \in Agents, Callback(a) PROVE TypeOK' /\ HdrInv'
  <2>1. cHdr[a] \in Cells /\ cHdr[a].size \in Nat /\ cHdr[a].rec \in Nat
    BY <1>19 DEF Callback, Cells
  <2>2. RecWords(cHdr[a].size) \in Nat
    BY <2>1, RecWordsType
  <2>3. handed' \in Nat /\ garbled' \in BOOLEAN
    BY <1>19, <2>1 DEF Callback
  <2>4. cCons' \in [Agents -> Nat]
    BY <1>19, <2>2 DEF Callback
  <2> QED BY <1>19, <2>3, <2>4 DEF Callback
<1>20. ASSUME NEW a \in Agents, StoreCons(a) PROVE TypeOK' /\ HdrInv'
  <2>1. consumer_pos' \in Nat /\ acked' \in Nat
    BY <1>20 DEF StoreCons
  <2>2. CASE cHdr[a].size <= EntrySize(0)
    <3>1. NoLocals(a) /\ cPc' = [cPc EXCEPT ![a] = "closed"] /\ g_isopen' = FALSE
      BY <1>20, <2>2 DEF StoreCons, Cells, EntrySize
    <3>2. /\ cCons' \in [Agents -> Nat]
          /\ cProd' \in [Agents -> Nat]
          /\ cGot' \in [Agents -> BOOLEAN]
          /\ cHdr' \in [Agents -> Cells \cup {None}]
          /\ HdrInv'
      BY <3>1, LocalsTypes
    <3> QED BY <1>20, <2>1, <3>1, <3>2 DEF StoreCons
  <2>3. CASE cHdr[a].size > EntrySize(0)
    <3>1. /\ cPc' = [cPc EXCEPT ![a] = "scan"]
          /\ cHdr' = [cHdr EXCEPT ![a] = None]
          /\ UNCHANGED <<g_isopen, cCons, cProd, cGot>>
      BY <1>20, <2>3 DEF StoreCons, Cells, EntrySize
    <3> QED BY <1>20, <2>1, <3>1 DEF StoreCons
  <2> QED BY <1>20, <2>2, <2>3 DEF StoreCons
<1>21. ASSUME NEW a \in Agents, ScanAgain(a) PROVE TypeOK' /\ HdrInv'
  BY <1>21 DEF ScanAgain
<1>22. ASSUME NEW a \in Agents, ScanDone(a) PROVE TypeOK' /\ HdrInv'
  BY <1>22 DEF ScanDone, NoLocals
<1>23. ASSUME NEW a \in Agents, Exit(a) PROVE TypeOK' /\ HdrInv'
  <2>1. NoLocals(a) /\ cPc' = [cPc EXCEPT ![a] = "closed"] /\ g_isopen' = FALSE
    BY <1>23 DEF Exit
  <2>2. /\ cCons' \in [Agents -> Nat]
        /\ cProd' \in [Agents -> Nat]
        /\ cGot' \in [Agents -> BOOLEAN]
        /\ cHdr' \in [Agents -> Cells \cup {None}]
        /\ HdrInv'
    BY <2>1, LocalsTypes
  <2>3. cPc' \in [Agents -> {"closed", "poll", "check", "sleep", "load", "scan",
                             "callback", "store"}]
    BY <2>1
  <2>4. waitq' \in [Agents -> {"off", "waiting", "woken"}]
    BY <1>23 DEF Exit
  <2>5. exits' \in Nat
    BY <1>23 DEF Exit
  <2>6. UNCHANGED <<consumer_pos, producer_pos, mem, spinlock, work, prodVars, histVars>>
    BY <1>23 DEF Exit
  <2> QED BY <2>1, <2>2, <2>3, <2>4, <2>5, <2>6
<1>24. CASE UNCHANGED vars
  BY <1>24 DEF vars
<1> QED
  BY <1>1, <1>2, <1>3, <1>4, <1>5, <1>6, <1>7, <1>8, <1>9, <1>10, <1>11, <1>12,
     <1>13, <1>14, <1>15, <1>16, <1>17, <1>18, <1>19, <1>20, <1>21, <1>22,
     <1>23, <1>24 DEF Next, Produce, Consume

LEMMA TypeInit == Init => TypeOK /\ HdrInv
<1> SUFFICES ASSUME Init PROVE TypeOK /\ HdrInv
  OBVIOUS
<1>1. Zero \in Cells
  BY DEF Zero, Cells
<1>2. log \in Seq([pos : Nat, size : Nat])
  BY DEF Init
<1> QED BY <1>1, <1>2, ConstantsAssumption DEF Init, TypeOK, HdrInv

\* Every variable of the ring, of its producers and of its agents keeps its
\* type, whatever the sizes, the number of processes and the memory model.
THEOREM TypeCorrect == Spec => []TypeOK
<1>1. TypeOK /\ HdrInv /\ [Next]_vars => TypeOK' /\ HdrInv'
  BY TypeStep
<1> QED BY <1>1, TypeInit, PTL DEF Spec

----------------------------------------------------------------------------
(* The device and its wake-ups.                                             *)

\* Only the process that has the device open is in its poll loop.
DeviceInv == \A a \in Agents : cPc[a] # "closed" => g_isopen

\* How the control point of the agents may move in one step.
LEMMA AgentMoves ==
  ASSUME TypeOK, HdrInv, [Next]_vars
  PROVE  \/ UNCHANGED <<cPc, g_isopen>>
         \/ \E a \in Agents :
              \/ /\ cPc[a] # "closed" /\ UNCHANGED g_isopen
                 /\ \E s \in {"poll", "check", "sleep", "load", "scan",
                              "callback", "store"} : cPc' = [cPc EXCEPT ![a] = s]
              \/ /\ ~g_isopen /\ g_isopen' /\ cPc' = [cPc EXCEPT ![a] = "poll"]
              \/ /\ cPc[a] # "closed" /\ ~g_isopen'
                 /\ cPc' = [cPc EXCEPT ![a] = "closed"]
<1>1. ASSUME NEW p \in Producers, (\E len \in Lens : ReportBegin(p, len)) \/ Produce(p)
      PROVE  UNCHANGED <<cPc, g_isopen>>
  BY <1>1 DEF Produce, ReportBegin, LockRing, TryLockFails, RingFull, MarkBusy,
       Advance, Fill, Commit, Notify, ringVars, consVars
<1>2. ASSUME RunIrqWork PROVE UNCHANGED <<cPc, g_isopen>>
  BY <1>2 DEF RunIrqWork, consVars
<1>3. ASSUME NEW a \in Agents, Open(a)
      PROVE  ~g_isopen /\ g_isopen' /\ cPc' = [cPc EXCEPT ![a] = "poll"]
  BY <1>3 DEF Open
<1>4. ASSUME NEW a \in Agents, Exit(a)
      PROVE  cPc[a] # "closed" /\ ~g_isopen' /\ cPc' = [cPc EXCEPT ![a] = "closed"]
  BY <1>4 DEF Exit
<1>5. ASSUME NEW a \in Agents, EarlyHdrLoad(a) PROVE UNCHANGED <<cPc, g_isopen>>
  BY <1>5 DEF EarlyHdrLoad, ringVars
<1>6. ASSUME NEW a \in Agents,
             \/ PollWait(a) \/ PollReturns(a) \/ PollSleeps(a) \/ PollWakes(a)
             \/ LoadProd(a) \/ Callback(a) \/ ScanAgain(a) \/ ScanDone(a)
      PROVE  /\ cPc[a] # "closed" /\ UNCHANGED g_isopen
             /\ \E s \in {"poll", "check", "sleep", "load", "scan",
                          "callback", "store"} : cPc' = [cPc EXCEPT ![a] = s]
  BY <1>6 DEF PollWait, PollReturns, PollSleeps, PollWakes, LoadProd, Callback,
       ScanAgain, ScanDone, ringVars
<1>7. ASSUME NEW a \in Agents, ReadHdr(a)
      PROVE  /\ cPc[a] # "closed" /\ UNCHANGED g_isopen
             /\ \E s \in {"poll", "callback"} : cPc' = [cPc EXCEPT ![a] = s]
  BY <1>7 DEF ReadHdr, ringVars
<1>8. ASSUME NEW a \in Agents, StoreCons(a)
      PROVE  /\ cPc[a] # "closed"
             /\ \/ UNCHANGED g_isopen /\ cPc' = [cPc EXCEPT ![a] = "scan"]
                \/ ~g_isopen' /\ cPc' = [cPc EXCEPT ![a] = "closed"]
  BY <1>8 DEF StoreCons
<1>9. CASE UNCHANGED vars
  BY <1>9 DEF vars, ringVars, consVars
<1> QED
  BY <1>1, <1>2, <1>3, <1>4, <1>5, <1>6, <1>7, <1>8, <1>9 DEF Next, Consume

LEMMA DeviceStep ==
  ASSUME TypeOK, HdrInv, DeviceInv, OneConsumer, [Next]_vars
  PROVE  DeviceInv' /\ OneConsumer'
<1> USE DEF DeviceInv, OneConsumer
<1> DEFINE Pcs == {"closed", "poll", "check", "sleep", "load", "scan",
                  "callback", "store"}
<1>1. cPc \in [Agents -> Pcs]
  BY DEF TypeOK
<1>2. CASE UNCHANGED <<cPc, g_isopen>>
  BY <1>2
<1>3. ASSUME NEW a \in Agents, cPc[a] # "closed", UNCHANGED g_isopen,
             NEW s \in {"poll", "check", "sleep", "load", "scan", "callback", "store"},
             cPc' = [cPc EXCEPT ![a] = s]
      PROVE  DeviceInv' /\ OneConsumer'
  BY <1>1, <1>3
<1>4. ASSUME NEW a \in Agents, ~g_isopen, g_isopen', cPc' = [cPc EXCEPT ![a] = "poll"]
      PROVE  DeviceInv' /\ OneConsumer'
  BY <1>1, <1>4
<1>5. ASSUME NEW a \in Agents, cPc[a] # "closed", ~g_isopen',
             cPc' = [cPc EXCEPT ![a] = "closed"]
      PROVE  DeviceInv' /\ OneConsumer'
  BY <1>1, <1>5
<1> QED BY <1>2, <1>3, <1>4, <1>5, AgentMoves

\* ringbuffer_open refuses a second process and ringbuffer_release frees the
\* device whatever way the first one ended, so that consumer_pos has a single
\* writer.
THEOREM DeviceExclusive == Spec => []OneConsumer
<1>1. Init => TypeOK /\ HdrInv
  BY TypeInit
<1>2. Init => DeviceInv /\ OneConsumer
  BY DEF Init, DeviceInv, OneConsumer
<1>3. TypeOK /\ HdrInv /\ [Next]_vars => TypeOK' /\ HdrInv'
  BY TypeStep
<1>4. TypeOK /\ HdrInv /\ DeviceInv /\ OneConsumer /\ [Next]_vars
        => DeviceInv' /\ OneConsumer'
  BY DeviceStep
<1> QED BY <1>1, <1>2, <1>3, <1>4, PTL DEF Spec

\* Who holds the spinlock numbers the next record, and keeps its number.
LEMMA NumberStep ==
  ASSUME TypeOK, LockInv, NumberInv, [Next]_vars
  PROVE  LockInv' /\ NumberInv'
<1> USE DEF TypeOK, LockInv, NumberInv
<1>1. ASSUME UNCHANGED <<pPc, pRec, spinlock, log>> PROVE LockInv' /\ NumberInv'
  BY <1>1
<1>2. ASSUME NEW p \in Producers, NEW len \in Lens, ReportBegin(p, len)
      PROVE  LockInv' /\ NumberInv'
  BY <1>2 DEF ReportBegin, ringVars, histVars
<1>3. ASSUME NEW p \in Producers,
             LockRing(p) \/ TryLockFails(p) \/ RingFull(p) \/ MarkBusy(p)
      PROVE  LockInv' /\ NumberInv'
  <2>1. CASE LockRing(p)
    BY <2>1, ConstantsAssumption DEF LockRing, histVars
  <2>2. CASE TryLockFails(p)
    BY <2>2 DEF TryLockFails, Return, ringVars, histVars
  <2>3. CASE RingFull(p)
    BY <2>3, ConstantsAssumption DEF RingFull, Return, histVars
  <2>4. CASE MarkBusy(p)
    BY <2>4 DEF MarkBusy, histVars
  <2> QED BY <1>3, <2>1, <2>2, <2>3, <2>4
<1>4. ASSUME NEW p \in Producers, Advance(p)
      PROVE  LockInv' /\ NumberInv'
  <2>1. /\ pPc[p] = "advance" /\ spinlock = p
        /\ pPc' = [pPc EXCEPT ![p] = "fill"] /\ spinlock' = None /\ pRec' = pRec
        /\ log' = Append(log, [pos |-> producer_pos, size |-> pSize[p]])
    BY <1>4 DEF Advance
  <2>2. Len(log') = Len(log) + 1 /\ DOMAIN log' = 1 .. Len(log')
    BY <2>1
  <2>3. \A q \in Producers : q # p => pPc[q] # "advance" /\ pPc[q] # "mark"
    BY <2>1
  <2> QED BY <2>1, <2>2, <2>3, ConstantsAssumption
<1>5. ASSUME NEW p \in Producers, Fill(p) \/ Commit(p)
      PROVE  LockInv' /\ NumberInv'
  BY <1>5 DEF Fill, Commit, histVars
<1>6. ASSUME NEW p \in Producers, NEW flag \in WakeFlags, Notify(p, flag)
      PROVE  LockInv' /\ NumberInv'
  BY <1>6 DEF Notify, Return, histVars
<1>7. RunIrqWork => UNCHANGED <<pPc, pRec, spinlock, log>>
  BY DEF RunIrqWork, prodVars, histVars
<1>8. ASSUME NEW a \in Agents, Consume(a) \/ Open(a) \/ Exit(a)
      PROVE  UNCHANGED <<pPc, pRec, spinlock, log>>
  BY <1>8 DEF Consume, Open, Exit, PollWait, PollReturns, PollSleeps, PollWakes, EarlyHdrLoad,
     LoadProd, ReadHdr, Callback, StoreCons, ScanAgain, ScanDone, ringVars, prodVars, histVars
<1>9. UNCHANGED vars => UNCHANGED <<pPc, pRec, spinlock, log>>
  BY DEF vars, ringVars, prodVars, histVars
<1> QED BY <1>1, <1>2, <1>3, <1>4, <1>5, <1>6, <1>7, <1>8, <1>9 DEF Next, Produce

LEMMA WakeStep ==
  ASSUME WakeFlags \subseteq {"force", "adaptive"},
         TypeOK, OneConsumer, WakeInv, [Next]_vars
  PROVE  PollInv' /\ FirstWakes'
<1> USE DEF TypeOK, WakeInv, PollInv, FirstWakes, ringVars, prodVars, consVars, histVars
<1> DEFINE Owns(p) == /\ pPc[p] \in {"fill", "commit", "notify"}
                      /\ log[pRec[p]].pos = consumer_pos
\* Steps that move no agent, and take no record from the one who has to wake.
<1>1. ASSUME UNCHANGED <<cPc, waitq, consumer_pos, producer_pos>>, work => work',
             \A p \in Producers : Owns(p) => Owns(p)' \/ work'
      PROVE  PollInv' /\ FirstWakes'
  BY <1>1
<1>2. ASSUME NEW p \in Producers, NEW len \in Lens, ReportBegin(p, len)
      PROVE  PollInv' /\ FirstWakes'
  BY <1>2 DEF ReportBegin
<1>3. ASSUME NEW p \in Producers,
             LockRing(p) \/ TryLockFails(p) \/ RingFull(p) \/ MarkBusy(p)
      PROVE  PollInv' /\ FirstWakes'
  BY <1>3 DEF LockRing, TryLockFails, RingFull, MarkBusy, Return
<1>4. ASSUME NEW p \in Producers, Fill(p) \/ Commit(p)
      PROVE  PollInv' /\ FirstWakes'
  BY <1>4 DEF Fill, Commit
<1>5. ASSUME NEW p \in Producers, Advance(p)
      PROVE  PollInv' /\ FirstWakes'
  <2>1. /\ pPc[p] = "advance" /\ pPc' = [pPc EXCEPT ![p] = "fill"]
        /\ UNCHANGED <<pRec, cPc, waitq, work, consumer_pos>>
        /\ log' = Append(log, [pos |-> producer_pos, size |-> pSize[p]])
    BY <1>5 DEF Advance
  <2>2. pRec[p] = Len(log) + 1 /\ log'[Len(log) + 1].pos = producer_pos
    BY <2>1 DEF NumberInv
  <2>3. \A q \in Producers : Owns(q) => Owns(q)'
    BY <2>1 DEF NumberInv
  <2>4. producer_pos = consumer_pos => Owns(p)'
    BY <2>1, <2>2
  <2> QED BY <2>1, <2>3, <2>4
<1>6. ASSUME NEW p \in Producers, NEW flag \in WakeFlags, Notify(p, flag)
      PROVE  PollInv' /\ FirstWakes'
  <2>1. /\ pPc' = [pPc EXCEPT ![p] = "idle"] /\ pRec' = [pRec EXCEPT ![p] = 0]
        /\ UNCHANGED <<cPc, waitq, consumer_pos, producer_pos, log>>
        /\ work' = (work \/ WakesConsumer(pRec[p], flag))
    BY <1>6 DEF Notify, Return
  <2>2. Owns(p) => work'
    BY <2>1 DEF WakesConsumer
  <2>3. \A q \in Producers : q # p /\ Owns(q) => Owns(q)'
    BY <2>1
  <2>4. work => work'
    BY <2>1
  <2> HIDE DEF Owns
  <2> QED BY <1>1, <2>1, <2>2, <2>3, <2>4
<1>7. ASSUME RunIrqWork PROVE PollInv' /\ FirstWakes'
  BY <1>7 DEF RunIrqWork
<1>8. ASSUME NEW a \in Agents,
             Open(a) \/ PollWait(a) \/ PollReturns(a) \/ PollWakes(a)
      PROVE  PollInv' /\ FirstWakes'
  <2>1. UNCHANGED <<consumer_pos, producer_pos, work, prodVars, log>>
    BY <1>8 DEF Open, PollWait, PollReturns, PollWakes
  <2>2. \/ cPc' = [cPc EXCEPT ![a] = "poll"] /\ UNCHANGED waitq
        \/ cPc' = [cPc EXCEPT ![a] = "load"] /\ waitq' = [waitq EXCEPT ![a] = "off"]
        \/ cPc' = [cPc EXCEPT ![a] = "check"] /\ waitq' = [waitq EXCEPT ![a] = "waiting"]
    BY <1>8 DEF Open, PollWait, PollReturns, PollWakes
  <2> QED BY <2>1, <2>2
<1>9. ASSUME NEW a \in Agents, PollSleeps(a) PROVE PollInv' /\ FirstWakes'
  <2>1. /\ cPc[a] = "check" /\ cPc' = [cPc EXCEPT ![a] = "sleep"]
        /\ UNCHANGED <<ringVars, prodVars, log>> /\ producer_pos = consumer_pos
    BY <1>9 DEF PollSleeps
  <2> QED BY <2>1
<1>10. ASSUME NEW a \in Agents,
              \/ EarlyHdrLoad(a) \/ LoadProd(a) \/ Callback(a) \/ ScanAgain(a)
              \/ ScanDone(a)
       PROVE  PollInv' /\ FirstWakes'
  BY <1>10 DEF EarlyHdrLoad, LoadProd, Callback, ScanAgain, ScanDone
<1>11. ASSUME NEW a \in Agents, ReadHdr(a) PROVE PollInv' /\ FirstWakes'
  <2>1. UNCHANGED <<ringVars, prodVars, log>>
        /\ \E s \in {"poll", "callback"} : cPc' = [cPc EXCEPT ![a] = s]
    BY <1>11 DEF ReadHdr
  <2> QED BY <2>1
<1>12. ASSUME NEW a \in Agents, Exit(a) PROVE PollInv' /\ FirstWakes'
  <2>1. /\ UNCHANGED <<consumer_pos, producer_pos, work, prodVars, log>>
        /\ cPc' = [cPc EXCEPT ![a] = "closed"]
        /\ waitq' = [waitq EXCEPT ![a] = "off"]
    BY <1>12 DEF Exit
  <2> QED BY <2>1
<1>13. ASSUME NEW a \in Agents, StoreCons(a) PROVE PollInv' /\ FirstWakes'
  <2>1. \A b \in Agents : b # a => cPc[b] = "closed"
    BY <1>13 DEF StoreCons, OneConsumer
  <2>2. \A b \in Agents : cPc'[b] # "sleep" /\ cPc'[b] # "check"
    BY <1>13, <2>1 DEF StoreCons
  <2> QED BY <2>2
<1>14. CASE UNCHANGED vars
  BY <1>14 DEF vars
<1> QED
  BY <1>2, <1>3, <1>4, <1>5, <1>6, <1>7, <1>8, <1>9, <1>10, <1>11, <1>12, <1>13,
     <1>14 DEF Next, Produce, Consume

\* With the forced wake-up that secDetector_report asks for, and with the
\* adaptive one that ringbuf_commit also offers, an agent asleep in poll() while
\* the ring holds data is always about to be woken, on any memory model and any
\* disagreement about the size of the ring.
THEOREM WakeupsNotLost ==
  ASSUME WakeFlags \subseteq {"force", "adaptive"}
  PROVE  Spec => []NoLostWakeup
<1>1. Init => TypeOK /\ HdrInv
  BY TypeInit
<1>2. Init => WakeInv
  BY ConstantsAssumption DEF Init, WakeInv, LockInv, NumberInv, PollInv, FirstWakes
<1>3. TypeOK /\ OneConsumer /\ WakeInv /\ [Next]_vars => WakeInv'
  BY NumberStep, WakeStep DEF WakeInv
<1>4. WakeInv => NoLostWakeup
  BY DEF WakeInv, FirstWakes, NoLostWakeup
<1> QED BY <1>1, <1>2, <1>3, <1>4, TypeCorrect, DeviceExclusive, PTL DEF Spec
=============================================================================
