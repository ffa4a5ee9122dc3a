-------------------------- MODULE RingBufferSafety --------------------------
(***************************************************************************)
(* TLAPS proof that the ring loses, reorders and corrupts nothing when the  *)
(* agent maps the ring the kernel has and loads in order (MatchingAgent).   *)
(***************************************************************************)
EXTENDS RingBufferProofs, SequenceTheorems

----------------------------------------------------------------------------
(* Where the live records lie.                                              *)

LEMMA NumTypes ==
  ASSUME TypeOK
  PROVE  /\ consumer_pos \in Nat /\ producer_pos \in Nat /\ acked \in Nat
         /\ Len(log) \in Nat /\ KWords \in Nat /\ KWords > 0
  BY ConstantsAssumption DEF TypeOK

LEMMA LogTypes ==
  ASSUME TypeOK, NEW i \in 1 .. Len(log)
  PROVE  /\ log[i].pos \in Nat /\ log[i].size \in Nat
         /\ RecWords(log[i].size) \in Nat /\ RecWords(log[i].size) >= 1
         /\ (log[i].size > 4 => RecWords(log[i].size) >= 2)
         /\ End(i) \in Nat /\ End(i) = log[i].pos + RecWords(log[i].size)
<1>1. log \in Seq([pos : Nat, size : Nat])
  BY DEF TypeOK
<1>2. log[i] \in [pos : Nat, size : Nat]
  BY <1>1, ElementOfSeq
<1>3. log[i].pos \in Nat /\ log[i].size \in Nat
  BY <1>2
<1>4. /\ RecWords(log[i].size) \in Nat /\ RecWords(log[i].size) >= 1
      /\ (log[i].size > 4 => RecWords(log[i].size) >= 2)
  BY <1>3, RecWordsType
<1>5. End(i) = log[i].pos + RecWords(log[i].size)
  BY DEF End
<1> QED BY <1>3, <1>4, <1>5

LEMMA LiveBounds ==
  ASSUME TypeOK, LogInv, ConsInv, NEW i \in Live
  PROVE  /\ i \in 1 .. Len(log)
         /\ log[i].pos \in Nat /\ End(i) \in Nat /\ RecWords(log[i].size) \in Nat
         /\ End(i) = log[i].pos + RecWords(log[i].size)
         /\ RecWords(log[i].size) >= 2
         /\ consumer_pos <= log[i].pos /\ End(i) <= producer_pos
<1>1. i \in 1 .. Len(log) /\ acked + 1 \in 1 .. Len(log) /\ acked \in Nat
  BY DEF Live, TypeOK
<1>2. consumer_pos = log[acked + 1].pos
  BY <1>1, NumTypes DEF ConsInv
<1>3. End(acked + 1) \in Nat /\ log[acked + 1].pos <= End(acked + 1)
  BY <1>1, LogTypes
<1>4. log[i].pos \in Nat /\ End(i) \in Nat
  BY <1>1, LogTypes
<1>5. consumer_pos <= log[i].pos
  <2>1. CASE i = acked + 1
    BY <2>1, <1>2, <1>4
  <2>2. CASE acked + 1 < i
    <3>1. End(acked + 1) <= log[i].pos
      BY <2>2, <1>1 DEF LogInv
    <3> QED BY <3>1, <1>2, <1>3, <1>4, NumTypes
  <2>3. i = acked + 1 \/ acked + 1 < i
    BY <1>1, NumTypes DEF Live
  <2> QED BY <2>1, <2>2, <2>3
<1>6. log[i].size > 4 /\ End(i) <= producer_pos
  BY <1>1 DEF LogInv
<1> QED BY <1>1, <1>5, <1>6, LogTypes

\* Two positions between consumer_pos and KWords further share no word.
LEMMA WindowDistinct ==
  ASSUME TypeOK, NEW x \in Nat, NEW y \in Nat, x # y,
         consumer_pos <= x, x < consumer_pos + KWords,
         consumer_pos <= y, y < consumer_pos + KWords
  PROVE  KIndex(x) # KIndex(y)
<1>1. x - y < KWords /\ y - x < KWords
  BY ConstantsAssumption DEF TypeOK
<1> QED BY <1>1, IndexDistinct

\* The words of a live record are apart from the word at any other position of
\* the window.
LEMMA HdrApart ==
  ASSUME TypeOK, LogInv, ConsInv, NoOverrun, NEW i \in Live, NEW x \in Nat,
         consumer_pos <= x, x < consumer_pos + KWords, x # log[i].pos
  PROVE  KIndex(x) # KIndex(log[i].pos)
<1>1. /\ consumer_pos \in Nat /\ producer_pos \in Nat
      /\ producer_pos < consumer_pos + KWords
  BY NumTypes DEF NoOverrun
<1>2. /\ log[i].pos \in Nat /\ consumer_pos <= log[i].pos
      /\ log[i].pos < consumer_pos + KWords
  BY <1>1, LiveBounds, ConstantsAssumption
<1> QED BY <1>2, WindowDistinct

LEMMA TextApart ==
  ASSUME TypeOK, LogInv, ConsInv, NoOverrun, NEW i \in Live, NEW x \in Nat,
         consumer_pos <= x, x < consumer_pos + KWords,
         x <= log[i].pos \/ End(i) <= x
  PROVE  KIndex(x) \notin TextWords(log[i].pos, log[i].size)
<1> SUFFICES ASSUME NEW k \in 1 .. (RecWords(log[i].size) - 1),
                    KIndex(x) = KIndex(log[i].pos + k)
             PROVE FALSE
  BY DEF TextWords
<1>1. /\ consumer_pos \in Nat /\ producer_pos \in Nat /\ KWords \in Nat
      /\ producer_pos < consumer_pos + KWords
  BY NumTypes DEF NoOverrun
<1>2. /\ log[i].pos \in Nat /\ consumer_pos <= log[i].pos /\ End(i) \in Nat
      /\ RecWords(log[i].size) \in Nat
      /\ End(i) = log[i].pos + RecWords(log[i].size) /\ End(i) <= producer_pos
  BY LiveBounds
<1>3. /\ log[i].pos + k \in Nat /\ x # log[i].pos + k
      /\ consumer_pos <= log[i].pos + k /\ log[i].pos + k < consumer_pos + KWords
  BY <1>1, <1>2
<1> QED BY <1>3, WindowDistinct

\* The texts of two live records are apart.
LEMMA TextsApart ==
  ASSUME TypeOK, LogInv, ConsInv, NoOverrun, NEW i \in Live, NEW j \in Live, i # j,
         NEW w \in TextWords(log[i].pos, log[i].size)
  PROVE  w \notin TextWords(log[j].pos, log[j].size)
<1>1. PICK k \in 1 .. (RecWords(log[i].size) - 1) : w = KIndex(log[i].pos + k)
  BY DEF TextWords
<1>2. /\ consumer_pos \in Nat /\ producer_pos \in Nat /\ KWords \in Nat
      /\ producer_pos < consumer_pos + KWords
  BY NumTypes DEF NoOverrun
<1>3. /\ log[i].pos \in Nat /\ consumer_pos <= log[i].pos /\ End(i) \in Nat
      /\ RecWords(log[i].size) \in Nat
      /\ End(i) = log[i].pos + RecWords(log[i].size) /\ End(i) <= producer_pos
  BY LiveBounds
<1>4. log[j].pos \in Nat /\ End(j) \in Nat /\ i \in 1 .. Len(log) /\ j \in 1 .. Len(log)
  BY LiveBounds
<1>5. End(i) <= log[j].pos \/ End(j) <= log[i].pos
  BY <1>4 DEF LogInv
<1>6. /\ log[i].pos + k \in Nat /\ log[i].pos + k < End(i) /\ log[i].pos <= log[i].pos + k
      /\ consumer_pos <= log[i].pos + k /\ log[i].pos + k < consumer_pos + KWords
  BY <1>2, <1>3
<1>7. log[i].pos + k <= log[j].pos \/ End(j) <= log[i].pos + k
  BY <1>3, <1>4, <1>5, <1>6
<1> QED BY <1>1, <1>6, <1>7, TextApart

LEMMA TextWordsType ==
  ASSUME NEW pos \in Nat, NEW size \in Nat
  PROVE  TextWords(pos, size) \subseteq 0 .. (KWords - 1)
<1>1. RecWords(size) \in Nat
  BY RecWordsType
<1> SUFFICES ASSUME NEW k \in 1 .. (RecWords(size) - 1)
             PROVE  KIndex(pos + k) \in 0 .. (KWords - 1)
  BY DEF TextWords
<1>2. pos + k \in Nat
  BY <1>1
<1> QED BY <1>2, IndexType

----------------------------------------------------------------------------
(* What a step that touches only one side leaves alone.                     *)

\* A step of an agent that releases nothing.
LEMMA RingFrame ==
  ASSUME UNCHANGED <<consumer_pos, producer_pos, mem, spinlock, prodVars, log, acked>>,
         IndInv
  PROVE  /\ LockInv' /\ LogInv' /\ ConsInv' /\ ProdInv' /\ OwnerInv' /\ NoOverrun'
         /\ LiveRecordsIntact' /\ Committed' = Committed
<1> USE DEF prodVars
<1>1. LockInv' /\ OwnerInv'
  BY DEF IndInv, LockInv, OwnerInv
<1>2. LogInv'
  BY DEF IndInv, LogInv, End
<1>3. ConsInv'
  BY DEF IndInv, ConsInv
<1>4. ProdInv'
  <2>1. ASSUME NEW p \in Producers, ProdOK(p) PROVE ProdOK(p)'
    BY <2>1 DEF ProdOK, Live, TextWords
  <2> QED BY <2>1 DEF IndInv, ProdInv
<1>5. NoOverrun'
  BY DEF IndInv, NoOverrun
<1>6. LiveRecordsIntact'
  BY DEF IndInv, LiveRecordsIntact, Live, Writers, TextWords
<1>7. Committed' = Committed
  BY DEF Committed, Writers
<1> QED BY <1>1, <1>2, <1>3, <1>4, <1>5, <1>6, <1>7

\* A step of a producer: what is committed stays so.
LEMMA AgentFrame ==
  ASSUME TypeOK, IndInv,
         UNCHANGED <<consVars, g_isopen, consumer_pos, acked, handed, garbled>>,
         producer_pos' \in Nat, producer_pos <= producer_pos',
         \A i \in Committed : i \in Committed' /\ log'[i] = log[i]
  PROVE  AgentInv' /\ HandInv' /\ CallbackGetsWholeRecords'
<1>1. ASSUME NEW a \in Agents PROVE AgentOK(a)'
  <2> USE DEF consVars
  <2>1. AgentOK(a)
    BY DEF IndInv, AgentInv
  <2>2. cPc[a] \in {"scan", "callback", "store"} => cProd[a] <= producer_pos'
    <3>1. cProd[a] \in Nat
      BY DEF TypeOK
    <3> QED BY <2>1, <3>1, NumTypes DEF AgentOK
  <2>3. cPc[a] \in {"callback", "store"} =>
          /\ acked + 1 \in Committed' /\ log'[acked + 1] = log[acked + 1]
          /\ cHdr[a] = Hdr(acked + 1, log[acked + 1].size, FALSE)
    BY <2>1 DEF AgentOK
  <2>4. cPc[a] = "store" => cCons[a] = End(acked + 1)' /\ handed = acked + 1
    BY <2>1, <2>3 DEF AgentOK, End
  <2>5. /\ cPc[a] # "closed" => g_isopen
        /\ cPc[a] \in {"load", "scan", "callback"} => cCons[a] = consumer_pos
        /\ cPc[a] \notin {"callback", "store"} => cHdr[a] = None
    BY <2>1 DEF AgentOK
  <2> QED BY <2>2, <2>3, <2>4, <2>5 DEF AgentOK
<1>2. HandInv' /\ CallbackGetsWholeRecords'
  BY DEF IndInv, HandInv, CallbackGetsWholeRecords
<1> QED BY <1>1, <1>2 DEF AgentInv

\* What a producer knows outlives the steps of the others.
LEMMA OtherProducer ==
  ASSUME TypeOK, NEW q \in Producers, ProdOK(q),
         pPc'[q] = pPc[q], pRec'[q] = pRec[q],
         pSize'[q] = pSize[q], pCons'[q] = pCons[q],
         consumer_pos' \in Nat, consumer_pos <= consumer_pos',
         pPc[q] = "advance" =>
           /\ UNCHANGED <<producer_pos, log>>
           /\ mem'[KIndex(producer_pos)] = mem[KIndex(producer_pos)],
         pPc[q] \in {"fill", "commit"} =>
           pRec[q] \in Live' /\ log'[pRec[q]] = log[pRec[q]],
         pPc[q] = "commit" =>
           \A w \in TextWords(log[pRec[q]].pos, pSize[q]) : mem'[w] = mem[w]
  PROVE  ProdOK(q)'
<1>1. pSize[q] \in Nat /\ pCons[q] \in Nat /\ RecWords(pSize[q]) \in Nat
  BY RecWordsType DEF TypeOK
<1>2. /\ pPc'[q] # "idle" => pSize'[q] > 4
      /\ pPc'[q] \in {"lock", "mark", "advance"} => pCons'[q] <= consumer_pos'
  BY <1>1, NumTypes DEF ProdOK
<1>3. pPc'[q] = "advance" =>
        /\ producer_pos' + RecWords(pSize[q])' - consumer_pos' < KWords
        /\ pRec'[q] = Len(log') + 1
        /\ mem'[KIndex(producer_pos)'] = Hdr(pRec[q], pSize[q], TRUE)'
  <2> SUFFICES ASSUME pPc[q] = "advance"
               PROVE  /\ producer_pos' + RecWords(pSize[q])' - consumer_pos' < KWords
                      /\ pRec'[q] = Len(log') + 1
                      /\ mem'[KIndex(producer_pos)'] = Hdr(pRec[q], pSize[q], TRUE)'
    OBVIOUS
  <2>1. /\ producer_pos + RecWords(pSize[q]) - consumer_pos < KWords
        /\ pRec[q] = Len(log) + 1
        /\ mem[KIndex(producer_pos)] = Hdr(pRec[q], pSize[q], TRUE)
    BY DEF ProdOK
  <2>2. producer_pos + RecWords(pSize[q]) - consumer_pos' < KWords
    BY <2>1, <1>1, NumTypes
  <2> QED BY <2>1, <2>2
<1>4. pPc'[q] \in {"fill", "commit"} =>
        pRec'[q] \in Live' /\ log'[pRec'[q]].size = pSize'[q]
  BY DEF ProdOK
<1>5. pPc'[q] = "commit" =>
        \A w \in TextWords(log[pRec[q]].pos, pSize[q])' : mem'[w] = Text(pRec[q])'
  BY DEF ProdOK, TextWords
<1> QED BY <1>2, <1>3, <1>4, <1>5 DEF ProdOK

\* A step of a producer that neither reserves, fills nor commits.
LEMMA QuietProducer ==
  ASSUME TypeOK, IndInv, NEW p \in Producers,
         UNCHANGED <<consVars, g_isopen, consumer_pos, producer_pos, mem, histVars>>,
         pPc[p] \notin {"fill", "commit"}, pPc'[p] \notin {"fill", "commit"},
         \A q \in Producers \ {p} : /\ pPc'[q] = pPc[q] /\ pRec'[q] = pRec[q]
                                    /\ pSize'[q] = pSize[q] /\ pCons'[q] = pCons[q],
         LockInv', ProdOK(p)'
  PROVE  IndInv'
<1>1. \A i : Writers(i)' = Writers(i)
  BY DEF Writers
<1>2. Committed' = Committed
  BY <1>1 DEF Committed, histVars
<1>3. LogInv' /\ ConsInv' /\ NoOverrun'
  BY DEF IndInv, LogInv, ConsInv, NoOverrun, End, histVars
<1>4. LiveRecordsIntact'
  BY <1>1 DEF IndInv, LiveRecordsIntact, Live, TextWords, histVars
<1>5. AgentInv' /\ HandInv' /\ CallbackGetsWholeRecords'
  BY <1>2, AgentFrame, NumTypes DEF histVars
<1>6. ASSUME NEW q \in Producers \ {p} PROVE ProdOK(q)'
  <2>1. ProdOK(q)
    BY DEF IndInv, ProdInv
  <2>2. /\ pPc'[q] = pPc[q] /\ pRec'[q] = pRec[q]
        /\ pSize'[q] = pSize[q] /\ pCons'[q] = pCons[q]
    OBVIOUS
  <2>3. UNCHANGED <<consumer_pos, producer_pos, mem, log, acked>>
    BY DEF histVars
  <2>4. pPc[q] \in {"fill", "commit"} => pRec[q] \in Live'
    BY <2>1, <2>3 DEF ProdOK, Live
  <2> QED BY <2>1, <2>2, <2>3, <2>4, OtherProducer, NumTypes
<1>7. OwnerInv'
  BY DEF IndInv, OwnerInv
<1> QED BY <1>3, <1>4, <1>5, <1>6, <1>7 DEF IndInv, ProdInv

----------------------------------------------------------------------------
(* The steps of a producer.                                                 *)

LEMMA ReportBeginStep ==
  ASSUME TypeOK, IndInv, NEW p \in Producers, NEW len \in Lens, ReportBegin(p, len)
  PROVE  IndInv'
<1> USE DEF ReportBegin, ringVars
<1>1. EntrySize(len) > 4 /\ EntrySize(len) \in Nat
  BY ConstantsAssumption DEF EntrySize
<1>2. ProdOK(p)'
  BY <1>1, NumTypes DEF ProdOK, TypeOK
<1>3. LockInv'
  BY DEF IndInv, LockInv, TypeOK
<1>4. pPc[p] = "idle" /\ pPc'[p] = "lock"
  BY DEF TypeOK
<1>5. \A q \in Producers \ {p} : /\ pPc'[q] = pPc[q] /\ pRec'[q] = pRec[q]
                                 /\ pSize'[q] = pSize[q] /\ pCons'[q] = pCons[q]
  BY DEF TypeOK
<1> QED BY <1>2, <1>3, <1>4, <1>5, QuietProducer

LEMMA LockRingStep ==
  ASSUME TypeOK, IndInv, NEW p \in Producers, LockRing(p)
  PROVE  IndInv'
<1> USE DEF LockRing
<1>1. ProdOK(p)'
  <2>1. ProdOK(p)
    BY DEF IndInv, ProdInv
  <2> QED BY <2>1 DEF ProdOK, TypeOK
<1>2. LockInv'
  BY ConstantsAssumption DEF IndInv, LockInv, TypeOK
<1>3. pPc[p] = "lock" /\ pPc'[p] = "mark"
  BY DEF TypeOK
<1>4. \A q \in Producers \ {p} : /\ pPc'[q] = pPc[q] /\ pRec'[q] = pRec[q]
                                 /\ pSize'[q] = pSize[q] /\ pCons'[q] = pCons[q]
  BY DEF TypeOK
<1> QED BY <1>1, <1>2, <1>3, <1>4, QuietProducer

\* The steps with which a report returns.
LEMMA ReturnStep ==
  ASSUME TypeOK, IndInv, NEW p \in Producers, Return(p),
         UNCHANGED <<consVars, g_isopen, consumer_pos, producer_pos, mem, histVars>>,
         pPc[p] \in {"lock", "mark", "notify"},
         spinlock' = IF pPc[p] = "mark" THEN None ELSE spinlock
  PROVE  IndInv'
<1> USE DEF Return
<1>1. pPc'[p] = "idle"
  BY DEF TypeOK
<1>2. ProdOK(p)'
  BY <1>1 DEF ProdOK
<1>3. LockInv'
  BY ConstantsAssumption DEF IndInv, LockInv, TypeOK
<1>4. \A q \in Producers \ {p} : /\ pPc'[q] = pPc[q] /\ pRec'[q] = pRec[q]
                                 /\ pSize'[q] = pSize[q] /\ pCons'[q] = pCons[q]
  BY DEF TypeOK
<1> QED BY <1>1, <1>2, <1>3, <1>4, QuietProducer

\* The room the producer found is there, whatever the agent released since.
LEMMA RoomFound ==
  ASSUME TypeOK, IndInv, NEW p \in Producers, pPc[p] = "mark", HasRoom(p)
  PROVE  /\ RecWords(pSize[p]) \in Nat /\ RecWords(pSize[p]) >= 2
         /\ consumer_pos <= producer_pos /\ producer_pos < consumer_pos + KWords
         /\ producer_pos + RecWords(pSize[p]) - consumer_pos < KWords
<1>1. pSize[p] \in Nat /\ pCons[p] \in Nat
  BY DEF TypeOK
<1>2. pSize[p] > 4 /\ pCons[p] <= consumer_pos
  BY DEF IndInv, ProdInv, ProdOK
<1>3. RecWords(pSize[p]) \in Nat /\ RecWords(pSize[p]) >= 2
  BY <1>1, <1>2, RecWordsType
<1>4. producer_pos + RecWords(pSize[p]) - pCons[p] < KWords
  BY <1>1, <1>3, NumTypes DEF HasRoom
<1>5. consumer_pos <= producer_pos /\ producer_pos < consumer_pos + KWords
  BY NumTypes DEF IndInv, NoOverrun
<1> QED BY <1>1, <1>2, <1>3, <1>4, <1>5, NumTypes

LEMMA MarkBusyStep ==
  ASSUME TypeOK, IndInv, NEW p \in Producers, MarkBusy(p)
  PROVE  IndInv'
<1> USE DEF MarkBusy
<1>1. /\ RecWords(pSize[p]) \in Nat
      /\ consumer_pos <= producer_pos /\ producer_pos < consumer_pos + KWords
      /\ producer_pos + RecWords(pSize[p]) - consumer_pos < KWords
  BY RoomFound
<1>2. /\ pPc[p] = "mark" /\ pPc' = [pPc EXCEPT ![p] = "advance"]
      /\ pRec' = [pRec EXCEPT ![p] = Len(log) + 1]
      /\ UNCHANGED <<consumer_pos, producer_pos, spinlock, pSize, pCons, log, acked>>
  BY DEF histVars
<1>3. KIndex(producer_pos) \in 0 .. (KWords - 1)
  BY NumTypes, IndexType
<1>4. /\ mem'[KIndex(producer_pos)] = Hdr(Len(log) + 1, pSize[p], TRUE)
      /\ \A w \in 0 .. (KWords - 1) : w # KIndex(producer_pos) => mem'[w] = mem[w]
  BY <1>3 DEF TypeOK
<1>5. \A i : Writers(i)' = Writers(i)
  BY <1>2 DEF Writers, TypeOK
<1>6. ASSUME NEW i \in Live
      PROVE  /\ mem'[KIndex(log[i].pos)] = mem[KIndex(log[i].pos)]
             /\ \A w \in TextWords(log[i].pos, log[i].size) : mem'[w] = mem[w]
  <2>1. /\ log[i].pos \in Nat /\ log[i].size \in Nat /\ End(i) \in Nat
        /\ End(i) <= producer_pos /\ log[i].pos < End(i)
    BY LiveBounds, LogTypes, NumTypes DEF IndInv
  <2>2. KIndex(log[i].pos) # KIndex(producer_pos)
    BY <1>1, <2>1, HdrApart, NumTypes DEF IndInv
  <2>3. KIndex(producer_pos) \notin TextWords(log[i].pos, log[i].size)
    BY <1>1, <2>1, TextApart, NumTypes DEF IndInv
  <2> QED BY <2>1, <2>2, <2>3, <1>4, IndexType, TextWordsType
<1>7. LockInv'
  BY <1>2 DEF IndInv, LockInv, TypeOK
<1>8. LogInv' /\ ConsInv' /\ NoOverrun'
  BY <1>2 DEF IndInv, LogInv, ConsInv, NoOverrun, End
<1>9. LiveRecordsIntact'
  <2>1. Live' = Live
    BY <1>2 DEF Live
  <2>2. ASSUME NEW i \in Live
        PROVE  /\ mem'[KIndex(log[i].pos)] = Hdr(i, log[i].size, Writers(i) # {})
               /\ Writers(i) = {} =>
                    \A w \in TextWords(log[i].pos, log[i].size) : mem'[w] = Text(i)
    BY <1>6 DEF IndInv, LiveRecordsIntact
  <2>3. ASSUME NEW i \in Live'
        PROVE  /\ mem'[KIndex(log[i].pos)'] = Hdr(i, log[i].size, Writers(i) # {})'
               /\ Writers(i)' = {} =>
                    \A w \in TextWords(log[i].pos, log[i].size)' : mem'[w] = Text(i)
    <3>1. Hdr(i, log[i].size, Writers(i) # {})' = Hdr(i, log[i].size, Writers(i) # {})
      BY <1>2, <1>5, Zenon
    <3>2. KIndex(log[i].pos)' = KIndex(log[i].pos) /\ i \in Live
      BY <2>1, <1>2
    <3>3. TextWords(log[i].pos, log[i].size)' = TextWords(log[i].pos, log[i].size)
      BY <1>2
    <3>4. Writers(i)' = Writers(i)
      BY <1>5
    <3> QED BY <3>1, <3>2, <3>3, <3>4, <2>2
  <2> QED BY <2>3 DEF LiveRecordsIntact
<1>10. ProdOK(p)'
  BY <1>1, <1>2, <1>4 DEF IndInv, ProdInv, ProdOK, TypeOK
<1>11. ASSUME NEW q \in Producers \ {p} PROVE ProdOK(q)'
  <2>1. ProdOK(q)
    BY DEF IndInv, ProdInv
  <2>2. /\ pPc'[q] = pPc[q] /\ pRec'[q] = pRec[q]
        /\ pSize'[q] = pSize[q] /\ pCons'[q] = pCons[q]
    BY <1>2 DEF TypeOK
  <2>3. pPc[q] # "advance"
    BY <1>2 DEF IndInv, LockInv
  <2>4. pPc[q] \in {"fill", "commit"} =>
          /\ pRec[q] \in Live'
          /\ \A w \in TextWords(log[pRec[q]].pos, pSize[q]) : mem'[w] = mem[w]
    BY <2>1, <1>2, <1>6 DEF ProdOK, Live
  <2>5. consumer_pos' \in Nat /\ consumer_pos <= consumer_pos'
    BY <1>2, NumTypes
  <2>7. pPc[q] \in {"fill", "commit"} =>
          pRec[q] \in Live' /\ log'[pRec[q]] = log[pRec[q]]
    <3>1. log' = log
      BY <1>2
    <3> QED BY <2>4, <3>1
  <2>6. pPc[q] = "commit" =>
          \A w \in TextWords(log[pRec[q]].pos, pSize[q]) : mem'[w] = mem[w]
    BY <2>4
  <2> QED BY <2>1, <2>2, <2>3, <2>5, <2>6, <2>7, OtherProducer
<1>12. OwnerInv'
  BY <1>2 DEF IndInv, OwnerInv, TypeOK
<1>13. AgentInv' /\ HandInv' /\ CallbackGetsWholeRecords'
  <2>1. Committed' = Committed
    BY <1>2, <1>5 DEF Committed
  <2> QED BY <2>1, <1>2, AgentFrame, NumTypes DEF histVars
<1> QED BY <1>7, <1>8, <1>9, <1>10, <1>11, <1>12, <1>13 DEF IndInv, ProdInv

LEMMA AdvanceStep ==
  ASSUME TypeOK, TypeOK', IndInv, NEW p \in Producers, Advance(p)
  PROVE  IndInv'
<1>0. PICK n \in Nat : n = Len(log) + 1
  BY NumTypes
<1>1. /\ pPc[p] = "advance" /\ pPc' = [pPc EXCEPT ![p] = "fill"]
      /\ producer_pos' = producer_pos + RecWords(pSize[p])
      /\ log' = Append(log, [pos |-> producer_pos, size |-> pSize[p]])
      /\ spinlock' = None
      /\ UNCHANGED <<consumer_pos, mem, pSize, pCons, pRec, acked, handed, garbled,
                     g_isopen, consVars>>
  BY DEF Advance
<1>2. /\ pSize[p] \in Nat /\ pSize[p] > 4 /\ pRec[p] = n
      /\ producer_pos + RecWords(pSize[p]) - consumer_pos < KWords
      /\ mem[KIndex(producer_pos)] = Hdr(n, pSize[p], TRUE)
  <2>1. ProdOK(p) /\ pSize[p] \in Nat
    BY DEF IndInv, ProdInv, TypeOK
  <2> QED BY <2>1, <1>0, <1>1 DEF ProdOK
<1>3. RecWords(pSize[p]) \in Nat /\ RecWords(pSize[p]) >= 2
  BY <1>2, RecWordsType
<1>4. /\ Len(log') = n /\ n \in Nat
      /\ \A i \in 1 .. Len(log) : log'[i] = log[i]
      /\ log'[n].pos = producer_pos /\ log'[n].size = pSize[p]
  <2>1. log \in Seq([pos : Nat, size : Nat])
    BY DEF TypeOK
  <2>2. [pos |-> producer_pos, size |-> pSize[p]] \in [pos : Nat, size : Nat]
    BY <1>2, NumTypes
  <2> QED BY <2>1, <2>2, <1>0, <1>1, AppendProperties
<1>5. /\ \A i \in 1 .. Len(log) : End(i)' = End(i)
      /\ End(n)' = producer_pos'
  BY <1>0, <1>1, <1>4 DEF End
<1>6. acked <= Len(log) /\ Live' = Live \cup {n}
  <2>1. acked <= Len(log)
    BY DEF IndInv, ConsInv
  <2>2. (acked + 1) .. n = ((acked + 1) .. Len(log)) \cup {n}
    BY <2>1, <1>0, NumTypes
  <2> QED BY <2>1, <2>2, <1>0, <1>1, <1>4 DEF Live
<1>7. \A i \in 1 .. Len(log) : Writers(i)' = Writers(i)
  <2>1. ASSUME NEW i \in 1 .. Len(log), NEW q \in Producers
        PROVE  pPc'[q] \in {"fill", "commit"} /\ pRec'[q] = i
                 <=> pPc[q] \in {"fill", "commit"} /\ pRec[q] = i
    <3>1. CASE q = p
      <4>1. pRec'[q] # i /\ pPc[q] \notin {"fill", "commit"}
        BY <3>1, <1>0, <1>1, <1>2, NumTypes
      <4> QED BY <4>1, <1>1
    <3>2. CASE q # p
      BY <3>2, <1>1 DEF TypeOK
    <3> QED BY <3>1, <3>2
  <2> QED BY <2>1 DEF Writers
<1>8. p \in Writers(n)'
  BY <1>1, <1>2 DEF Writers, TypeOK
<1>9. LockInv'
  BY <1>1, ConstantsAssumption DEF IndInv, LockInv, TypeOK
<1>10. LogInv'
  <2>1. \A i \in 1 .. Len(log) : End(i) \in Nat /\ End(i) <= producer_pos /\ log[i].size > 4
    BY LogTypes DEF IndInv, LogInv
  <2>2. \A i \in 1 .. Len(log') : log'[i].size > 4 /\ End(i)' <= producer_pos'
    <3>1. ASSUME NEW i \in 1 .. Len(log)
          PROVE  log'[i].size > 4 /\ End(i)' <= producer_pos'
      BY <2>1, <1>1, <1>3, <1>0, <1>4, <1>5, NumTypes
    <3>2. log'[n].size > 4 /\ End(n)' <= producer_pos'
      BY <1>1, <1>2, <1>3, <1>0, <1>4, <1>5, NumTypes
    <3> QED BY <3>1, <3>2, <1>0, <1>4, NumTypes
  <2>3. ASSUME NEW i \in 1 .. Len(log'), NEW j \in 1 .. Len(log'), i < j
        PROVE  End(i)' <= log'[j].pos
    <3>1. CASE j = n
      <4>1. i \in 1 .. Len(log)
        BY <2>3, <3>1, <1>0, <1>4, NumTypes
      <4> QED BY <4>1, <3>1, <2>1, <1>0, <1>4, <1>5
    <3>2. CASE j # n
      <4>1. i \in 1 .. Len(log) /\ j \in 1 .. Len(log)
        BY <2>3, <3>2, <1>0, <1>4, NumTypes
      <4>2. End(i) <= log[j].pos
        BY <4>1, <2>3 DEF IndInv, LogInv
      <4> QED BY <4>1, <4>2, <1>0, <1>4, <1>5
    <3> QED BY <3>1, <3>2
  <2>4. ASSUME NEW i \in 1 .. (Len(log') - 1) PROVE log'[i + 1].pos = End(i)'
    <3>1. i \in 1 .. Len(log)
      BY <1>0, <1>4, NumTypes
    <3>2. CASE i = Len(log)
      <4>1. End(i) = producer_pos
        BY <3>1, <3>2 DEF IndInv, LogInv
      <4> QED BY <4>1, <3>1, <3>2, <1>0, <1>4, <1>5
    <3>3. CASE i # Len(log)
      <4>1. i \in 1 .. (Len(log) - 1) /\ i + 1 \in 1 .. Len(log)
        BY <3>1, <3>3, NumTypes
      <4>2. log[i + 1].pos = End(i)
        BY <4>1 DEF IndInv, LogInv
      <4> QED BY <4>1, <4>2, <3>1, <1>0, <1>4, <1>5
    <3> QED BY <3>2, <3>3
  <2>5. End(Len(log))' = producer_pos'
    BY <1>0, <1>4, <1>5
  <2> QED BY <2>2, <2>3, <2>4, <2>5 DEF LogInv
<1>11. ConsInv'
  <2>1. CASE acked = Len(log)
    BY <2>1, <1>1, <1>0, <1>4, NumTypes DEF IndInv, ConsInv
  <2>2. CASE acked # Len(log)
    <3>1. acked < Len(log) /\ acked + 1 \in 1 .. Len(log)
      BY <2>2, <1>6, NumTypes
    <3>2. consumer_pos = log[acked + 1].pos
      BY <3>1 DEF IndInv, ConsInv
    <3> QED BY <3>1, <3>2, <1>1, <1>0, <1>4, NumTypes DEF ConsInv
  <2> QED BY <2>1, <2>2
<1>12. NoOverrun'
  <2>1. consumer_pos <= producer_pos
    BY NumTypes DEF IndInv, NoOverrun
  <2> QED BY <2>1, <1>1, <1>2, <1>3, NumTypes DEF NoOverrun
<1>13. LiveRecordsIntact'
  <2>1. ASSUME NEW i \in Live'
        PROVE  /\ mem'[KIndex(log[i].pos)'] = Hdr(i, log[i].size, Writers(i) # {})'
               /\ Writers(i)' = {} =>
                    \A w \in TextWords(log[i].pos, log[i].size)' : mem'[w] = Text(i)
    <3>1. CASE i = n
      <4>1. Hdr(i, log[i].size, Writers(i) # {})' = Hdr(n, pSize[p], TRUE)
        BY <3>1, <1>4, <1>8, Zenon
      <4>2. mem'[KIndex(log[i].pos)'] = mem[KIndex(producer_pos)]
        BY <3>1, <1>1, <1>4
      <4> QED BY <4>1, <4>2, <1>2, <1>8, <3>1
    <3>2. CASE i # n
      <4>1. i \in Live /\ i \in 1 .. Len(log)
        BY <3>2, <1>0, <1>6, LiveBounds DEF IndInv
      <4>2. Hdr(i, log[i].size, Writers(i) # {})' = Hdr(i, log[i].size, Writers(i) # {})
        BY <4>1, <1>4, <1>7, Zenon
      <4>3. /\ KIndex(log[i].pos)' = KIndex(log[i].pos)
            /\ TextWords(log[i].pos, log[i].size)' = TextWords(log[i].pos, log[i].size)
            /\ mem' = mem
        BY <4>1, <1>1, <1>4
      <4>4. Writers(i)' = Writers(i)
        BY <4>1, <1>7
      <4>5. /\ mem[KIndex(log[i].pos)] = Hdr(i, log[i].size, Writers(i) # {})
            /\ Writers(i) = {} =>
                 \A w \in TextWords(log[i].pos, log[i].size) : mem[w] = Text(i)
        BY <4>1 DEF IndInv, LiveRecordsIntact
      <4> QED BY <4>2, <4>3, <4>4, <4>5
    <3> QED BY <3>1, <3>2
  <2> QED BY <2>1 DEF LiveRecordsIntact
<1>14. ProdOK(p)'
  <2>1. n \in Live'
    BY <1>6
  <2>2. pPc'[p] = "fill"
    BY <1>1 DEF TypeOK
  <2> QED BY <2>1, <2>2, <1>1, <1>2, <1>4 DEF ProdOK
<1>15. ASSUME NEW q \in Producers \ {p} PROVE ProdOK(q)'
  <2>1. ProdOK(q)
    BY DEF IndInv, ProdInv
  <2>2. /\ pPc'[q] = pPc[q] /\ pRec'[q] = pRec[q]
        /\ pSize'[q] = pSize[q] /\ pCons'[q] = pCons[q]
    BY <1>1 DEF TypeOK
  <2>3. pPc[q] # "advance"
    BY <1>1 DEF IndInv, LockInv
  <2>4. consumer_pos' \in Nat /\ consumer_pos <= consumer_pos' /\ mem' = mem
    BY <1>1, NumTypes
  <2>5. pPc[q] \in {"fill", "commit"} => pRec[q] \in Live
    BY <2>1 DEF ProdOK
  <2>6. pPc[q] \in {"fill", "commit"} =>
          pRec[q] \in Live' /\ log'[pRec[q]] = log[pRec[q]]
    BY <2>5, <1>0, <1>4, <1>6, LiveBounds DEF IndInv
  <2> QED BY <2>1, <2>2, <2>3, <2>4, <2>6, OtherProducer
<1>16. OwnerInv'
  <2>1. ASSUME NEW q \in Producers \ {p}, pPc[q] \in {"fill", "commit"}
        PROVE  pRec[q] # n
    <3>1. pRec[q] \in Live
      BY <2>1 DEF IndInv, ProdInv, ProdOK
    <3> QED BY <3>1, <1>0, LiveBounds, NumTypes DEF IndInv
  <2> QED BY <2>1, <1>1, <1>2 DEF IndInv, OwnerInv, TypeOK
<1>17. AgentInv' /\ HandInv' /\ CallbackGetsWholeRecords'
  <2>1. ASSUME NEW i \in Committed PROVE i \in Committed' /\ log'[i] = log[i]
    <3>1. i \in 1 .. Len(log) /\ Writers(i) = {}
      BY DEF Committed
    <3>2. i \in 1 .. Len(log') /\ Writers(i)' = {}
      BY <3>1, <1>0, <1>4, <1>7, NumTypes
    <3> QED BY <3>1, <3>2, <1>4 DEF Committed
  <2>2. producer_pos' \in Nat /\ producer_pos <= producer_pos'
    BY <1>1, <1>3, NumTypes
  <2> QED BY <2>1, <2>2, <1>1, AgentFrame
<1> QED BY <1>9, <1>10, <1>11, <1>12, <1>13, <1>14, <1>15, <1>16, <1>17
     DEF IndInv, ProdInv

\* What a producer that writes a record knows of it.
LEMMA WriterKnows ==
  ASSUME TypeOK, IndInv, NEW p \in Producers, pPc[p] \in {"fill", "commit"}
  PROVE  /\ pRec[p] \in Live /\ log[pRec[p]].size = pSize[p]
         /\ log[pRec[p]].pos \in Nat /\ log[pRec[p]].size \in Nat
         /\ Writers(pRec[p]) = {p}
<1>1. pRec[p] \in Live /\ log[pRec[p]].size = pSize[p]
  BY DEF IndInv, ProdInv, ProdOK
<1>2. log[pRec[p]].pos \in Nat /\ log[pRec[p]].size \in Nat
  BY <1>1, LiveBounds, LogTypes DEF IndInv
<1>3. Writers(pRec[p]) = {p}
  BY DEF IndInv, OwnerInv, Writers
<1> QED BY <1>1, <1>2, <1>3

LEMMA FillStep ==
  ASSUME TypeOK, IndInv, NEW p \in Producers, Fill(p)
  PROVE  IndInv'
<1>0. PICK m : m = pRec[p]
  OBVIOUS
<1>1. /\ pPc[p] = "fill" /\ pPc' = [pPc EXCEPT ![p] = "commit"]
      /\ UNCHANGED <<consumer_pos, producer_pos, spinlock, pSize, pCons, pRec, log,
                     acked, handed, garbled, g_isopen, consVars>>
  BY DEF Fill, histVars
<1>2. /\ m \in Live /\ log[m].size = pSize[p] /\ Writers(m) = {p}
      /\ log[m].pos \in Nat /\ log[m].size \in Nat
  BY <1>0, <1>1, WriterKnows
<1>3. \A w \in 0 .. (KWords - 1) :
        mem'[w] = IF w \in TextWords(log[m].pos, log[m].size) THEN Text(m) ELSE mem[w]
  BY <1>0, <1>2 DEF Fill, TypeOK
<1>4. \A i : Writers(i)' = Writers(i)
  BY <1>1 DEF Writers, TypeOK
<1>5. ASSUME NEW i \in Live
      PROVE  mem'[KIndex(log[i].pos)] = mem[KIndex(log[i].pos)]
  <2>0. /\ log[i].pos \in Nat /\ End(i) \in Nat /\ RecWords(log[i].size) \in Nat
        /\ consumer_pos <= log[i].pos /\ End(i) <= producer_pos
        /\ End(i) = log[i].pos + RecWords(log[i].size) /\ RecWords(log[i].size) >= 2
    BY LiveBounds DEF IndInv
  <2>1. /\ log[i].pos \in Nat /\ End(i) \in Nat /\ consumer_pos <= log[i].pos
        /\ log[i].pos < End(i) /\ End(i) <= producer_pos /\ End(m) \in Nat
    BY <2>0, <1>2, LiveBounds DEF IndInv
  <2>2. log[i].pos < consumer_pos + KWords
    BY <2>1, NumTypes DEF IndInv, NoOverrun
  <2>3. log[i].pos <= log[m].pos \/ End(m) <= log[i].pos
    <3>1. i \in 1 .. Len(log) /\ m \in 1 .. Len(log)
      BY <1>2, LiveBounds DEF IndInv
    <3>2. i < m => End(i) <= log[m].pos
      BY <3>1 DEF IndInv, LogInv
    <3>3. m < i => End(m) <= log[i].pos
      BY <3>1 DEF IndInv, LogInv
    <3> QED BY <3>1, <3>2, <3>3, <2>1, <1>2
  <2>4. KIndex(log[i].pos) \notin TextWords(log[m].pos, log[m].size)
    BY <2>1, <2>2, <2>3, <1>2, TextApart DEF IndInv
  <2> QED BY <2>1, <2>4, <1>3, IndexType
<1>6. ASSUME NEW i \in Live, i # m, NEW w \in TextWords(log[i].pos, log[i].size)
      PROVE  mem'[w] = mem[w]
  <2>1. w \notin TextWords(log[m].pos, log[m].size)
    BY <1>2, <1>6, TextsApart DEF IndInv
  <2>2. w \in 0 .. (KWords - 1)
    <3>1. log[i].pos \in Nat /\ log[i].size \in Nat
      BY LiveBounds, LogTypes DEF IndInv
    <3> QED BY <3>1, TextWordsType
  <2> QED BY <2>1, <2>2, <1>3
<1>7. \A w \in TextWords(log[m].pos, log[m].size) : mem'[w] = Text(m)
  BY <1>2, <1>3, TextWordsType
<1>8. LockInv'
  BY <1>1 DEF IndInv, LockInv, TypeOK
<1>9. LogInv' /\ ConsInv' /\ NoOverrun'
  BY <1>1 DEF IndInv, LogInv, ConsInv, NoOverrun, End
<1>10. LiveRecordsIntact'
  <2>1. ASSUME NEW i \in Live'
        PROVE  /\ mem'[KIndex(log[i].pos)'] = Hdr(i, log[i].size, Writers(i) # {})'
               /\ Writers(i)' = {} =>
                    \A w \in TextWords(log[i].pos, log[i].size)' : mem'[w] = Text(i)
    <3>1. i \in Live
      BY <1>1 DEF Live
    <3>2. Hdr(i, log[i].size, Writers(i) # {})' = Hdr(i, log[i].size, Writers(i) # {})
      BY <1>1, <1>4, Zenon
    <3>3. /\ KIndex(log[i].pos)' = KIndex(log[i].pos)
          /\ TextWords(log[i].pos, log[i].size)' = TextWords(log[i].pos, log[i].size)
      BY <1>1
    <3>4. /\ mem[KIndex(log[i].pos)] = Hdr(i, log[i].size, Writers(i) # {})
          /\ Writers(i) = {} =>
               \A w \in TextWords(log[i].pos, log[i].size) : mem[w] = Text(i)
      BY <3>1 DEF IndInv, LiveRecordsIntact
    <3>5. Writers(i) = {} => i # m
      BY <1>2
    <3> QED BY <3>1, <3>2, <3>3, <3>4, <3>5, <1>4, <1>5, <1>6
  <2> QED BY <2>1 DEF LiveRecordsIntact
<1>11. ProdOK(p)'
  <2>1. pPc'[p] = "commit" /\ pRec'[p] = m /\ pSize'[p] = pSize[p] /\ log' = log
    BY <1>0, <1>1 DEF TypeOK
  <2>2. pSize[p] > 4
    BY <1>1 DEF IndInv, ProdInv, ProdOK
  <2>3. \A w \in TextWords(log[pRec[p]].pos, pSize[p])' : mem'[w] = Text(pRec[p])'
    BY <2>1, <1>2, <1>7
  <2>4. pRec'[p] \in Live' /\ log'[pRec'[p]].size = pSize'[p]
    BY <2>1, <1>1, <1>2 DEF Live
  <2> QED BY <2>1, <2>2, <2>3, <2>4 DEF ProdOK
<1>12. ASSUME NEW q \in Producers \ {p} PROVE ProdOK(q)'
  <2>1. ProdOK(q)
    BY DEF IndInv, ProdInv
  <2>2. /\ pPc'[q] = pPc[q] /\ pRec'[q] = pRec[q]
        /\ pSize'[q] = pSize[q] /\ pCons'[q] = pCons[q]
    BY <1>1 DEF TypeOK
  <2>3. consumer_pos' \in Nat /\ consumer_pos <= consumer_pos'
    BY <1>1, NumTypes
  <2>4. mem'[KIndex(producer_pos)] = mem[KIndex(producer_pos)]
    <3>1. consumer_pos <= producer_pos /\ producer_pos < consumer_pos + KWords
      BY NumTypes DEF IndInv, NoOverrun
    <3>2. End(m) <= producer_pos
      BY <1>2, LiveBounds DEF IndInv
    <3>3. KIndex(producer_pos) \notin TextWords(log[m].pos, log[m].size)
      BY <1>2, <3>1, <3>2, TextApart, NumTypes DEF IndInv
    <3> QED BY <3>3, <1>3, IndexType, NumTypes
  <2>7. UNCHANGED <<producer_pos, log>>
    BY <1>1
  <2>5. pPc[q] \in {"fill", "commit"} =>
          pRec[q] \in Live' /\ log'[pRec[q]] = log[pRec[q]]
    BY <2>1, <1>1 DEF ProdOK, Live
  <2>6. pPc[q] = "commit" =>
          \A w \in TextWords(log[pRec[q]].pos, pSize[q]) : mem'[w] = mem[w]
    <3> SUFFICES ASSUME pPc[q] = "commit"
                 PROVE \A w \in TextWords(log[pRec[q]].pos, pSize[q]) : mem'[w] = mem[w]
      OBVIOUS
    <3>1. pRec[q] \in Live /\ log[pRec[q]].size = pSize[q]
      BY WriterKnows
    <3>2. pRec[q] # m
      BY <1>0, <1>1 DEF IndInv, OwnerInv
    <3> QED BY <3>1, <3>2, <1>6
  <2> QED BY <2>1, <2>2, <2>3, <2>4, <2>5, <2>6, <2>7, OtherProducer
<1>13. OwnerInv'
  BY <1>1 DEF IndInv, OwnerInv, TypeOK
<1>14. AgentInv' /\ HandInv' /\ CallbackGetsWholeRecords'
  <2>1. Committed' = Committed
    BY <1>1, <1>4 DEF Committed
  <2> QED BY <2>1, <1>1, AgentFrame, NumTypes
<1> QED BY <1>8, <1>9, <1>10, <1>11, <1>12, <1>13, <1>14 DEF IndInv, ProdInv

LEMMA CommitStep ==
  ASSUME TypeOK, IndInv, NEW p \in Producers, Commit(p)
  PROVE  IndInv'
<1>0. PICK m : m = pRec[p]
  OBVIOUS
<1>1. /\ pPc[p] = "commit" /\ pPc' = [pPc EXCEPT ![p] = "notify"]
      /\ mem' = [mem EXCEPT ![KIndex(log[m].pos)] = Hdr(@.rec, @.size, FALSE)]
      /\ UNCHANGED <<consumer_pos, producer_pos, spinlock, pSize, pCons, pRec, log,
                     acked, handed, garbled, g_isopen, consVars>>
  BY <1>0 DEF Commit, histVars
<1>2. /\ m \in Live /\ log[m].size = pSize[p] /\ Writers(m) = {p}
      /\ log[m].pos \in Nat /\ log[m].size \in Nat
  BY <1>0, <1>1, WriterKnows
<1>3. /\ log[m].pos \in Nat /\ End(m) \in Nat /\ consumer_pos <= log[m].pos
      /\ log[m].pos < End(m) /\ End(m) <= producer_pos
      /\ producer_pos < consumer_pos + KWords
  <2>1. /\ log[m].pos \in Nat /\ End(m) \in Nat /\ RecWords(log[m].size) \in Nat
        /\ consumer_pos <= log[m].pos /\ End(m) <= producer_pos
        /\ End(m) = log[m].pos + RecWords(log[m].size) /\ RecWords(log[m].size) >= 2
    BY <1>2, LiveBounds DEF IndInv
  <2> QED BY <2>1, NumTypes DEF IndInv, NoOverrun
<1>4. /\ mem'[KIndex(log[m].pos)] = Hdr(m, log[m].size, FALSE)
      /\ \A w \in 0 .. (KWords - 1) : w # KIndex(log[m].pos) => mem'[w] = mem[w]
  <2>1. KIndex(log[m].pos) \in 0 .. (KWords - 1) /\ DOMAIN mem = 0 .. (KWords - 1)
    BY <1>2, IndexType DEF TypeOK
  <2>2. mem[KIndex(log[m].pos)] = Hdr(m, log[m].size, TRUE)
    <3>1. mem[KIndex(log[m].pos)] = Hdr(m, log[m].size, Writers(m) # {})
      BY <1>2 DEF IndInv, LiveRecordsIntact
    <3>2. (Writers(m) # {}) = TRUE
      BY <1>2
    <3> QED BY <3>1, <3>2, Zenon
  <2>3. mem'[KIndex(log[m].pos)] =
          Hdr(mem[KIndex(log[m].pos)].rec, mem[KIndex(log[m].pos)].size, FALSE)
    BY <1>1, <2>1
  <2>4. mem'[KIndex(log[m].pos)] = Hdr(m, log[m].size, FALSE)
    <3>1. Hdr(m, log[m].size, TRUE).rec = m /\ Hdr(m, log[m].size, TRUE).size = log[m].size
      BY DEF Hdr
    <3> QED BY <2>2, <2>3, <3>1
  <2>5. \A w \in 0 .. (KWords - 1) : w # KIndex(log[m].pos) => mem'[w] = mem[w]
    BY <1>1, <2>1
  <2> QED BY <2>4, <2>5
<1>5. /\ \A i : i # m => Writers(i)' = Writers(i)
      /\ Writers(m)' = {}
  <2>1. Writers(m)' = Writers(m) \ {p}
    BY <1>1 DEF Writers, TypeOK
  <2>2. ASSUME NEW i, i # m PROVE Writers(i)' = Writers(i)
    BY <2>2, <1>0, <1>1 DEF Writers, TypeOK
  <2> QED BY <2>1, <2>2, <1>2
<1>6. ASSUME NEW i \in Live
      PROVE  /\ i # m => mem'[KIndex(log[i].pos)] = mem[KIndex(log[i].pos)]
             /\ \A w \in TextWords(log[i].pos, log[i].size) : mem'[w] = mem[w]
  <2>1. /\ log[i].pos \in Nat /\ log[i].size \in Nat /\ i \in 1 .. Len(log)
        /\ m \in 1 .. Len(log) /\ End(i) \in Nat
        /\ log[i].pos < End(i)
    <3>1. /\ RecWords(log[i].size) \in Nat /\ RecWords(log[i].size) >= 2
          /\ End(i) = log[i].pos + RecWords(log[i].size)
      BY LiveBounds DEF IndInv
    <3>2. /\ log[i].pos \in Nat /\ log[i].size \in Nat /\ i \in 1 .. Len(log)
          /\ m \in 1 .. Len(log) /\ End(i) \in Nat
      BY <1>2, LiveBounds, LogTypes DEF IndInv
    <3> QED BY <3>1, <3>2
  <2>2. /\ i < m => End(i) <= log[m].pos
        /\ m < i => End(m) <= log[i].pos
    BY <2>1 DEF IndInv, LogInv
  <2>3. log[m].pos < consumer_pos + KWords
    BY <1>3, NumTypes
  <2>4. i # m => KIndex(log[i].pos) # KIndex(log[m].pos)
    <3>1. i # m => log[m].pos # log[i].pos
      BY <1>3, <2>1, <2>2
    <3> QED BY <3>1, <1>3, <2>3, HdrApart DEF IndInv
  <2>5. log[m].pos <= log[i].pos \/ End(i) <= log[m].pos
    BY <1>3, <2>1, <2>2
  <2>6. KIndex(log[m].pos) \notin TextWords(log[i].pos, log[i].size)
    BY <1>3, <2>3, <2>5, TextApart DEF IndInv
  <2> QED BY <2>1, <2>4, <2>6, <1>4, IndexType, TextWordsType
<1>7. LockInv'
  BY <1>1 DEF IndInv, LockInv, TypeOK
<1>8. LogInv' /\ ConsInv' /\ NoOverrun'
  BY <1>1 DEF IndInv, LogInv, ConsInv, NoOverrun, End
<1>9. LiveRecordsIntact'
  <2>1. ASSUME NEW i \in Live'
        PROVE  /\ mem'[KIndex(log[i].pos)'] = Hdr(i, log[i].size, Writers(i) # {})'
               /\ Writers(i)' = {} =>
                    \A w \in TextWords(log[i].pos, log[i].size)' : mem'[w] = Text(i)
    <3>1. i \in Live
      BY <1>1 DEF Live
    <3>2. /\ KIndex(log[i].pos)' = KIndex(log[i].pos)
          /\ TextWords(log[i].pos, log[i].size)' = TextWords(log[i].pos, log[i].size)
      BY <1>1
    <3>3. CASE i = m
      <4>1. Hdr(i, log[i].size, Writers(i) # {})' = Hdr(m, log[m].size, FALSE)
        BY <3>3, <1>1, <1>5, Zenon
      <4>2. \A w \in TextWords(log[m].pos, log[m].size) : mem[w] = Text(m)
        BY <1>0, <1>1, <1>2 DEF IndInv, ProdInv, ProdOK
      <4> QED BY <3>1, <3>2, <3>3, <4>1, <4>2, <1>4, <1>6
    <3>4. CASE i # m
      <4>1. Hdr(i, log[i].size, Writers(i) # {})' = Hdr(i, log[i].size, Writers(i) # {})
        BY <3>4, <1>1, <1>5, Zenon
      <4>2. /\ mem[KIndex(log[i].pos)] = Hdr(i, log[i].size, Writers(i) # {})
            /\ Writers(i) = {} =>
                 \A w \in TextWords(log[i].pos, log[i].size) : mem[w] = Text(i)
        BY <3>1 DEF IndInv, LiveRecordsIntact
      <4> QED BY <3>1, <3>2, <3>4, <4>1, <4>2, <1>5, <1>6
    <3> QED BY <3>3, <3>4
  <2> QED BY <2>1 DEF LiveRecordsIntact
<1>10. ProdOK(p)'
  <2>1. pPc'[p] = "notify" /\ pSize'[p] = pSize[p]
    BY <1>1 DEF TypeOK
  <2>2. pSize[p] > 4
    BY <1>1 DEF IndInv, ProdInv, ProdOK
  <2> QED BY <2>1, <2>2 DEF ProdOK
<1>11. ASSUME NEW q \in Producers \ {p} PROVE ProdOK(q)'
  <2>1. ProdOK(q)
    BY DEF IndInv, ProdInv
  <2>2. /\ pPc'[q] = pPc[q] /\ pRec'[q] = pRec[q]
        /\ pSize'[q] = pSize[q] /\ pCons'[q] = pCons[q]
    BY <1>1 DEF TypeOK
  <2>3. consumer_pos' \in Nat /\ consumer_pos <= consumer_pos'
    BY <1>1, NumTypes
  <2>4. mem'[KIndex(producer_pos)] = mem[KIndex(producer_pos)]
    <3>1. consumer_pos <= producer_pos /\ producer_pos # log[m].pos
      BY <1>3, NumTypes
    <3>2. KIndex(producer_pos) # KIndex(log[m].pos)
      BY <1>2, <1>3, <3>1, HdrApart, NumTypes DEF IndInv
    <3> QED BY <3>2, <1>4, IndexType, NumTypes
  <2>5. pPc[q] \in {"fill", "commit"} =>
          pRec[q] \in Live' /\ log'[pRec[q]] = log[pRec[q]]
    BY <2>1, <1>1 DEF ProdOK, Live
  <2>6. pPc[q] = "commit" =>
          \A w \in TextWords(log[pRec[q]].pos, pSize[q]) : mem'[w] = mem[w]
    BY <1>6, WriterKnows
  <2>7. UNCHANGED <<producer_pos, log>>
    BY <1>1
  <2> QED BY <2>1, <2>2, <2>3, <2>4, <2>5, <2>6, <2>7, OtherProducer
<1>12. OwnerInv'
  BY <1>1 DEF IndInv, OwnerInv, TypeOK
<1>13. AgentInv' /\ HandInv' /\ CallbackGetsWholeRecords'
  <2>1. ASSUME NEW i \in Committed PROVE i \in Committed' /\ log'[i] = log[i]
    BY <1>1, <1>5 DEF Committed
  <2> QED BY <2>1, <1>1, AgentFrame, NumTypes
<1> QED BY <1>7, <1>8, <1>9, <1>10, <1>11, <1>12, <1>13 DEF IndInv, ProdInv

----------------------------------------------------------------------------
(* The steps of an agent.                                                   *)

\* A step of the agent that has the device, releasing no record.
LEMMA QuietAgent ==
  ASSUME TypeOK, IndInv, OneConsumer, NEW a \in Agents,
         UNCHANGED <<consumer_pos, producer_pos, mem, spinlock, prodVars, log, acked>>,
         cPc[a] # "closed",
         \A b \in Agents \ {a} : cPc'[b] = cPc[b] /\ cHdr'[b] = cHdr[b],
         AgentOK(a)', HandInv', CallbackGetsWholeRecords'
  PROVE  IndInv'
<1>1. /\ LockInv' /\ LogInv' /\ ConsInv' /\ ProdInv' /\ OwnerInv' /\ NoOverrun'
      /\ LiveRecordsIntact'
  BY RingFrame
<1>2. ASSUME NEW b \in Agents \ {a} PROVE AgentOK(b)'
  <2>1. cPc[b] = "closed"
    BY DEF OneConsumer
  <2>2. cHdr[b] = None
    BY <2>1 DEF IndInv, AgentInv, AgentOK
  <2> QED BY <2>1, <2>2 DEF AgentOK
<1> QED BY <1>1, <1>2 DEF IndInv, AgentInv

LEMMA OpenStep ==
  ASSUME TypeOK, IndInv, NEW a \in Agents, Open(a)
  PROVE  IndInv'
<1> USE DEF Open
<1>1. \A b \in Agents : cPc[b] = "closed"
  BY DEF IndInv, AgentInv, AgentOK
<1>2. /\ LockInv' /\ LogInv' /\ ConsInv' /\ ProdInv' /\ OwnerInv' /\ NoOverrun'
      /\ LiveRecordsIntact'
  BY RingFrame DEF histVars
<1>3. \A b \in Agents : cPc'[b] = IF b = a THEN "poll" ELSE "closed"
  BY <1>1 DEF TypeOK
<1>4. ASSUME NEW b \in Agents PROVE AgentOK(b)'
  <2>1. cHdr'[b] = None
    BY <1>1 DEF IndInv, AgentInv, AgentOK
  <2>2. g_isopen'
    OBVIOUS
  <2>3. cPc'[b] \in {"poll", "closed"}
    BY <1>3
  <2> HIDE DEF Open
  <2> QED BY <2>1, <2>2, <2>3 DEF AgentOK
<1>5. HandInv' /\ CallbackGetsWholeRecords'
  BY DEF IndInv, HandInv, CallbackGetsWholeRecords, histVars
<1> QED BY <1>2, <1>4, <1>5 DEF IndInv, AgentInv

\* The steps that leave the scan, or stay out of it.
LEMMA OutsideStep ==
  ASSUME TypeOK, IndInv, OneConsumer, NEW a \in Agents,
         \/ PollWait(a) \/ PollReturns(a) \/ PollSleeps(a) \/ PollWakes(a)
         \/ ScanDone(a) \/ Exit(a)
  PROVE  IndInv'
<1>1. /\ UNCHANGED <<consumer_pos, producer_pos, mem, spinlock, prodVars, histVars>>
      /\ cPc[a] # "closed"
  BY DEF PollWait, PollReturns, PollSleeps, PollWakes, ScanDone, Exit, ringVars
<1>2. g_isopen /\ AgentOK(a)
  <2>1. AgentOK(a)
    BY DEF IndInv, AgentInv
  <2> QED BY <1>1, <2>1 DEF AgentOK
<1>3. AgentOK(a)'
  <2>1. CASE PollWait(a) \/ PollSleeps(a) \/ PollWakes(a)
    <3>1. /\ cPc'[a] \in {"check", "sleep"}
          /\ cHdr'[a] = None /\ g_isopen'
      BY <2>1, <1>2 DEF PollWait, PollSleeps, PollWakes, ringVars, AgentOK, TypeOK
    <3> QED BY <3>1 DEF AgentOK
  <2>2. CASE PollReturns(a)
    <3>1. /\ cPc'[a] = "load" /\ cCons'[a] = consumer_pos'
          /\ cHdr'[a] = None /\ g_isopen'
      BY <2>2, <1>2 DEF PollReturns, AgentOK, TypeOK
    <3> QED BY <3>1 DEF AgentOK
  <2>3. CASE ScanDone(a)
    <3>1. cPc'[a] = "poll" /\ cHdr'[a] = None /\ g_isopen'
      BY <2>3, <1>2 DEF ScanDone, NoLocals, ringVars, TypeOK
    <3> QED BY <3>1 DEF AgentOK
  <2>4. CASE Exit(a)
    <3>1. cPc'[a] = "closed" /\ cHdr'[a] = None
      BY <2>4 DEF Exit, NoLocals, TypeOK
    <3> QED BY <3>1 DEF AgentOK
  <2> QED BY <2>1, <2>2, <2>3, <2>4
<1>4. \A b \in Agents \ {a} : cPc'[b] = cPc[b] /\ cHdr'[b] = cHdr[b]
  BY DEF PollWait, PollReturns, PollSleeps, PollWakes, ScanDone, Exit, NoLocals, TypeOK
<1>5. HandInv' /\ CallbackGetsWholeRecords'
  BY <1>1 DEF IndInv, HandInv, CallbackGetsWholeRecords, histVars
<1> QED BY <1>1, <1>3, <1>4, <1>5, QuietAgent DEF histVars

LEMMA LoadStep ==
  ASSUME TypeOK, IndInv, OneConsumer, NEW a \in Agents, LoadProd(a) \/ ScanAgain(a)
  PROVE  IndInv'
<1>1. /\ UNCHANGED <<ringVars, prodVars, cCons, histVars>>
      /\ cPc[a] \in {"load", "scan"}
      /\ \E s \in {"load", "scan"} : cPc' = [cPc EXCEPT ![a] = s]
  BY DEF LoadProd, ScanAgain
<1>2. AgentOK(a) /\ cCons[a] = consumer_pos /\ cHdr[a] = None /\ g_isopen
  BY <1>1 DEF IndInv, AgentInv, AgentOK
<1>3. cHdr'[a] = None
  BY <1>2 DEF LoadProd, ScanAgain, TypeOK
<1>4. cPc'[a] = "scan" => cProd'[a] <= producer_pos
  BY NumTypes DEF LoadProd, ScanAgain, TypeOK
<1>5. AgentOK(a)'
  <2>1. cPc'[a] \in {"load", "scan"} /\ cCons'[a] = consumer_pos' /\ g_isopen'
    BY <1>1, <1>2 DEF TypeOK, ringVars
  <2> QED BY <2>1, <1>1, <1>3, <1>4 DEF AgentOK, ringVars
<1>7. \A b \in Agents \ {a} : cPc'[b] = cPc[b] /\ cHdr'[b] = cHdr[b]
  BY DEF LoadProd, ScanAgain, TypeOK
<1>6. HandInv' /\ CallbackGetsWholeRecords'
  BY <1>1 DEF IndInv, HandInv, CallbackGetsWholeRecords, histVars
<1> QED BY <1>1, <1>5, <1>6, <1>7, QuietAgent DEF histVars, ringVars

\* The header at cCons is the one of record acked + 1, whole or busy.
LEMMA ReadHdrStep ==
  ASSUME MatchingAgent, TypeOK, IndInv, OneConsumer, NEW a \in Agents, ReadHdr(a)
  PROVE  IndInv'
<1>1. /\ UNCHANGED <<ringVars, prodVars, histVars>>
      /\ cPc[a] = "scan" /\ cCons[a] < cProd[a]
  BY DEF ReadHdr
<1>2. /\ g_isopen /\ cCons[a] = consumer_pos /\ cProd[a] <= producer_pos
      /\ cHdr[a] = None /\ cProd[a] \in Nat
  BY <1>1 DEF IndInv, AgentInv, AgentOK, TypeOK
<1>3. acked + 1 \in Live
  <2>1. consumer_pos < producer_pos
    BY <1>1, <1>2, NumTypes
  <2> QED BY <2>1, NumTypes DEF IndInv, ConsInv, Live
<1>4. /\ log[acked + 1].pos = consumer_pos /\ acked + 1 \in 1 .. Len(log)
      /\ mem[UIndex(cCons[a], 0)] =
           Hdr(acked + 1, log[acked + 1].size, Writers(acked + 1) # {})
  <2>1. acked + 1 \in 1 .. Len(log) /\ acked < Len(log)
    BY <1>3, NumTypes DEF Live
  <2>2. log[acked + 1].pos = consumer_pos
    BY <2>1 DEF IndInv, ConsInv
  <2>3. mem[KIndex(log[acked + 1].pos)] =
          Hdr(acked + 1, log[acked + 1].size, Writers(acked + 1) # {})
    BY <1>3 DEF IndInv, LiveRecordsIntact
  <2>4. UIndex(cCons[a], 0) = KIndex(consumer_pos)
    <3>1. consumer_pos + 0 = consumer_pos
      BY NumTypes
    <3> QED BY <3>1, <1>2, AgentIndex, NumTypes
  <2> QED BY <2>1, <2>2, <2>3, <2>4
<1>5. PICK h : /\ h = Hdr(acked + 1, log[acked + 1].size, Writers(acked + 1) # {})
               /\ \/ /\ h.busy
                     /\ NoLocals(a)
                     /\ cPc' = [cPc EXCEPT ![a] = "poll"]
                  \/ /\ ~h.busy
                     /\ cHdr' = [cHdr EXCEPT ![a] = h]
                     /\ cPc' = [cPc EXCEPT ![a] = "callback"]
                     /\ UNCHANGED <<cCons, cProd>>
  <2>1. HdrLoads(mem[UIndex(cCons[a], 0)]) = {mem[UIndex(cCons[a], 0)]}
    BY <1>4 DEF HdrLoads, Hdr
  <2> QED BY <2>1, <1>2, <1>4 DEF ReadHdr
<1>6. AgentOK(a)'
  <2>1. CASE NoLocals(a) /\ cPc' = [cPc EXCEPT ![a] = "poll"]
    <3>1. cPc'[a] = "poll" /\ cHdr'[a] = None /\ g_isopen'
      BY <2>1, <1>1, <1>2 DEF NoLocals, TypeOK, ringVars
    <3> QED BY <3>1 DEF AgentOK
  <2>2. CASE /\ ~h.busy
             /\ cHdr' = [cHdr EXCEPT ![a] = h]
             /\ cPc' = [cPc EXCEPT ![a] = "callback"]
             /\ UNCHANGED <<cCons, cProd>>
    <3>1. h.busy = (Writers(acked + 1) # {})
      BY <1>5, Zenon DEF Hdr
    <3>2. (Writers(acked + 1) # {}) = FALSE /\ Writers(acked + 1) = {}
      BY <3>1, <2>2, Zenon
    <3>3. h = Hdr(acked + 1, log[acked + 1].size, FALSE)
      BY <3>2, <1>5, Zenon
    <3>4. acked + 1 \in Committed
      BY <3>2, <1>4 DEF Committed
    <3>5. Committed' = Committed
      BY <1>1, RingFrame DEF ringVars, histVars
    <3>6. cPc'[a] = "callback" /\ cHdr'[a] = h
      BY <2>2 DEF TypeOK
    <3>7. /\ acked' = acked /\ log' = log /\ producer_pos' = producer_pos
          /\ consumer_pos' = consumer_pos /\ g_isopen' = g_isopen
          /\ cCons' = cCons /\ cProd' = cProd
      BY <1>1, <2>2 DEF ringVars, histVars
    <3> QED BY <1>2, <3>3, <3>4, <3>5, <3>6, <3>7 DEF AgentOK
  <2> QED BY <2>1, <2>2, <1>5
<1>7. \A b \in Agents \ {a} : cPc'[b] = cPc[b] /\ cHdr'[b] = cHdr[b]
  BY <1>5 DEF NoLocals, TypeOK
<1>8. HandInv' /\ CallbackGetsWholeRecords'
  BY <1>1 DEF IndInv, HandInv, CallbackGetsWholeRecords, histVars
<1> QED BY <1>1, <1>6, <1>7, <1>8, QuietAgent DEF ringVars, histVars

\* What the agent hands to the callback is record acked + 1, with all its text.
LEMMA CallbackWhole ==
  ASSUME MatchingAgent, TypeOK, IndInv, NEW a \in Agents, cPc[a] = "callback"
  PROVE  /\ WholeRecord(a)
         /\ acked + 1 \in Live /\ acked + 1 \in Committed
         /\ cHdr[a].rec = acked + 1 /\ cHdr[a].size = log[acked + 1].size
         /\ cCons[a] = log[acked + 1].pos
<1>1. /\ acked + 1 \in Committed /\ cCons[a] = consumer_pos
      /\ cHdr[a] = Hdr(acked + 1, log[acked + 1].size, FALSE)
  BY DEF IndInv, AgentInv, AgentOK
<1>2. acked + 1 \in Live /\ Writers(acked + 1) = {} /\ acked < Len(log)
  BY <1>1, NumTypes DEF Committed, Live
<1>3. log[acked + 1].pos = consumer_pos
  BY <1>2 DEF IndInv, ConsInv
<1>4. /\ cHdr[a].rec = acked + 1 /\ cHdr[a].size = log[acked + 1].size
      /\ cHdr[a].kind = "hdr"
  BY <1>1 DEF Hdr
<1>5. ASSUME NEW k \in 1 .. (RecWords(cHdr[a].size) - 1)
      PROVE  mem[UIndex(cCons[a], k)] = Text(cHdr[a].rec)
  <2>1. KIndex(log[acked + 1].pos + k) \in TextWords(log[acked + 1].pos, log[acked + 1].size)
    BY <1>4 DEF TextWords
  <2>2. mem[KIndex(log[acked + 1].pos + k)] = Text(acked + 1)
    BY <2>1, <1>2 DEF IndInv, LiveRecordsIntact
  <2>3. k \in Nat
    BY <1>2, <1>4, LiveBounds DEF IndInv
  <2>4. UIndex(cCons[a], k) = KIndex(consumer_pos + k)
    BY <1>1, <2>3, AgentIndex, NumTypes
  <2> QED BY <2>2, <2>4, <1>3, <1>4
<1> QED BY <1>1, <1>2, <1>3, <1>4, <1>5 DEF WholeRecord

LEMMA CallbackStep ==
  ASSUME MatchingAgent, TypeOK, IndInv, OneConsumer, NEW a \in Agents, Callback(a)
  PROVE  IndInv'
<1>1. /\ UNCHANGED <<ringVars, prodVars, cProd, cHdr, log, acked>>
      /\ cPc[a] = "callback" /\ cPc' = [cPc EXCEPT ![a] = "store"]
      /\ cCons' = [cCons EXCEPT ![a] = @ + RecWords(cHdr[a].size)]
  BY DEF Callback
<1>2. /\ WholeRecord(a) /\ acked + 1 \in Live /\ acked + 1 \in Committed
      /\ cHdr[a].rec = acked + 1 /\ cHdr[a].size = log[acked + 1].size
      /\ cCons[a] = log[acked + 1].pos
  BY <1>1, CallbackWhole
<1>3. handed' = acked + 1 /\ garbled' = garbled
  BY <1>2 DEF Callback
<1>4. cCons'[a] = End(acked + 1)
  <2>1. End(acked + 1) = log[acked + 1].pos + RecWords(log[acked + 1].size)
    BY DEF End
  <2> QED BY <2>1, <1>1, <1>2 DEF TypeOK
<1>5. AgentOK(a)'
  <2>1. AgentOK(a)
    BY DEF IndInv, AgentInv
  <2>2. /\ acked' = acked /\ log' = log /\ producer_pos' = producer_pos
        /\ g_isopen' = g_isopen /\ cHdr' = cHdr /\ cProd' = cProd
    BY <1>1 DEF ringVars
  <2>3. Committed' = Committed
    BY <1>1, RingFrame DEF ringVars
  <2>4. cPc'[a] = "store" /\ cPc[a] = "callback"
    BY <1>1 DEF TypeOK
  <2>5. /\ g_isopen /\ cProd[a] <= producer_pos
        /\ cHdr[a] = Hdr(acked + 1, log[acked + 1].size, FALSE)
    BY <2>1, <2>4 DEF AgentOK
  <2>6. End(acked + 1)' = End(acked + 1)
    BY <2>2 DEF End
  <2> QED BY <2>2, <2>3, <2>4, <2>5, <2>6, <1>2, <1>3, <1>4 DEF AgentOK
<1>6. \A b \in Agents \ {a} : cPc'[b] = cPc[b] /\ cHdr'[b] = cHdr[b]
  BY <1>1 DEF TypeOK
<1>7. HandInv' /\ CallbackGetsWholeRecords'
  BY <1>1, <1>3 DEF IndInv, HandInv, CallbackGetsWholeRecords
<1> QED BY <1>1, <1>5, <1>6, <1>7, QuietAgent DEF ringVars

\* Releasing record acked + 1 moves consumer_pos to the start of the next.
LEMMA StoreConsStep ==
  ASSUME TypeOK, IndInv, OneConsumer, NEW a \in Agents, StoreCons(a)
  PROVE  IndInv'
<1>0. PICK n \in Nat : n = acked + 1
  BY NumTypes
<1>1. /\ cPc[a] = "store" /\ consumer_pos' = cCons[a] /\ acked' = n
      /\ UNCHANGED <<producer_pos, mem, spinlock, prodVars, log, handed, garbled>>
  BY <1>0 DEF StoreCons
<1>2. /\ n \in Committed /\ cHdr[a] = Hdr(n, log[n].size, FALSE)
      /\ cCons[a] = End(n) /\ handed = n /\ g_isopen /\ cProd[a] <= producer_pos
  BY <1>0, <1>1 DEF IndInv, AgentInv, AgentOK
<1>3. /\ n \in Live /\ n \in 1 .. Len(log) /\ Writers(n) = {} /\ acked < Len(log)
  BY <1>0, <1>2, NumTypes DEF Committed, Live
<1>4. /\ log[n].pos = consumer_pos /\ log[n].size > 4 /\ log[n].size \in Nat
      /\ End(n) \in Nat /\ consumer_pos < End(n) /\ End(n) <= producer_pos
  <2>1. log[n].pos = consumer_pos
    BY <1>0, <1>3 DEF IndInv, ConsInv
  <2>2. log[n].size > 4 /\ log[n].size \in Nat
    BY <1>3, LogTypes DEF IndInv, LogInv
  <2>3. /\ End(n) \in Nat /\ RecWords(log[n].size) \in Nat /\ RecWords(log[n].size) >= 2
        /\ End(n) = log[n].pos + RecWords(log[n].size) /\ End(n) <= producer_pos
    BY <1>3, LiveBounds DEF IndInv
  <2> QED BY <2>1, <2>2, <2>3, NumTypes
<1>5. /\ cPc' = [cPc EXCEPT ![a] = "scan"] /\ cHdr' = [cHdr EXCEPT ![a] = None]
      /\ UNCHANGED <<g_isopen, cCons, cProd>>
  <2>1. cHdr[a].size = log[n].size
    BY <1>2 DEF Hdr
  <2>2. ~ (cHdr[a].size <= EntrySize(0))
    BY <2>1, <1>4 DEF EntrySize
  <2> QED BY <2>2 DEF StoreCons
<1>6. Live' = Live \ {n}
  BY <1>0, <1>1, <1>3, NumTypes DEF Live
<1>7. \A i : Writers(i)' = Writers(i)
  BY <1>1 DEF Writers, prodVars
<1>8. consumer_pos' = End(n) /\ consumer_pos' \in Nat /\ consumer_pos <= consumer_pos'
  BY <1>1, <1>2, <1>4, NumTypes
<1>9. LockInv' /\ LogInv' /\ OwnerInv'
  BY <1>1 DEF IndInv, LockInv, LogInv, OwnerInv, End, prodVars
<1>10. ConsInv'
  <2>1. CASE n = Len(log)
    <3>1. End(n) = producer_pos
      BY <2>1, <1>3 DEF IndInv, LogInv
    <3> QED BY <2>1, <3>1, <1>1, <1>8, NumTypes DEF ConsInv
  <2>2. CASE n # Len(log)
    <3>1. n \in 1 .. (Len(log) - 1) /\ n < Len(log)
      BY <2>2, <1>3, NumTypes
    <3>2. log[n + 1].pos = End(n)
      BY <3>1 DEF IndInv, LogInv
    <3> QED BY <3>1, <3>2, <1>1, <1>8, NumTypes DEF ConsInv
  <2> QED BY <2>1, <2>2
<1>11. NoOverrun'
  BY <1>1, <1>4, <1>8, NumTypes DEF IndInv, NoOverrun
<1>12. LiveRecordsIntact'
  <2>1. ASSUME NEW i \in Live'
        PROVE  /\ mem'[KIndex(log[i].pos)'] = Hdr(i, log[i].size, Writers(i) # {})'
               /\ Writers(i)' = {} =>
                    \A w \in TextWords(log[i].pos, log[i].size)' : mem'[w] = Text(i)
    <3>1. i \in Live
      BY <1>6
    <3>2. /\ KIndex(log[i].pos)' = KIndex(log[i].pos) /\ mem' = mem
          /\ TextWords(log[i].pos, log[i].size)' = TextWords(log[i].pos, log[i].size)
      BY <1>1
    <3>3. Hdr(i, log[i].size, Writers(i) # {})' = Hdr(i, log[i].size, Writers(i) # {})
      BY <1>1, <1>7, Zenon
    <3>4. /\ mem[KIndex(log[i].pos)] = Hdr(i, log[i].size, Writers(i) # {})
          /\ Writers(i) = {} =>
               \A w \in TextWords(log[i].pos, log[i].size) : mem[w] = Text(i)
      BY <3>1 DEF IndInv, LiveRecordsIntact
    <3> QED BY <3>2, <3>3, <3>4, <1>7
  <2> QED BY <2>1 DEF LiveRecordsIntact
<1>13. ASSUME NEW q \in Producers PROVE ProdOK(q)'
  <2>1. ProdOK(q)
    BY DEF IndInv, ProdInv
  <2>2. /\ pPc'[q] = pPc[q] /\ pRec'[q] = pRec[q]
        /\ pSize'[q] = pSize[q] /\ pCons'[q] = pCons[q]
        /\ UNCHANGED <<producer_pos, log, mem>>
    BY <1>1 DEF prodVars
  <2>3. pPc[q] \in {"fill", "commit"} => pRec[q] \in Live'
    <3> SUFFICES ASSUME pPc[q] \in {"fill", "commit"} PROVE pRec[q] \in Live'
      OBVIOUS
    <3>1. pRec[q] \in Live /\ Writers(pRec[q]) = {q}
      BY WriterKnows
    <3> QED BY <3>1, <1>3, <1>6
  <2> QED BY <2>1, <2>2, <2>3, <1>8, OtherProducer
<1>14. AgentOK(a)'
  <2>1. cPc'[a] = "scan" /\ cHdr'[a] = None /\ cCons'[a] = consumer_pos'
    BY <1>1, <1>5 DEF TypeOK
  <2>2. g_isopen' /\ cProd'[a] <= producer_pos'
    BY <1>1, <1>2, <1>5
  <2> QED BY <2>1, <2>2 DEF AgentOK
<1>15. ASSUME NEW b \in Agents \ {a} PROVE AgentOK(b)'
  <2>1. cPc[b] = "closed"
    BY <1>1 DEF OneConsumer
  <2>2. cHdr[b] = None
    BY <2>1 DEF IndInv, AgentInv, AgentOK
  <2>3. cPc'[b] = "closed" /\ cHdr'[b] = None
    BY <2>1, <2>2, <1>5 DEF TypeOK
  <2> QED BY <2>3 DEF AgentOK
<1>16. HandInv' /\ CallbackGetsWholeRecords'
  BY <1>1, <1>2 DEF IndInv, HandInv, CallbackGetsWholeRecords
<1> QED BY <1>9, <1>10, <1>11, <1>12, <1>13, <1>14, <1>15, <1>16
     DEF IndInv, ProdInv, AgentInv

----------------------------------------------------------------------------
(* Safety.                                                                  *)

LEMMA SafetyInit == Init => IndInv
<1> SUFFICES ASSUME Init PROVE IndInv
  OBVIOUS
<1> USE ConstantsAssumption DEF Init
<1>1. LockInv /\ OwnerInv
  BY DEF LockInv, OwnerInv
<1>2. Len(log) = 0 /\ LogInv /\ ConsInv /\ HandInv
  BY DEF LogInv, ConsInv, HandInv
<1>3. ProdInv
  BY DEF ProdInv, ProdOK
<1>4. AgentInv
  BY DEF AgentInv, AgentOK
<1>5. NoOverrun
  BY DEF NoOverrun
<1>6. LiveRecordsIntact /\ CallbackGetsWholeRecords
  BY <1>2 DEF LiveRecordsIntact, Live, CallbackGetsWholeRecords
<1> QED BY <1>1, <1>2, <1>3, <1>4, <1>5, <1>6 DEF IndInv

LEMMA SafetyStep ==
  ASSUME MatchingAgent, TypeOK, TypeOK', OneConsumer, IndInv, [Next]_vars
  PROVE  IndInv'
<1>1. ASSUME NEW p \in Producers, NEW len \in Lens, ReportBegin(p, len) PROVE IndInv'
  BY <1>1, ReportBeginStep
<1>2. ASSUME NEW p \in Producers, LockRing(p) PROVE IndInv'
  BY <1>2, LockRingStep
<1>3. ASSUME NEW p \in Producers, TryLockFails(p) PROVE IndInv'
  BY <1>3, ReturnStep DEF TryLockFails, ringVars
<1>4. ASSUME NEW p \in Producers, RingFull(p) PROVE IndInv'
  BY <1>4, ReturnStep DEF RingFull
<1>5. ASSUME NEW p \in Producers, MarkBusy(p) PROVE IndInv'
  BY <1>5, MarkBusyStep
<1>6. ASSUME NEW p \in Producers, Advance(p) PROVE IndInv'
  BY <1>6, AdvanceStep
<1>7. ASSUME NEW p \in Producers, Fill(p) PROVE IndInv'
  BY <1>7, FillStep
<1>8. ASSUME NEW p \in Producers, Commit(p) PROVE IndInv'
  BY <1>8, CommitStep
<1>9. ASSUME NEW p \in Producers, NEW flag \in WakeFlags, Notify(p, flag) PROVE IndInv'
  BY <1>9, ReturnStep DEF Notify
<1>10. ASSUME NEW a \in Agents, Open(a) PROVE IndInv'
  BY <1>10, OpenStep
<1>11. ASSUME NEW a \in Agents,
              \/ PollWait(a) \/ PollReturns(a) \/ PollSleeps(a) \/ PollWakes(a)
              \/ ScanDone(a) \/ Exit(a)
       PROVE IndInv'
  BY <1>11, OutsideStep
<1>12. ASSUME NEW a \in Agents, LoadProd(a) \/ ScanAgain(a) PROVE IndInv'
  BY <1>12, LoadStep
<1>13. ASSUME NEW a \in Agents, ReadHdr(a) PROVE IndInv'
  BY <1>13, ReadHdrStep
<1>14. ASSUME NEW a \in Agents, Callback(a) PROVE IndInv'
  BY <1>14, CallbackStep
<1>15. ASSUME NEW a \in Agents, StoreCons(a) PROVE IndInv'
  BY <1>15, StoreConsStep
<1>16. ASSUME NEW a \in Agents, EarlyHdrLoad(a) PROVE IndInv'
  BY <1>16 DEF EarlyHdrLoad, MatchingAgent
<1>17. ASSUME UNCHANGED <<consumer_pos, producer_pos, mem, spinlock, prodVars,
                          consVars, g_isopen, histVars>>
       PROVE IndInv'
  <2>1. /\ LockInv' /\ LogInv' /\ ConsInv' /\ ProdInv' /\ OwnerInv' /\ NoOverrun'
        /\ LiveRecordsIntact' /\ Committed' = Committed
    BY <1>17, RingFrame DEF histVars
  <2>2. AgentInv' /\ HandInv' /\ CallbackGetsWholeRecords'
    BY <1>17, <2>1, AgentFrame, NumTypes DEF histVars
  <2> QED BY <2>1, <2>2 DEF IndInv
<1>18. CASE RunIrqWork
  BY <1>17, <1>18 DEF RunIrqWork
<1>19. CASE UNCHANGED vars
  BY <1>17, <1>19 DEF vars, ringVars
<1> QED
  BY <1>1, <1>2, <1>3, <1>4, <1>5, <1>6, <1>7, <1>8, <1>9, <1>10, <1>11, <1>12,
     <1>13, <1>14, <1>15, <1>16, <1>18, <1>19 DEF Next, Produce, Consume

\* For rings of every size, any number of producers and agents, any lengths of
\* reports and any crash of the agent: the kernel never overruns the agent,
\* records not yet released are never overwritten, and ringbuf_cb only ever
\* sees whole records.
THEOREM RingSafe ==
  ASSUME MatchingAgent
  PROVE  Spec => [](NoOverrun /\ LiveRecordsIntact /\ CallbackGetsWholeRecords)
<1>1. TypeOK /\ TypeOK' /\ OneConsumer /\ IndInv /\ [Next]_vars => IndInv'
  BY SafetyStep
<1>2. IndInv => NoOverrun /\ LiveRecordsIntact /\ CallbackGetsWholeRecords
  BY DEF IndInv
<1> QED BY <1>1, <1>2, SafetyInit, TypeCorrect, DeviceExclusive, PTL DEF Spec

\* Producers leave the words from consumer_pos to producer_pos alone until the
\* agent has released them, in a ring of any size and however many write.
THEOREM NeverOverrun ==
  ASSUME MatchingAgent PROVE Spec => []NoOverrun
<1>1. NoOverrun /\ LiveRecordsIntact /\ CallbackGetsWholeRecords => NoOverrun
  OBVIOUS
<1> QED BY <1>1, RingSafe, PTL

\* ringbuf_cb never gets a record that a producer has not finished, or has
\* begun to overwrite.
THEOREM WholeRecords ==
  ASSUME MatchingAgent PROVE Spec => []CallbackGetsWholeRecords
<1>1. NoOverrun /\ LiveRecordsIntact /\ CallbackGetsWholeRecords
        => CallbackGetsWholeRecords
  OBVIOUS
<1> QED BY <1>1, RingSafe, PTL

----------------------------------------------------------------------------
(* The ring implements the channel.                                         *)

\* Steps that are not seen through the channel.
LEMMA Invisible ==
  ASSUME UNCHANGED histVars,
         \A i : Writers(i)' = Writers(i)
  PROVE  UNCHANGED Channel!vars
  BY DEF Channel!vars, Committed, histVars

LEMMA ChannelAccept ==
  ASSUME TypeOK, IndInv, NEW p \in Producers, Advance(p)
  PROVE  Channel!Accept
<1>0. PICK n \in Nat : n = Len(log) + 1
  BY NumTypes
<1>1. /\ pPc[p] = "advance" /\ pPc' = [pPc EXCEPT ![p] = "fill"]
      /\ log' = Append(log, [pos |-> producer_pos, size |-> pSize[p]])
      /\ UNCHANGED <<pRec, acked, handed>>
  BY DEF Advance
<1>2. pRec[p] = n
  BY <1>0, <1>1 DEF IndInv, ProdInv, ProdOK
<1>3. Len(log') = n
  BY <1>0, <1>1 DEF TypeOK
<1>4. p \in Writers(n)'
  BY <1>1, <1>2 DEF Writers, TypeOK
<1>5. ASSUME NEW i \in 1 .. Len(log) PROVE Writers(i)' = Writers(i)
  <2>1. ASSUME NEW q \in Producers
        PROVE  pPc'[q] \in {"fill", "commit"} /\ pRec'[q] = i
                 <=> pPc[q] \in {"fill", "commit"} /\ pRec[q] = i
    <3>1. CASE q = p
      <4>1. pRec'[q] # i /\ pPc[q] \notin {"fill", "commit"}
        BY <3>1, <1>0, <1>1, <1>2, NumTypes
      <4> QED BY <4>1, <1>1
    <3>2. CASE q # p
      BY <3>2, <1>1 DEF TypeOK
    <3> QED BY <3>1, <3>2
  <2> QED BY <2>1 DEF Writers
<1>6. Committed' = Committed
  <2>1. 1 .. n = (1 .. Len(log)) \cup {n}
    BY <1>0, NumTypes
  <2>2. n \notin Committed'
    BY <1>4 DEF Committed
  <2>3. ASSUME NEW i PROVE i \in Committed' <=> i \in Committed
    BY <2>1, <2>2, <1>0, <1>3, <1>5, NumTypes DEF Committed
  <2> QED BY <2>3 DEF Committed
<1> QED BY <1>0, <1>1, <1>3, <1>6 DEF Channel!Accept

LEMMA ChannelFinish ==
  ASSUME TypeOK, IndInv, NEW p \in Producers, Commit(p)
  PROVE  Channel!Finish
<1>0. PICK m : m = pRec[p]
  OBVIOUS
<1>1. /\ pPc[p] = "commit" /\ pPc' = [pPc EXCEPT ![p] = "notify"]
      /\ UNCHANGED <<pRec, log, acked, handed>>
  BY DEF Commit, histVars
<1>2. m \in Live /\ Writers(m) = {p}
  BY <1>0, <1>1, WriterKnows
<1>3. m \in 1 .. Len(log)
  BY <1>2, LiveBounds DEF IndInv
<1>4. Writers(m)' = {}
  <2>1. Writers(m)' = Writers(m) \ {p}
    BY <1>1 DEF Writers, TypeOK
  <2> QED BY <2>1, <1>2
<1>5. ASSUME NEW i, i # m PROVE Writers(i)' = Writers(i)
  BY <1>5, <1>0, <1>1 DEF Writers, TypeOK
<1>6. Committed' = Committed \cup {m} /\ m \notin Committed
  <2>1. m \notin Committed /\ m \in Committed'
    BY <1>1, <1>2, <1>3, <1>4 DEF Committed
  <2>2. ASSUME NEW i, i # m PROVE i \in Committed' <=> i \in Committed
    BY <2>2, <1>1, <1>5 DEF Committed
  <2> QED BY <2>1, <2>2 DEF Committed
<1> QED BY <1>1, <1>3, <1>6 DEF Channel!Finish

LEMMA ChannelHand ==
  ASSUME MatchingAgent, TypeOK, IndInv, NEW a \in Agents, Callback(a)
  PROVE  Channel!Hand
<1>1. cPc[a] = "callback" /\ UNCHANGED <<prodVars, log, acked>>
  BY DEF Callback
<1>2. WholeRecord(a) /\ acked + 1 \in Committed /\ cHdr[a].rec = acked + 1
  BY <1>1, CallbackWhole
<1>3. handed' = acked + 1
  BY <1>2 DEF Callback
<1>4. Committed' = Committed
  BY <1>1 DEF Committed, Writers, prodVars
<1> QED BY <1>1, <1>2, <1>3, <1>4 DEF Channel!Hand

LEMMA ChannelAck ==
  ASSUME TypeOK, IndInv, NEW a \in Agents, StoreCons(a)
  PROVE  Channel!Ack
<1>1. /\ cPc[a] = "store" /\ acked' = acked + 1
      /\ UNCHANGED <<prodVars, log, handed>>
  BY DEF StoreCons
<1>2. handed = acked + 1
  BY <1>1 DEF IndInv, AgentInv, AgentOK
<1>3. acked < handed
  BY <1>2, NumTypes
<1>4. Committed' = Committed
  BY <1>1 DEF Committed, Writers, prodVars
<1> QED BY <1>1, <1>3, <1>4 DEF Channel!Ack

LEMMA ChannelStep ==
  ASSUME MatchingAgent, TypeOK, IndInv, [Next]_vars
  PROVE  [Channel!Next]_(Channel!vars)
<1>1. ASSUME NEW p \in Producers,
             \/ \E len \in Lens : ReportBegin(p, len)
             \/ LockRing(p) \/ TryLockFails(p) \/ RingFull(p) \/ MarkBusy(p) \/ Fill(p)
             \/ \E flag \in WakeFlags : Notify(p, flag)
      PROVE  UNCHANGED Channel!vars
  <2>1. UNCHANGED histVars
    BY <1>1 DEF ReportBegin, LockRing, TryLockFails, RingFull, MarkBusy, Fill, Notify
  <2>2. /\ \A q \in Producers \ {p} : pPc'[q] = pPc[q] /\ pRec'[q] = pRec[q]
        /\ \/ pPc[p] \notin {"fill", "commit"} /\ pPc'[p] \notin {"fill", "commit"}
           \/ pPc[p] = "fill" /\ pPc'[p] = "commit" /\ pRec' = pRec
    BY <1>1 DEF ReportBegin, LockRing, TryLockFails, RingFull, MarkBusy, Fill, Notify,
         Return, TypeOK
  <2>3. \A i : Writers(i)' = Writers(i)
    BY <2>2 DEF Writers
  <2> QED BY <2>1, <2>3, Invisible
<1>2. ASSUME NEW a \in Agents,
             \/ Open(a) \/ PollWait(a) \/ PollReturns(a) \/ PollSleeps(a)
             \/ PollWakes(a) \/ EarlyHdrLoad(a) \/ LoadProd(a) \/ ReadHdr(a)
             \/ ScanAgain(a) \/ ScanDone(a) \/ Exit(a)
      PROVE  UNCHANGED Channel!vars
  <2>1. UNCHANGED <<prodVars, histVars>>
    BY <1>2 DEF Open, PollWait, PollReturns, PollSleeps, PollWakes, EarlyHdrLoad,
         LoadProd, ReadHdr, ScanAgain, ScanDone, Exit
  <2>2. \A i : Writers(i)' = Writers(i)
    BY <2>1 DEF Writers, prodVars
  <2> QED BY <2>1, <2>2, Invisible
<1>3. CASE RunIrqWork \/ UNCHANGED vars
  <2>1. UNCHANGED <<prodVars, histVars>>
    BY <1>3 DEF RunIrqWork, vars
  <2>2. \A i : Writers(i)' = Writers(i)
    BY <2>1 DEF Writers, prodVars
  <2> QED BY <2>1, <2>2, Invisible
<1>4. ASSUME NEW p \in Producers, Advance(p) PROVE Channel!Next
  BY <1>4, ChannelAccept DEF Channel!Next
<1>5. ASSUME NEW p \in Producers, Commit(p) PROVE Channel!Next
  BY <1>5, ChannelFinish DEF Channel!Next
<1>6. ASSUME NEW a \in Agents, Callback(a) PROVE Channel!Next
  BY <1>6, ChannelHand DEF Channel!Next
<1>7. ASSUME NEW a \in Agents, StoreCons(a) PROVE Channel!Next
  BY <1>7, ChannelAck DEF Channel!Next
<1> QED BY <1>1, <1>2, <1>3, <1>4, <1>5, <1>6, <1>7 DEF Next, Produce, Consume

\* The ring implements the channel: whatever the interleaving and the crashes,
\* reports reach the callback in the order the kernel accepted them, each one
\* complete, none skipped, and again only if its handing was not acknowledged.
THEOREM RingImplementsChannel ==
  ASSUME MatchingAgent PROVE Spec => ImplementsChannel
<1>1. Init => Channel!Init
  <2> SUFFICES ASSUME Init PROVE Channel!Init
    OBVIOUS
  <2>1. log = <<>> /\ Len(log) = 0 /\ acked = 0 /\ handed = 0
    BY DEF Init
  <2>2. Committed = {}
    BY <2>1 DEF Committed
  <2> QED BY <2>1, <2>2 DEF Channel!Init
<1>2. TypeOK /\ IndInv /\ [Next]_vars => [Channel!Next]_(Channel!vars)
  BY ChannelStep
<1>3. TypeOK /\ TypeOK' /\ OneConsumer /\ IndInv /\ [Next]_vars => IndInv'
  BY SafetyStep
<1> QED BY <1>1, <1>2, <1>3, SafetyInit, TypeCorrect, DeviceExclusive, PTL
     DEF Spec, ImplementsChannel, Channel!Spec
=============================================================================
