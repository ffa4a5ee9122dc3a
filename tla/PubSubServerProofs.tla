------------------------- MODULE PubSubServerProofs -------------------------
(***************************************************************************)
(* TLAPS proofs about the publish/subscribe server, for any set of clients, *)
(* topics and eBPF threads, any limit on connections and any window: the    *)
(* table of subscribers and its count agree, no entry outlives its call     *)
(* while the server is up, what Publish and UnSubscribe promise with their  *)
(* return, and that the server is the service of module Subscription.       *)
(***************************************************************************)
EXTENDS PubSubServer, FiniteSetTheorems, TLAPS

----------------------------------------------------------------------------
(* The inductive invariant.                                                 *)

\* Clients may be an infinite set; the table never is.
TableInv == IsFiniteSet(suber_topic_) /\ ConnectionsCounted

\* sub_mutex is held between two steps by a handler that writes its keepalive
\* and by a Publish that writes to its subscribers, and by nobody else.
MutexInv ==
  /\ \A c \in Clients : hPc[c] = "beat" <=> sub_mutex = c
  /\ pPc = "write" <=> sub_mutex = "publish"

\* pub_mutex covers the whole of a Publish; those it has still to write to are
\* in the table.
PublishInv ==
  /\ pFrom = None => pPc = "idle"
  /\ pPc # "idle" => pTopic \in Topics
  /\ pPc # "write" => pTodo = {}
  /\ pTodo \subseteq suber_topic_

\* An entry is there from the first message of its call until it is deleted;
\* only a call that saw killed returns without deleting it.
EntryInv ==
  \A c \in suber_topic_ : Serving(c) \/ (hPc[c] = "returned" /\ killed)

\* A client whose call has not been answered has nothing to read, has not come
\* to read or to unsubscribe, and one that has unsubscribed has no entry.
ClientOK(c) ==
  /\ rPc[c] = "new" => hPc[c] = "none"
  /\ hPc[c] \in {"none", "lock"} =>
       /\ buf[c] = <<>> /\ rPc[c] \notin {"ready", "read"}
       /\ unPc[c] # "lock" /\ uPc[c] = "none"
  /\ uPc[c] = "returned" => c \notin suber_topic_

ClientInv == \A c \in Clients : ClientOK(c)

\* Publish has written to the subscribers of its topic that it is done with.
DealtInv ==
  pPc = "write" /\ ~killed =>
    \A c \in suber_topic_ :
      pTopic \in TopicsOf[c] => c \in pTodo \/ published \in got[c]

IndInv ==
  /\ TypeOK /\ TableInv /\ MutexInv /\ PublishInv /\ EntryInv /\ ClientInv /\ DealtInv
----------------------------------------------------------------------------
(* Types, and the table with its count.                                     *)

\* Whoever deletes an entry, there or not, keeps the count right.
LEMMA DeleteCounts ==
  ASSUME TypeOK, TableInv, NEW c \in Clients, Delete(c)
  PROVE  /\ TableInv' /\ suber_topic_' \subseteq suber_topic_
         /\ connection_num' \in Nat /\ connection_num' <= connection_num
<1>1. /\ IsFiniteSet(suber_topic_ \ {c})
      /\ Cardinality(suber_topic_ \ {c}) =
           IF c \in suber_topic_ THEN Cardinality(suber_topic_) - 1
                                 ELSE Cardinality(suber_topic_)
  BY FS_RemoveElement DEF TableInv
<1>2. Cardinality(suber_topic_ \ {c}) \in Nat /\ Cardinality(suber_topic_) \in Nat
  BY <1>1, FS_CardinalityType DEF TableInv
<1>3. /\ suber_topic_' = suber_topic_ \ {c}
      /\ connection_num' = Cardinality(suber_topic_ \ {c})
  BY <1>1 DEF Delete, TableInv, ConnectionsCounted
<1>4. connection_num' <= connection_num /\ connection_num <= MaxConn
  BY <1>1, <1>2, <1>3 DEF TableInv, ConnectionsCounted
<1>5. connection_num' <= MaxConn
  BY <1>2, <1>3, <1>4, ConstantsAssumption DEF TableInv, ConnectionsCounted
<1> QED BY <1>1, <1>2, <1>3, <1>4, <1>5 DEF TableInv, ConnectionsCounted

\* A new entry is one that was not there, and there was room for it.
LEMMA SubscribeCounts ==
  ASSUME TypeOK, TableInv, NEW c \in Clients, Subscribe(c)
  PROVE  TableInv' /\ suber_topic_' \subseteq Clients /\ connection_num' \in Nat
<1>1. /\ c \notin suber_topic_ /\ ~(connection_num >= MaxConn)
      /\ suber_topic_' = suber_topic_ \cup {c}
      /\ connection_num' = connection_num + 1
  BY DEF Subscribe, Refused
<1>2. /\ IsFiniteSet(suber_topic_ \cup {c})
      /\ Cardinality(suber_topic_ \cup {c}) = Cardinality(suber_topic_) + 1
  BY <1>1, FS_AddElement DEF TableInv
<1> QED BY <1>1, <1>2, ConstantsAssumption DEF TableInv, ConnectionsCounted, TypeOK

LEMMA ItemTypes == Hello \in Items /\ Refusal \in Items /\ Beat \in Items
  BY DEF Hello, Refusal, Beat, Items

LEMMA PutType ==
  ASSUME TypeOK, NEW c \in Clients, NEW item \in Items, Put(c, item)
  PROVE  buf' \in [Clients -> Seq(Items)]
  BY DEF Put, TypeOK

LEMMA TailType ==
  ASSUME TypeOK, NEW c \in Clients, buf[c] # <<>>, buf' = [buf EXCEPT ![c] = Tail(@)]
  PROVE  buf' \in [Clients -> Seq(Items)]
<1>1. buf[c] \in Seq(Items)
  BY DEF TypeOK
<1>2. Tail(buf[c]) \in Seq(Items)
  BY <1>1
<1> QED BY <1>2 DEF TypeOK

LEMMA TypeInit == Init => TypeOK /\ TableInv
<1> SUFFICES ASSUME Init PROVE TypeOK /\ TableInv
  OBVIOUS
<1>1. TypeOK
  <2>1. buf \in [Clients -> Seq(Items)]
    BY DEF Init
  <2>2. got \in [Clients -> SUBSET Nat]
    BY DEF Init
  <2>3. ePc \in [ProbeSet -> {"run", "out"}] /\ eStop \subseteq ProbeSet
    BY DEF Init
  <2> QED BY <2>1, <2>2, <2>3 DEF Init, TypeOK
<1>2. IsFiniteSet({}) /\ Cardinality({}) = 0
  BY FS_EmptySet
<1>3. TableInv
  BY <1>2, ConstantsAssumption DEF Init, TableInv, ConnectionsCounted
<1> QED BY <1>1, <1>3

LEMMA TableFrame ==
  ASSUME TableInv, UNCHANGED <<suber_topic_, connection_num>>
  PROVE  TableInv'
  BY DEF TableInv, ConnectionsCounted

LEMMA ServeTypes ==
  ASSUME TypeOK, TableInv, NEW c \in Clients, Serve(c)
  PROVE  TypeOK' /\ TableInv'
<1> USE DEF TypeOK, Handler, tableVars, pubVars, streamVars, clientVars, agentVars
<1>1. CASE Subscribe(c)
  <2>1. TableInv' /\ suber_topic_' \subseteq Clients /\ connection_num' \in Nat
    BY <1>1, SubscribeCounts
  <2>2. buf' \in [Clients -> Seq(Items)]
    BY <1>1, ItemTypes, PutType DEF Subscribe
  <2>3. /\ hPc' = [hPc EXCEPT ![c] = "loop"]
        /\ UNCHANGED <<server, sub_mutex, killed, uPc, pubVars, cut, clientVars,
                       agentVars, got>>
    BY <1>1 DEF Subscribe
  <2> QED BY <2>1, <2>2, <2>3
<1>2. CASE SubscribeFails(c)
  <2>1. buf' \in [Clients -> Seq(Items)]
    <3>1. CASE cut[c]
      BY <1>2, <3>1 DEF SubscribeFails
    <3>2. CASE ~cut[c]
      BY <1>2, <3>2, ItemTypes, PutType DEF SubscribeFails
    <3> QED BY <3>1, <3>2
  <2>2. hPc' = [hPc EXCEPT ![c] = "returned"]
    BY <1>2 DEF SubscribeFails
  <2>3. UNCHANGED <<server, tableVars, sub_mutex, uPc, pubVars, cut, clientVars,
                    agentVars, got>>
    BY <1>2 DEF SubscribeFails
  <2> QED BY <2>1, <2>2, <2>3, TableFrame
<1>3. CASE Loop(c)
  BY <1>3, TableFrame DEF Loop
<1>4. CASE Unlisted(c)
  BY <1>4, TableFrame DEF Unlisted
<1>5. CASE Listed(c)
  BY <1>5, TableFrame DEF Listed
<1>6. CASE KeepAlive(c)
  <2>1. buf' \in [Clients -> Seq(Items)]
    <3>1. CASE UNCHANGED buf
      BY <3>1
    <3>2. CASE Put(c, Beat)
      BY <3>2, ItemTypes, PutType
    <3> QED BY <1>6, <3>1, <3>2 DEF KeepAlive
  <2>2. sub_mutex' = None /\ hPc' = [hPc EXCEPT ![c] = "loop"]
    BY <1>6 DEF KeepAlive
  <2>3. UNCHANGED <<server, tableVars, uPc, pubVars, cut, clientVars, agentVars, got>>
    BY <1>6 DEF KeepAlive
  <2> QED BY <2>1, <2>2, <2>3, TableFrame
<1>7. CASE KeepAliveFails(c)
  <2>1. TableInv' /\ suber_topic_' \subseteq suber_topic_ /\ connection_num' \in Nat
    BY <1>7, DeleteCounts DEF KeepAliveFails
  <2> QED BY <1>7, <2>1 DEF KeepAliveFails
<1> QED BY <1>1, <1>2, <1>3, <1>4, <1>5, <1>6, <1>7 DEF Serve

LEMMA PublishTypes ==
  ASSUME TypeOK, TableInv, Publish
  PROVE  TypeOK' /\ TableInv'
<1> USE DEF TypeOK, tableVars, streamVars, clientVars, agentVars
<1>1. CASE PublishLock
  BY <1>1, TableFrame DEF PublishLock, Recipients
<1>2. ASSUME PublishOver PROVE TypeOK' /\ TableInv'
  BY <1>2, TableFrame DEF PublishOver
<1>3. ASSUME NEW c \in Clients, PublishWrite(c) PROVE TypeOK' /\ TableInv'
  <2>1. Data(published) \in Items
    BY DEF Data, Items
  <2>2. buf' \in [Clients -> Seq(Items)] /\ got' \in [Clients -> SUBSET Nat]
    <3>1. CASE hPc[c] = "returned"
      BY <1>3, <3>1 DEF PublishWrite
    <3>2. CASE hPc[c] # "returned"
      <4>1. Put(c, Data(published)) /\ got' = [got EXCEPT ![c] = @ \cup {published}]
        BY <1>3, <3>2 DEF PublishWrite
      <4>2. buf' \in [Clients -> Seq(Items)]
        BY <4>1, <2>1, PutType
      <4> QED BY <4>1, <4>2
    <3> QED BY <3>1, <3>2
  <2>3. /\ pTodo' = pTodo \ {c}
        /\ UNCHANGED <<server, tableVars, sub_mutex, hPc, uPc, pFrom, pPc, pTopic,
                       published, cut, clientVars, agentVars>>
    BY <1>3 DEF PublishWrite
  <2> QED BY <2>2, <2>3, TableFrame
<1> QED BY <1>1, <1>2, <1>3 DEF Publish, PublishReturns, PublishFails

LEMMA ApplicationTypes ==
  ASSUME TypeOK, TableInv, NEW c \in Clients,
         \/ SecSub(c) \/ Read(c) \/ UnsubLock(c) \/ UnsubDone(c) \/ SecUnsub(c) \/ Die(c)
  PROVE  TypeOK' /\ TableInv'
<1> USE DEF TypeOK, Handler, Reader, Lock, Cut, tableVars, pubVars, streamVars, agentVars
<1>1. CASE SecSub(c)
  BY <1>1, TableFrame DEF SecSub
<1>2. CASE SecReadFrom(c)
  BY <1>2, TableFrame DEF SecReadFrom
<1>3. CASE SecUnsub(c)
  BY <1>3, TableFrame DEF SecUnsub
<1>4. CASE UnsubLock(c)
  <2>1. /\ unPc' = [unPc EXCEPT ![c] = "rpc"] \/ unPc' = [unPc EXCEPT ![c] = "failed"]
        /\ uPc' = [uPc EXCEPT ![c] = "lock"] \/ uPc' = uPc
    BY <1>4 DEF UnsubLock
  <2>2. uPc' \in [Clients -> {"none", "lock", "returned"}]
    BY <2>1
  <2>3. unPc' \in [Clients -> {"no", "lock", "rpc", "failed", "done", "dead"}]
    BY <2>1
  <2>4. lib' \in [Clients -> {"reader", "unsub", None}]
    BY <1>4 DEF UnsubLock
  <2>5. UNCHANGED <<server, tableVars, sub_mutex, hPc, pubVars, streamVars, rPc,
                    agentVars, got>>
    BY <1>4 DEF UnsubLock
  <2> QED BY <2>2, <2>3, <2>4, <2>5, TableFrame
<1>5. CASE SubDone(c)
  <2>1. buf' \in [Clients -> Seq(Items)]
    BY <1>5, TailType DEF SubDone
  <2>2. /\ rPc' = [rPc EXCEPT ![c] = "ready"] \/ rPc' = [rPc EXCEPT ![c] = "gone"]
        /\ cut' = cut \/ cut' = [cut EXCEPT ![c] = TRUE]
    BY <1>5 DEF SubDone
  <2>3. rPc' \in [Clients -> {"new", "sub", "ready", "read", "gone"}]
    BY <2>2
  <2>4. cut' \in [Clients -> BOOLEAN]
    BY <2>2
  <2>5. lib' \in [Clients -> {"reader", "unsub", None}]
    BY <1>5 DEF SubDone
  <2>6. UNCHANGED <<server, tableVars, sub_mutex, hPc, uPc, pubVars, unPc, agentVars, got>>
    BY <1>5 DEF SubDone
  <2> QED BY <2>1, <2>3, <2>4, <2>5, <2>6, TableFrame
<1>6. CASE ReadReturns(c)
  <2>1. buf' \in [Clients -> Seq(Items)]
    <3>1. CASE buf[c] # <<>>
      BY <1>6, <3>1, TailType DEF ReadReturns
    <3>2. CASE buf[c] = <<>>
      BY <1>6, <3>2 DEF ReadReturns
    <3> QED BY <3>1, <3>2
  <2>2. rPc' = [rPc EXCEPT ![c] = "ready"] /\ lib' = [lib EXCEPT ![c] = None]
    BY <1>6 DEF ReadReturns
  <2>3. UNCHANGED <<server, tableVars, sub_mutex, hPc, uPc, pubVars, cut, unPc,
                    agentVars, got>>
    BY <1>6 DEF ReadReturns
  <2> QED BY <2>1, <2>2, <2>3, TableFrame
<1>7. CASE UnsubDone(c) \/ Die(c)
  <2>1. /\ unPc' = [unPc EXCEPT ![c] = "done"] \/ unPc' = [unPc EXCEPT ![c] = "dead"]
        /\ rPc' = [rPc EXCEPT ![c] = "gone"] /\ cut' = [cut EXCEPT ![c] = TRUE]
        /\ lib' = [lib EXCEPT ![c] = None] /\ buf' = [buf EXCEPT ![c] = <<>>]
        /\ UNCHANGED <<server, tableVars, sub_mutex, hPc, uPc, pubVars, agentVars, got>>
    BY <1>7 DEF UnsubDone, Die
  <2>2. unPc' \in [Clients -> {"no", "lock", "rpc", "failed", "done", "dead"}]
    BY <2>1
  <2>3. buf' \in [Clients -> Seq(Items)]
    BY <2>1
  <2> QED BY <2>1, <2>2, <2>3, TableFrame
<1> QED BY <1>1, <1>2, <1>3, <1>4, <1>5, <1>6, <1>7 DEF Read

LEMMA AgentTypes ==
  ASSUME TypeOK, TableInv,
         \/ Stop \/ Signal
         \/ \E t \in Topics : RingRecord(t) \/ \E p \in ProbeSet : ProbeEvent(p, t)
  PROVE  TypeOK' /\ TableInv'
<1> USE DEF TypeOK, Main, serverVars, tableVars, pubVars, streamVars, clientVars, agentVars
<1>1. CASE ServerUp
  BY <1>1, TableFrame DEF ServerUp
<1>2. CASE Check
  BY <1>2, TableFrame DEF Check
<1>3. CASE CloseAllConnection
  BY <1>3, TableFrame DEF CloseAllConnection
<1>4. CASE Shutdown
  BY <1>4, TableFrame DEF Shutdown
<1>5. CASE Drained
  BY <1>5, TableFrame DEF Drained
<1>6. CASE Exits
  BY <1>6, TableFrame DEF Exits
<1>7. CASE Signal
  BY <1>7, TableFrame DEF Signal
<1>8. CASE StopProbe
  <2>1. eStop' \subseteq ProbeSet
    BY <1>8 DEF StopProbe, Running, ProbeSet
  <2> QED BY <1>8, <2>1, TableFrame DEF StopProbe
<1>9. ASSUME NEW p \in ProbeSet, ProbeEnds(p) PROVE TypeOK' /\ TableInv'
  BY <1>9, TableFrame DEF ProbeEnds
<1>10. ASSUME NEW t \in Topics, RingRecord(t) PROVE TypeOK' /\ TableInv'
  BY <1>10, TableFrame DEF RingRecord, PushLog
<1>11. ASSUME NEW t \in Topics, NEW p \in ProbeSet, ProbeEvent(p, t)
       PROVE  TypeOK' /\ TableInv'
  BY <1>11, TableFrame DEF ProbeEvent, PushLog
<1> QED BY <1>1, <1>2, <1>3, <1>4, <1>5, <1>6, <1>7, <1>8, <1>9, <1>10, <1>11 DEF Stop

LEMMA TypeStep == TypeOK /\ TableInv /\ [Next]_vars => TypeOK' /\ TableInv'
<1> SUFFICES ASSUME TypeOK, TableInv, [Next]_vars PROVE TypeOK' /\ TableInv'
  OBVIOUS
<1>1. ASSUME NEW c \in Clients, UnSubscribe(c) PROVE TypeOK' /\ TableInv'
  <2>1. TableInv' /\ suber_topic_' \subseteq suber_topic_ /\ connection_num' \in Nat
    BY <1>1, DeleteCounts DEF UnSubscribe
  <2> QED BY <1>1, <2>1 DEF UnSubscribe, TypeOK, pubVars, streamVars, clientVars,
            agentVars
<1>2. CASE UNCHANGED vars
  BY <1>2, TableFrame DEF vars, TypeOK, tableVars, pubVars, streamVars, clientVars,
       agentVars
<1>3. Leavers \subseteq Clients /\ Mortals \subseteq Clients
  BY ConstantsAssumption
<1> QED BY <1>1, <1>2, <1>3, ServeTypes, PublishTypes, ApplicationTypes, AgentTypes
     DEF Next

\* Every variable keeps its type, whatever the clients and the agent do.
THEOREM TypeCorrect == Spec => []TypeOK
<1>1. TypeOK /\ TableInv => TypeOK
  OBVIOUS
<1> QED BY <1>1, TypeInit, TypeStep, PTL DEF Spec

\* connection_num is the size of suber_topic_ and within MAX_CONNECTION after
\* every path through Subscribe, the keepalives and UnSubscribe.
THEOREM CountCorrect == Spec => []ConnectionsCounted
<1>1. TypeOK /\ TableInv => ConnectionsCounted
  BY DEF TableInv
<1> QED BY <1>1, TypeInit, TypeStep, PTL DEF Spec
----------------------------------------------------------------------------
(* The invariant is inductive: one lemma per part of the system.            *)

LEMMA OthersKeepMutex ==
  ASSUME MutexInv, UNCHANGED <<hPc, sub_mutex, pPc>>
  PROVE  MutexInv'
  BY DEF MutexInv

LEMMA OthersKeepPublish ==
  ASSUME PublishInv, UNCHANGED <<pFrom, pPc, pTopic, pTodo, suber_topic_>>
  PROVE  PublishInv'
  BY DEF PublishInv

LEMMA OthersKeepEntries ==
  ASSUME EntryInv, UNCHANGED <<suber_topic_, hPc>>, killed => killed'
  PROVE  EntryInv'
  BY DEF EntryInv, Serving

LEMMA OthersKeepClients ==
  ASSUME ClientInv, UNCHANGED <<rPc, hPc, buf, unPc, uPc, suber_topic_>>
  PROVE  ClientInv'
  BY DEF ClientInv, ClientOK

LEMMA OthersKeepDealt ==
  ASSUME DealtInv, UNCHANGED <<pPc, suber_topic_, pTopic, pTodo, published, got>>,
         killed => killed'
  PROVE  DealtInv'
  BY DEF DealtInv

\* No entry comes, goes or changes its handler's end while Publish writes.
LEMMA TableSteady ==
  ASSUME TypeOK, MutexInv, NEW c \in Clients
  PROVE  /\ sub_mutex = None => pPc # "write"
         /\ hPc[c] = "beat" => pPc # "write" /\ sub_mutex = c
         /\ sub_mutex = None => \A d \in Clients : hPc[d] # "beat"
  BY ConstantsAssumption DEF MutexInv, TypeOK

LEMMA IndInit == Init => IndInv
<1> SUFFICES ASSUME Init PROVE IndInv
  OBVIOUS
<1>1. MutexInv
  BY ConstantsAssumption DEF Init, MutexInv
<1>2. PublishInv
  BY DEF Init, PublishInv
<1>3. ClientInv
  BY DEF Init, ClientInv, ClientOK
<1>4. EntryInv /\ DealtInv
  BY DEF Init, EntryInv, DealtInv
<1> QED BY <1>1, <1>2, <1>3, <1>4, TypeInit DEF IndInv

LEMMA ServeStep ==
  ASSUME IndInv, NEW c \in Clients, Serve(c)
  PROVE  MutexInv' /\ PublishInv' /\ EntryInv' /\ ClientInv' /\ DealtInv'
<1> USE DEF IndInv
<1>1. ASSUME Subscribe(c)
      PROVE  MutexInv' /\ PublishInv' /\ EntryInv' /\ ClientInv' /\ DealtInv'
  <2>1. /\ hPc[c] = "lock" /\ sub_mutex = None /\ pPc # "write"
        /\ hPc' = [hPc EXCEPT ![c] = "loop"] /\ suber_topic_' = suber_topic_ \cup {c}
        /\ UNCHANGED <<sub_mutex, killed, uPc, rPc, unPc, got>>
        /\ UNCHANGED <<pFrom, pPc, pTopic, pTodo, published>>
    BY <1>1, TableSteady DEF Subscribe, Handler, pubVars, clientVars
  <2>2. \A d \in Clients \ {c} : buf'[d] = buf[d]
    BY <1>1 DEF Subscribe, Put, TypeOK
  <2>3. MutexInv'
    BY <2>1, ConstantsAssumption DEF MutexInv, TypeOK
  <2>4. PublishInv'
    BY <2>1 DEF PublishInv
  <2>5. EntryInv'
    BY <2>1 DEF EntryInv, Serving, TypeOK
  <2>6. ClientInv'
    BY <2>1, <2>2 DEF ClientInv, ClientOK, TypeOK
  <2>7. DealtInv'
    BY <2>1 DEF DealtInv
  <2> QED BY <2>3, <2>4, <2>5, <2>6, <2>7
<1>2. ASSUME SubscribeFails(c)
      PROVE  MutexInv' /\ PublishInv' /\ EntryInv' /\ ClientInv' /\ DealtInv'
  <2>1. /\ hPc[c] = "lock" /\ hPc' = [hPc EXCEPT ![c] = "returned"]
        /\ UNCHANGED <<sub_mutex, killed, suber_topic_, uPc, rPc, unPc, got>>
        /\ UNCHANGED <<pFrom, pPc, pTopic, pTodo, published>>
    BY <1>2 DEF SubscribeFails, Handler, tableVars, pubVars, clientVars
  <2>2. \A d \in Clients \ {c} : buf'[d] = buf[d]
    BY <1>2 DEF SubscribeFails, Put, TypeOK
  <2>3. MutexInv'
    BY <2>1, ConstantsAssumption DEF MutexInv, TypeOK
  <2>4. c \notin suber_topic_
    BY <2>1 DEF EntryInv, Serving
  <2>5. EntryInv'
    BY <2>1, <2>4 DEF EntryInv, Serving, TypeOK
  <2>6. ClientInv'
    BY <2>1, <2>2, <2>4 DEF ClientInv, ClientOK, TypeOK
  <2> QED BY <2>1, <2>3, <2>5, <2>6, OthersKeepPublish, OthersKeepDealt
<1>3. ASSUME Loop(c) \/ Unlisted(c)
      PROVE  MutexInv' /\ PublishInv' /\ EntryInv' /\ ClientInv' /\ DealtInv'
  <2>0. /\ hPc[c] \in {"loop", "relock"}
        /\ \/ hPc' = [hPc EXCEPT ![c] = "relock"]
           \/ hPc' = [hPc EXCEPT ![c] = "returned"] /\ (killed \/ c \notin suber_topic_)
    <3>1. CASE Loop(c)
      BY <3>1 DEF Loop, Handler
    <3>2. CASE Unlisted(c)
      BY <3>2 DEF Unlisted, Handler
    <3> QED BY <1>3, <3>1, <3>2
  <2>1. /\ UNCHANGED <<sub_mutex, killed, suber_topic_, buf, uPc, rPc, unPc, got>>
        /\ UNCHANGED <<pFrom, pPc, pTopic, pTodo, published>>
    BY <1>3 DEF Loop, Unlisted, tableVars, pubVars, clientVars, streamVars
  <2>2. MutexInv'
    BY <2>0, <2>1, ConstantsAssumption DEF MutexInv, TypeOK
  <2>3. EntryInv'
    BY <2>0, <2>1 DEF EntryInv, Serving, TypeOK
  <2>4. ClientInv'
    BY <2>0, <2>1 DEF ClientInv, ClientOK, TypeOK
  <2> QED BY <2>1, <2>2, <2>3, <2>4, OthersKeepPublish, OthersKeepDealt
<1>4. ASSUME Listed(c) \/ KeepAlive(c)
      PROVE  MutexInv' /\ PublishInv' /\ EntryInv' /\ ClientInv' /\ DealtInv'
  <2>1. /\ \/ /\ hPc[c] = "relock" /\ hPc' = [hPc EXCEPT ![c] = "beat"]
              /\ sub_mutex = None /\ sub_mutex' = c
           \/ /\ hPc[c] = "beat" /\ hPc' = [hPc EXCEPT ![c] = "loop"]
              /\ sub_mutex' = None
        /\ UNCHANGED <<killed, suber_topic_, uPc, rPc, unPc, got>>
        /\ UNCHANGED <<pFrom, pPc, pTopic, pTodo, published>>
    BY <1>4 DEF Listed, KeepAlive, Handler, tableVars, pubVars, clientVars
  <2>2. \A d \in Clients \ {c} : buf'[d] = buf[d]
    BY <1>4 DEF Listed, KeepAlive, Put, streamVars, TypeOK
  <2>3. MutexInv'
    <3>1. c # "publish" /\ c # None /\ None # "publish"
      BY ConstantsAssumption
    <3>2. CASE sub_mutex' = None
      <4>1. hPc' = [hPc EXCEPT ![c] = "loop"] /\ sub_mutex = c
        BY <2>1, <3>1, <3>2, TableSteady
      <4> QED BY <2>1, <3>1, <3>2, <4>1, ConstantsAssumption DEF MutexInv, TypeOK
    <3>3. CASE sub_mutex' = c
      <4>1. hPc' = [hPc EXCEPT ![c] = "beat"] /\ sub_mutex = None
        BY <2>1, <3>1, <3>3
      <4> QED BY <2>1, <3>1, <3>3, <4>1, TableSteady DEF MutexInv, TypeOK
    <3> QED BY <2>1, <3>2, <3>3
  <2>4. EntryInv'
    BY <2>1 DEF EntryInv, Serving, TypeOK
  <2>5. ClientInv'
    BY <2>1, <2>2 DEF ClientInv, ClientOK, TypeOK
  <2> QED BY <2>1, <2>3, <2>4, <2>5, OthersKeepPublish, OthersKeepDealt
<1>5. ASSUME KeepAliveFails(c)
      PROVE  MutexInv' /\ PublishInv' /\ EntryInv' /\ ClientInv' /\ DealtInv'
  <2>1. /\ hPc[c] = "beat" /\ hPc' = [hPc EXCEPT ![c] = "returned"]
        /\ sub_mutex' = None /\ suber_topic_' = suber_topic_ \ {c}
        /\ UNCHANGED <<killed, buf, uPc, rPc, unPc, got>>
        /\ UNCHANGED <<pFrom, pPc, pTopic, pTodo, published>>
    BY <1>5 DEF KeepAliveFails, Delete, Handler, pubVars, clientVars, streamVars
  <2>2. pPc # "write" /\ sub_mutex = c
    BY <2>1, TableSteady
  <2>3. MutexInv'
    BY <2>1, <2>2, ConstantsAssumption DEF MutexInv, TypeOK
  <2>4. PublishInv'
    BY <2>1, <2>2 DEF PublishInv
  <2>5. EntryInv'
    BY <2>1 DEF EntryInv, Serving, TypeOK
  <2>6. ClientInv'
    BY <2>1 DEF ClientInv, ClientOK, TypeOK
  <2>7. DealtInv'
    BY <2>1, <2>2 DEF DealtInv
  <2> QED BY <2>3, <2>4, <2>5, <2>6, <2>7
<1> QED BY <1>1, <1>2, <1>3, <1>4, <1>5 DEF Serve

LEMMA UnSubscribeStep ==
  ASSUME IndInv, NEW c \in Clients, UnSubscribe(c)
  PROVE  MutexInv' /\ PublishInv' /\ EntryInv' /\ ClientInv' /\ DealtInv'
<1> USE DEF IndInv
<1>1. /\ uPc[c] = "lock" /\ pPc # "write"
      /\ suber_topic_' = suber_topic_ \ {c}
      /\ uPc' = [uPc EXCEPT ![c] = "returned"]
      /\ UNCHANGED <<sub_mutex, killed, hPc, buf, rPc, unPc, got>>
      /\ UNCHANGED <<pFrom, pPc, pTopic, pTodo, published>>
  BY TableSteady DEF UnSubscribe, Delete, pubVars, clientVars, streamVars
<1>2. PublishInv'
  BY <1>1 DEF PublishInv
<1>3. EntryInv'
  BY <1>1 DEF EntryInv, Serving
<1>4. ClientInv'
  BY <1>1 DEF ClientInv, ClientOK, TypeOK
<1>5. DealtInv'
  BY <1>1 DEF DealtInv
<1> QED BY <1>1, <1>2, <1>3, <1>4, <1>5, OthersKeepMutex

LEMMA PublishStep ==
  ASSUME IndInv, Publish
  PROVE  MutexInv' /\ PublishInv' /\ EntryInv' /\ ClientInv' /\ DealtInv'
<1> USE DEF IndInv, tableVars, streamVars, clientVars, agentVars
<1>1. ASSUME PublishLock
      PROVE  MutexInv' /\ PublishInv' /\ EntryInv' /\ ClientInv' /\ DealtInv'
  <2>1. MutexInv'
    BY <1>1, ConstantsAssumption DEF PublishLock, MutexInv, TypeOK
  <2>2. PublishInv'
    BY <1>1 DEF PublishLock, PublishInv, Recipients
  <2>3. DealtInv'
    BY <1>1 DEF PublishLock, DealtInv, Recipients
  <2> QED BY <1>1, <2>1, <2>2, <2>3, OthersKeepEntries, OthersKeepClients DEF PublishLock
<1>2. ASSUME PublishOver, pPc = "write"
      PROVE  MutexInv' /\ PublishInv' /\ EntryInv' /\ ClientInv' /\ DealtInv'
  <2>1. sub_mutex = "publish"
    BY <1>2 DEF MutexInv
  <2>2. MutexInv'
    BY <1>2, <2>1, ConstantsAssumption DEF PublishOver, MutexInv, TypeOK
  <2>3. PublishInv'
    BY <1>2 DEF PublishOver, PublishInv
  <2>4. DealtInv'
    BY <1>2 DEF PublishOver, DealtInv
  <2> QED BY <1>2, <2>2, <2>3, <2>4, OthersKeepEntries, OthersKeepClients DEF PublishOver
<1>3. ASSUME NEW c \in Clients, PublishWrite(c)
      PROVE  MutexInv' /\ PublishInv' /\ EntryInv' /\ ClientInv' /\ DealtInv'
  <2>1. /\ pPc = "write" /\ c \in pTodo /\ pTodo' = pTodo \ {c}
        /\ UNCHANGED <<sub_mutex, killed, suber_topic_, hPc, uPc, rPc, unPc>>
        /\ UNCHANGED <<pFrom, pPc, pTopic, published>>
        /\ \A d \in Clients \ {c} : buf'[d] = buf[d] /\ got'[d] = got[d]
        /\ \/ hPc[c] = "returned"
           \/ got' = [got EXCEPT ![c] = @ \cup {published}]
    BY <1>3 DEF PublishWrite, Put, TypeOK
  <2>2. Serving(c) \/ (hPc[c] = "returned" /\ killed)
    BY <2>1 DEF PublishInv, EntryInv
  <2>3. PublishInv'
    BY <2>1 DEF PublishInv
  <2>4. ClientInv'
    BY <2>1, <2>2 DEF ClientInv, ClientOK, Serving
  <2>5. DealtInv'
    BY <2>1, <2>2 DEF DealtInv, Serving, TypeOK
  <2> QED BY <2>1, <2>3, <2>4, <2>5, OthersKeepMutex, OthersKeepEntries
<1> QED BY <1>1, <1>2, <1>3 DEF Publish, PublishReturns, PublishFails

LEMMA ApplicationStep ==
  ASSUME IndInv, NEW c \in Clients,
         \/ SecSub(c) \/ Read(c) \/ UnsubLock(c) \/ UnsubDone(c) \/ SecUnsub(c) \/ Die(c)
  PROVE  MutexInv' /\ PublishInv' /\ EntryInv' /\ ClientInv' /\ DealtInv'
<1> USE DEF IndInv, tableVars, pubVars, streamVars, clientVars
<1>0. PublishInv' /\ DealtInv'
  BY OthersKeepPublish, OthersKeepDealt DEF SecSub, Read, SubDone, SecReadFrom,
     ReadReturns, UnsubLock, UnsubDone, SecUnsub, Die
<1>1. ASSUME SecSub(c) PROVE MutexInv' /\ EntryInv' /\ ClientInv'
  <2>1. /\ rPc[c] = "new" /\ rPc' = [rPc EXCEPT ![c] = "sub"]
        /\ hPc' = [hPc EXCEPT ![c] = "lock"]
        /\ UNCHANGED <<sub_mutex, killed, suber_topic_, buf, uPc, unPc, pPc>>
    BY <1>1 DEF SecSub, Reader, Handler
  <2>2. hPc[c] = "none"
    BY <2>1 DEF ClientInv, ClientOK
  <2>3. MutexInv'
    BY <2>1, <2>2, ConstantsAssumption DEF MutexInv, TypeOK
  <2>4. EntryInv'
    BY <2>1, <2>2 DEF EntryInv, Serving, TypeOK
  <2>5. ClientInv'
    BY <2>1, <2>2 DEF ClientInv, ClientOK, TypeOK
  <2> QED BY <2>3, <2>4, <2>5
<1>2. ASSUME ~SecSub(c) PROVE MutexInv' /\ EntryInv' /\ ClientInv'
  <2>1. /\ \A d \in Clients \ {c} :
             rPc'[d] = rPc[d] /\ buf'[d] = buf[d] /\ unPc'[d] = unPc[d] /\ uPc'[d] = uPc[d]
        /\ UNCHANGED <<sub_mutex, killed, suber_topic_, hPc, pPc>>
    BY <1>2 DEF Read, SubDone, SecReadFrom, ReadReturns, UnsubLock, UnsubDone, SecUnsub,
         Die, Reader, TypeOK
  <2>2. ClientOK(c)'
    <3>1. ClientOK(c) /\ UNCHANGED hPc /\ UNCHANGED suber_topic_
      BY <2>1 DEF ClientInv
    <3>2. CASE SubDone(c)
      BY <3>1, <3>2 DEF SubDone, ClientOK, Reader, TypeOK
    <3>3. CASE SecReadFrom(c)
      BY <3>1, <3>3 DEF SecReadFrom, ClientOK, Reader, TypeOK
    <3>4. CASE ReadReturns(c)
      BY <3>1, <3>4 DEF ReadReturns, ClientOK, Reader, TypeOK
    <3>5. CASE UnsubLock(c)
      BY <3>1, <3>5 DEF UnsubLock, ClientOK, TypeOK
    <3>6. CASE UnsubDone(c) \/ Die(c)
      BY <3>1, <3>6 DEF UnsubDone, Die, ClientOK, Reader, TypeOK
    <3>7. CASE SecUnsub(c)
      BY <3>1, <3>7 DEF SecUnsub, ClientOK, TypeOK
    <3> QED BY <1>2, <3>2, <3>3, <3>4, <3>5, <3>6, <3>7 DEF Read
  <2>3. ClientInv'
    BY <2>1, <2>2 DEF ClientInv, ClientOK
  <2> QED BY <2>1, <2>3, OthersKeepMutex, OthersKeepEntries
<1> QED BY <1>0, <1>1, <1>2

LEMMA AgentStep ==
  ASSUME IndInv,
         \/ Stop \/ Signal
         \/ \E t \in Topics : RingRecord(t) \/ \E p \in ProbeSet : ProbeEvent(p, t)
  PROVE  MutexInv' /\ PublishInv' /\ EntryInv' /\ ClientInv' /\ DealtInv'
<1> USE DEF IndInv, serverVars, tableVars, pubVars, streamVars, clientVars
<1>1. ASSUME NEW s \in ProbeSet \cup {"ring"}, NEW t \in Topics, PushLog(s, t),
             UNCHANGED serverVars
      PROVE  MutexInv' /\ PublishInv' /\ EntryInv' /\ ClientInv' /\ DealtInv'
  <2>1. pPc = "idle" /\ pPc' = "lock" /\ pTopic' = t /\ pFrom' # None /\ UNCHANGED pTodo
    BY <1>1, ConstantsAssumption DEF PushLog, PublishInv
  <2>2. MutexInv'
    BY <1>1, <2>1 DEF MutexInv
  <2>3. PublishInv'
    BY <1>1, <2>1 DEF PublishInv
  <2>4. DealtInv'
    BY <2>1 DEF DealtInv
  <2> QED BY <1>1, <2>2, <2>3, <2>4, OthersKeepEntries, OthersKeepClients
<1>2. CASE \E t \in Topics : RingRecord(t) \/ \E p \in ProbeSet : ProbeEvent(p, t)
  BY <1>1, <1>2 DEF RingRecord, ProbeEvent
<1>3. CASE Stop \/ Signal
  <2>1. /\ UNCHANGED <<hPc, sub_mutex, suber_topic_, rPc, buf, unPc, uPc, got>>
        /\ UNCHANGED <<pFrom, pPc, pTopic, pTodo, published>>
        /\ killed => killed'
    BY <1>3 DEF Stop, Signal, ServerUp, Check, CloseAllConnection, Shutdown, Drained,
         StopProbe, Exits, ProbeEnds
  <2> QED BY <2>1, OthersKeepMutex, OthersKeepPublish, OthersKeepEntries,
            OthersKeepClients, OthersKeepDealt
<1> QED BY <1>2, <1>3

LEMMA IndStep == IndInv /\ [Next]_vars => IndInv'
<1> SUFFICES ASSUME IndInv, [Next]_vars PROVE IndInv'
  OBVIOUS
<1>1. TypeOK' /\ TableInv'
  BY TypeStep DEF IndInv
<1>2. MutexInv' /\ PublishInv' /\ EntryInv' /\ ClientInv' /\ DealtInv'
  <2>1. CASE UNCHANGED vars
    BY <2>1, OthersKeepMutex, OthersKeepPublish, OthersKeepEntries, OthersKeepClients,
       OthersKeepDealt
       DEF IndInv, vars, tableVars, pubVars, streamVars, clientVars
  <2>2. Leavers \subseteq Clients /\ Mortals \subseteq Clients
    BY ConstantsAssumption
  <2> QED BY <2>1, <2>2, ServeStep, UnSubscribeStep, PublishStep, ApplicationStep,
            AgentStep DEF Next
<1> QED BY <1>1, <1>2 DEF IndInv

LEMMA Inductive == Spec => []IndInv
  BY IndInit, IndStep, PTL DEF Spec

\* While the server is not being stopped, every entry's writer belongs to a
\* call that has not returned, so Publish and the keepalives never use a writer
\* that is gone: whatever clients are refused, leave or die, in any order.
THEOREM NoDanglingWriter == Spec => []WritersAliveUntilKilled
<1>1. IndInv => WritersAliveUntilKilled
  BY DEF IndInv, EntryInv, WritersAliveUntilKilled, WritersAlive
<1> QED BY <1>1, Inductive, PTL

\* A Publish that returns OK, with nobody stopping the server, has written to
\* every subscriber of its topic that is in the table when it returns.
THEOREM PublishReachesAll == Spec => PublishedToAll
<1>1. IndInv /\ [Next]_vars =>
        [PublishReturns =>
           \A c \in suber_topic_ :
             pTopic \in TopicsOf[c] /\ ~killed => published \in got[c]]_vars
  BY DEF IndInv, DealtInv, PublishReturns
<1> QED BY <1>1, Inductive, PTL DEF Spec, PublishedToAll

\* Once UnSubscribe has answered, its client is written nothing any more, even
\* by a Publish that was under way.
THEOREM SilentAfterUnsubscribe == Spec => NothingAfterUnsubscribe
<1>1. IndInv /\ [Next]_vars =>
        [\A c \in Clients : uPc[c] = "returned" => got'[c] = got[c]]_vars
  <2> SUFFICES ASSUME IndInv, Next, NEW c \in Clients, uPc[c] = "returned"
               PROVE  got'[c] = got[c]
    OBVIOUS
  <2>1. c \notin pTodo
    BY DEF IndInv, ClientInv, ClientOK, PublishInv
  <2>2. ASSUME NEW d \in Clients, PublishWrite(d) PROVE got'[c] = got[c]
    BY <2>1, <2>2 DEF PublishWrite, IndInv, TypeOK
  <2>3. ASSUME ~\E d \in Clients : PublishWrite(d) PROVE UNCHANGED got
    BY <2>3, ConstantsAssumption DEF Next, Serve, Publish, Read, Stop, Subscribe,
       SubscribeFails, Loop, Unlisted, Listed, KeepAlive, KeepAliveFails, UnSubscribe,
       PublishLock, PublishReturns, PublishFails, PublishOver, SecSub, SubDone,
       SecReadFrom, ReadReturns, SecUnsub, UnsubLock, UnsubDone, Die, ServerUp, Check,
       RingRecord, Signal, CloseAllConnection, Shutdown, Drained, ProbeEvent, StopProbe,
       ProbeEnds, Exits, serverVars
  <2> QED BY <2>2, <2>3
<1> QED BY <1>1, Inductive, PTL DEF Spec, NothingAfterUnsubscribe
----------------------------------------------------------------------------
(* The server is the subscription service.                                  *)

Fresh == {c \in Clients : hPc[c] \in {"none", "lock"}}
Gone == {c \in Clients : cut[c]}

\* Both modules count with the Cardinality of FiniteSets.
LEMMA SameCardinality == ASSUME NEW S PROVE Service!Cardinality(S) = Cardinality(S)
  BY DEF Cardinality, Service!Cardinality

\* A step that leaves alone what the service shows is no step of it.
LEMMA Invisible ==
  ASSUME UNCHANGED <<suber_topic_, killed, cut, pTodo, published, got>>,
         Fresh' = Fresh, (pPc = "write") = (pPc' = "write")
  PROVE  UNCHANGED Service!vars
  BY DEF Service!vars, Service!members, Service!dealing, Fresh

\* An end of a stream is closed once at most.
LEMMA GoesOrNot ==
  ASSUME TypeOK, NEW c \in Clients, cut' = cut \/ Cut(c),
         UNCHANGED <<suber_topic_, killed, pTodo, published, got, hPc, pPc>>
  PROVE  [Service!Next]_(Service!vars)
<1>1. CASE cut' = cut
  <2>1. Fresh' = Fresh
    BY DEF Fresh
  <2> QED BY <1>1, <2>1, Invisible
<1>2. CASE Cut(c) /\ cut' # cut
  <2>1. c \notin Gone /\ Gone' = Gone \cup {c}
    BY <1>2 DEF Cut, Gone, TypeOK
  <2>2. Service!Go(c)
    BY <2>1 DEF Service!Go, Service!members, Service!dealing, Gone
  <2> QED BY <2>2 DEF Service!Next
<1> QED BY <1>1, <1>2

LEMMA LeavesOrNot ==
  ASSUME IndInv, NEW c \in Clients, Delete(c), pPc # "write",
         hPc[c] \notin {"none", "lock"},
         hPc' = hPc \/ hPc' = [hPc EXCEPT ![c] = "returned"],
         UNCHANGED <<killed, cut, pPc, pTodo, published, got>>
  PROVE  [Service!Next]_(Service!vars)
<1>1. Fresh' = Fresh
  BY DEF Fresh, IndInv, TypeOK
<1>2. CASE c \in suber_topic_
  <2>1. Service!Leave(c)
    BY <1>1, <1>2 DEF Service!Leave, Service!dealing, Delete, Fresh
  <2> QED BY <2>1 DEF Service!Next
<1>3. CASE c \notin suber_topic_
  BY <1>1, <1>3, Invisible DEF Delete
<1> QED BY <1>2, <1>3

LEMMA ServeMaps ==
  ASSUME IndInv, NEW c \in Clients, Serve(c)
  PROVE  [Service!Next]_(Service!vars)
<1> USE DEF IndInv, tableVars, pubVars, streamVars, Handler
<1>1. CASE Subscribe(c)
  <2>1. pPc # "write" /\ UNCHANGED pPc
    BY <1>1, TableSteady DEF Subscribe
  <2>2. c \in Fresh /\ Fresh' = Fresh \ {c}
    BY <1>1 DEF Subscribe, Fresh, TypeOK
  <2>3. c \notin Gone /\ Gone' = Gone
    BY <1>1 DEF Subscribe, Gone
  <2>4. Cardinality(suber_topic_) < MaxConn
    BY <1>1, ConstantsAssumption DEF Subscribe, Refused, TableInv, ConnectionsCounted, TypeOK
  <2>5. /\ suber_topic_' = suber_topic_ \cup {c}
        /\ UNCHANGED <<killed, pPc, published, pTodo, got>>
    BY <1>1 DEF Subscribe
  <2>6. Service!Cardinality(suber_topic_) < MaxConn
    BY <2>4, SameCardinality
  <2>7. Service!Join(c)
    BY <2>1, <2>2, <2>3, <2>5, <2>6 DEF Service!Join, Service!dealing, Fresh, Gone
  <2> QED BY <2>7 DEF Service!Next
<1>2. CASE SubscribeFails(c)
  <2>1. pPc # "write" /\ UNCHANGED pPc
    BY <1>2, TableSteady DEF SubscribeFails
  <2>2. c \in Fresh /\ Fresh' = Fresh \ {c}
    BY <1>2 DEF SubscribeFails, Fresh, TypeOK
  <2>3. c \notin suber_topic_
    BY <1>2 DEF SubscribeFails, EntryInv, Serving
  <2>4. c \in Gone \/ Cardinality(suber_topic_) = MaxConn
    BY <1>2, <2>3, ConstantsAssumption
       DEF SubscribeFails, Refused, Gone, TableInv, ConnectionsCounted, TypeOK
  <2>5. UNCHANGED <<suber_topic_, cut, killed, pPc, published, pTodo, got>>
    BY <1>2 DEF SubscribeFails
  <2>6. Service!TurnAway(c)
    BY <2>1, <2>2, <2>4, <2>5, SameCardinality DEF Service!TurnAway, Service!dealing, Fresh, Gone
  <2> QED BY <2>6 DEF Service!Next
<1>3. CASE Loop(c) \/ Unlisted(c) \/ Listed(c) \/ KeepAlive(c)
  <2>1. UNCHANGED <<suber_topic_, killed, cut, pTodo, published, got, pPc>>
    BY <1>3 DEF Loop, Unlisted, Listed, KeepAlive
  <2>2. /\ hPc[c] \notin {"none", "lock"} /\ hPc'[c] \notin {"none", "lock"}
        /\ \A d \in Clients \ {c} : hPc'[d] = hPc[d]
    BY <1>3 DEF Loop, Unlisted, Listed, KeepAlive, TypeOK
  <2>3. Fresh' = Fresh
    BY <2>2 DEF Fresh
  <2> QED BY <2>1, <2>3, Invisible
<1>4. CASE KeepAliveFails(c)
  <2>1. pPc # "write"
    BY <1>4, TableSteady DEF KeepAliveFails
  <2> QED BY <1>4, <2>1, LeavesOrNot DEF KeepAliveFails
<1> QED BY <1>1, <1>2, <1>3, <1>4 DEF Serve

LEMMA UnSubscribeMaps ==
  ASSUME IndInv, NEW c \in Clients, UnSubscribe(c)
  PROVE  [Service!Next]_(Service!vars)
<1>1. pPc # "write" /\ hPc[c] \notin {"none", "lock"}
  BY TableSteady DEF IndInv, UnSubscribe, ClientInv, ClientOK
<1> QED BY <1>1, LeavesOrNot DEF UnSubscribe, pubVars, streamVars

LEMMA PublishMaps ==
  ASSUME IndInv, Publish
  PROVE  [Service!Next]_(Service!vars)
<1> USE DEF IndInv, tableVars, streamVars
<1>1. CASE PublishLock
  <2>1. pPc # "write" /\ pTopic \in Topics
    BY <1>1 DEF PublishLock, PublishInv
  <2>2. Service!OpenMessage(pTopic)
    BY <1>1, <2>1 DEF PublishLock, Recipients, Service!OpenMessage, Service!members
  <2> QED BY <2>1, <2>2 DEF Service!Next
<1>2. CASE PublishReturns
  <2>1. Service!FinishMessage
    BY <1>2 DEF PublishReturns, PublishOver, Service!FinishMessage, Service!members
  <2> QED BY <2>1 DEF Service!Next
<1>3. ASSUME NEW c \in Clients, PublishFails(c) PROVE Service!Next
  <2>1. c \in Gone \/ killed
    BY <1>3 DEF PublishFails, PublishInv, EntryInv, Serving, Gone
  <2>2. pTodo \cap Gone # {} \/ killed
    BY <1>3, <2>1 DEF PublishFails
  <2>3. Service!FinishMessage
    BY <1>3, <2>2 DEF PublishFails, PublishOver, Service!FinishMessage,
       Service!members, Gone
  <2> QED BY <2>3 DEF Service!Next
<1>4. ASSUME NEW c \in Clients, PublishWrite(c) PROVE Service!Next
  <2>1. pPc = "write" /\ c \in pTodo \ Gone /\ pTodo' = pTodo \ {c}
    BY <1>4 DEF PublishWrite, Gone
  <2>2. \/ got' = [got EXCEPT ![c] = @ \cup {published}]
        \/ killed /\ UNCHANGED got
    BY <1>4 DEF PublishWrite, PublishInv, EntryInv, Serving
  <2>3. UNCHANGED <<suber_topic_, hPc, killed, cut, pPc, published>>
    BY <1>4 DEF PublishWrite
  <2>4. Service!Deal(c)
    BY <2>1, <2>2, <2>3 DEF Service!Deal, Service!members, Gone
  <2> QED BY <2>4 DEF Service!Next
<1> QED BY <1>1, <1>2, <1>3, <1>4 DEF Publish

LEMMA ApplicationMaps ==
  ASSUME IndInv, NEW c \in Clients,
         \/ SecSub(c) \/ Read(c) \/ UnsubLock(c) \/ UnsubDone(c) \/ SecUnsub(c) \/ Die(c)
  PROVE  [Service!Next]_(Service!vars)
<1> USE DEF IndInv, tableVars, pubVars, streamVars
<1>1. CASE SecSub(c)
  <2>1. hPc[c] = "none" /\ hPc' = [hPc EXCEPT ![c] = "lock"]
    BY <1>1 DEF SecSub, Handler, ClientInv, ClientOK
  <2>2. Fresh' = Fresh
    BY <2>1 DEF Fresh, TypeOK
  <2> QED BY <1>1, <2>2, Invisible DEF SecSub
<1>2. CASE ~SecSub(c)
  <2>1. cut' = cut \/ Cut(c)
    BY <1>2 DEF Read, SubDone, SecReadFrom, ReadReturns, UnsubLock, UnsubDone,
       SecUnsub, Die
  <2>2. UNCHANGED <<suber_topic_, killed, pTodo, published, got, hPc, pPc>>
    BY <1>2 DEF Read, SubDone, SecReadFrom, ReadReturns, UnsubLock, UnsubDone,
       SecUnsub, Die
  <2> QED BY <2>1, <2>2, GoesOrNot
<1> QED BY <1>1, <1>2

LEMMA AgentMaps ==
  ASSUME IndInv,
         \/ Stop \/ Signal
         \/ \E t \in Topics : RingRecord(t) \/ \E p \in ProbeSet : ProbeEvent(p, t)
  PROVE  [Service!Next]_(Service!vars)
<1> USE DEF IndInv, serverVars, tableVars, pubVars, streamVars
<1>1. CASE CloseAllConnection /\ ~killed
  <2>1. Service!Close
    BY <1>1 DEF CloseAllConnection, Service!Close, Service!members, Service!dealing
  <2> QED BY <2>1 DEF Service!Next
<1>2. CASE ~(CloseAllConnection /\ ~killed)
  <2>1. UNCHANGED <<suber_topic_, cut, pTodo, hPc, got, published>>
    BY <1>2 DEF Stop, Signal, ServerUp, Check, CloseAllConnection, Shutdown, Drained,
       StopProbe, Exits, ProbeEnds, RingRecord, ProbeEvent, PushLog
  <2>2. killed' = killed
    BY <1>2 DEF Stop, Signal, ServerUp, Check, CloseAllConnection, Shutdown, Drained,
       StopProbe, Exits, ProbeEnds, RingRecord, ProbeEvent, PushLog, TypeOK
  <2>3. pPc' = pPc \/ (pPc = "idle" /\ pPc' = "lock")
    BY DEF Stop, Signal, ServerUp, Check, CloseAllConnection, Shutdown, Drained,
       StopProbe, Exits, ProbeEnds, RingRecord, ProbeEvent, PushLog, PublishInv
  <2>4. (pPc = "write") = (pPc' = "write")
    BY <2>3
  <2>5. Fresh' = Fresh
    BY <2>1 DEF Fresh
  <2> QED BY <2>1, <2>2, <2>4, <2>5, Invisible
<1> QED BY <1>1, <1>2

LEMMA ServiceStep == IndInv /\ [Next]_vars => [Service!Next]_(Service!vars)
<1> SUFFICES ASSUME IndInv, [Next]_vars PROVE [Service!Next]_(Service!vars)
  OBVIOUS
<1>1. CASE UNCHANGED vars
  <2>1. UNCHANGED <<suber_topic_, killed, cut, pTodo, published, got, pPc, hPc>>
    BY <1>1 DEF vars, tableVars, pubVars, streamVars
  <2>2. Fresh' = Fresh
    BY <2>1 DEF Fresh
  <2> QED BY <2>1, <2>2, Invisible
<1>2. Leavers \subseteq Clients /\ Mortals \subseteq Clients
  BY ConstantsAssumption
<1> QED BY <1>1, <1>2, ServeMaps, UnSubscribeMaps, PublishMaps, ApplicationMaps,
       AgentMaps DEF Next

\* The server implements the subscription service, for any number of clients:
\* joining and leaving are atomic and no message overlaps them, nobody is
\* turned away while there is room, and a message reaches all it is due to
\* unless one of them is gone or the agent is being stopped.
THEOREM ServerImplementsService == Spec => ImplementsService
<1>1. Init => Service!Init
  <2> SUFFICES ASSUME Init PROVE Service!Init
    OBVIOUS
  <2>1. Fresh = Clients /\ Gone = {}
    BY DEF Init, Fresh, Gone
  <2> QED BY <2>1 DEF Init, Service!Init, Fresh, Gone
<1> QED BY <1>1, ServiceStep, Inductive, PTL DEF Spec, ImplementsService, Service!Spec
=============================================================================
