---------------------------- MODULE PubSubServer ----------------------------
(***************************************************************************)
(* The user space half of secDetector: the gRPC server of the secDetectord  *)
(* agent (grpc_comm/server.cpp), the threads of the agent that publish to   *)
(* it and its shutdown (service/main.cpp), and the applications that        *)
(* subscribe through the SDK (lib/secDetector_sdk.cpp, grpc_comm/client.cpp).*)
(*                                                                          *)
(* A client is one PubSubClient: it subscribes once, under a fresh uuid, and *)
(* stands for that name.  Its process has one library lock.  A stream holds  *)
(* up to Window messages the client has not read; a Write beyond that waits, *)
(* with the server's mutex held, as gRPC's flow control makes it.            *)
(***************************************************************************)
EXTENDS Naturals, Sequences, FiniteSets

CONSTANTS
  Clients,    \* applications' connections
  Leavers,    \* those of them that call secUnsub
  Mortals,    \* those of them whose process may die
  TopicsOf,   \* TopicsOf[c]: the topics c subscribes to
  Topics,     \* topics that pass the agent's topic_mask
  Probes,     \* the eBPF threads, in the order main stops them
  MaxConn,    \* MAX_CONNECTION
  Window,     \* messages that fit in a stream's flow control window
  MaxPubs,    \* bound: number of messages published
  None

ProbeSet == {Probes[i] : i \in DOMAIN Probes}

ASSUME ConstantsAssumption ==
  /\ Leavers \subseteq Clients /\ Mortals \subseteq Clients
  /\ TopicsOf \in [Clients -> SUBSET Topics]
  /\ MaxConn \in Nat /\ Window \in Nat \ {0} /\ MaxPubs \in Nat
  /\ "publish" \notin Clients /\ "ring" \notin ProbeSet
  /\ None \notin Clients \cup ProbeSet \cup {"publish", "ring"}

VARIABLES
  server,                  \* none, up, draining (in Shutdown), down
  suber_topic_, connection_num, sub_mutex, killed,
  hPc, uPc,                \* handlers of Subscribe and of UnSubscribe
  pFrom, pPc, pTopic, pTodo, \* the Publish in flight, from which thread
  buf, cut,                \* streams: unread messages, given up by the client
  rPc, unPc, lib,          \* per client: reader thread, secUnsub, g_connect_mtx
  mPc, exiting, ePc, eStop, \* main, its flag, the eBPF threads and theirs
  published, got           \* history: messages so far, those written to c

tableVars == <<suber_topic_, connection_num, killed>>
pubVars == <<pFrom, pPc, pTopic, pTodo, published>>
streamVars == <<buf, cut>>
clientVars == <<rPc, unPc, lib>>
agentVars == <<mPc, exiting, ePc, eStop>>
vars == <<server, tableVars, sub_mutex, hPc, uPc, pubVars, streamVars, clientVars,
          agentVars, got>>

Init ==
  /\ server = "none"
  /\ suber_topic_ = {} /\ connection_num = 0 /\ sub_mutex = None /\ killed = FALSE
  /\ hPc = [c \in Clients |-> "none"]
  /\ uPc = [c \in Clients |-> "none"]
  /\ pFrom = None /\ pPc = "idle" /\ pTopic = None /\ pTodo = {}
  /\ buf = [c \in Clients |-> <<>>]
  /\ cut = [c \in Clients |-> FALSE]
  /\ rPc = [c \in Clients |-> "new"]
  /\ unPc = [c \in Clients |-> "no"]
  /\ lib = [c \in Clients |-> None]
  /\ mPc = "loop" /\ exiting = FALSE
  /\ ePc = [p \in ProbeSet |-> "run"]
  /\ eStop = {}
  /\ published = 0
  /\ got = [c \in Clients |-> {}]

Hello == <<"hello", 0>>
Refusal == <<"refused", 0>>
Beat == <<"keepalive", 0>>
Data(n) == <<"data", n>>
Items == {"hello", "refused", "keepalive", "data"} \X Nat

Put(c, item) == buf' = [buf EXCEPT ![c] = Append(@, item)]
Full(c) == Len(buf[c]) >= Window

----------------------------------------------------------------------------
(* The handler of Subscribe, one thread per call.                           *)

Handler(c, step) == hPc' = [hPc EXCEPT ![c] = step]

\* Mutant: the count goes down whether or not the name was there.
DeleteAlways(c) ==
  /\ suber_topic_' = suber_topic_ \ {c}
  /\ connection_num' = connection_num - 1

\* DeleteSubscriberByCliName, called with sub_mutex.
Delete(c) ==
  /\ suber_topic_' = suber_topic_ \ {c}
  /\ connection_num' = IF c \in suber_topic_ THEN connection_num - 1 ELSE connection_num

\* Mutant: one connection too many is admitted.
RefusedOffByOne(c) == connection_num > MaxConn \/ c \in suber_topic_

Refused(c) == connection_num >= MaxConn \/ c \in suber_topic_

\* The name goes in the table once the first message is on its way.
Subscribe(c) ==
  /\ hPc[c] = "lock" /\ sub_mutex = None
  /\ ~Refused(c) /\ ~cut[c]
  /\ Put(c, Hello)
  /\ suber_topic_' = suber_topic_ \cup {c}
  /\ connection_num' = connection_num + 1
  /\ Handler(c, "loop")
  /\ UNCHANGED <<server, sub_mutex, killed, uPc, pubVars, cut, clientVars, agentVars, got>>

\* Too many connections, a name in use, or nobody there any more.
SubscribeFails(c) ==
  /\ hPc[c] = "lock" /\ sub_mutex = None
  /\ Refused(c) \/ cut[c]
  /\ IF cut[c] THEN UNCHANGED buf ELSE Put(c, Refusal)
  /\ Handler(c, "returned")
  /\ UNCHANGED <<server, tableVars, sub_mutex, uPc, pubVars, cut, clientVars, agentVars, got>>

\* Mutant: WaitKeeplive has no timeout.
LoopUntilKilled(c) ==
  /\ hPc[c] = "loop" /\ killed
  /\ Handler(c, "returned")
  /\ UNCHANGED <<server, tableVars, sub_mutex, uPc, pubVars, streamVars, clientVars,
                 agentVars, got>>

\* while (!killed), after up to CHECK_TIME in WaitKeeplive unless it is the
\* first time: the flag is read without a lock.
Loop(c) ==
  /\ hPc[c] = "loop"
  /\ Handler(c, IF killed THEN "returned" ELSE "relock")
  /\ UNCHANGED <<server, tableVars, sub_mutex, uPc, pubVars, streamVars, clientVars,
                 agentVars, got>>

\* Someone unsubscribed this name: the call is over.
Unlisted(c) ==
  /\ hPc[c] = "relock" /\ sub_mutex = None
  /\ c \notin suber_topic_
  /\ Handler(c, "returned")
  /\ UNCHANGED <<server, tableVars, sub_mutex, uPc, pubVars, streamVars, clientVars,
                 agentVars, got>>

Listed(c) ==
  /\ hPc[c] = "relock" /\ sub_mutex = None
  /\ c \in suber_topic_
  /\ sub_mutex' = c
  /\ Handler(c, "beat")
  /\ UNCHANGED <<server, tableVars, uPc, pubVars, streamVars, clientVars, agentVars, got>>

BeatUnread(c) == buf[c] # <<>> /\ buf[c][Len(buf[c])] = Beat

\* Write of "keepalive".  Several unread in a row are kept as one.
KeepAlive(c) ==
  /\ hPc[c] = "beat" /\ ~cut[c]
  /\ \/ BeatUnread(c) /\ UNCHANGED buf
     \/ ~BeatUnread(c) /\ ~Full(c) /\ Put(c, Beat)
  /\ sub_mutex' = None
  /\ Handler(c, "loop")
  /\ UNCHANGED <<server, tableVars, uPc, pubVars, cut, clientVars, agentVars, got>>

\* Mutant: the call ends and leaves its entry.
KeepAliveFailsBare(c) ==
  /\ hPc[c] = "beat" /\ cut[c]
  /\ sub_mutex' = None
  /\ Handler(c, "returned")
  /\ UNCHANGED <<server, tableVars, uPc, pubVars, streamVars, clientVars, agentVars, got>>

\* The client is gone: its entry goes, and the call ends.
KeepAliveFails(c) ==
  /\ hPc[c] = "beat" /\ cut[c]
  /\ Delete(c)
  /\ sub_mutex' = None
  /\ Handler(c, "returned")
  /\ UNCHANGED <<server, killed, uPc, pubVars, streamVars, clientVars, agentVars, got>>

----------------------------------------------------------------------------
(* UnSubscribe and Publish.                                                 *)

\* Mutant: the table is changed without sub_mutex.
UnSubscribeUnlocked(c) ==
  /\ uPc[c] = "lock"
  /\ Delete(c)
  /\ uPc' = [uPc EXCEPT ![c] = "returned"]
  /\ UNCHANGED <<server, sub_mutex, killed, hPc, pubVars, streamVars, clientVars,
                 agentVars, got>>

UnSubscribe(c) ==
  /\ uPc[c] = "lock" /\ sub_mutex = None
  /\ Delete(c)
  /\ uPc' = [uPc EXCEPT ![c] = "returned"]
  /\ UNCHANGED <<server, sub_mutex, killed, hPc, pubVars, streamVars, clientVars,
                 agentVars, got>>

\* push_log of thread s, under pub_mutex: the call reaches the server, or
\* fails at once when there is none.
PushLog(s, t) ==
  /\ pFrom = None /\ published < MaxPubs
  /\ server = "up"
  /\ pFrom' = s /\ pPc' = "lock" /\ pTopic' = t
  /\ UNCHANGED <<pTodo, published>>

\* Mutant: topics are not compared.
RecipientsAll == suber_topic_

\* The subscribers whose topics meet the message's, when Publish begins.
Recipients == {c \in suber_topic_ : pTopic \in TopicsOf[c]}

PublishLock ==
  /\ pPc = "lock" /\ sub_mutex = None
  /\ sub_mutex' = "publish"
  /\ pTodo' = Recipients
  /\ pPc' = "write"
  /\ published' = published + 1
  /\ UNCHANGED <<server, tableVars, hPc, uPc, pFrom, pTopic, streamVars, clientVars,
                 agentVars, got>>

\* Write to the next subscriber, in the order of the hash table.  The writer
\* of a call that has returned is gone, and what a Write to it does with it.
PublishWrite(c) ==
  /\ pPc = "write" /\ c \in pTodo
  /\ ~cut[c] /\ ~Full(c)
  /\ pTodo' = pTodo \ {c}
  /\ IF hPc[c] = "returned"
       THEN UNCHANGED <<buf, got>>
       ELSE Put(c, Data(published)) /\ got' = [got EXCEPT ![c] = @ \cup {published}]
  /\ UNCHANGED <<server, tableVars, sub_mutex, hPc, uPc, pFrom, pPc, pTopic, published,
                 cut, clientVars, agentVars>>

\* Publish and push_log return.
PublishOver ==
  /\ sub_mutex' = None
  /\ pFrom' = None /\ pPc' = "idle" /\ pTopic' = None /\ pTodo' = {}
  /\ mPc' = IF pFrom = "ring" THEN "loop" ELSE mPc
  /\ UNCHANGED <<server, tableVars, hPc, uPc, published, streamVars, clientVars, exiting,
                 ePc, eStop, got>>

PublishReturns == pPc = "write" /\ pTodo = {} /\ PublishOver

\* Mutant: it goes on with the next one, and returns OK.
PublishFailsGoesOn(c) ==
  /\ pPc = "write" /\ c \in pTodo
  /\ cut[c] \/ hPc[c] = "returned"
  /\ pTodo' = pTodo \ {c}
  /\ UNCHANGED <<server, tableVars, sub_mutex, hPc, uPc, pFrom, pPc, pTopic, published,
                 streamVars, clientVars, agentVars, got>>

\* The first subscriber that cannot be written to ends it.
PublishFails(c) ==
  /\ pPc = "write" /\ c \in pTodo
  /\ cut[c] \/ hPc[c] = "returned"
  /\ PublishOver

----------------------------------------------------------------------------
(* Applications: secSub, secReadFrom, secUnsub.                             *)

Reader(c, step) == rPc' = [rPc EXCEPT ![c] = step]
Lock(c, thread) == lib' = [lib EXCEPT ![c] = thread]
Cut(c) == cut' = [cut EXCEPT ![c] = TRUE]

SecSub(c) ==
  /\ rPc[c] = "new" /\ server = "up"
  /\ Reader(c, "sub") /\ Lock(c, "reader")
  /\ Handler(c, "lock")
  /\ UNCHANGED <<server, tableVars, sub_mutex, uPc, pubVars, streamVars, unPc, agentVars, got>>

\* The first message decides; a client that is refused deletes its context.
SubDone(c) ==
  /\ rPc[c] = "sub" /\ buf[c] # <<>>
  /\ buf' = [buf EXCEPT ![c] = Tail(@)]
  /\ IF Head(buf[c]) = Hello
       THEN Reader(c, "ready") /\ UNCHANGED cut
       ELSE Reader(c, "gone") /\ Cut(c)
  /\ Lock(c, None)
  /\ UNCHANGED <<server, tableVars, sub_mutex, hPc, uPc, pubVars, unPc, agentVars, got>>

\* secReadFrom takes the lock of the library and blocks in Read ...
SecReadFrom(c) ==
  /\ rPc[c] = "ready" /\ lib[c] = None
  /\ Reader(c, "read") /\ Lock(c, "reader")
  /\ UNCHANGED <<server, tableVars, sub_mutex, hPc, uPc, pubVars, streamVars, unPc,
                 agentVars, got>>

\* ... until there is a message or a keepalive, or the call is over.
ReadReturns(c) ==
  /\ rPc[c] = "read"
  /\ \/ buf[c] # <<>> /\ buf' = [buf EXCEPT ![c] = Tail(@)]
     \/ buf[c] = <<>> /\ hPc[c] = "returned" /\ UNCHANGED buf
  /\ Reader(c, "ready") /\ Lock(c, None)
  /\ UNCHANGED <<server, tableVars, sub_mutex, hPc, uPc, pubVars, cut, unPc, agentVars, got>>

\* Another thread of the application wants to unsubscribe.
SecUnsub(c) ==
  /\ unPc[c] = "no" /\ rPc[c] \in {"ready", "read"}
  /\ unPc' = [unPc EXCEPT ![c] = "lock"]
  /\ UNCHANGED <<server, tableVars, sub_mutex, hPc, uPc, pubVars, streamVars, rPc, lib,
                 agentVars, got>>

\* It takes the lock of the library and calls the server, if there is one.
UnsubLock(c) ==
  /\ unPc[c] = "lock" /\ lib[c] = None
  /\ Lock(c, "unsub")
  /\ IF server = "up"
       THEN /\ unPc' = [unPc EXCEPT ![c] = "rpc"]
            /\ uPc' = [uPc EXCEPT ![c] = "lock"]
       ELSE unPc' = [unPc EXCEPT ![c] = "failed"] /\ UNCHANGED uPc
  /\ UNCHANGED <<server, tableVars, sub_mutex, hPc, pubVars, streamVars, rPc, agentVars, got>>

\* Whatever the answer, reader, client and context are deleted.
UnsubDone(c) ==
  /\ unPc[c] = "failed" \/ (unPc[c] = "rpc" /\ uPc[c] = "returned")
  /\ unPc' = [unPc EXCEPT ![c] = "done"]
  /\ Reader(c, "gone") /\ Cut(c) /\ Lock(c, None)
  /\ buf' = [buf EXCEPT ![c] = <<>>]
  /\ UNCHANGED <<server, tableVars, sub_mutex, hPc, uPc, pubVars, agentVars, got>>

\* The process of the application dies, with what it called still going on.
Die(c) ==
  /\ rPc[c] \in {"sub", "ready", "read"}
  /\ Reader(c, "gone") /\ Cut(c) /\ Lock(c, None)
  /\ unPc' = [unPc EXCEPT ![c] = "dead"]
  /\ buf' = [buf EXCEPT ![c] = <<>>]
  /\ UNCHANGED <<server, tableVars, sub_mutex, hPc, uPc, pubVars, agentVars, got>>

----------------------------------------------------------------------------
(* The agent: main, the server's thread and the eBPF threads.               *)

Main(step) == mPc' = step
serverVars == <<tableVars, sub_mutex, hPc, uPc, streamVars, clientVars, got>>

\* RunServer, in its own thread, has built the server.
ServerUp ==
  /\ server = "none" /\ mPc \notin {"probes", "exited"}
  /\ server' = "up"
  /\ UNCHANGED <<serverVars, pubVars, agentVars>>

\* while (exiting == 0) poll.
Check ==
  /\ mPc = "loop"
  /\ Main(IF exiting THEN "close" ELSE "poll")
  /\ UNCHANGED <<server, serverVars, pubVars, exiting, ePc, eStop>>

\* A record of the kernel's ring, published by main itself.
RingRecord(t) ==
  /\ mPc = "poll"
  /\ PushLog("ring", t)
  /\ Main("publish")
  /\ UNCHANGED <<server, serverVars, exiting, ePc, eStop>>

\* SIGTERM.  It interrupts poll() only if main's thread is the one to run the
\* handler; a failed poll ends the loop.
Signal ==
  /\ ~exiting /\ mPc \in {"loop", "poll", "publish"}
  /\ exiting' = TRUE
  /\ Main(mPc) \/ (mPc = "poll" /\ Main("close"))
  /\ UNCHANGED <<server, serverVars, pubVars, ePc, eStop>>

\* Mutant: the calls are woken, and told nothing.
CloseNotKilled ==
  /\ mPc = "close"
  /\ Main("shutdown")
  /\ UNCHANGED <<server, serverVars, pubVars, exiting, ePc, eStop>>

\* CloseAllConnection.
CloseAllConnection ==
  /\ mPc = "close"
  /\ killed' = TRUE
  /\ Main("shutdown")
  /\ UNCHANGED <<server, suber_topic_, connection_num, sub_mutex, hPc, uPc, streamVars,
                 clientVars, got, pubVars, exiting, ePc, eStop>>

\* server->Shutdown(): no call is accepted from now on.  Without a server
\* yet, the null pointer ends the process.
Shutdown ==
  /\ mPc = "shutdown"
  /\ IF server = "up"
       THEN server' = "draining" /\ Main("drain") /\ UNCHANGED ePc
       ELSE server' = "down" /\ Main("exited") /\ ePc' = [p \in ProbeSet |-> "out"]
  /\ UNCHANGED <<serverVars, pubVars, exiting, eStop>>

\* It returns, and RunServer's thread ends, when every call has returned.
Drained ==
  /\ mPc = "drain"
  /\ \A c \in Clients : hPc[c] \in {"none", "returned"} /\ uPc[c] \in {"none", "returned"}
  /\ pFrom = None
  /\ server' = "down"
  /\ Main("probes")
  /\ UNCHANGED <<serverVars, pubVars, exiting, ePc, eStop>>

\* An eBPF event, while its thread runs.
ProbeEvent(p, t) ==
  /\ ePc[p] = "run"
  /\ PushLog(p, t)
  /\ UNCHANGED <<server, serverVars, agentVars>>

\* Main stops the eBPF threads one after the other, and joins each.
Running == {i \in DOMAIN Probes : ePc[Probes[i]] = "run"}
StopProbe ==
  /\ mPc = "probes"
  /\ \E i \in Running :
       /\ \A j \in Running : i <= j
       /\ Probes[i] \notin eStop
       /\ eStop' = eStop \cup {Probes[i]}
  /\ UNCHANGED <<server, serverVars, pubVars, mPc, exiting, ePc>>

\* ring_buffer__poll returns at the latest after a second.
ProbeEnds(p) ==
  /\ ePc[p] = "run" /\ p \in eStop /\ pFrom # p
  /\ ePc' = [ePc EXCEPT ![p] = "out"]
  /\ UNCHANGED <<server, serverVars, pubVars, mPc, exiting, eStop>>

Exits ==
  /\ mPc = "probes" /\ Running = {}
  /\ Main("exited")
  /\ UNCHANGED <<server, serverVars, pubVars, exiting, ePc, eStop>>

----------------------------------------------------------------------------
Serve(c) ==
  \/ Subscribe(c) \/ SubscribeFails(c) \/ Loop(c) \/ Unlisted(c) \/ Listed(c)
  \/ KeepAlive(c) \/ KeepAliveFails(c)

Publish ==
  \/ PublishLock \/ PublishReturns
  \/ \E c \in Clients : PublishWrite(c) \/ PublishFails(c)

Read(c) == SubDone(c) \/ SecReadFrom(c) \/ ReadReturns(c)

Stop ==
  \/ ServerUp \/ Check \/ CloseAllConnection \/ Shutdown \/ Drained \/ StopProbe \/ Exits
  \/ \E p \in ProbeSet : ProbeEnds(p)

Next ==
  \/ \E c \in Clients : SecSub(c) \/ Serve(c) \/ UnSubscribe(c) \/ Read(c)
                        \/ UnsubLock(c) \/ UnsubDone(c)
  \/ \E c \in Leavers : SecUnsub(c)
  \/ \E c \in Mortals : Die(c)
  \/ Publish
  \/ \E t \in Topics : RingRecord(t) \/ \E p \in ProbeSet : ProbeEvent(p, t)
  \/ Signal \/ Stop

Spec == Init /\ [][Next]_vars

\* Fairness: the threads of the server, of main and of the eBPF programs run,
\* and so does what an application has begun; an application that is subscribed
\* keeps reading, as the SDK's documentation asks.  Locks are taken strongly
\* fairly: the server's threads are between two uses of sub_mutex nearly all
\* the time (CHECK_TIME is a minute), and a reader pauses between two messages.
\* Nothing obliges a record, an event or a signal to come, nor anybody to
\* subscribe, to unsubscribe or to die.
Fairness ==
  /\ \A c \in Clients :
       /\ WF_vars(Serve(c)) /\ WF_vars(Read(c)) /\ WF_vars(UnsubDone(c))
       /\ SF_vars(Subscribe(c) \/ SubscribeFails(c) \/ Listed(c) \/ Unlisted(c))
  /\ \A c \in Leavers : SF_vars(UnsubLock(c) \/ UnSubscribe(c))
  /\ WF_vars(Publish) /\ SF_vars(PublishLock)
  /\ WF_vars(Stop)

FairSpec == Spec /\ Fairness

----------------------------------------------------------------------------
(* Properties.                                                              *)

TypeOK ==
  /\ server \in {"none", "up", "draining", "down"}
  /\ suber_topic_ \subseteq Clients /\ connection_num \in Nat /\ killed \in BOOLEAN
  /\ sub_mutex \in Clients \cup {"publish", None}
  /\ hPc \in [Clients -> {"none", "lock", "loop", "relock", "beat", "returned"}]
  /\ uPc \in [Clients -> {"none", "lock", "returned"}]
  /\ pFrom \in ProbeSet \cup {"ring", None} /\ pPc \in {"idle", "lock", "write"}
  /\ pTopic \in Topics \cup {None} /\ pTodo \subseteq Clients
  /\ buf \in [Clients -> Seq(Items)]
  /\ cut \in [Clients -> BOOLEAN]
  /\ rPc \in [Clients -> {"new", "sub", "ready", "read", "gone"}]
  /\ unPc \in [Clients -> {"no", "lock", "rpc", "failed", "done", "dead"}]
  /\ lib \in [Clients -> {"reader", "unsub", None}]
  /\ mPc \in {"loop", "poll", "publish", "close", "shutdown", "drain", "probes", "exited"}
  /\ exiting \in BOOLEAN /\ ePc \in [ProbeSet -> {"run", "out"}] /\ eStop \subseteq ProbeSet
  /\ published \in Nat /\ got \in [Clients -> SUBSET Nat]

\* The count that admits connections agrees with the table, on every path that
\* adds or removes an entry, and with the limit.
ConnectionsCounted ==
  connection_num = Cardinality(suber_topic_) /\ connection_num <= MaxConn

\* The writer in an entry belongs to a call that has not returned.
Serving(c) == hPc[c] \in {"loop", "relock", "beat"}
WritersAlive == \A c \in suber_topic_ : Serving(c)

\* While nobody stops the server, Publish never finds the writer of a call that
\* has returned, whatever clients leave, die or are refused.
WritersAliveUntilKilled == killed \/ WritersAlive

\* A Publish that returns OK has written to every subscriber of its topic.
PublishedToAll ==
  [][PublishReturns =>
       \A c \in suber_topic_ :
         pTopic \in TopicsOf[c] /\ ~killed => published \in got[c]]_vars

\* Once the server has answered UnSubscribe no message is written to that
\* client, not even one whose Publish had begun.
NothingAfterUnsubscribe ==
  [][\A c \in Clients : uPc[c] = "returned" => got'[c] = got[c]]_vars

\* Seen from its clients the server is the subscription service: admission and
\* removal are single steps that no message overlaps, nobody is turned away
\* while there is room, a message reaches exactly those who wanted its topic
\* when it was published, unless one of them is gone or the server is stopped.
Service == INSTANCE Subscription
  WITH Limit <- MaxConn,
       fresh <- {c \in Clients : hPc[c] \in {"none", "lock"}},
       subs <- suber_topic_,
       gone <- {c \in Clients : cut[c]},
       closing <- killed,
       open <- pPc = "write",
       opened <- published,
       due <- pTodo,
       inbox <- got

ImplementsService == Service!Spec

\* A Write waits for a client to read, and the server's mutex with it.
Waits(c) == ~cut[c] /\ Full(c)
Blocked ==
  \/ \E c \in Clients : hPc[c] = "beat" /\ Waits(c) /\ ~BeatUnread(c)
  \/ pPc = "write" /\ \E c \in pTodo : Waits(c)

\* secUnsub returns, though a reader may be blocked in secReadFrom with the
\* lock of the library, unless a client that does not read blocks the server.
UnsubReturns ==
  \A c \in Leavers :
    unPc[c] = "lock" ~> (unPc[c] \in {"done", "dead"} \/ []Blocked)

\* secUnsub returns, as an application that calls it expects.
UnsubAlwaysReturns ==
  \A c \in Leavers : unPc[c] = "lock" ~> unPc[c] \in {"done", "dead"}

\* The connection of an application that died is available again.
SlotFreed ==
  \A c \in Clients :
    (cut[c] /\ c \in suber_topic_) ~> (c \notin suber_topic_ \/ killed \/ []Blocked)

\* After a signal the agent exits, unless it stays in poll(), where no record
\* comes, or a client blocks the server.
AgentStops ==
  exiting ~> (mPc = "exited" \/ [](mPc = "poll") \/ []Blocked)
=============================================================================
