---------------------------- MODULE Subscription ----------------------------
(***************************************************************************)
(* What the server of secDetectord promises to its clients, with the mutex, *)
(* the handlers, the streams and the agent's threads taken away.  A client   *)
(* asks once.  Whoever is admitted stays in the set of subscribers until it  *)
(* leaves or is gone.  One message at a time is dealt to those who were      *)
(* subscribers of its topic when it was opened; nobody joins or leaves while *)
(* a message is open.  Only a subscriber that is gone, or the closing of the *)
(* service, takes a message from those it is due to.                         *)
(***************************************************************************)
EXTENDS Naturals, FiniteSets

CONSTANTS
  Clients,
  Topics,
  TopicsOf,  \* TopicsOf[c]: the topics c wants
  Limit      \* number of subscribers at any time

VARIABLES
  fresh,    \* clients that have not been answered yet
  subs,     \* the subscribers
  gone,     \* clients whose end of the stream is closed
  closing,  \* the service is being stopped
  open,     \* a message is being dealt
  opened,   \* messages so far: the number of the last
  due,      \* subscribers that it is still due to
  inbox     \* per client: the messages dealt to it

members == <<fresh, subs>>
dealing == <<open, opened, due, inbox>>
vars == <<members, gone, closing, dealing>>

Init ==
  /\ fresh = Clients /\ subs = {} /\ gone = {} /\ closing = FALSE
  /\ open = FALSE /\ opened = 0 /\ due = {} /\ inbox = [c \in Clients |-> {}]

Join(c) ==
  /\ ~open
  /\ c \in fresh \ gone /\ Cardinality(subs) < Limit
  /\ fresh' = fresh \ {c} /\ subs' = subs \cup {c}
  /\ UNCHANGED <<gone, closing, dealing>>

\* Nobody is turned away while there is room.
TurnAway(c) ==
  /\ ~open
  /\ c \in fresh /\ (c \in gone \/ Cardinality(subs) = Limit)
  /\ fresh' = fresh \ {c}
  /\ UNCHANGED <<subs, gone, closing, dealing>>

Leave(c) ==
  /\ ~open
  /\ c \in subs /\ subs' = subs \ {c}
  /\ UNCHANGED <<fresh, gone, closing, dealing>>

Go(c) ==
  /\ c \notin gone /\ gone' = gone \cup {c}
  /\ UNCHANGED <<members, closing, dealing>>

Close ==
  /\ ~closing /\ closing' = TRUE
  /\ UNCHANGED <<members, gone, dealing>>

OpenMessage(t) ==
  /\ ~open
  /\ open' = TRUE /\ opened' = opened + 1
  /\ due' = {c \in subs : t \in TopicsOf[c]}
  /\ UNCHANGED <<members, gone, closing, inbox>>

\* A subscriber whose handler the closing has ended may miss its message.
Deal(c) ==
  /\ open /\ c \in due \ gone
  /\ due' = due \ {c}
  /\ \/ inbox' = [inbox EXCEPT ![c] = @ \cup {opened}]
     \/ closing /\ UNCHANGED inbox
  /\ UNCHANGED <<members, gone, closing, open, opened>>

\* Everybody has it, or somebody cannot be reached any more.
FinishMessage ==
  /\ open
  /\ due = {} \/ due \cap gone # {} \/ closing
  /\ open' = FALSE /\ due' = {}
  /\ UNCHANGED <<members, gone, closing, opened, inbox>>

Next ==
  \/ \E c \in Clients : Join(c) \/ TurnAway(c) \/ Leave(c) \/ Go(c) \/ Deal(c)
  \/ \E t \in Topics : OpenMessage(t)
  \/ Close \/ FinishMessage

Spec == Init /\ [][Next]_vars
=============================================================================
