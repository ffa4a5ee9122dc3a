-------------------------- MODULE DriverCoreProofs --------------------------
(***************************************************************************)
(* TLAPS proofs about the start and the end of the driver and about its     *)
(* proc log, for any number of writers, readers and cleaners and a fifo of   *)
(* any size: every record has one owner, nothing is left when the driver is  *)
(* out, and a writer nobody disturbs never loses its record.                 *)
(***************************************************************************)
EXTENDS DriverCore, FiniteSetTheorems, TLAPS

----------------------------------------------------------------------------
(* The inductive invariant.                                                 *)

\* Which steps of a task hold a record, and which do not.
HoldInv ==
  \A t \in LogTasks :
    /\ tpc[t] \in {"idle", "out", "read", "close", "take", "open"} => rec[t] = NoRec
    /\ tpc[t] = "in" => rec[t] # NoRec

\* A record has one owner: a place in the fifo or a task.
Distinct == \A i, j \in DOMAIN fifo : fifo[i] = fifo[j] => i = j
OwnerInv ==
  /\ Distinct
  /\ mem \subseteq 1 .. written
  /\ \A r \in mem : r \in InFifo \/ \E t \in LogTasks : rec[t] = r
  /\ InFifo \subseteq mem
  /\ \A t \in LogTasks : rec[t] # NoRec => rec[t] \in mem /\ rec[t] \notin InFifo
  /\ \A t, u \in LogTasks : t # u /\ rec[t] = rec[u] => rec[t] = NoRec

\* What is set up at each step of secDetector_init and of the exit.
HaveAt(s) ==
  CASE s = "dir" -> {}
    [] s = "fifo" -> {"dir"}
    [] s = "alarm" -> {"dir", "fifo"}
    [] s \in {"ring", "chrdev"} -> {"dir", "fifo", "alarm"}
    [] s = "class" -> {"dir", "fifo", "alarm", "chrdev"}
    [] s = "device" -> {"dir", "fifo", "alarm", "chrdev", "class"}
    [] s = "up" -> {"dir", "fifo", "alarm", "chrdev", "class", "device"}
DriverInv ==
  /\ dpc \in StartSteps \cup {"up"} => have \ {"ring"} = HaveAt(dpc)
  /\ dpc \in {"out", "dir", "fifo", "alarm", "ring"} => "ring" \notin have
  /\ dpc = "destroy" => have \cup {"alarm"} = {"dir", "fifo", "alarm"}
  /\ dpc = "rmdir" => have = {"dir"}
  /\ dpc = "out" => have = {}

\* Nobody is in the log before its file is there and after it has gone.
QuietInv ==
  dpc \in {"out", "dir", "fifo", "alarm", "rmdir"} =>
    fifo = <<>> /\ \A t \in LogTasks : tpc[t] = "idle"

\* inflag is off only while some cleaner has yet to set it again.
OpenInv ==
  "fifo" \in have /\ ~inflag =>
    \E t \in LogCleaners : tpc[t] \in {"len", "take", "open"}

\* A writer that nobody disturbs finds the room it saw, and a record to
\* displace where it saw no room.
RoomInv ==
  /\ lost \subseteq raced
  /\ \A t \in LogWriters \ raced :
       /\ tpc[t] = "out" => fifo # <<>>
       /\ tpc[t] = "in" => Len(fifo) < FifoSize

CoreInd ==
  CoreTypeOK /\ HoldInv /\ OwnerInv /\ DriverInv /\ QuietInv /\ OpenInv /\ RoomInv
----------------------------------------------------------------------------
(* The operators of the model.                                              *)

LEMMA StepsInOrder ==
  /\ StepAfter("dir") = "fifo" /\ StepAfter("fifo") = "alarm"
  /\ StepAfter("alarm") = "ring" /\ StepAfter("ring") = "chrdev"
  /\ StepAfter("chrdev") = "class" /\ StepAfter("class") = "device"
  /\ StepAfter("device") = "up"
<1> DEFINE At(s) == CHOOSE j \in DOMAIN StartOrder : StartOrder[j] = s
<1>1. DOMAIN StartOrder = 1 .. 7 /\ Len(StartOrder) = 7
  BY DEF StartOrder
<1>2. /\ At("dir") = 1 /\ At("fifo") = 2 /\ At("alarm") = 3 /\ At("ring") = 4
      /\ At("chrdev") = 5 /\ At("class") = 6 /\ At("device") = 7
  <2>1. \A j \in 1 .. 7 : j \in {1, 2, 3, 4, 5, 6, 7}
    OBVIOUS
  <2> QED BY <1>1, <2>1 DEF StartOrder
<1>3. \A s : StepAfter(s) = IF At(s) = 7 THEN "up" ELSE StartOrder[At(s) + 1]
  BY <1>1 DEF StepAfter
<1> QED BY <1>2, <1>3 DEF StartOrder

\* What a queue holds once its head is taken or an element is appended.
LEMMA QueueTail ==
  ASSUME NEW S, NEW q \in Seq(S), q # <<>>,
         \A i, j \in DOMAIN q : q[i] = q[j] => i = j
  PROVE  /\ Tail(q) \in Seq(S) /\ Len(Tail(q)) = Len(q) - 1
         /\ Head(q) \in {q[i] : i \in DOMAIN q}
         /\ {Tail(q)[i] : i \in DOMAIN Tail(q)} = {q[i] : i \in DOMAIN q} \ {Head(q)}
         /\ \A i, j \in DOMAIN Tail(q) : Tail(q)[i] = Tail(q)[j] => i = j
<1>1. Len(q) \in Nat /\ Len(q) > 0 /\ DOMAIN q = 1 .. Len(q) /\ Head(q) = q[1]
  OBVIOUS
<1>2. /\ Tail(q) \in Seq(S) /\ Len(Tail(q)) = Len(q) - 1
      /\ DOMAIN Tail(q) = 1 .. (Len(q) - 1)
      /\ \A i \in 1 .. (Len(q) - 1) : Tail(q)[i] = q[i + 1]
  BY <1>1
<1>3. {Tail(q)[i] : i \in DOMAIN Tail(q)} \subseteq {q[i] : i \in DOMAIN q} \ {Head(q)}
  BY <1>1, <1>2
<1>4. ASSUME NEW i \in DOMAIN q, q[i] # Head(q)
      PROVE  q[i] \in {Tail(q)[j] : j \in DOMAIN Tail(q)}
  <2>1. i - 1 \in 1 .. (Len(q) - 1) /\ (i - 1) + 1 = i
    BY <1>1, <1>4
  <2> QED BY <1>2, <2>1
<1> QED BY <1>1, <1>2, <1>3, <1>4

LEMMA QueueAppend ==
  ASSUME NEW S, NEW q \in Seq(S), NEW e \in S,
         \A i, j \in DOMAIN q : q[i] = q[j] => i = j,
         e \notin {q[i] : i \in DOMAIN q}
  PROVE  /\ Append(q, e) \in Seq(S) /\ Len(Append(q, e)) = Len(q) + 1
         /\ {Append(q, e)[i] : i \in DOMAIN Append(q, e)} = {q[i] : i \in DOMAIN q} \cup {e}
         /\ \A i, j \in DOMAIN Append(q, e) : Append(q, e)[i] = Append(q, e)[j] => i = j
<1>1. Len(q) \in Nat /\ DOMAIN q = 1 .. Len(q)
  OBVIOUS
<1>2. /\ Append(q, e) \in Seq(S) /\ Len(Append(q, e)) = Len(q) + 1
      /\ DOMAIN Append(q, e) = 1 .. (Len(q) + 1)
      /\ \A i \in 1 .. Len(q) : Append(q, e)[i] = q[i]
      /\ Append(q, e)[Len(q) + 1] = e
  OBVIOUS
<1>3. {Append(q, e)[i] : i \in DOMAIN Append(q, e)} = {q[i] : i \in DOMAIN q} \cup {e}
  <2>1. \A i \in 1 .. (Len(q) + 1) : i \in 1 .. Len(q) \/ i = Len(q) + 1
    BY <1>1
  <2>2. 1 .. Len(q) \subseteq 1 .. (Len(q) + 1) /\ Len(q) + 1 \in 1 .. (Len(q) + 1)
    BY <1>1
  <2> QED BY <1>1, <1>2, <2>1, <2>2
<1> QED BY <1>1, <1>2, <1>3

\* As many records as places.
LEMMA QueueCounts ==
  ASSUME NEW S, NEW q \in Seq(S), \A i, j \in DOMAIN q : q[i] = q[j] => i = j
  PROVE  Cardinality({q[i] : i \in DOMAIN q}) = Len(q)
<1> DEFINE T == {q[i] : i \in DOMAIN q}
<1>1. Len(q) \in Nat /\ DOMAIN q = 1 .. Len(q)
  OBVIOUS
<1>2. q \in [1 .. Len(q) -> T]
  BY <1>1
<1>3. q \in Bijection(1 .. Len(q), T)
  BY <1>1, <1>2 DEF Bijection, Injection, Surjection, IsInjective
<1>4. ExistsBijection(1 .. Len(q), T)
  BY <1>3 DEF ExistsBijection
<1> QED BY <1>1, <1>4, FS_CountingElements

----------------------------------------------------------------------------
(* Who owns a record.                                                       *)

LEMMA OthersKeepOwners ==
  ASSUME OwnerInv, UNCHANGED <<fifo, mem, rec, written>>
  PROVE  OwnerInv'
  BY DEF OwnerInv, Distinct, InFifo

LEMMA MemRange == ASSUME CoreTypeOK, OwnerInv PROVE NoRec \notin mem /\ NoRec \notin InFifo
  BY DEF OwnerInv, CoreTypeOK, NoRec

LEMMA TakeKeepsOwners ==
  ASSUME CoreTypeOK, OwnerInv, NEW t \in LogTasks, rec[t] = NoRec, TakeOldest(t),
         UNCHANGED <<mem, written>>
  PROVE  /\ OwnerInv' /\ fifo' \in Seq(1 .. MaxWrites) /\ Len(fifo') = Len(fifo) - 1
         /\ rec'[t] \in 1 .. MaxWrites
<1> DEFINE r == Head(fifo)
<1>1. /\ fifo # <<>> /\ fifo \in Seq(1 .. MaxWrites)
      /\ fifo' = Tail(fifo) /\ rec' = [rec EXCEPT ![t] = r]
      /\ \A i, j \in DOMAIN fifo : fifo[i] = fifo[j] => i = j
  BY DEF TakeOldest, Hold, CoreTypeOK, OwnerInv, Distinct
<1>2. /\ Tail(fifo) \in Seq(1 .. MaxWrites) /\ Len(Tail(fifo)) = Len(fifo) - 1
      /\ r \in {fifo[i] : i \in DOMAIN fifo}
      /\ {Tail(fifo)[i] : i \in DOMAIN Tail(fifo)} = {fifo[i] : i \in DOMAIN fifo} \ {r}
      /\ \A i, j \in DOMAIN Tail(fifo) : Tail(fifo)[i] = Tail(fifo)[j] => i = j
  BY ONLY <1>1, QueueTail
<1>3. r \in InFifo /\ InFifo' = InFifo \ {r} /\ Distinct'
  BY <1>1, <1>2 DEF Distinct, InFifo
<1> HIDE DEF r
<1>4. r \in mem /\ r # NoRec /\ r \in 1 .. MaxWrites
  BY <1>3, MemRange DEF OwnerInv, CoreTypeOK, NoRec
<1>5. \A u \in LogTasks : rec[u] # r
  BY <1>3, <1>4 DEF OwnerInv
<1>6. rec'[t] = r /\ \A u \in LogTasks \ {t} : rec'[u] = rec[u]
  BY <1>1 DEF CoreTypeOK
<1>7. \A x \in mem' : x \in InFifo' \/ \E u \in LogTasks : rec'[u] = x
  BY <1>3, <1>6, MemRange DEF OwnerInv
<1>8. mem' \subseteq 1 .. written' /\ InFifo' \subseteq mem'
  BY <1>3 DEF OwnerInv
<1>9. \A u \in LogTasks : rec'[u] # NoRec => rec'[u] \in mem' /\ rec'[u] \notin InFifo'
  BY <1>3, <1>4, <1>6 DEF OwnerInv
<1>10. \A u, v \in LogTasks : u # v /\ rec'[u] = rec'[v] => rec'[u] = NoRec
  BY <1>5, <1>6 DEF OwnerInv
<1> QED BY <1>1, <1>2, <1>3, <1>4, <1>6, <1>7, <1>8, <1>9, <1>10 DEF OwnerInv

LEMMA PutKeepsOwners ==
  ASSUME CoreTypeOK, OwnerInv, NEW t \in LogTasks, rec[t] # NoRec,
         fifo' = Append(fifo, rec[t]), Hold(t, NoRec), UNCHANGED <<mem, written>>
  PROVE  OwnerInv' /\ fifo' \in Seq(1 .. MaxWrites) /\ Len(fifo') = Len(fifo) + 1
<1> DEFINE r == rec[t]
<1>1. r \in 1 .. MaxWrites /\ r \in mem /\ r \notin InFifo
  BY DEF OwnerInv, CoreTypeOK
<1>2. /\ fifo \in Seq(1 .. MaxWrites) /\ r \notin {fifo[i] : i \in DOMAIN fifo}
      /\ \A i, j \in DOMAIN fifo : fifo[i] = fifo[j] => i = j
  BY <1>1 DEF OwnerInv, Distinct, InFifo, CoreTypeOK
<1> HIDE DEF r
<1>3. /\ Append(fifo, r) \in Seq(1 .. MaxWrites) /\ Len(Append(fifo, r)) = Len(fifo) + 1
      /\ {Append(fifo, r)[i] : i \in DOMAIN Append(fifo, r)}
           = {fifo[i] : i \in DOMAIN fifo} \cup {r}
      /\ \A i, j \in DOMAIN Append(fifo, r) : Append(fifo, r)[i] = Append(fifo, r)[j] => i = j
  BY ONLY <1>1, <1>2, QueueAppend
<1>4. InFifo' = InFifo \cup {r} /\ Distinct'
  BY <1>3 DEF InFifo, Distinct, r
<1>5. rec'[t] = NoRec /\ \A u \in LogTasks \ {t} : rec'[u] = rec[u]
  BY DEF Hold, CoreTypeOK
<1>6. \A x \in mem' : x \in InFifo' \/ \E u \in LogTasks : rec'[u] = x
  BY <1>4, <1>5 DEF OwnerInv, r
<1>7. mem' \subseteq 1 .. written' /\ InFifo' \subseteq mem'
  BY <1>1, <1>4 DEF OwnerInv
<1>8. \A u \in LogTasks : rec'[u] # NoRec => rec'[u] \in mem' /\ rec'[u] \notin InFifo'
  BY <1>4, <1>5 DEF OwnerInv, r
<1>9. \A u, v \in LogTasks : u # v /\ rec'[u] = rec'[v] => rec'[u] = NoRec
  BY <1>5 DEF OwnerInv
<1> QED BY <1>3, <1>4, <1>6, <1>7, <1>8, <1>9 DEF OwnerInv, r

LEMMA FreeKeepsOwners ==
  ASSUME CoreTypeOK, OwnerInv, NEW t \in LogTasks, Kfree(t), Hold(t, NoRec),
         UNCHANGED <<fifo, written>>
  PROVE  OwnerInv'
<1>1. mem' = mem \ {rec[t]} /\ InFifo' = InFifo
  BY DEF Kfree, InFifo
<1>2. rec'[t] = NoRec /\ \A u \in LogTasks \ {t} : rec'[u] = rec[u]
  BY DEF Hold, CoreTypeOK
<1>3. rec[t] \notin InFifo
  BY MemRange DEF OwnerInv, NoRec
<1>4. \A x \in mem' : x \in InFifo' \/ \E u \in LogTasks : rec'[u] = x
  BY <1>1, <1>2 DEF OwnerInv
<1>5. mem' \subseteq 1 .. written' /\ InFifo' \subseteq mem' /\ Distinct'
  BY <1>1, <1>3 DEF OwnerInv, Distinct
<1>6. \A u \in LogTasks : rec'[u] # NoRec => rec'[u] \in mem' /\ rec'[u] \notin InFifo'
  BY <1>1, <1>2 DEF OwnerInv
<1>7. \A u, v \in LogTasks : u # v /\ rec'[u] = rec'[v] => rec'[u] = NoRec
  BY <1>2 DEF OwnerInv
<1> QED BY <1>4, <1>5, <1>6, <1>7 DEF OwnerInv

LEMMA AllocKeepsOwners ==
  ASSUME CoreTypeOK, OwnerInv, NEW t \in LogTasks, Room(t)
  PROVE  OwnerInv'
<1> DEFINE n == written + 1
<1>1. /\ written' = n /\ mem' = (mem \ {rec[t]}) \cup {n} /\ InFifo' = InFifo
      /\ fifo' = fifo /\ rec' = [rec EXCEPT ![t] = n]
  BY DEF Room, Hold, InFifo
<1>2. rec'[t] = n /\ \A u \in LogTasks \ {t} : rec'[u] = rec[u]
  BY <1>1 DEF CoreTypeOK
<1>3. written \in Nat /\ n \notin mem /\ n # NoRec /\ 1 .. written \subseteq 1 .. n
      /\ n \in 1 .. n
  BY CoreAssumption DEF OwnerInv, CoreTypeOK, NoRec
<1>4. rec[t] \notin InFifo /\ n \notin InFifo /\ \A u \in LogTasks : rec[u] # n
  BY <1>3, MemRange DEF OwnerInv, NoRec
<1>5. \A x \in mem' : x \in InFifo' \/ \E u \in LogTasks : rec'[u] = x
  <2> SUFFICES ASSUME NEW x \in mem', x \notin InFifo'
               PROVE  \E u \in LogTasks : rec'[u] = x
    OBVIOUS
  <2>1. CASE x = n
    BY <1>2, <2>1
  <2>2. CASE x # n
    <3>1. x \in mem /\ x # rec[t] /\ x \notin InFifo
      BY <1>1, <2>2
    <3>2. PICK u \in LogTasks : rec[u] = x
      BY <3>1 DEF OwnerInv
    <3> QED BY <1>2, <3>1, <3>2
  <2> QED BY <2>1, <2>2
<1>6. Distinct' /\ mem' \subseteq 1 .. written' /\ InFifo' \subseteq mem'
  BY <1>1, <1>3, <1>4 DEF OwnerInv, Distinct
<1>7. \A u \in LogTasks : rec'[u] # NoRec => rec'[u] \in mem' /\ rec'[u] \notin InFifo'
  BY <1>1, <1>2, <1>4 DEF OwnerInv
<1>8. \A u, v \in LogTasks : u # v /\ rec'[u] = rec'[v] => rec'[u] = NoRec
  BY <1>2, <1>4 DEF OwnerInv
<1> QED BY <1>5, <1>6, <1>7, <1>8 DEF OwnerInv
----------------------------------------------------------------------------
(* Steps on the log.                                                        *)

\* Whoever is at work in the log, or may begin, finds the log in place.
LEMMA LogInUse ==
  ASSUME DriverInv, QuietInv, NEW t \in LogTasks,
         tpc[t] # "idle" \/ dpc = "up" \/ "alarm" \in have,
         UNCHANGED dpc
  PROVE  QuietInv'
<1>1. dpc \notin {"out", "dir", "fifo", "alarm", "rmdir"}
  <2>1. CASE tpc[t] # "idle"
    BY <2>1 DEF QuietInv
  <2>2. CASE "alarm" \in have
    BY <2>2 DEF DriverInv, HaveAt, StartSteps
  <2> QED BY <2>1, <2>2
<1> QED BY <1>1 DEF QuietInv

\* Only cleaners turn inflag off, and the cleaner that did has a step to go.
LEMMA OthersKeepOpen ==
  ASSUME OpenInv, UNCHANGED <<have, inflag>>,
         \A t \in LogCleaners : tpc'[t] = tpc[t]
  PROVE  OpenInv'
  BY DEF OpenInv

\* A task that changes the fifo marks all writers but itself.
LEMMA RaceKeepsRoom ==
  ASSUME RoomInv, NEW t \in LogTasks, Races(t), UNCHANGED lost,
         tpc'[t] \notin {"out", "in"}
  PROVE  RoomInv'
  BY DEF RoomInv, Races

LEMMA CalmKeepsRoom ==
  ASSUME RoomInv, NEW t \in LogTasks, UNCHANGED <<fifo, raced, lost>>,
         \A u \in LogTasks \ {t} : tpc'[u] = tpc[u],
         tpc'[t] = "out" => fifo # <<>>,
         tpc'[t] = "in" => Len(fifo) < FifoSize
  PROVE  RoomInv'
  BY DEF RoomInv, LogTasks

LEMMA OthersKeepHold ==
  ASSUME CoreTypeOK, HoldInv, NEW t \in LogTasks, NEW s, NEW r,
         Goto(t, s), (rec' = rec /\ r = rec[t]) \/ Hold(t, r),
         s \in {"idle", "out", "read", "close", "take", "open"} => r = NoRec,
         s = "in" => r # NoRec
  PROVE  HoldInv'
<1>1. tpc'[t] = s /\ rec'[t] = r
  BY DEF Goto, Hold, CoreTypeOK
<1>2. \A u \in LogTasks \ {t} : tpc'[u] = tpc[u] /\ rec'[u] = rec[u]
  BY DEF Goto, Hold, CoreTypeOK
<1> QED BY <1>1, <1>2 DEF HoldInv

LEMMA Steps ==
  ASSUME CoreTypeOK, NEW t \in LogTasks, NEW s, Goto(t, s)
  PROVE  tpc'[t] = s /\ \A u \in LogTasks \ {t} : tpc'[u] = tpc[u]
  BY DEF Goto, CoreTypeOK

LEMMA TaskKinds ==
  /\ LogWriters \subseteq LogTasks /\ LogReaders \subseteq LogTasks
  /\ LogCleaners \subseteq LogTasks
  /\ LogCleaners \cap (LogWriters \cup LogReaders) = {}
  /\ LogWriters \cap LogReaders = {}
  BY CoreAssumption DEF LogTasks

LEMMA GotoType ==
  ASSUME CoreTypeOK, NEW t \in LogTasks,
         NEW s \in {"idle", "avail", "out", "in", "read", "copy",
                    "close", "len", "take", "open"},
         Goto(t, s)
  PROVE  tpc' \in [LogTasks -> {"idle", "avail", "out", "in", "read", "copy",
                                "close", "len", "take", "open"}]
  BY DEF Goto, CoreTypeOK

LEMMA FreeTypes ==
  ASSUME CoreTypeOK, NEW t \in LogTasks, Kfree(t), Hold(t, NoRec)
  PROVE  mem' \subseteq 1 .. MaxWrites /\ rec' \in [LogTasks -> 0 .. MaxWrites]
<1>1. NoRec \in 0 .. MaxWrites
  BY CoreAssumption DEF NoRec
<1> QED BY <1>1 DEF Kfree, Hold, CoreTypeOK

LEMMA WriterTypes ==
  ASSUME CoreInd, NEW t \in LogWriters, UNCHANGED <<dpc, have, starts>>,
         \/ WriteStart(t) \/ NoRoom(t) \/ Room(t) \/ NoMemory(t) \/ Displace(t)
         \/ NothingToDisplace(t) \/ WriteIn(t) \/ WriteRefused(t)
  PROVE  CoreTypeOK' /\ HoldInv' /\ OwnerInv'
<1> USE TaskKinds DEF CoreInd
<1>0. t \in LogTasks /\ CoreTypeOK /\ HoldInv /\ OwnerInv
  OBVIOUS
<1>1. CASE WriteStart(t)
  <2>1. CoreTypeOK'
    BY <1>1 DEF WriteStart, Goto, CoreTypeOK
  <2>2. rec[t] = NoRec /\ Goto(t, "avail") /\ UNCHANGED <<fifo, mem, rec, written>>
    BY <1>0, <1>1 DEF WriteStart, HoldInv
  <2> QED BY <1>0, <2>1, <2>2, OthersKeepHold, OthersKeepOwners
<1>2. CASE NoRoom(t) \/ NoMemory(t) \/ WriteRefused(t)
  <2>1. /\ Kfree(t) /\ Hold(t, NoRec)
        /\ Goto(t, "out") \/ Goto(t, "idle")
        /\ UNCHANGED <<fifo, inflag, written, raced>> /\ lost' \in {lost, lost \cup {t}}
    BY <1>2 DEF NoRoom, NoMemory, WriteRefused
  <2>2. CoreTypeOK'
    BY <1>0, <2>1, FreeTypes, GotoType DEF CoreTypeOK
  <2>3. HoldInv'
    BY <1>0, <2>1, OthersKeepHold
  <2> QED BY <1>0, <2>1, <2>2, <2>3, FreeKeepsOwners
<1>3. CASE Room(t)
  <2>1. written + 1 \in 1 .. MaxWrites /\ written + 1 \in 0 .. MaxWrites
    BY <1>0, <1>3, CoreAssumption DEF Room, CoreTypeOK
  <2>2. CoreTypeOK'
    BY <1>0, <1>3, <2>1 DEF Room, Goto, Hold, CoreTypeOK
  <2>3. Goto(t, "in") /\ Hold(t, written + 1) /\ written + 1 # NoRec
    BY <1>3, <2>1 DEF Room, NoRec
  <2>4. HoldInv'
    BY <1>0, <2>3, OthersKeepHold
  <2> QED BY <1>0, <1>3, <2>2, <2>4, AllocKeepsOwners
<1>4. CASE Displace(t)
  <2>1. rec[t] = NoRec /\ TakeOldest(t) /\ Goto(t, "avail")
        /\ UNCHANGED <<inflag, mem, written, lost>>
    BY <1>0, <1>4 DEF Displace, HoldInv
  <2>2. /\ OwnerInv' /\ fifo' \in Seq(1 .. MaxWrites) /\ Len(fifo') = Len(fifo) - 1
        /\ rec'[t] \in 1 .. MaxWrites
    BY <1>0, <2>1, TakeKeepsOwners
  <2>3. Hold(t, Head(fifo)) /\ rec'[t] = Head(fifo)
    BY <1>0, <2>1 DEF TakeOldest, Hold, CoreTypeOK
  <2>4. CoreTypeOK'
    BY <1>0, <2>1, <2>2, <2>3, CoreAssumption DEF TakeOldest, Races, Goto, Hold, CoreTypeOK
  <2>5. HoldInv'
    BY <1>0, <2>1, <2>3, OthersKeepHold
  <2> QED BY <2>2, <2>4, <2>5
<1>5. CASE NothingToDisplace(t)
  <2>1. CoreTypeOK'
    BY <1>5 DEF NothingToDisplace, Goto, CoreTypeOK
  <2>2. rec[t] = NoRec /\ Goto(t, "idle") /\ UNCHANGED <<fifo, mem, rec, written>>
    BY <1>0, <1>5 DEF NothingToDisplace, HoldInv
  <2> QED BY <1>0, <2>1, <2>2, OthersKeepHold, OthersKeepOwners
<1>6. CASE WriteIn(t)
  <2>1. /\ rec[t] # NoRec /\ fifo' = Append(fifo, rec[t]) /\ Hold(t, NoRec)
        /\ Goto(t, "idle") /\ Races(t) /\ UNCHANGED <<inflag, mem, written, lost>>
        /\ Len(fifo) < FifoSize
    BY <1>0, <1>6 DEF WriteIn, HoldInv
  <2>2. OwnerInv' /\ fifo' \in Seq(1 .. MaxWrites) /\ Len(fifo') = Len(fifo) + 1
    BY <1>0, <2>1, PutKeepsOwners
  <2>3. CoreTypeOK'
    BY <1>0, <2>1, <2>2, CoreAssumption DEF Races, Goto, Hold, CoreTypeOK, NoRec
  <2>4. HoldInv'
    BY <1>0, <2>1, OthersKeepHold
  <2> QED BY <2>2, <2>3, <2>4
<1> QED BY <1>1, <1>2, <1>3, <1>4, <1>5, <1>6

LEMMA ReaderTypes ==
  ASSUME CoreInd, NEW t \in LogTasks, UNCHANGED <<dpc, have, starts>>,
         \/ ReadStart(t) \/ ReadOut(t) \/ ReadCopy(t) \/ CleanStart(t) \/ CleanStep(t)
  PROVE  CoreTypeOK' /\ HoldInv' /\ OwnerInv'
<1> USE DEF CoreInd
<1>1. CASE TakeOldest(t) /\ (ReadOut(t) \/ CleanTake(t))
  <2>1. /\ rec[t] = NoRec
        /\ Goto(t, "copy") \/ Goto(t, "len")
        /\ UNCHANGED <<inflag, mem, written, lost>>
    BY <1>1 DEF ReadOut, CleanTake, HoldInv, TakeOldest
  <2>2. /\ OwnerInv' /\ fifo' \in Seq(1 .. MaxWrites) /\ Len(fifo') = Len(fifo) - 1
        /\ rec'[t] \in 1 .. MaxWrites
    BY <1>1, <2>1, TakeKeepsOwners
  <2>3. Hold(t, Head(fifo)) /\ rec'[t] = Head(fifo)
    BY <1>1 DEF TakeOldest, Hold, CoreTypeOK
  <2>4. tpc' \in [LogTasks -> {"idle", "avail", "out", "in", "read", "copy",
                               "close", "len", "take", "open"}]
    BY <2>1 DEF Goto, CoreTypeOK
  <2>5. CoreTypeOK'
    <3>1. rec' \in [LogTasks -> 0 .. MaxWrites]
      BY <2>2, <2>3, CoreAssumption DEF Hold, CoreTypeOK
    <3>2. Len(fifo') <= FifoSize /\ raced' \subseteq LogWriters
      BY <1>1, <2>2, CoreAssumption DEF TakeOldest, Races, CoreTypeOK
    <3> QED BY <2>1, <2>2, <2>4, <3>1, <3>2 DEF CoreTypeOK
  <2>6. HoldInv'
    BY <2>1, <2>3, OthersKeepHold
  <2> QED BY <2>2, <2>5, <2>6
<1>2. CASE ReadCopy(t) \/ CleanLen(t)
  <2>1. /\ Kfree(t) /\ Hold(t, NoRec)
        /\ Goto(t, "idle") \/ Goto(t, "open") \/ Goto(t, "take")
        /\ UNCHANGED <<fifo, inflag, written, raced, lost>>
    BY <1>2 DEF ReadCopy, CleanLen
  <2>2. CoreTypeOK'
    BY <2>1, FreeTypes, GotoType DEF CoreTypeOK
  <2>3. HoldInv'
    BY <2>1, OthersKeepHold
  <2> QED BY <2>1, <2>2, <2>3, FreeKeepsOwners
<1>3. CASE ~TakeOldest(t) /\ ~ReadCopy(t) /\ ~CleanLen(t)
  <2>1. /\ tpc[t] \in {"idle", "read", "close", "take", "open"}
        /\ \/ Goto(t, "idle") \/ Goto(t, "read") \/ Goto(t, "close") \/ Goto(t, "len")
        /\ inflag' \in {inflag, TRUE, FALSE}
        /\ UNCHANGED <<fifo, mem, written, rec, raced, lost>>
    BY <1>3 DEF ReadStart, ReadOut, CleanStart, CleanStep, CleanClose, CleanTake,
       CleanFails, CleanOpen
  <2>2. rec[t] = NoRec
    BY <2>1 DEF HoldInv
  <2>3. CoreTypeOK'
    BY <2>1 DEF Goto, CoreTypeOK
  <2>4. HoldInv'
    BY <2>1, <2>2, OthersKeepHold
  <2> QED BY <2>1, <2>3, <2>4, OthersKeepOwners
<1>4. TakeOldest(t) => ReadOut(t) \/ CleanTake(t) \/ ReadCopy(t) \/ CleanLen(t)
  BY DEF TakeOldest, ReadStart, CleanStart, CleanStep, CleanClose, CleanFails, CleanOpen,
     CoreTypeOK
<1> QED BY <1>1, <1>2, <1>3, <1>4
LEMMA LogKeepsRest ==
  ASSUME CoreInd, LogStep, UNCHANGED <<dpc, have, starts>>
  PROVE  DriverInv' /\ QuietInv' /\ OpenInv' /\ RoomInv'
<1> USE TaskKinds DEF CoreInd
<1>0. CoreTypeOK /\ DriverInv /\ QuietInv /\ OpenInv /\ RoomInv
  OBVIOUS
<1>1. DriverInv'
  BY DEF DriverInv, HaveAt
<1>2. ASSUME NEW t \in LogWriters,
             \/ WriteStart(t) \/ NoRoom(t) \/ Room(t) \/ NoMemory(t) \/ Displace(t)
             \/ NothingToDisplace(t) \/ WriteIn(t) \/ WriteRefused(t)
      PROVE  QuietInv' /\ OpenInv' /\ RoomInv'
  <2>1. PICK s \in {"idle", "avail", "out", "in"} : Goto(t, s)
    BY <1>2 DEF WriteStart, NoRoom, Room, NoMemory, Displace, NothingToDisplace, WriteIn,
       WriteRefused
  <2>2. tpc'[t] = s /\ \A u \in LogTasks \ {t} : tpc'[u] = tpc[u]
    BY <1>0, <2>1, Steps
  <2>3. QuietInv'
    <3>1. tpc[t] # "idle" \/ dpc = "up"
      BY <1>2 DEF WriteStart, NoRoom, Room, NoMemory, Displace, NothingToDisplace, WriteIn,
         WriteRefused
    <3> QED BY <1>0, <3>1, LogInUse
  <2>4. OpenInv'
    <3>1. UNCHANGED inflag
      BY <1>2 DEF WriteStart, NoRoom, Room, NoMemory, Displace, NothingToDisplace, WriteIn,
         WriteRefused
    <3>2. \A u \in LogCleaners : tpc'[u] = tpc[u]
      BY <2>2
    <3> QED BY <1>0, <3>1, <3>2, OthersKeepOpen
  <2>5. CASE WriteStart(t)
    <3>1. tpc'[t] = "avail" /\ UNCHANGED fifo
      BY <1>0, <2>5, Steps DEF WriteStart
    <3>2. raced' = raced \ {t} /\ lost' = lost \ {t}
      BY <2>5 DEF WriteStart
    <3>3. RoomInv'
      BY <2>2, <3>1, <3>2 DEF RoomInv
    <3> QED BY <2>3, <2>4, <3>3
  <2>6. CASE NoRoom(t)
    <3>1. fifo # <<>>
      BY <2>6, CoreAssumption DEF NoRoom, HasAvail
    <3>2. tpc'[t] = "out" /\ UNCHANGED <<fifo, raced, lost>>
      BY <1>0, <2>6, Steps DEF NoRoom
    <3> QED BY <1>0, <2>2, <2>3, <2>4, <3>1, <3>2, CalmKeepsRoom
  <2>7. CASE Room(t) \/ NoMemory(t)
    <3>1. Len(fifo) < FifoSize /\ tpc'[t] # "out" /\ UNCHANGED <<fifo, raced, lost>>
      BY <1>0, <2>7, Steps DEF Room, NoMemory, HasAvail
    <3> QED BY <1>0, <2>2, <2>3, <2>4, <3>1, CalmKeepsRoom
  <2>8. CASE Displace(t) \/ WriteIn(t)
    <3>1. Races(t) /\ UNCHANGED lost /\ tpc'[t] \notin {"out", "in"}
      BY <1>0, <2>8, Steps DEF Displace, WriteIn, TakeOldest
    <3> QED BY <1>0, <2>3, <2>4, <3>1, RaceKeepsRoom
  <2>9. CASE NothingToDisplace(t) \/ WriteRefused(t)
    <3>1. t \in raced
      BY <1>0, <2>9 DEF NothingToDisplace, WriteRefused, RoomInv, CoreTypeOK
    <3>2. tpc'[t] = "idle" /\ lost' = lost \cup {t} /\ UNCHANGED <<fifo, raced>>
      BY <1>0, <2>9, Steps DEF NothingToDisplace, WriteRefused
    <3>3. RoomInv'
      BY <2>2, <3>1, <3>2 DEF RoomInv
    <3> QED BY <2>3, <2>4, <3>3
  <2> QED BY <1>2, <2>5, <2>6, <2>7, <2>8, <2>9
<1>3. ASSUME NEW t \in LogReaders \cup LogCleaners,
             \/ t \in LogReaders /\ (ReadStart(t) \/ ReadOut(t) \/ ReadCopy(t))
             \/ t \in LogCleaners /\ (CleanStart(t) \/ CleanStep(t))
      PROVE  QuietInv' /\ OpenInv' /\ RoomInv'
  <2>1. PICK s \in {"idle", "read", "copy", "close", "len", "take", "open"} : Goto(t, s)
    BY <1>3 DEF ReadStart, ReadOut, ReadCopy, CleanStart, CleanStep, CleanClose, CleanLen,
       CleanTake, CleanFails, CleanOpen
  <2>2. t \in LogTasks /\ tpc'[t] = s /\ \A u \in LogTasks \ {t} : tpc'[u] = tpc[u]
    BY <1>0, <2>1, Steps
  <2>3. QuietInv'
    <3>1. tpc[t] # "idle" \/ "alarm" \in have
      BY <1>3 DEF ReadStart, ReadOut, ReadCopy, CleanStart, CleanStep, CleanClose, CleanLen,
         CleanTake, CleanFails, CleanOpen
    <3> QED BY <1>0, <2>2, <3>1, LogInUse
  <2>4. RoomInv'
    <3>1. lost' = lost /\ (Races(t) \/ UNCHANGED <<fifo, raced>>)
      BY <1>3 DEF ReadStart, ReadOut, ReadCopy, CleanStart, CleanStep, CleanClose, CleanLen,
         CleanTake, CleanFails, CleanOpen, TakeOldest
    <3>2. tpc'[t] \notin {"out", "in"}
      BY <2>2
    <3>3. CASE Races(t)
      BY <1>0, <2>2, <3>1, <3>2, <3>3, RaceKeepsRoom
    <3>4. CASE UNCHANGED <<fifo, raced>>
      BY <1>0, <2>2, <3>1, <3>2, <3>4, CalmKeepsRoom
    <3> QED BY <3>1, <3>3, <3>4
  <2>5. OpenInv'
    <3>1. CASE t \in LogReaders
      <4>1. UNCHANGED inflag
        BY <1>3, <3>1 DEF ReadStart, ReadOut, ReadCopy
      <4>2. \A u \in LogCleaners : tpc'[u] = tpc[u]
        BY <2>2, <3>1
      <4> QED BY <1>0, <4>1, <4>2, OthersKeepOpen
    <3>2. CASE t \in LogCleaners
      <4>1. CASE CleanStart(t)
        <5>1. inflag /\ UNCHANGED inflag
          BY <4>1 DEF CleanStart
        <5> QED BY <5>1 DEF OpenInv
      <4>2. CASE CleanClose(t) \/ CleanLen(t) \/ CleanTake(t)
        <5>1. tpc'[t] \in {"len", "take", "open"}
          BY <1>0, <2>2, <4>2, Steps DEF CleanClose, CleanLen, CleanTake
        <5> QED BY <3>2, <5>1 DEF OpenInv
      <4>3. CASE CleanFails(t) \/ CleanOpen(t)
        <5>1. inflag' = TRUE
          BY <4>3 DEF CleanFails, CleanOpen
        <5> QED BY <5>1 DEF OpenInv
      <4> QED BY <1>3, <3>2, <4>1, <4>2, <4>3 DEF CleanStep
    <3> QED BY <3>1, <3>2
  <2> QED BY <2>3, <2>4, <2>5
<1> QED BY <1>1, <1>2, <1>3 DEF LogStep

----------------------------------------------------------------------------
(* Steps of the driver.                                                     *)

LEMMA CoreTypesKept ==
  ASSUME CoreTypeOK, DriverInv, CoreStep
  PROVE  CoreTypeOK' /\ DriverInv'
<1> USE DEF logVars
<1>1. CASE Load
  BY <1>1, CoreAssumption DEF Load, CoreTypeOK, DriverInv, HaveAt, StartSteps
<1>2. ASSUME NEW s \in StartSteps, StartOk(s) PROVE CoreTypeOK' /\ DriverInv'
  <2>1. /\ dpc = s /\ have' = have \cup {s} /\ dpc' = StepAfter(s)
        /\ inflag' \in BOOLEAN
        /\ UNCHANGED <<starts, fifo, mem, written, tpc, rec, raced, lost>>
    BY <1>2 DEF StartOk, CoreTypeOK
  <2>2. dpc' \in StartSteps \cup {"up"} /\ have' \subseteq StartSteps
    BY <2>1, StepsInOrder DEF StartSteps, CoreTypeOK
  <2>3. CoreTypeOK'
    BY <2>1, <2>2 DEF CoreTypeOK
  <2>4. DriverInv'
    BY <2>1, StepsInOrder DEF DriverInv, HaveAt, StartSteps
  <2> QED BY <2>3, <2>4
<1>3. CASE RingFails
  <2>1. dpc = "ring" /\ dpc' = "chrdev" /\ UNCHANGED <<have, starts, logVars>>
    BY <1>3, StepsInOrder DEF RingFails
  <2> QED BY <2>1 DEF CoreTypeOK, DriverInv, HaveAt, StartSteps
<1>4. ASSUME NEW s \in StartSteps, StartFails(s) PROVE CoreTypeOK' /\ DriverInv'
  <2>1. /\ dpc = s /\ s # "ring" /\ have' = have \ Undo(s)
        /\ inflag' \in BOOLEAN
        /\ UNCHANGED <<starts, fifo, mem, written, tpc, rec, raced, lost>>
    BY <1>4 DEF StartFails, CoreTypeOK
  <2>2. \/ s = "dir" /\ dpc' = "out" /\ Undo(s) = {}
        \/ s = "fifo" /\ dpc' = "rmdir" /\ Undo(s) = {}
        \/ s = "alarm" /\ dpc' = "rmdir" /\ Undo(s) = {"fifo"}
        \/ s = "chrdev" /\ dpc' \in {"destroy", "oops"} /\ Undo(s) = {"ring"}
        \/ s = "class" /\ dpc' \in {"destroy", "oops"} /\ Undo(s) = {"ring", "chrdev"}
        \/ /\ s = "device" /\ dpc' \in {"destroy", "oops"}
           /\ Undo(s) = {"ring", "chrdev", "class"}
    BY <1>4, <2>1 DEF StartFails, Undo, StartSteps
  <2>3. CoreTypeOK'
    BY <2>1, <2>2 DEF CoreTypeOK
  <2>4. DriverInv'
    BY <2>1, <2>2 DEF DriverInv, HaveAt, StartSteps
  <2> QED BY <2>3, <2>4
<1>5. CASE Unload
  <2>1. /\ dpc = "up" /\ dpc' \in {"destroy", "oops"}
        /\ have' = have \ {"ring", "chrdev", "class", "device"}
        /\ UNCHANGED <<starts, logVars>>
    BY <1>5 DEF Unload
  <2> QED BY <2>1 DEF CoreTypeOK, DriverInv, HaveAt, StartSteps
<1>6. CASE RemoveAlarm
  BY <1>6 DEF RemoveAlarm, CoreTypeOK, DriverInv, StartSteps
<1>7. CASE DestroyLog
  <2>1. /\ dpc = "destroy" /\ "alarm" \notin have /\ dpc' = "rmdir"
        /\ have' = have \ {"fifo"} /\ fifo' = <<>> /\ inflag' = FALSE /\ mem' \subseteq mem
        /\ UNCHANGED <<starts, written, tpc, rec, raced, lost>>
    BY <1>7 DEF DestroyLog
  <2>2. <<>> \in Seq(1 .. MaxWrites) /\ Len(<<>>) <= FifoSize
    BY CoreAssumption
  <2>3. CoreTypeOK'
    BY <2>1, <2>2 DEF CoreTypeOK
  <2>4. DriverInv'
    BY <2>1 DEF DriverInv, StartSteps
  <2> QED BY <2>3, <2>4
<1>8. CASE RemoveDir
  BY <1>8 DEF RemoveDir, CoreTypeOK, DriverInv, StartSteps
<1> QED BY <1>1, <1>2, <1>3, <1>4, <1>5, <1>6, <1>7, <1>8 DEF CoreStep

LEMMA DestroyKeepsRest ==
  ASSUME CoreInd, DestroyLog
  PROVE  HoldInv' /\ OwnerInv' /\ QuietInv' /\ OpenInv' /\ RoomInv'
<1> USE DEF CoreInd
<1>1. /\ dpc = "destroy" /\ "alarm" \notin have /\ \A t \in LogTasks : tpc[t] = "idle"
      /\ mem' = IF inflag THEN mem \ InFifo ELSE mem
      /\ fifo' = <<>> /\ have' = have \ {"fifo"}
      /\ UNCHANGED <<written, tpc, rec, raced, lost>>
  BY DEF DestroyLog, InFifo
<1>2. "fifo" \in have
  BY <1>1 DEF DriverInv
<1>3. inflag
  BY <1>1, <1>2, TaskKinds DEF OpenInv
<1>4. \A t \in LogTasks : rec[t] = NoRec
  BY <1>1 DEF HoldInv
<1>5. mem' = {} /\ InFifo' = {} /\ Distinct'
  <2>1. mem \subseteq InFifo
    BY <1>4, MemRange DEF OwnerInv
  <2>2. InFifo' = {} /\ Distinct'
    BY <1>1 DEF InFifo, Distinct
  <2> QED BY <1>1, <1>3, <2>1, <2>2
<1>6. HoldInv' /\ QuietInv' /\ OpenInv'
  BY <1>1 DEF HoldInv, QuietInv, OpenInv
<1>7. OwnerInv'
  BY <1>1, <1>4, <1>5 DEF OwnerInv
<1>8. RoomInv'
  BY <1>1, TaskKinds DEF RoomInv
<1> QED BY <1>6, <1>7, <1>8

LEMMA CoreKeepsRest ==
  ASSUME CoreInd, CoreStep
  PROVE  HoldInv' /\ OwnerInv' /\ QuietInv' /\ OpenInv' /\ RoomInv'
<1> USE DEF CoreInd, logVars
<1>1. CASE DestroyLog
  BY <1>1, DestroyKeepsRest
<1>2. CASE ~DestroyLog
  <2>1. UNCHANGED <<fifo, mem, written, tpc, rec, raced, lost>>
    BY <1>2 DEF CoreStep, Load, RingFails, Unload, RemoveAlarm, RemoveDir, StartOk,
       StartFails
  <2>2. HoldInv' /\ RoomInv'
    BY <2>1 DEF HoldInv, RoomInv
  <2>3. OwnerInv'
    BY <2>1, OthersKeepOwners
  <2>4. QuietInv'
    <3>1. dpc' \in {"out", "dir", "fifo", "alarm", "rmdir"} =>
            dpc \in {"out", "dir", "fifo", "alarm", "rmdir"}
      <4>1. ASSUME NEW s \in StartSteps, StartOk(s),
                   dpc' \in {"out", "dir", "fifo", "alarm", "rmdir"}
            PROVE  dpc \in {"out", "dir", "fifo", "alarm", "rmdir"}
        BY <4>1, StepsInOrder DEF StartOk, StartSteps
      <4>2. ASSUME NEW s \in StartSteps, StartFails(s),
                   dpc' \in {"out", "dir", "fifo", "alarm", "rmdir"}
            PROVE  dpc \in {"out", "dir", "fifo", "alarm", "rmdir"}
        BY <4>2 DEF StartFails, StartSteps
      <4>3. RingFails => dpc' = "chrdev"
        BY StepsInOrder DEF RingFails
      <4> QED BY <1>2, <4>1, <4>2, <4>3 DEF CoreStep, Load, Unload, RemoveAlarm, RemoveDir
    <3> QED BY <2>1, <3>1 DEF QuietInv
  <2>5. OpenInv'
    <3>1. ASSUME NEW s \in StartSteps, StartOk(s) PROVE OpenInv'
      BY <2>1, <3>1 DEF StartOk, OpenInv
    <3>2. ASSUME NEW s \in StartSteps, StartFails(s) PROVE OpenInv'
      BY <2>1, <3>2 DEF StartFails, OpenInv, Undo
    <3>3. CASE Load \/ RingFails \/ Unload \/ RemoveAlarm \/ RemoveDir
      BY <2>1, <3>3 DEF Load, RingFails, Unload, RemoveAlarm, RemoveDir, OpenInv
    <3> QED BY <1>2, <3>1, <3>2, <3>3 DEF CoreStep
  <2> QED BY <2>2, <2>3, <2>4, <2>5
<1> QED BY <1>1, <1>2

LEMMA CoreIndInit == CoreInit => CoreInd
<1> SUFFICES ASSUME CoreInit PROVE CoreInd
  OBVIOUS
<1>1. fifo \in Seq(1 .. MaxWrites) /\ Len(fifo) <= FifoSize
  BY CoreAssumption DEF CoreInit
<1>2. rec \in [LogTasks -> 0 .. MaxWrites] /\ written \in 0 .. MaxWrites
      /\ starts \in 0 .. MaxStarts
  BY CoreAssumption DEF CoreInit, NoRec
<1>3. CoreTypeOK
  BY <1>1, <1>2 DEF CoreInit, CoreTypeOK
<1>4. InFifo = {} /\ Distinct
  BY DEF CoreInit, InFifo, Distinct
<1>5. HoldInv /\ OwnerInv
  BY <1>4 DEF CoreInit, HoldInv, OwnerInv
<1>6. DriverInv
  BY DEF CoreInit, DriverInv, StartSteps
<1>7. QuietInv
  BY DEF CoreInit, QuietInv
<1>8. OpenInv /\ RoomInv
  BY TaskKinds DEF CoreInit, OpenInv, RoomInv
<1> QED BY <1>3, <1>5, <1>6, <1>7, <1>8 DEF CoreInd

LEMMA CoreIndStep == CoreInd /\ [CoreNext]_coreVars => CoreInd'
<1> SUFFICES ASSUME CoreInd, [CoreNext]_coreVars PROVE CoreInd'
  OBVIOUS
<1>1. CASE CoreStep
  BY <1>1, CoreTypesKept, CoreKeepsRest DEF CoreInd
<1>2. CASE LogStep /\ UNCHANGED <<dpc, have, starts>>
  <2>1. CoreTypeOK' /\ HoldInv' /\ OwnerInv'
    BY <1>2, WriterTypes, ReaderTypes, TaskKinds DEF LogStep
  <2> QED BY <1>2, <2>1, LogKeepsRest DEF CoreInd
<1>3. CASE UNCHANGED coreVars
  <2>1. UNCHANGED <<dpc, have, starts, fifo, inflag, mem, written, tpc, rec, raced, lost>>
    BY <1>3 DEF coreVars, logVars
  <2>2. CoreTypeOK' /\ HoldInv' /\ DriverInv' /\ QuietInv' /\ OpenInv' /\ RoomInv'
    BY <2>1 DEF CoreInd, CoreTypeOK, HoldInv, DriverInv, HaveAt, QuietInv, OpenInv, RoomInv
  <2>3. OwnerInv'
    BY <2>1, OthersKeepOwners DEF CoreInd
  <2> QED BY <2>2, <2>3 DEF CoreInd
<1> QED BY <1>1, <1>2, <1>3 DEF CoreNext

LEMMA CoreInductive == CoreSpec => []CoreInd
  BY CoreIndInit, CoreIndStep, PTL DEF CoreSpec

\* The fifo never holds more than log_size records, and every variable of the
\* driver and its log keeps its type.
THEOREM CoreTypeCorrect == CoreSpec => []CoreTypeOK
<1>1. CoreInd => CoreTypeOK
  BY DEF CoreInd
<1> QED BY <1>1, CoreInductive, PTL

\* Every record has one owner and is freed once, and a driver that is out has
\* left nothing: for any number of writers, readers and cleaners, whichever
\* steps of the start fail.
THEOREM RecordsOwned == CoreSpec => []CoreMemory
<1>1. ASSUME CoreInd PROVE CoreMemory
  <2> USE <1>1 DEF CoreInd
  <2>1. mem = InFifo \cup UNION {HeldBy(t) : t \in LogTasks}
    <3>1. ASSUME NEW r \in mem PROVE r \in InFifo \/ \E t \in LogTasks : r \in HeldBy(t)
      BY <3>1, MemRange DEF OwnerInv, HeldBy
    <3>2. InFifo \subseteq mem /\ \A t \in LogTasks : HeldBy(t) \subseteq mem
      BY DEF OwnerInv, HeldBy
    <3> QED BY <3>1, <3>2
  <2>2. Cardinality(InFifo) = Len(fifo)
    <3>1. fifo \in Seq(1 .. MaxWrites) /\ \A i, j \in DOMAIN fifo : fifo[i] = fifo[j] => i = j
      BY DEF CoreTypeOK, OwnerInv, Distinct
    <3>2. Cardinality({fifo[i] : i \in DOMAIN fifo}) = Len(fifo)
      BY ONLY <3>1, QueueCounts
    <3> QED BY <3>2 DEF InFifo
  <2>3. \A t, u \in LogTasks : t # u => HeldBy(t) \cap HeldBy(u) = {}
    BY DEF OwnerInv, HeldBy
  <2>4. \A t \in LogTasks : HeldBy(t) \cap InFifo = {}
    BY DEF OwnerInv, HeldBy
  <2>5. dpc = "out" => have = {} /\ mem = {}
    <3> SUFFICES ASSUME dpc = "out" PROVE have = {} /\ mem = {}
      OBVIOUS
    <3>1. fifo = <<>> /\ \A t \in LogTasks : rec[t] = NoRec
      BY DEF QuietInv, HoldInv
    <3>2. InFifo = {}
      BY <3>1 DEF InFifo
    <3> QED BY <3>1, <3>2, MemRange DEF OwnerInv, DriverInv
  <2>6. dpc = "up" => have \cup {"ring"} = StartSteps
    BY DEF DriverInv, HaveAt, StartSteps, CoreTypeOK
  <2> QED BY <2>1, <2>2, <2>3, <2>4, <2>5, <2>6 DEF CoreMemory
<1> QED BY <1>1, CoreInductive, PTL

\* A writer loses its record for want of room only if another task changed the
\* fifo during the same write_log, for a log of any size.
THEOREM LoneWriterHeard == CoreSpec => []LoneWriteKept
<1>1. CoreInd => LoneWriteKept
  BY DEF CoreInd, RoomInv, LoneWriteKept
<1> QED BY <1>1, CoreInductive, PTL
=============================================================================
