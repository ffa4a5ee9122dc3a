----------------------------- MODULE RingBuffer -----------------------------
(***************************************************************************)
(* The ring buffer behind /dev/secDetector.  Kernel contexts (producers)    *)
(* call secDetector_report(), which reserves a record, copies the entry and *)
(* commits it (secDetector_ringbuf.c); one agent process has the device     *)
(* open, maps the two positions and the data, sleeps in poll() and hands    *)
(* each committed record to a callback (observer_agent/service).            *)
(*                                                                          *)
(* Positions count 8-byte words, the unit round_up(size + 8, 8) keeps them  *)
(* aligned to, and grow without the 2^64 wrap.  A word of the ring holds a  *)
(* header or a part of a record's text; the text itself is abstracted to    *)
(* the number of the record it belongs to.                                  *)
(***************************************************************************)
EXTENDS Naturals, Integers, Sequences, FiniteSets

CONSTANTS
  Producers,    \* kernel contexts that report
  NmiProducers, \* those of them that run in NMI context
  Agents,       \* processes that may open the device
  KWords,       \* data words of the kernel's ring: (rb->mask + 1) / 8
  UWords,       \* data words the agent believes the ring has: rb_datasz / 8
  Lens,         \* lengths of report texts, in bytes
  WakeFlags,    \* wake-up flags passed to ringbuf_output
  WeakLoads,    \* whether the CPU may satisfy the agent's loads out of order
  MaxRecs,      \* bound: no report starts once this many were accepted
  MaxExits,     \* bound: number of times an agent process ends
  None          \* no producer, no header

ASSUME ConstantsAssumption ==
  /\ NmiProducers \subseteq Producers
  /\ None \notin Producers
  /\ KWords \in Nat \ {0}
  /\ UWords \in Nat \ {0}
  /\ Lens \subseteq Nat \ {0}      \* secDetector_report ignores len == 0
  /\ WakeFlags \subseteq {"force", "adaptive", "none"}
  /\ WeakLoads \in BOOLEAN
  /\ MaxRecs \in Nat
  /\ MaxExits \in Nat

VARIABLES
  consumer_pos, producer_pos, mem, spinlock, work, waitq, g_isopen, \* ring
  pPc, pSize, pCons, pRec,          \* per producer: step, size, cons_pos, record
  cPc, cCons, cProd, cGot, cHdr,    \* per agent: step and locals of the poll loop
  exits,                            \* how many times an agent process ended
  log, acked, handed, garbled       \* history, read by no guard but MaxRecs'

ringVars == <<consumer_pos, producer_pos, mem, spinlock, work, waitq, g_isopen>>
prodVars == <<pPc, pSize, pCons, pRec>>
consVars == <<cPc, cCons, cProd, cGot, cHdr>>
histVars == <<log, acked, handed, garbled>>
vars == <<ringVars, prodVars, consVars, exits, histVars>>

----------------------------------------------------------------------------
(* Layout of the ring.                                                      *)

\* sizeof(struct response_rb_entry) + len: the int type and the text.
EntrySize(len) == 4 + len

\* Words of a record: round_up(size + BPF_RINGBUF_HDR_SZ, 8) / 8.
RecWords(size) == (size + 15) \div 8

\* The word a position falls on, for the kernel (pos & rb->mask) ...
KIndex(pos) == pos % KWords

\* ... and for the agent: word k of what starts at (pos & rb_mask) in its
\* mapping of 2 * rb_datasz bytes, which the kernel's pages lie behind.
UIndex(pos, k) == ((pos % UWords) + k) % KWords

Zero == [kind |-> "zero", rec |-> 0, size |-> 0, busy |-> FALSE]
\* Mutants: the busy bit kept in a signed length; the busy bit forgotten.
HdrSigned(i, size, busy) ==
  [kind |-> "hdr", rec |-> i, size |-> IF busy THEN (size - 2^30) - 2^30 ELSE size, busy |-> busy]
HdrNeverBusy(i, size, busy) ==
  [kind |-> "hdr", rec |-> i, size |-> size, busy |-> FALSE]

Hdr(i, size, busy) == [kind |-> "hdr", rec |-> i, size |-> size, busy |-> busy]
Text(i) == [kind |-> "text", rec |-> i, size |-> 0, busy |-> FALSE]

\* The words that hold the text of a record of the given size at pos.
TextWords(pos, size) == {KIndex(pos + k) : k \in 1 .. (RecWords(size) - 1)}

\* What loading a word as a header yields: text can be read as any length.
HdrLoads(cell) ==
  IF cell.kind = "text"
    THEN {[cell EXCEPT !.size = s] : s \in {0} \cup {EntrySize(l) : l \in Lens}}
    ELSE {cell}

----------------------------------------------------------------------------
Init ==
  /\ consumer_pos = 0 /\ producer_pos = 0
  /\ mem = [w \in 0 .. (KWords - 1) |-> Zero]
  /\ spinlock = None /\ work = FALSE /\ g_isopen = FALSE
  /\ waitq = [a \in Agents |-> "off"]
  /\ pPc = [p \in Producers |-> "idle"]
  /\ pSize = [p \in Producers |-> 0]
  /\ pCons = [p \in Producers |-> 0]
  /\ pRec = [p \in Producers |-> 0]
  /\ cPc = [a \in Agents |-> "closed"]
  /\ cCons = [a \in Agents |-> 0]
  /\ cProd = [a \in Agents |-> 0]
  /\ cGot = [a \in Agents |-> FALSE]
  /\ cHdr = [a \in Agents |-> None]
  /\ exits = 0
  /\ log = <<>> /\ acked = 0 /\ handed = 0 /\ garbled = FALSE

----------------------------------------------------------------------------
(* Producers: secDetector_report -> ringbuf_output.                         *)

\* The report returns, and its locals with it.
Return(p) ==
  /\ pPc' = [pPc EXCEPT ![p] = "idle"]
  /\ pSize' = [pSize EXCEPT ![p] = 0]
  /\ pCons' = [pCons EXCEPT ![p] = 0]
  /\ pRec' = [pRec EXCEPT ![p] = 0]

\* Entry, the size check (a record larger than the ring is dropped with no
\* effect) and the load of consumer_pos, taken before the lock.
ReportBegin(p, len) ==
  /\ pPc[p] = "idle"
  /\ Len(log) < MaxRecs
  /\ RecWords(EntrySize(len)) <= KWords
  /\ pPc' = [pPc EXCEPT ![p] = "lock"]
  /\ pSize' = [pSize EXCEPT ![p] = EntrySize(len)]
  /\ pCons' = [pCons EXCEPT ![p] = consumer_pos]
  /\ UNCHANGED <<ringVars, pRec, consVars, exits, histVars>>

LockRing(p) ==
  /\ pPc[p] = "lock" /\ spinlock = None
  /\ spinlock' = p
  /\ pPc' = [pPc EXCEPT ![p] = "mark"]
  /\ UNCHANGED <<consumer_pos, producer_pos, mem, work, waitq, g_isopen,
                 pSize, pCons, pRec, consVars, exits, histVars>>

\* In NMI context a failed trylock drops the report.
TryLockFails(p) ==
  /\ p \in NmiProducers
  /\ pPc[p] = "lock" /\ spinlock # None
  /\ Return(p)
  /\ UNCHANGED <<ringVars, consVars, exits, histVars>>

\* Mutants: the bound is off by one word; the room is checked before the
\* record is counted.
HasRoomOffByOne(p) == producer_pos + RecWords(pSize[p]) - pCons[p] \in 0 .. KWords
HasRoomAtStart(p) == producer_pos - pCons[p] \in 0 .. (KWords - 1)

\* new_prod_pos - cons_pos <= mask, an unsigned subtraction.
HasRoom(p) ==
  producer_pos + RecWords(pSize[p]) - pCons[p] \in 0 .. (KWords - 1)

\* No room: unlock and drop.
RingFull(p) ==
  /\ pPc[p] = "mark" /\ ~HasRoom(p)
  /\ spinlock' = None
  /\ Return(p)
  /\ UNCHANGED <<consumer_pos, producer_pos, mem, work, waitq, g_isopen,
                 consVars, exits, histVars>>

\* Write the header, busy, before the record becomes visible.
MarkBusy(p) ==
  /\ pPc[p] = "mark" /\ HasRoom(p)
  /\ mem' = [mem EXCEPT ![KIndex(producer_pos)] =
                          Hdr(Len(log) + 1, pSize[p], TRUE)]
  /\ pRec' = [pRec EXCEPT ![p] = Len(log) + 1]
  /\ pPc' = [pPc EXCEPT ![p] = "advance"]
  /\ UNCHANGED <<consumer_pos, producer_pos, spinlock, work, waitq, g_isopen,
                 pSize, pCons, consVars, exits, histVars>>

\* smp_store_release(&rb->producer_pos, new_prod_pos) and unlock.
Advance(p) ==
  /\ pPc[p] = "advance"
  /\ producer_pos' = producer_pos + RecWords(pSize[p])
  /\ log' = Append(log, [pos |-> producer_pos, size |-> pSize[p]])
  /\ spinlock' = None
  /\ pPc' = [pPc EXCEPT ![p] = "fill"]
  /\ UNCHANGED <<consumer_pos, mem, work, waitq, g_isopen, pSize, pCons, pRec,
                 consVars, exits, acked, handed, garbled>>

\* memcpy(rec, data, size), outside the lock.
Fill(p) ==
  /\ pPc[p] = "fill"
  /\ mem' = [w \in DOMAIN mem |->
               IF w \in TextWords(log[pRec[p]].pos, pSize[p])
                 THEN Text(pRec[p]) ELSE mem[w]]
  /\ pPc' = [pPc EXCEPT ![p] = "commit"]
  /\ UNCHANGED <<consumer_pos, producer_pos, spinlock, work, waitq, g_isopen,
                 pSize, pCons, pRec, consVars, exits, histVars>>

\* xchg(&hdr->len, hdr->len ^ BUSY).
Commit(p) ==
  /\ pPc[p] = "commit"
  /\ mem' = [mem EXCEPT ![KIndex(log[pRec[p]].pos)] = Hdr(@.rec, @.size, FALSE)]
  /\ pPc' = [pPc EXCEPT ![p] = "notify"]
  /\ UNCHANGED <<consumer_pos, producer_pos, spinlock, work, waitq, g_isopen,
                 pSize, pCons, pRec, consVars, exits, histVars>>

\* Mutant: the forced wake-up is not honoured.
WakesOnlyAdaptive(i, flag) ==
  flag = "adaptive" /\ KIndex(consumer_pos) = KIndex(log[i].pos)

\* Whether the commit of record i queues the irq work, under the given flag.
WakesConsumer(i, flag) ==
  \/ flag = "force"
  \/ flag = "adaptive" /\ KIndex(consumer_pos) = KIndex(log[i].pos)

Notify(p, flag) ==
  /\ pPc[p] = "notify"
  /\ work' = (work \/ WakesConsumer(pRec[p], flag))
  /\ Return(p)
  /\ UNCHANGED <<consumer_pos, producer_pos, mem, spinlock, waitq, g_isopen,
                 consVars, exits, histVars>>

\* ringbuf_notify: the irq work wakes every process on the wait queue.
RunIrqWork ==
  /\ work
  /\ work' = FALSE
  /\ waitq' = [a \in Agents |-> IF waitq[a] = "waiting" THEN "woken" ELSE waitq[a]]
  /\ UNCHANGED <<consumer_pos, producer_pos, mem, spinlock, g_isopen,
                 prodVars, consVars, exits, histVars>>

----------------------------------------------------------------------------
(* The agent: secDetector_ringbuf_attach, the poll loop of main.            *)

\* The locals of secDetector_ringbuf_poll, dead outside of it.
NoLocals(a) ==
  /\ cCons' = [cCons EXCEPT ![a] = 0]
  /\ cProd' = [cProd EXCEPT ![a] = 0]
  /\ cGot' = [cGot EXCEPT ![a] = FALSE]
  /\ cHdr' = [cHdr EXCEPT ![a] = None]

\* Mutant: open() does not look at g_isopen.
OpenShared(a) ==
  /\ cPc[a] = "closed"
  /\ g_isopen' = TRUE
  /\ cPc' = [cPc EXCEPT ![a] = "poll"]
  /\ UNCHANGED <<consumer_pos, producer_pos, mem, spinlock, work, waitq,
                 prodVars, cCons, cProd, cGot, cHdr, exits, histVars>>

\* open() succeeds for one process at a time; the others exit with EBUSY.
Open(a) ==
  /\ cPc[a] = "closed" /\ ~g_isopen
  /\ g_isopen' = TRUE
  /\ cPc' = [cPc EXCEPT ![a] = "poll"]
  /\ UNCHANGED <<consumer_pos, producer_pos, mem, spinlock, work, waitq,
                 prodVars, cCons, cProd, cGot, cHdr, exits, histVars>>

\* Mutant: poll() looks for data without having joined the wait queue.
PollWaitNotQueued(a) ==
  /\ cPc[a] = "poll"
  /\ cPc' = [cPc EXCEPT ![a] = "check"]
  /\ UNCHANGED <<ringVars, prodVars, cCons, cProd, cGot, cHdr, exits, histVars>>

\* poll(): join the wait queue first ...
PollWait(a) ==
  /\ cPc[a] = "poll"
  /\ waitq' = [waitq EXCEPT ![a] = "waiting"]
  /\ cPc' = [cPc EXCEPT ![a] = "check"]
  /\ UNCHANGED <<consumer_pos, producer_pos, mem, spinlock, work, g_isopen,
                 prodVars, cCons, cProd, cGot, cHdr, exits, histVars>>

\* ... then look for data.  If there is some, poll returns and the scan loads
\* consumer_pos, which nobody else writes.
PollReturns(a) ==
  /\ cPc[a] = "check" /\ producer_pos - consumer_pos # 0
  /\ waitq' = [waitq EXCEPT ![a] = "off"]
  /\ cCons' = [cCons EXCEPT ![a] = consumer_pos]
  /\ cPc' = [cPc EXCEPT ![a] = "load"]
  /\ UNCHANGED <<consumer_pos, producer_pos, mem, spinlock, work, g_isopen,
                 prodVars, cProd, cGot, cHdr, exits, histVars>>

PollSleeps(a) ==
  /\ cPc[a] = "check" /\ producer_pos - consumer_pos = 0
  /\ cPc' = [cPc EXCEPT ![a] = "sleep"]
  /\ UNCHANGED <<ringVars, prodVars, cCons, cProd, cGot, cHdr, exits, histVars>>

\* A wake-up received since the last check makes poll look again.
PollWakes(a) ==
  /\ cPc[a] = "sleep" /\ waitq[a] = "woken"
  /\ waitq' = [waitq EXCEPT ![a] = "waiting"]
  /\ cPc' = [cPc EXCEPT ![a] = "check"]
  /\ UNCHANGED <<consumer_pos, producer_pos, mem, spinlock, work, g_isopen,
                 prodVars, cCons, cProd, cGot, cHdr, exits, histVars>>

\* The agent's smp_load_acquire orders only the compiler.  A CPU that
\* reorders loads may load the next header before producer_pos.
EarlyHdrLoad(a) ==
  /\ WeakLoads
  /\ cPc[a] = "load" /\ cHdr[a] = None
  /\ \E h \in HdrLoads(mem[UIndex(cCons[a], 0)]) : cHdr' = [cHdr EXCEPT ![a] = h]
  /\ UNCHANGED <<ringVars, prodVars, cPc, cCons, cProd, cGot, exits, histVars>>

\* prod_pos = smp_load_acquire(sec_rb.producer_pos); got_new_data = false.
LoadProd(a) ==
  /\ cPc[a] = "load"
  /\ cProd' = [cProd EXCEPT ![a] = producer_pos]
  /\ cGot' = [cGot EXCEPT ![a] = FALSE]
  /\ cPc' = [cPc EXCEPT ![a] = "scan"]
  /\ UNCHANGED <<ringVars, prodVars, cCons, cHdr, exits, histVars>>

\* The header of the next record; if it is busy the scan ends and main polls
\* again, else the callback follows.
ReadHdr(a) ==
  /\ cPc[a] = "scan" /\ cCons[a] < cProd[a]
  /\ \E h \in IF cHdr[a] = None THEN HdrLoads(mem[UIndex(cCons[a], 0)]) ELSE {cHdr[a]} :
        \/ /\ h.busy
           /\ NoLocals(a)
           /\ cPc' = [cPc EXCEPT ![a] = "poll"]
        \/ /\ ~h.busy
           /\ cHdr' = [cHdr EXCEPT ![a] = h]
           /\ cGot' = [cGot EXCEPT ![a] = TRUE]
           /\ cPc' = [cPc EXCEPT ![a] = "callback"]
           /\ UNCHANGED <<cCons, cProd>>
  /\ UNCHANGED <<ringVars, prodVars, exits, histVars>>

\* What the agent holds at cCons is a committed record with all its text.
WholeRecord(a) ==
  /\ cHdr[a].kind = "hdr"
  /\ \A k \in 1 .. (RecWords(cHdr[a].size) - 1) :
        mem[UIndex(cCons[a], k)] = Text(cHdr[a].rec)

\* cb(sample, len), after which cons_pos has passed the record.
Callback(a) ==
  /\ cPc[a] = "callback"
  /\ cCons' = [cCons EXCEPT ![a] = @ + RecWords(cHdr[a].size)]
  /\ IF WholeRecord(a)
       THEN handed' = cHdr[a].rec /\ UNCHANGED garbled
       ELSE garbled' = TRUE /\ UNCHANGED handed
  /\ cPc' = [cPc EXCEPT ![a] = "store"]
  /\ UNCHANGED <<ringVars, prodVars, cProd, cGot, cHdr, exits, log, acked>>

\* smp_store_release(sec_rb.consumer_pos, cons_pos): releases the record.
\* ringbuf_cb fails on an entry with no text, and main then exits.
StoreCons(a) ==
  /\ cPc[a] = "store"
  /\ consumer_pos' = cCons[a]
  /\ acked' = acked + 1
  /\ \/ /\ cHdr[a].size <= EntrySize(0)
        /\ cPc' = [cPc EXCEPT ![a] = "closed"]
        /\ g_isopen' = FALSE
        /\ NoLocals(a)
     \/ /\ cHdr[a].size > EntrySize(0)
        /\ cPc' = [cPc EXCEPT ![a] = "scan"]
        /\ cHdr' = [cHdr EXCEPT ![a] = None]
        /\ UNCHANGED <<g_isopen, cCons, cProd, cGot>>
  /\ UNCHANGED <<producer_pos, mem, spinlock, work, waitq, prodVars,
                 exits, log, handed, garbled>>

\* End of the inner loop: scan again if it found something ...
ScanAgain(a) ==
  /\ cPc[a] = "scan" /\ cCons[a] >= cProd[a] /\ cGot[a]
  /\ cHdr' = [cHdr EXCEPT ![a] = None]
  /\ cPc' = [cPc EXCEPT ![a] = "load"]
  /\ UNCHANGED <<ringVars, prodVars, cCons, cProd, cGot, exits, histVars>>

\* ... else poll again.
ScanDone(a) ==
  /\ cPc[a] = "scan" /\ cCons[a] >= cProd[a] /\ ~cGot[a]
  /\ NoLocals(a)
  /\ cPc' = [cPc EXCEPT ![a] = "poll"]
  /\ UNCHANGED <<ringVars, prodVars, exits, histVars>>

\* The process ends: a crash at any step, or an ordered exit.  Its mappings
\* and its descriptor go, so ringbuffer_release frees the device.
Exit(a) ==
  /\ cPc[a] # "closed" /\ exits < MaxExits
  /\ exits' = exits + 1
  /\ cPc' = [cPc EXCEPT ![a] = "closed"]
  /\ NoLocals(a)
  /\ waitq' = [waitq EXCEPT ![a] = "off"]
  /\ g_isopen' = FALSE
  /\ UNCHANGED <<consumer_pos, producer_pos, mem, spinlock, work, prodVars,
                 histVars>>

----------------------------------------------------------------------------
\* What a report does once it has begun.
Produce(p) ==
  \/ LockRing(p) \/ TryLockFails(p) \/ RingFull(p) \/ MarkBusy(p)
  \/ Advance(p) \/ Fill(p) \/ Commit(p)
  \/ \E flag \in WakeFlags : Notify(p, flag)

\* What an agent that has the device open does.
Consume(a) ==
  \/ PollWait(a) \/ PollReturns(a) \/ PollSleeps(a) \/ PollWakes(a)
  \/ EarlyHdrLoad(a) \/ LoadProd(a) \/ ReadHdr(a) \/ Callback(a)
  \/ StoreCons(a) \/ ScanAgain(a) \/ ScanDone(a)

Next ==
  \/ \E p \in Producers : (\E len \in Lens : ReportBegin(p, len)) \/ Produce(p)
  \/ \E a \in Agents : Open(a) \/ Consume(a) \/ Exit(a)
  \/ RunIrqWork

Spec == Init /\ [][Next]_vars

\* Fairness: a report that began runs to its end (the lock is a queued
\* spinlock), the irq work runs, and a running agent keeps running.  Nothing
\* obliges anybody to report, to start an agent or to stop one.
Fairness ==
  /\ \A p \in Producers : WF_vars(Produce(p))
  /\ \A a \in Agents : WF_vars(Consume(a))
  /\ WF_vars(RunIrqWork)

FairSpec == Spec /\ Fairness

----------------------------------------------------------------------------
(* Properties.                                                              *)

Cells == [kind : {"zero", "hdr", "text"}, rec : Nat, size : Nat, busy : BOOLEAN]

TypeOK ==
  /\ consumer_pos \in Nat /\ producer_pos \in Nat
  /\ mem \in [0 .. (KWords - 1) -> Cells]
  /\ spinlock \in Producers \cup {None}
  /\ work \in BOOLEAN /\ g_isopen \in BOOLEAN
  /\ waitq \in [Agents -> {"off", "waiting", "woken"}]
  /\ pPc \in [Producers -> {"idle", "lock", "mark", "advance", "fill",
                            "commit", "notify"}]
  /\ pSize \in [Producers -> Nat]
  /\ pCons \in [Producers -> Nat]
  /\ pRec \in [Producers -> Nat]
  /\ cPc \in [Agents -> {"closed", "poll", "check", "sleep", "load", "scan",
                         "callback", "store"}]
  /\ cCons \in [Agents -> Nat]
  /\ cProd \in [Agents -> Nat]
  /\ cGot \in [Agents -> BOOLEAN]
  /\ cHdr \in [Agents -> Cells \cup {None}]
  /\ exits \in Nat
  /\ log \in Seq([pos : Nat, size : Nat])
  /\ acked \in Nat /\ handed \in Nat /\ garbled \in BOOLEAN

\* The first word after record i.
End(i) == log[i].pos + RecWords(log[i].size)

\* Records that were accepted and not yet released by the agent.
Live == (acked + 1) .. Len(log)

\* Producers that own record i: it is in the ring and not committed.
Writers(i) == {p \in Producers : pPc[p] \in {"fill", "commit"} /\ pRec[p] = i}

\* The producer may load consumer_pos long before it takes the lock, and the
\* agent releases records meanwhile: positions never drift more than
\* KWords - 1 words apart and the agent never overtakes the kernel, so that
\* equal positions mean an empty ring.
NoOverrun == producer_pos - consumer_pos \in 0 .. (KWords - 1)

\* No producer, whatever it knew of consumer_pos, writes over the header or
\* the text of a record the agent has not released: a live record has its
\* header, busy exactly while somebody writes it, and its whole text once
\* committed.
LiveRecordsIntact ==
  \A i \in Live :
    /\ mem[KIndex(log[i].pos)] = Hdr(i, log[i].size, Writers(i) # {})
    /\ Writers(i) = {} =>
         \A w \in TextWords(log[i].pos, log[i].size) : mem[w] = Text(i)

\* ringbuf_cb is never run on a word that is no header, nor on a record whose
\* text is missing or overwritten.
CallbackGetsWholeRecords == ~garbled

\* A process asleep in poll() while the ring holds data is going to be woken:
\* the wake-up has arrived, is queued, or will be queued by a producer that
\* has not notified yet.
NoLostWakeup ==
  \A a \in Agents :
    (cPc[a] = "sleep" /\ producer_pos # consumer_pos) =>
      \/ waitq[a] = "woken"
      \/ work
      \/ \E p \in Producers : pPc[p] \in {"fill", "commit", "notify"}

\* Two processes never consume at the same time: consumer_pos has one writer.
OneConsumer == \A a, b \in Agents : cPc[a] # "closed" /\ cPc[b] # "closed" => a = b

\* The ring, positions and wake-ups implement the channel.
Committed == {i \in 1 .. Len(log) : Writers(i) = {}}

Channel == INSTANCE ReportChannel
             WITH accepted <- Len(log), finished <- Committed

ImplementsChannel == Channel!Spec

\* A report accepted while an agent runs reaches the callback, unless the
\* agent ends: no report is stuck behind a wake-up that never comes.
AcceptedIsHanded ==
  \A i \in 1 .. MaxRecs :
    (Len(log) >= i /\ handed < i /\ g_isopen) ~> (handed >= i \/ ~g_isopen)
=============================================================================
