--------------------------- MODULE ResourceMonitor ---------------------------
(***************************************************************************)
(* The resource usage monitor: a program of two threads that share a file   *)
(* and nothing else, not even a lock.  One takes a sample of the system,    *)
(* compares it with the one before and writes it to sys_rtime.json, the     *)
(* other reads the file, parses it and prints it, and ends the program if   *)
(* it cannot.  The file outlives the program.                               *)
(* A sample is written and read in parts: a part is its sample, its place   *)
(* and the number of parts the sample has.                                  *)
(***************************************************************************)
EXTENDS Integers, Sequences, FiniteSets, SequencesExt

CONSTANTS
  Worlds,      \* what /proc, df, netstat and last may show at one time
  MaxParts,    \* parts that a sample's text may have
  CounterMod,  \* 2^w of the CPU counters
  MaxSamples,  \* bound: samples taken
  MaxRuns      \* bound: times the program is started

\* /proc/net/tcp's states that are counted; LISTEN is not.
TcpStates == {"ESTABLISHED", "SYN_SENT", "SYN_RECV", "FIN_WAIT1", "FIN_WAIT2", "TIME_WAIT",
              "CLOSE", "CLOSE_WAIT", "LAST_ACK", "CLOSING"}

\* df lists a mount point once; quote: a name that a sample shows has one in it.
ASSUME MonitorAssumption ==
  /\ \A w \in Worlds :
       /\ w.conns \in Seq(STRING) /\ w.logins \in Seq(STRING)
       /\ w.tcp \in Seq(TcpStates \cup {"LISTEN"})
       /\ w.disks \in Seq([mount : STRING, used : Nat, unit : STRING])
       /\ \A i, j \in DOMAIN w.disks : w.disks[i].mount = w.disks[j].mount => i = j
       /\ w.busy \in Nat /\ w.idle \in Nat /\ w.used \in Nat
       /\ w.procs \in Seq(Nat \X Nat) /\ w.sockstat \in BOOLEAN /\ w.quote \in BOOLEAN
  /\ MaxParts \in Nat \ {0} /\ CounterMod \in Nat \ {0}
  /\ MaxSamples \in Nat /\ MaxRuns \in Nat \ {0}

Absent0 == <<"no file">>
NoWorld == [disks |-> <<>>, busy |-> 0, idle |-> 0, used |-> 0]
NoSample == [none |-> TRUE]

VARIABLES
  wstep, rstep, \* where the writing and the reading thread are
  jsonfile,     \* the parts in the file
  sampleno,     \* samples taken
  nparts,       \* parts of the last
  quoted,       \* samples whose text has a quote inside a string
  before, now,  \* the statics of the collectors; what the last sample saw
  sample,       \* what was computed from them
  got,          \* parts the reader has read
  runs,
  leftover,     \* history: the file is from an earlier run
  cut,          \* history: the file's last write stopped short
  overlap       \* history: the file was being written while it was read

monVars == <<wstep, rstep, jsonfile, sampleno, nparts, quoted, before, now, sample, got, runs,
             leftover, cut, overlap>>
fileVars == <<jsonfile, leftover, cut>>
readVars == <<rstep, got, overlap>>
dataVars == <<sampleno, nparts, quoted, before, now, sample>>

MonitorInit ==
  /\ wstep = "sample" /\ rstep = "open"
  /\ jsonfile = Absent0 /\ sampleno = 0 /\ nparts = 0 /\ quoted = {}
  /\ before = NoWorld /\ now = NoWorld /\ sample = NoSample
  /\ got = <<>> /\ runs = 1 /\ leftover = FALSE /\ cut = FALSE
  /\ overlap = FALSE

----------------------------------------------------------------------------
(* What a sample says.                                                      *)

Count(s, x) == Cardinality({i \in DOMAIN s : s[i] = x})
Total(s) ==
  LET sum[i \in 0 .. Len(s)] == IF i = 0 THEN 0 ELSE sum[i - 1] + s[i] IN sum[Len(s)]

\* Mutant: a login stands for any number of connections.
UnauthenticatedAny(w) == SelectSeq(w.conns, LAMBDA a : Count(w.logins, a) = 0)

\* getSSHInfoAll: every connection strikes the first login from its address off
\* the logins; acc has the logins and the connections that are left.
StrikeOff(acc, addr) ==
  LET found == {i \in DOMAIN acc[1] : acc[1][i] = addr}
      first == CHOOSE i \in found : \A j \in found : i <= j
  IN IF found = {} THEN <<acc[1], Append(acc[2], addr)>> ELSE <<RemoveAt(acc[1], first), acc[2]>>
Unauthenticated(w) ==
  LET acc[i \in 0 .. Len(w.conns)] ==
        IF i = 0 THEN <<w.logins, <<>>>> ELSE StrikeOff(acc[i - 1], w.conns[i])
  IN acc[Len(w.conns)][2]

\* tcp4statcount: LISTEN has no count of its own.
Tcp(w) == [total |-> Len(w.tcp), counts |-> [s \in TcpStates |-> Count(w.tcp, s)],
           half |-> Count(w.tcp, "SYN_SENT") + Count(w.tcp, "SYN_RECV")]

\* calculateCpuUsage, a quotient, in unsigned arithmetic.
CpuUsage(p, w) ==
  LET total == (w.busy + w.idle - p.busy - p.idle) % CounterMod
      idle == (w.idle - p.idle) % CounterMod
  IN IF total = 0 THEN <<0, 1>> ELSE <<(total - idle) % CounterMod, total>>

\* getDiskUsageString: the list is compared with the one before by position,
\* sizes that are not in G count as none.
InG(d) == IF d.unit = "G" THEN d.used ELSE 0
DiskDiffs(p, w) ==
  [i \in 1 .. (IF Len(p.disks) < Len(w.disks) THEN Len(p.disks) ELSE Len(w.disks)) |->
     IF w.disks[i].unit = "G" /\ p.disks[i].unit = "G" THEN w.disks[i].used - p.disks[i].used ELSE 0]

\* getAllMemoryInfo: there is no difference to a sample that used nothing.
MemDiff(p, w) == IF p.used = 0 THEN 0 ELSE w.used - p.used

\* getProcessesInfoAll lists the processes, then counts each one's threads
\* twice, all of them and all but the first; one that is gone counts 0.
Pids(w) ==
  [processes |-> Len(w.procs),
   threads |-> Total([i \in DOMAIN w.procs |-> w.procs[i][1]]),
   others |-> Total([i \in DOMAIN w.procs |-> IF w.procs[i][2] = 0 THEN 0 ELSE w.procs[i][2] - 1])]

\* get_data.
Sampled(p, w) ==
  [ssh |-> Unauthenticated(w), tcp |-> Tcp(w), cpu |-> CpuUsage(p, w),
   disk |-> DiskDiffs(p, w), mem |-> MemDiff(p, w), pid |-> Pids(w)]

----------------------------------------------------------------------------
(* The writing thread.                                                      *)

TakeSample ==
  /\ wstep = "sample" /\ sampleno < MaxSamples
  /\ \E w \in Worlds :
       /\ w.sockstat
       /\ now' = w /\ before' = now
       /\ sample' = Sampled(now, w)
       /\ quoted' = IF w.quote THEN quoted \cup {sampleno + 1} ELSE quoted
  /\ nparts' \in 1 .. MaxParts
  /\ sampleno' = sampleno + 1
  /\ wstep' = "create"
  /\ UNCHANGED <<fileVars, readVars, runs>>

\* No second line in /proc/net/sockstat: stoll throws, the program ends.
SampleThrows ==
  /\ wstep = "sample" /\ sampleno < MaxSamples
  /\ \E w \in Worlds : ~w.sockstat
  /\ wstep' = "dead" /\ rstep' = "dead" /\ got' = <<>>
  /\ UNCHANGED <<fileVars, dataVars, overlap, runs>>

\* The sample has become text: what it said plays no further part.
Touches == overlap' = (overlap \/ rstep \in {"read", "parse"})
CreateFile ==
  /\ wstep = "create"
  /\ sample' = NoSample /\ before' = NoWorld
  /\ UNCHANGED <<sampleno, nparts, quoted, now, rstep, got, runs>>

\* Mutant: the old text is not cut off.
TruncatedNot == IF jsonfile = Absent0 THEN <<>> ELSE jsonfile

Truncated == <<>>

CreateOk ==
  /\ CreateFile /\ Touches
  /\ jsonfile' = Truncated /\ leftover' = FALSE /\ cut' = FALSE
  /\ wstep' = "write"

\* The sample goes to netinfo.json, which nobody reads, or nowhere.
CreateElsewhere ==
  /\ CreateFile
  /\ wstep' = "sample"
  /\ UNCHANGED <<fileVars, overlap>>

\* The next part replaces what is in its place.
WritePart ==
  LET i == Count([j \in DOMAIN jsonfile |-> jsonfile[j][1]], sampleno) + 1 IN
  /\ wstep = "write"
  /\ Touches
  /\ jsonfile' = [j \in 1 .. (IF Len(jsonfile) < i THEN i ELSE Len(jsonfile)) |->
                   IF j = i THEN <<sampleno, i, nparts>> ELSE jsonfile[j]]
  /\ wstep' = IF i = nparts THEN "sample" ELSE "write"
  /\ UNCHANGED <<leftover, cut, dataVars, rstep, got, runs>>

\* The stream's state is not looked at: what cannot be written is not, as when
\* the disk is full, and the thread goes on.
WriteCut ==
  /\ wstep = "write" /\ wstep' = "sample"
  /\ cut' = TRUE
  /\ UNCHANGED <<jsonfile, leftover, dataVars, readVars, runs>>

----------------------------------------------------------------------------
(* The main thread.                                                         *)

OpenToRead ==
  /\ rstep = "open"
  /\ rstep' = IF jsonfile = Absent0 THEN "dead" ELSE "read"
  /\ wstep' = IF jsonfile = Absent0 THEN "dead" ELSE wstep
  /\ got' = <<>> /\ overlap' = (wstep = "write")
  /\ UNCHANGED <<fileVars, dataVars, runs>>

ReadPart ==
  /\ rstep = "read"
  /\ LET i == Len(got) + 1 IN
       IF i <= Len(jsonfile) THEN got' = Append(got, jsonfile[i]) /\ rstep' = rstep
       ELSE rstep' = "parse" /\ got' = got
  /\ UNCHANGED <<wstep, fileVars, dataVars, overlap, runs>>

\* An error of the device while it reads: the file buffer throws.
ReadThrows ==
  /\ rstep = "read"
  /\ rstep' = "dead" /\ wstep' = "dead" /\ got' = <<>>
  /\ UNCHANGED <<fileVars, dataVars, overlap, runs>>

\* The text of one sample parses, unless the erased backslashes stood before
\* quotes, then it may not; text that ends early or goes on after its end does
\* not parse; parts of two samples may by chance make one text.
Whole(parts) ==
  parts # <<>> /\ \A i \in DOMAIN parts : parts[i] = <<parts[1][1], i, Len(parts)>>
Patched(parts) ==
  parts # <<>> /\ \A i \in DOMAIN parts : parts[i][2] = i /\ parts[i][3] = Len(parts)
Quoted(parts) == \E i \in DOMAIN parts : parts[i][1] \in quoted

ParsePrint ==
  /\ rstep = "parse" /\ Patched(got)
  /\ rstep' = "printed"
  /\ UNCHANGED <<wstep, fileVars, dataVars, got, overlap, runs>>

ParseError ==
  /\ rstep = "parse" /\ (~Whole(got) \/ Quoted(got))
  /\ rstep' = "failed" /\ wstep' = "dead"
  /\ UNCHANGED <<fileVars, dataVars, got, overlap, runs>>

ReaderSleeps ==
  /\ rstep = "printed"
  /\ rstep' = "open" /\ got' = <<>> /\ overlap' = FALSE
  /\ UNCHANGED <<wstep, fileVars, dataVars, runs>>

\* Both threads are gone and somebody starts the program again, or it is
\* killed and started again, at any moment.
Restart ==
  /\ runs < MaxRuns
  /\ runs' = runs + 1
  /\ wstep' = "sample" /\ rstep' = "open"
  /\ got' = <<>> /\ overlap' = FALSE
  /\ leftover' = (jsonfile # Absent0)
  /\ before' = NoWorld /\ now' = NoWorld /\ sample' = NoSample
  /\ UNCHANGED <<jsonfile, cut, sampleno, nparts, quoted>>

MonitorNext ==
  \/ TakeSample \/ SampleThrows \/ CreateOk \/ CreateElsewhere
  \/ WritePart \/ WriteCut \/ OpenToRead \/ ReadPart \/ ReadThrows \/ ParsePrint
  \/ ParseError \/ ReaderSleeps \/ Restart
MonitorSpec == MonitorInit /\ [][MonitorNext]_monVars

----------------------------------------------------------------------------
MonitorTypeOK ==
  /\ wstep \in {"sample", "create", "write", "dead"}
  /\ rstep \in {"open", "read", "parse", "printed", "failed", "dead"}
  /\ (wstep = "dead") = (rstep \in {"failed", "dead"})
  /\ sampleno \in 0 .. MaxSamples /\ nparts \in 0 .. MaxParts /\ runs \in 1 .. MaxRuns
  /\ now \in Worlds \cup {NoWorld} /\ before \in Worlds \cup {NoWorld}
  /\ quoted \subseteq 1 .. MaxSamples
  /\ leftover \in BOOLEAN /\ cut \in BOOLEAN /\ overlap \in BOOLEAN

\* The reader ends the program over a text that it cannot parse only if the
\* file was written while it read, was left by an earlier run, was not written
\* to its end, or says a name with a quote in it, whose backslash is erased.
\* It prints parts of two samples only in the first two of these cases.
ReaderFailuresExplained ==
  /\ rstep = "failed" => overlap \/ leftover \/ cut \/ Quoted(got)
  /\ rstep = "printed" /\ ~Whole(got) => overlap \/ leftover

\* What the collectors' loops and differences compute is what their output is
\* named for: of every address the connections beyond its logins; counts that
\* add up to the total with those listening; the busy share of the time, if no
\* counter went back; of every disk its own difference, if the list is of the
\* same disks; threads that are either first or others, if none came or went.
Excess(w, a) == IF Count(w.conns, a) > Count(w.logins, a)
                THEN Count(w.conns, a) - Count(w.logins, a) ELSE 0
SshRight(p, w, s) == \A i \in DOMAIN w.conns :
  Count(s.ssh, w.conns[i]) = Excess(w, w.conns[i])
TcpRight(p, w, s) == LET n == s.tcp.counts IN
  s.tcp.total = Count(w.tcp, "LISTEN") + n["ESTABLISHED"] + s.tcp.half + n["FIN_WAIT1"] + n["FIN_WAIT2"]
                + n["TIME_WAIT"] + n["CLOSE"] + n["CLOSE_WAIT"] + n["LAST_ACK"] + n["CLOSING"]
CpuRight(p, w, s) ==
  (w.busy >= p.busy /\ w.idle >= p.idle /\ w.busy + w.idle < CounterMod) =>
    s.cpu[1] <= s.cpu[2] /\ s.cpu[1] * (w.busy + w.idle - p.busy - p.idle) = s.cpu[2] * (w.busy - p.busy)
DiskRight(p, w, s) ==
  (\A i \in DOMAIN w.disks : i \in DOMAIN p.disks => p.disks[i].mount = w.disks[i].mount) =>
    \A i \in DOMAIN s.disk, j \in DOMAIN p.disks :
      p.disks[j].mount = w.disks[i].mount /\ p.disks[j].unit = "G" /\ w.disks[i].unit = "G"
        => s.disk[i] = InG(w.disks[i]) - InG(p.disks[j])
PidRight(p, w, s) ==
  (\A i \in DOMAIN w.procs : w.procs[i][1] = w.procs[i][2] /\ w.procs[i][1] > 0) =>
    s.pid.threads = s.pid.processes + s.pid.others
SamplesRight ==
  wstep = "create" =>
    /\ SshRight(before, now, sample) /\ TcpRight(before, now, sample)
    /\ CpuRight(before, now, sample) /\ DiskRight(before, now, sample)
    /\ PidRight(before, now, sample)
=============================================================================
