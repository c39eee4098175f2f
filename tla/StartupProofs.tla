---------------------------- MODULE StartupProofs ----------------------------
(***************************************************************************)
(* What servers serve with and what becomes of their logs, for any number  *)
(* of servers, any configuration files and any number of edits and lines.  *)
(***************************************************************************)
EXTENDS Startup, TLAPS

Pcs == {"off", "loaded", "logging", "bound", "ready", "serving", "ended"}
Writers == [to : LogFiles \cup {"syslog", "stderr"}, how : {"create", "append"}]
Lines == [by : Servers \cup {None}, no : Nat]
Confs == {None} \cup {LoadConfiguration(f) : f \in Files}

Procs == [pc : Pcs, conf : Confs, config : Confs, writer : Writers, lines : 0..MaxLines]

Types == /\ file \in Files /\ edits \in 0..MaxEdits /\ openable \in BOOLEAN
         /\ proc \in [Servers -> Procs]
         /\ logs \in [LogFiles -> Seq(Lines)]
         /\ clients \in [Servers -> {"none", "waiting", "served"}]

\* Between its start and its end a server has what it loaded, and has published
\* it before it serves.
Published(s) ==
    /\ proc[s].pc = "off" => proc[s].conf = None
    /\ proc[s].conf = None => proc[s].pc \in {"off", "ended"}
    /\ proc[s].config \in {None, proc[s].conf}
    /\ proc[s].pc \in {"ready", "serving"} => proc[s].config = proc[s].conf

\* A server logs nothing before it has its writer, and only where that writes;
\* one that emptied its file has its lines at the places it has counted.
Placed(s) ==
    /\ proc[s].pc \in {"off", "loaded"} => proc[s].lines = 0 /\ proc[s].writer = Stderr
    /\ \A l \in LogFiles : \A i \in DOMAIN logs[l] :
           logs[l][i].by = s => l = proc[s].writer.to /\ proc[s].lines > 0
    /\ Truncates(proc[s].writer) /\ proc[s].writer.to \in LogFiles /\ IsAlone(s) =>
           \A i \in Own(s, logs[proc[s].writer.to]) :
               logs[proc[s].writer.to][i].no = i - 1

Kept(s) ==
    proc[s].writer.to \in LogFiles /\ IsAlone(s) =>
        LET log == logs[proc[s].writer.to]
        IN  /\ \A i \in Own(s, log) : log[i].no < proc[s].lines
            /\ \A n \in 0..(proc[s].lines - 1) : \E i \in Own(s, log) : log[i].no = n
            /\ \A i, j \in Own(s, log) : i < j => log[i].no < log[j].no

IInv == Types /\ \A s \in Servers : Published(s) /\ Placed(s) /\ Kept(s)

------------------------------------------------------------------------------
\* A configuration that loads is normal: it would come out of the normalisation
\* as it is, and its LLM has an endpoint and a model.
LEMMA LoadedIsNormal ==
  ASSUME NEW conf \in Confs, conf # None
  PROVE  /\ conf = Normalize(conf)
         /\ conf.llm # None => "" \notin {conf.llm.endpoint, conf.llm.model}
  <1>1. PICK f \in Files : conf = LoadConfiguration(f)
    BY DEF Confs
  <1> DEFINE c == WithDefaults(f)
  <1>2. conf = Normalize(c)
    BY <1>1 DEF LoadConfiguration
  <1>3. CASE c.llm = None
    BY <1>2, <1>3 DEF Normalize
  <1>4. CASE c.llm # None
    <2> DEFINE n == NormalizeLlm(c.llm)
    <2>1. n # None /\ conf = [c EXCEPT !.llm = n]
      BY <1>2, <1>4 DEF Normalize
    <2>2. "llm" \in DOMAIN c
      BY DEF WithDefaults, Defaults
    <2>3. conf.llm = n /\ [conf EXCEPT !.llm = n] = conf
      BY <2>1, <2>2 DEF WithDefaults
    <2>4. /\ n = NormalizeLlm(n) /\ n.endpoint # "" /\ n.model # ""
      BY <2>1 DEF NormalizeLlm, Trim, DefaultModel
    <2> HIDE DEF n
    <2> QED
      BY <2>1, <2>3, <2>4 DEF Normalize
  <1> QED
    BY <1>3, <1>4

\* The writer of a configuration that loads is one of the writers.
LEMMA WriterFacts ==
  ASSUME Types, NEW conf, MakeWriter(conf) # None
  PROVE  MakeWriter(conf) \in Writers
  BY DEF Types, MakeWriter, Writer, Writers, Stderr, LogFiles

LEMMA StderrFacts ==
  Stderr \in Writers /\ Stderr.to \notin LogFiles /\ ~Truncates(Stderr)
  BY DEF Stderr, Writer, Writers, LogFiles, Truncates

------------------------------------------------------------------------------
\* A step that leaves the log files, the writers and the counts of lines alone.
LEMMA LogUntouched ==
  ASSUME IInv, logs' = logs,
         \A s \in Servers : /\ proc'[s].writer = proc[s].writer
                            /\ proc'[s].lines = proc[s].lines
                            /\ proc'[s].pc \in {"off", "loaded"} =>
                                   proc[s].pc \in {"off", "loaded"}
  PROVE  \A s \in Servers : Placed(s)' /\ Kept(s)'
  <1> SUFFICES ASSUME NEW s \in Servers PROVE Placed(s)' /\ Kept(s)'
    OBVIOUS
  <1>1. Placed(s) /\ Kept(s)
    BY DEF IInv
  <1>2. IsAlone(s)' = IsAlone(s)
    BY DEF IsAlone, SharesFile
  <1>3. \A log : Own(s, log)' = Own(s, log)
    BY DEF Own
  <1>4. Placed(s)'
    BY <1>1, <1>2 DEF Placed, Own
  <1>5. Kept(s)'
    BY <1>1, <1>2 DEF Kept, Own
  <1> QED
    BY <1>4, <1>5

\* A line written at the end: nothing else moves.
LEMMA AppendFacts ==
  ASSUME NEW log \in Seq(Lines), NEW line \in Lines
  PROVE  /\ Append(log, line) \in Seq(Lines)
         /\ DOMAIN log = 1..Len(log) /\ Len(log) \in Nat
         /\ DOMAIN Append(log, line) = 1..(Len(log) + 1)
         /\ \A i \in 1..Len(log) : Append(log, line)[i] = log[i]
         /\ Append(log, line)[Len(log) + 1] = line
  OBVIOUS

\* A line written at its place: nothing else changes, and a gap is filled.
LEMMA PutFacts ==
  ASSUME NEW log \in Seq(Lines), NEW line \in Lines, NEW p \in Nat \ {0}
  PROVE  /\ PutAt(log, p, line) \in Seq(Lines)
         /\ DOMAIN log = 1..Len(log) /\ Len(log) \in Nat
         /\ DOMAIN log \subseteq DOMAIN PutAt(log, p, line)
         /\ p \in DOMAIN PutAt(log, p, line) /\ PutAt(log, p, line)[p] = line
         /\ \A i \in DOMAIN PutAt(log, p, line) : i # p =>
                PutAt(log, p, line)[i] = IF i \in DOMAIN log THEN log[i] ELSE Hole
  <1> DEFINE n == IF p > Len(log) THEN p ELSE Len(log)
             q == [j \in 1..n |-> IF j = p THEN line ELSE IF j \in DOMAIN log THEN log[j] ELSE Hole]
  <1>1. n \in Nat /\ p \in 1..n /\ DOMAIN log = 1..Len(log) /\ DOMAIN log \subseteq 1..n
        /\ Len(log) \in Nat
    OBVIOUS
  <1>2. PutAt(log, p, line) = q
    BY DEF PutAt
  <1>3. Hole \in Lines /\ \A j \in DOMAIN log : log[j] \in Lines
    <2>1. Hole \in Lines
      BY DEF Hole, Lines
    <2> QED
      BY <2>1
  <1> HIDE DEF n
  <1>4. q \in [1..n -> Lines]
    BY <1>3
  <1>5. q \in Seq(Lines)
    BY <1>1, <1>4
  <1> QED
    BY <1>1, <1>2, <1>5

------------------------------------------------------------------------------
LEMMA InitIInv == Init => IInv
  <1> SUFFICES ASSUME Init PROVE IInv
    OBVIOUS
  <1>1. Off \in Procs /\ Off.writer = Stderr /\ Off.lines = 0 /\ Off.pc = "off"
        /\ Off.conf = None /\ Off.config = None
    BY BoundsAreNats, StderrFacts DEF Off, Procs, Pcs, Confs
  <1>2. \A s \in Servers : proc[s] = Off
    BY DEF Init
  <1>3. Types
    <2>1. proc \in [Servers -> Procs]
      BY <1>1 DEF Init
    <2>2. logs \in [LogFiles -> Seq(Lines)]
      BY DEF Init
    <2>3. clients \in [Servers -> {"none", "waiting", "served"}] /\ edits \in 0..MaxEdits
      BY BoundsAreNats DEF Init
    <2>4. file \in Files /\ openable \in BOOLEAN
      BY Zenon DEF Init
    <2> QED
      BY <2>1, <2>2, <2>3, <2>4 DEF Types
  <1>4. \A s \in Servers : Published(s)
    BY <1>1, <1>2 DEF Published
  <1>5. \A s \in Servers : Placed(s)
    <2>1. \A l \in LogFiles : DOMAIN logs[l] = {}
      BY DEF Init
    <2> QED
      BY <1>1, <1>2, <2>1, StderrFacts DEF Placed
  <1>6. \A s \in Servers : Kept(s)
    BY <1>1, <1>2, StderrFacts DEF Kept
  <1> QED
    BY <1>3, <1>4, <1>5, <1>6 DEF IInv

\* A line goes into the file of its server and nowhere else.
LEMMA LogStep ==
  ASSUME IInv, NEW s \in Servers, Log(s)
  PROVE  IInv'
  <1> DEFINE to == proc[s].writer.to
             k == proc[s].lines
             p == [proc[s] EXCEPT !.lines = k + 1]
  <1>0. /\ Types /\ proc \in [Servers -> Procs] /\ proc[s] \in Procs
        /\ logs \in [LogFiles -> Seq(Lines)]
        /\ \A t \in Servers : /\ proc[t].lines \in Nat
                              /\ Published(t) /\ Placed(t) /\ Kept(t)
    BY BoundsAreNats DEF IInv, Types, Procs
  <1>1. /\ proc[s].pc \in {"ready", "serving"} /\ k < MaxLines
        /\ proc' = [proc EXCEPT ![s] = p]
        /\ logs' = IF to \in LogFiles THEN [logs EXCEPT ![to] = Written(logs[to], s)] ELSE logs
        /\ UNCHANGED <<file, edits, openable, clients>>
    BY DEF Log
  <1>2. /\ p \in Procs /\ p.writer = proc[s].writer /\ p.lines = k + 1
        /\ p.pc = proc[s].pc /\ p.config = proc[s].config /\ p.conf = proc[s].conf
    BY <1>0, <1>1, BoundsAreNats DEF Procs
  <1> HIDE DEF p
  <1>3. /\ proc' \in [Servers -> Procs] /\ proc'[s] = p
        /\ \A t \in Servers : t # s => proc'[t] = proc[t]
    BY <1>0, <1>1, <1>2
  <1>4. \A t \in Servers : Published(t)'
    BY <1>0, <1>2, <1>3 DEF Published
  <1>5. \A t \in Servers : IsAlone(t)' = IsAlone(t)
    BY <1>2, <1>3 DEF IsAlone, SharesFile
  <1>6. CASE to \notin LogFiles
    <2>1. logs' = logs
      BY <1>1, <1>6
    <2>2. Types'
      BY <1>0, <1>1, <1>3, <2>1 DEF Types
    <2>3. Placed(s)' /\ Kept(s)'
      BY <1>0, <1>1, <1>2, <1>3, <1>6, <2>1 DEF Placed, Kept
    <2>4. ASSUME NEW t \in Servers, t # s PROVE Placed(t)' /\ Kept(t)'
      <3>1. proc'[t] = proc[t] /\ Placed(t) /\ Kept(t) /\ IsAlone(t)' = IsAlone(t)
        BY <1>0, <1>3, <1>5, <2>4
      <3>2. Placed(t)'
        BY <2>1, <3>1 DEF Placed, Own
      <3>3. Kept(t)'
        BY <2>1, <3>1 DEF Kept, Own
      <3> QED
        BY <3>2, <3>3
    <2> QED
      BY <1>4, <2>2, <2>3, <2>4 DEF IInv
  <1>7. CASE to \in LogFiles
    <2> DEFINE log == logs[to]
               new == Written(log, s)
               line == Line(s)
    <2>1. /\ log \in Seq(Lines) /\ k + 1 \in Nat \ {0} /\ k \in Nat
          /\ line \in Lines /\ line.by = s /\ line.no = k
      <3>1. log \in Seq(Lines) /\ k \in Nat /\ k + 1 \in Nat \ {0}
        BY <1>0, <1>7
      <3> HIDE DEF log
      <3>2. line = [by |-> s, no |-> k]
        BY DEF Line
      <3> HIDE DEF line, k
      <3>3. line \in Lines /\ line.by = s /\ line.no = k
        BY <3>1, <3>2 DEF Lines
      <3> QED
        BY <3>1, <3>3
    <2>2. proc[s].writer.how = "append" => new = Append(log, line)
      BY DEF Written
    <2>3. ASSUME proc[s].writer.how # "append"
          PROVE  /\ new \in Seq(Lines) /\ DOMAIN log \subseteq DOMAIN new
                 /\ k + 1 \in DOMAIN new /\ new[k + 1] = line
                 /\ \A i \in DOMAIN new : i # k + 1 =>
                        new[i] = IF i \in DOMAIN log THEN log[i] ELSE Hole
      <3>1. new = PutAt(log, k + 1, line)
        BY <2>3 DEF Written
      <3> HIDE DEF log, line, new, k
      <3> QED
        <4>1. PutAt(log, k + 1, line) \in Seq(Lines) /\ DOMAIN log \subseteq DOMAIN new
          BY <2>1, <3>1, PutFacts
        <4>2. k + 1 \in DOMAIN new /\ new[k + 1] = line
          BY <2>1, <3>1, PutFacts
        <4>3. \A i \in DOMAIN PutAt(log, k + 1, line) : i # k + 1 =>
                  PutAt(log, k + 1, line)[i] = IF i \in DOMAIN log THEN log[i] ELSE Hole
          BY <2>1, PutFacts
        <4> QED
          BY <3>1, <4>1, <4>2, <4>3
    <2>4. /\ new \in Seq(Lines) /\ DOMAIN log \subseteq DOMAIN new
          /\ \A i \in DOMAIN new : \/ new[i] = line
                                   \/ i \in DOMAIN log /\ new[i] = log[i]
                                   \/ new[i] = Hole
          /\ \E i \in DOMAIN new : new[i] = line
      <3> HIDE DEF log, line, new, k
      <3>1. CASE proc[s].writer.how = "append"
        BY <2>1, <2>2, <3>1, AppendFacts
      <3>2. CASE proc[s].writer.how # "append"
        BY <2>3, <3>2
      <3> QED
        BY <3>1, <3>2
    <2>5. logs' = [logs EXCEPT ![to] = new]
      BY <1>1, <1>7
    <2> HIDE DEF new, line
    <2>6. /\ logs' \in [LogFiles -> Seq(Lines)] /\ logs'[to] = new
          /\ \A l \in LogFiles : l # to => logs'[l] = logs[l]
      BY <1>0, <1>7, <2>4, <2>5
    <2>7. Types'
      BY <1>0, <1>1, <1>3, <2>6 DEF Types
    <2>8. Hole.by \notin Servers
      BY NoneIsNoServer DEF Hole
    <2>9. ASSUME NEW t \in Servers, t # s PROVE Placed(t)' /\ Kept(t)'
      <3>1. proc'[t] = proc[t] /\ Placed(t) /\ Kept(t) /\ IsAlone(t)' = IsAlone(t)
        BY <1>0, <1>3, <1>5, <2>9
      <3>2. ASSUME proc[t].writer.to \in LogFiles, IsAlone(t)
            PROVE  LET m == logs[proc[t].writer.to]
                       l == logs'[proc[t].writer.to]
                   IN  Own(t, l) = Own(t, m) /\ \A i \in Own(t, m) : l[i] = m[i]
        <4>1. CASE proc[t].writer.to # to
          BY <2>6, <3>2, <4>1 DEF Own
        <4>2. CASE proc[t].writer.to = to
          <5>1. proc[s].writer.how = "append"
            BY <1>0, <2>9, <3>2, <4>2 DEF IsAlone, SharesFile, Truncates, Procs, Writers
          <5>2. new = Append(log, line) /\ line.by # t
            BY <2>1, <2>2, <2>9, <5>1
          <5> HIDE DEF log
          <5>3. Own(t, new) = Own(t, log) /\ \A i \in Own(t, log) : new[i] = log[i]
            BY <2>1, <5>2, AppendFacts DEF Own
          <5> QED
            BY <2>6, <4>2, <5>3 DEF log
        <4> QED
          BY <4>1, <4>2
      <3>3. Placed(t)'
        <4>1. \A l \in LogFiles : \A i \in DOMAIN logs'[l] :
                  logs'[l][i].by = t => i \in DOMAIN logs[l] /\ logs[l][i].by = t
          <5> SUFFICES ASSUME NEW l \in LogFiles, NEW i \in DOMAIN logs'[l],
                              logs'[l][i].by = t
                       PROVE  i \in DOMAIN logs[l] /\ logs[l][i].by = t
            OBVIOUS
          <5>1. CASE l # to
            BY <2>6, <5>1
          <5>2. CASE l = to
            <6> HIDE DEF log, to
            <6>1. i \in DOMAIN new /\ new[i].by = t
              BY <2>6, <5>2
            <6>2. i \in DOMAIN log /\ new[i] = log[i]
              BY <2>1, <2>4, <2>8, <2>9, <6>1
            <6> QED
              BY <5>2, <6>1, <6>2 DEF log
          <5> QED
            BY <5>1, <5>2
        <4> QED
          BY <3>1, <3>2, <4>1 DEF Placed
      <3>4. Kept(t)'
        BY <3>1, <3>2 DEF Kept
      <3> QED
        BY <3>3, <3>4
    <2>10. /\ proc'[s].writer = proc[s].writer /\ proc'[s].lines = k + 1
           /\ proc'[s].pc \in {"ready", "serving"} /\ IsAlone(s)' = IsAlone(s)
           /\ Placed(s) /\ Kept(s)
      BY <1>0, <1>1, <1>2, <1>3, <1>5
    <2>11. Own(s, new) \subseteq DOMAIN new /\ Own(s, log) \subseteq DOMAIN log
      BY DEF Own
    <2>12. ASSUME IsAlone(s), Truncates(proc[s].writer)
           PROVE  /\ Own(s, new) = Own(s, log) \cup {k + 1}
                  /\ \A i \in Own(s, new) : new[i].no = i - 1
                  /\ \A i \in Own(s, log) : new[i] = log[i]
      <3>1. \A i \in Own(s, log) : log[i].no = i - 1 /\ log[i].no < k
        BY <1>7, <2>10, <2>12 DEF Placed, Kept
      <3>2. proc[s].writer.how # "append"
        BY <2>12 DEF Truncates
      <3> HIDE DEF log, to, k
      <3>3. \A i \in Own(s, log) : i \in DOMAIN log /\ i \in Nat /\ i - 1 < k
        BY <2>1, <2>11, <3>1
      <3>4. \A i \in Own(s, log) : i \in DOMAIN new /\ i # k + 1 /\ new[i] = log[i]
        BY <2>1, <2>3, <3>2, <3>3
      <3>5. \A i \in DOMAIN new : i # k + 1 /\ new[i].by = s => i \in DOMAIN log /\ log[i].by = s
        BY <2>3, <2>8, <3>2
      <3>6. Own(s, new) = Own(s, log) \cup {k + 1}
        <4>1. \A i : i \in Own(s, new) <=> i \in Own(s, log) \/ i = k + 1
          BY <2>1, <2>3, <3>2, <3>3, <3>4, <3>5 DEF Own
        <4> QED
          BY <4>1
      <3> QED
        BY <2>1, <2>3, <3>1, <3>2, <3>4, <3>6
    <2>13. ASSUME ~Truncates(proc[s].writer)
           PROVE  /\ Own(s, new) = Own(s, log) \cup {Len(log) + 1}
                  /\ new[Len(log) + 1] = line
                  /\ \A i \in Own(s, log) : i \in 1..Len(log) /\ new[i] = log[i]
      <3>1. new = Append(log, line)
        BY <1>0, <2>2, <2>13 DEF Truncates, Procs, Writers
      <3> HIDE DEF log, to, k
      <3> QED
        BY <2>1, <3>1, AppendFacts DEF Own
    <2>14. Placed(s)'
      <3>1. \A l \in LogFiles : \A i \in DOMAIN logs'[l] : logs'[l][i].by = s => l = to
        <4>1. ASSUME NEW l \in LogFiles, l # to PROVE logs'[l] = logs[l]
          BY <2>6, <4>1
        <4> QED
          BY <2>10, <4>1 DEF Placed
      <3>2. k + 1 > 0
        BY <2>1
      <3>3. IsAlone(s) /\ Truncates(proc[s].writer) =>
                \A i \in Own(s, logs'[to]) : logs'[to][i].no = i - 1
        <4> HIDE DEF log, k
        <4> QED
          BY <2>6, <2>12
      <3> QED
        BY <2>10, <3>1, <3>2, <3>3 DEF Placed, Own
    <2>15. Kept(s)'
      <3> SUFFICES ASSUME IsAlone(s)
                   PROVE  /\ \A i \in Own(s, new) : new[i].no < k + 1
                          /\ \A n \in 0..k : \E i \in Own(s, new) : new[i].no = n
                          /\ \A i, j \in Own(s, new) : i < j => new[i].no < new[j].no
        <4>1. proc'[s].lines = k + 1 /\ proc'[s].lines - 1 = k /\ k \in Nat
          BY <2>1, <2>10
        <4>2. logs'[proc'[s].writer.to] = new
          BY <2>6, <2>10
        <4> HIDE DEF log, k, to
        <4>3. 0..(proc'[s].lines - 1) = 0..k
          BY <4>1, Zenon
        <4> QED
          BY <2>10, <4>1, <4>2, <4>3, Zenon DEF Kept
      <3>1. /\ \A i \in Own(s, log) : log[i].no < k
            /\ \A n \in 0..(k - 1) : \E i \in Own(s, log) : log[i].no = n
            /\ \A i, j \in Own(s, log) : i < j => log[i].no < log[j].no
        BY <1>7, <2>10 DEF Kept
      <3>2. DOMAIN log = 1..Len(log) /\ Len(log) \in Nat
        BY <2>1, AppendFacts
      <3>3. PICK at \in Nat : /\ Own(s, new) = Own(s, log) \cup {at} /\ new[at] = line
                              /\ \A i \in Own(s, log) : i \in Nat /\ i < at /\ new[i] = log[i]
        <4> HIDE DEF log, to, k
        <4>1. CASE Truncates(proc[s].writer)
          <5>1. \A i \in Own(s, log) : i \in Nat /\ log[i].no = i - 1 /\ i < k + 1
            BY <2>1, <2>11, <2>12, <3>1, <3>2, <4>1
          <5>2. new[k + 1] = line /\ k + 1 \in Nat
            BY <2>1, <2>3, <4>1 DEF Truncates
          <5> QED
            BY <2>12, <4>1, <5>1, <5>2
        <4>2. CASE ~Truncates(proc[s].writer)
          <5>1. Len(log) + 1 \in Nat /\ \A i \in Own(s, log) : i \in Nat /\ i < Len(log) + 1
            BY <2>11, <3>2
          <5> QED
            BY <2>13, <4>2, <5>1
        <4> QED
          BY <4>1, <4>2
      <3> HIDE DEF log, to, k
      <3>4. /\ \A i \in Own(s, log) : new[i].no = log[i].no
            /\ at \in Own(s, new) /\ new[at].no = k
            /\ \A i \in Own(s, new) : i = at \/ i \in Own(s, log)
            /\ Own(s, log) \subseteq Own(s, new)
        BY <2>1, <3>3
      <3>5. \A i \in Own(s, log) : log[i].no \in Nat
        <4>1. \A i \in DOMAIN log : log[i] \in Lines
          BY <2>1
        <4> QED
          BY <2>11, <4>1 DEF Lines
      <3>6. \A i \in Own(s, new) : new[i].no < k + 1
        BY <2>1, <3>1, <3>4, <3>5
      <3>7. \A n \in 0..k : \E i \in Own(s, new) : new[i].no = n
        <4> SUFFICES ASSUME NEW n \in 0..k PROVE \E i \in Own(s, new) : new[i].no = n
          OBVIOUS
        <4>1. CASE n = k
          BY <3>4, <4>1
        <4>2. CASE n # k
          <5>1. PICK i \in Own(s, log) : log[i].no = n
            BY <2>1, <3>1, <4>2
          <5> QED
            BY <3>4, <5>1
        <4> QED
          BY <4>1, <4>2
      <3>8. ASSUME NEW i \in Own(s, new), NEW j \in Own(s, new), i < j
            PROVE  new[i].no < new[j].no
        <4>1. i \in Own(s, log)
          BY <3>3, <3>4, <3>8
        <4> QED
          BY <2>1, <3>1, <3>4, <3>8, <4>1
      <3> QED
        BY <3>6, <3>7, <3>8
    <2> QED
      BY <1>4, <2>7, <2>9, <2>14, <2>15 DEF IInv
  <1> QED
    BY <1>6, <1>7

LEMMA StepIInv == IInv /\ [Next]_vars => IInv'
  <1> SUFFICES ASSUME IInv, [Next]_vars PROVE IInv'
    OBVIOUS
  <1>0. /\ Types /\ proc \in [Servers -> Procs]
        /\ \A s \in Servers : /\ proc[s].conf \in Confs /\ proc[s].config \in Confs
                              /\ proc[s].writer \in Writers /\ proc[s].lines \in Nat
                              /\ Published(s) /\ Placed(s) /\ Kept(s)
    BY BoundsAreNats DEF IInv, Types, Procs
  <1>1. CASE Edit \/ UNCHANGED vars
    <2>1. UNCHANGED <<openable, proc, logs, clients>> /\ file' \in Files
          /\ edits' \in 0..MaxEdits
      BY <1>0, <1>1, BoundsAreNats DEF Edit, vars, Types
    <2>2. Types' /\ \A s \in Servers : Published(s)'
      BY <1>0, <2>1 DEF Types, Published
    <2> QED
      BY <2>1, <2>2, LogUntouched DEF IInv
  <1>2. ASSUME NEW s \in Servers, NEW p \in Procs, proc' = [proc EXCEPT ![s] = p],
               UNCHANGED <<file, edits, openable, logs, clients>>,
               p.writer = proc[s].writer, p.lines = proc[s].lines,
               p.pc \in {"off", "loaded"} => proc[s].pc \in {"off", "loaded"},
               p.pc = "off" => p.conf = None,
               p.conf = None => p.pc \in {"off", "ended"},
               p.config \in {None, p.conf},
               p.pc \in {"ready", "serving"} => p.config = p.conf
        PROVE  IInv'
    <2>1. proc' \in [Servers -> Procs] /\ proc'[s] = p
          /\ \A t \in Servers : t # s => proc'[t] = proc[t]
      BY <1>0, <1>2
    <2>2. Types'
      BY <1>0, <1>2, <2>1 DEF Types
    <2>3. \A t \in Servers : Published(t)'
      BY <1>0, <1>2, <2>1 DEF Published
    <2>4. \A t \in Servers : Placed(t)' /\ Kept(t)'
      BY <1>2, <2>1, LogUntouched
    <2> QED
      BY <2>2, <2>3, <2>4 DEF IInv
  <1>3. ASSUME NEW s \in Servers, Launch(s) PROVE IInv'
    <2> DEFINE conf == LoadConfiguration(file)
    <2>1. conf \in Confs /\ proc[s].pc = "off"
          /\ UNCHANGED <<file, edits, openable, logs, clients>>
      BY <1>0, <1>3 DEF Launch, Confs, Types
    <2>2. CASE conf = None
      <3> DEFINE p == [proc[s] EXCEPT !.pc = "ended"]
      <3>1. proc' = [proc EXCEPT ![s] = p]
        BY <1>3, <2>2 DEF Launch
      <3>2. /\ p \in Procs /\ p.writer = proc[s].writer /\ p.lines = proc[s].lines
            /\ p.pc = "ended" /\ p.config = proc[s].config /\ p.conf = proc[s].conf
        BY <1>0 DEF Procs, Pcs
      <3> HIDE DEF p
      <3> QED
        BY <1>0, <1>2, <2>1, <3>1, <3>2 DEF Published
    <2>3. CASE conf # None
      <3> DEFINE p == [proc[s] EXCEPT !.pc = "loaded", !.conf = conf]
      <3>1. proc' = [proc EXCEPT ![s] = p]
        BY <1>3, <2>3 DEF Launch
      <3>2. /\ p \in Procs /\ p.writer = proc[s].writer /\ p.lines = proc[s].lines
            /\ p.pc = "loaded" /\ p.config = proc[s].config /\ p.conf = conf
        BY <1>0, <2>1 DEF Procs, Pcs
      <3>3. p.config = None
        BY <1>0, <2>1, <3>2 DEF Published
      <3> HIDE DEF p
      <3> QED
        BY <1>2, <2>1, <2>3, <3>1, <3>2, <3>3
    <2> QED
      BY <2>2, <2>3
  <1>4. ASSUME NEW s \in Servers, NEW to \in Pcs, proc' = [proc EXCEPT ![s].pc = to],
               UNCHANGED <<file, edits, openable, logs, clients>>,
               to \notin {"off", "loaded"}, proc[s].conf = None => to = "ended",
               to \in {"ready", "serving"} => proc[s].pc = "ready"
        PROVE  IInv'
    <2> DEFINE p == [proc[s] EXCEPT !.pc = to]
    <2>1. proc' = [proc EXCEPT ![s] = p]
      BY <1>4
    <2>2. /\ p \in Procs /\ p.writer = proc[s].writer /\ p.lines = proc[s].lines
          /\ p.pc = to /\ p.config = proc[s].config /\ p.conf = proc[s].conf
      BY <1>0 DEF Procs
    <2> HIDE DEF p
    <2>3. p.conf = None => p.pc = "ended"
      BY <1>4, <2>2
    <2>4. p.config \in {None, p.conf} /\ (p.pc \in {"ready", "serving"} => p.config = p.conf)
      BY <1>0, <1>4, <2>2 DEF Published
    <2> QED
      BY <1>2, <1>4, <2>1, <2>2, <2>3, <2>4
  <1>5. ASSUME NEW s \in Servers, InitLog(s) PROVE IInv'
    <2> DEFINE w == MakeWriter(proc[s].conf)
    <2>1. proc[s].pc = "loaded" /\ UNCHANGED <<file, edits, openable, clients>>
          /\ proc[s].conf # None
      BY <1>0, <1>5 DEF InitLog, Published
    <2>2. CASE w = None
      <3>1. proc' = [proc EXCEPT ![s].pc = "ended"] /\ logs' = logs
        BY <1>5, <2>2 DEF InitLog
      <3>2. UNCHANGED <<file, edits, openable, logs, clients>>
        BY <2>1, <3>1
      <3>3. "ended" \in Pcs \ {"off", "loaded", "ready", "serving"}
        BY DEF Pcs
      <3> HIDE DEF w
      <3> QED
        BY <1>4, <3>1, <3>2, <3>3
    <2>3. CASE w # None
      <3> DEFINE p == [proc[s] EXCEPT !.pc = "logging", !.writer = w]
      <3>1. /\ proc' = [proc EXCEPT ![s] = p]
            /\ logs' = IF Truncates(w) THEN [logs EXCEPT ![w.to] = <<>>] ELSE logs
        BY <1>5, <2>3 DEF InitLog
      <3>2. w \in Writers
        BY <1>0, <2>3, WriterFacts
      <3>3. /\ p \in Procs /\ p.writer = w /\ p.lines = proc[s].lines
            /\ p.pc = "logging" /\ p.config = proc[s].config /\ p.conf = proc[s].conf
        BY <1>0, <3>2 DEF Procs, Pcs
      <3> HIDE DEF p, w
      <3>4. proc' \in [Servers -> Procs] /\ proc'[s] = p
            /\ \A t \in Servers : t # s => proc'[t] = proc[t]
        BY <1>0, <3>1, <3>3
      <3>5. /\ logs' \in [LogFiles -> Seq(Lines)]
            /\ \A l \in LogFiles : /\ DOMAIN logs'[l] \subseteq DOMAIN logs[l]
                                   /\ \A i \in DOMAIN logs'[l] : logs'[l][i] = logs[l][i]
                                   /\ (Truncates(w) /\ l = w.to) \/ logs'[l] = logs[l]
        <4>1. logs \in [LogFiles -> Seq(Lines)] /\ <<>> \in Seq(Lines) /\ DOMAIN <<>> = {}
          BY <1>0 DEF Types
        <4>2. CASE Truncates(w)
          <5>1. logs' \in [LogFiles -> Seq(Lines)]
            BY <3>1, <4>1, <4>2
          <5>2. \A l \in LogFiles : logs'[l] = IF l = w.to THEN <<>> ELSE logs[l]
            BY <3>1, <4>1, <4>2
          <5> QED
            BY <4>1, <4>2, <5>1, <5>2
        <4>3. CASE ~Truncates(w)
          BY <3>1, <4>1, <4>3
        <4> QED
          BY <4>2, <4>3
      <3>6. Types'
        BY <1>0, <2>1, <3>4, <3>5 DEF Types
      <3>7. \A t \in Servers : Published(t)'
        BY <1>0, <2>1, <3>3, <3>4 DEF Published
      <3>8. proc[s].lines = 0 /\ \A l \in LogFiles : \A i \in DOMAIN logs'[l] : logs'[l][i].by # s
        BY <1>0, <2>1, <3>5 DEF Placed
      <3>9. Placed(s)' /\ Kept(s)'
        <4>1. \A l \in LogFiles : Own(s, logs'[l]) = {}
          BY <3>8 DEF Own
        <4>2. Placed(s)'
          BY <3>3, <3>4, <3>8, <4>1 DEF Placed, Own
        <4>3. Kept(s)'
          BY <3>3, <3>4, <3>8, <4>1 DEF Kept, Own
        <4> QED
          BY <4>2, <4>3
      <3>10. ASSUME NEW t \in Servers, t # s PROVE Placed(t)' /\ Kept(t)'
        <4>1. ~Truncates(proc[s].writer)
          BY <1>0, <2>1, StderrFacts DEF Placed
        <4>2. IsAlone(t)' => IsAlone(t)
          BY <3>4, <3>10, <4>1 DEF IsAlone, SharesFile
        <4>3. IsAlone(t)' /\ proc[t].writer.to \in LogFiles =>
                  logs'[proc[t].writer.to] = logs[proc[t].writer.to]
          BY <3>3, <3>4, <3>5, <3>10 DEF IsAlone, SharesFile
        <4>4. Placed(t)'
          BY <1>0, <3>4, <3>5, <3>10, <4>2, <4>3 DEF Placed, Own
        <4>5. Kept(t)'
          <5>1. proc'[t] = proc[t] /\ Kept(t)
            BY <1>0, <3>4, <3>10
          <5> QED
            BY <4>2, <4>3, <5>1 DEF Kept, Own
        <4> QED
          BY <4>4, <4>5
      <3> QED
        BY <3>6, <3>7, <3>9, <3>10 DEF IInv
    <2> QED
      BY <2>2, <2>3
  <1>6. ASSUME NEW s \in Servers, Bind(s) PROVE IInv'
    BY <1>0, <1>4, <1>6 DEF Bind, Advance, Published, Pcs
  <1>7. ASSUME NEW s \in Servers, SetConfig(s) PROVE IInv'
    <2> DEFINE p == [proc[s] EXCEPT !.pc = "ready", !.config = proc[s].conf]
    <2>1. /\ proc' = [proc EXCEPT ![s] = p] /\ proc[s].pc = "bound"
          /\ UNCHANGED <<file, edits, openable, logs, clients>>
      BY <1>7 DEF SetConfig
    <2>2. /\ p \in Procs /\ p.writer = proc[s].writer /\ p.lines = proc[s].lines
          /\ p.pc = "ready" /\ p.config = proc[s].conf /\ p.conf = proc[s].conf
      BY <1>0 DEF Procs, Pcs
    <2> HIDE DEF p
    <2> QED
      BY <1>0, <1>2, <2>1, <2>2 DEF Published
  <1>8. ASSUME NEW s \in Servers, Serve(s) PROVE IInv'
    BY <1>0, <1>4, <1>8 DEF Serve, Advance, Published, Pcs
  <1>9. ASSUME NEW s \in Servers, Log(s) PROVE IInv'
    BY <1>9, LogStep
  <1>10. ASSUME NEW s \in Servers, Connect(s) \/ Handle(s) PROVE IInv'
    <2>1. UNCHANGED <<file, edits, openable, proc, logs>>
      BY <1>10 DEF Connect, Handle
    <2>2. clients' \in [Servers -> {"none", "waiting", "served"}]
      BY <1>0, <1>10 DEF Connect, Handle, Types, Published
    <2>3. Types' /\ \A t \in Servers : Published(t)'
      BY <1>0, <2>1, <2>2 DEF Types, Published
    <2> QED
      BY <2>1, <2>3, LogUntouched DEF IInv
  <1>11. ASSUME NEW s \in Servers, Stop(s) PROVE IInv'
    BY <1>0, <1>4, <1>11 DEF Stop, Pcs
  <1> QED
    BY <1>1, <1>3, <1>5, <1>6, <1>7, <1>8, <1>9, <1>10, <1>11 DEF Next, Step

------------------------------------------------------------------------------
LEMMA Invariance == Spec => []IInv
  <1>1. Init => IInv
    BY InitIInv
  <1>2. IInv /\ [Next]_vars => IInv'
    BY StepIInv
  <1> QED
    BY <1>1, <1>2, PTL DEF Spec

\* Files, servers, logs and clients are of their kinds.
THEOREM TypeInvariant == Spec => []TypeOK
  <1>1. IInv => TypeOK
    <2> SUFFICES ASSUME IInv PROVE TypeOK
      OBVIOUS
    <2>1. /\ file \in Files /\ edits \in 0..MaxEdits /\ openable \in BOOLEAN
          /\ proc \in [Servers -> Procs] /\ logs \in [LogFiles -> Seq(Lines)]
          /\ clients \in [Servers -> {"none", "waiting", "served"}]
      BY DEF IInv, Types
    <2>2. ASSUME NEW s \in Servers
          PROVE  /\ proc[s].pc \in Pcs /\ proc[s].writer \in Writers
                 /\ proc[s].lines \in 0..MaxLines
                 /\ proc[s].conf = None => proc[s].pc \in {"off", "ended"}
                 /\ proc[s].config \in {None, proc[s].conf}
                 /\ clients[s] \in {"none", "waiting", "served", "panic"}
      BY <2>1 DEF IInv, Procs, Published
    <2>3. ASSUME NEW l \in LogFiles, NEW i \in DOMAIN logs[l]
          PROVE  logs[l][i].by \in Servers \cup {None}
      <3>1. logs[l] \in Seq(Lines)
        BY <2>1
      <3>2. logs[l][i] \in Lines
        BY <3>1
      <3> QED
        BY <3>2 DEF Lines
    <2> QED
      BY <2>1, <2>2, <2>3 DEF TypeOK, Pcs, Writers
  <1> QED
    BY <1>1, Invariance, PTL

\* src/src/bin/server.rs: CONFIG is set before requests are served, however
\* early a client connects.
THEOREM HandlersAreReady == Spec => []HandlersSeeConfig
  <1>1. IInv => HandlersSeeConfig
    BY DEF IInv, Types, HandlersSeeConfig
  <1> QED
    BY <1>1, Invariance, PTL

\* src/src/configuration.rs: whatever the file holds and whenever it is edited,
\* a configuration that is served with is normal.
THEOREM ServesNormalConf == Spec => []ServedConfIsNormal
  <1>1. IInv => ServedConfIsNormal
    <2> SUFFICES ASSUME IInv, NEW s \in Servers, proc[s].pc = "serving"
                 PROVE  LET conf == proc[s].config
                        IN  /\ conf = Normalize(conf)
                            /\ conf.llm # None => "" \notin {conf.llm.endpoint, conf.llm.model}
      BY DEF ServedConfIsNormal
    <2>1. proc[s].config \in Confs /\ proc[s].config # None
      BY DEF IInv, Types, Procs, Published
    <2> QED
      BY <2>1, LoadedIsNormal
  <1> QED
    BY <1>1, Invariance, PTL

\* src/src/logging.rs: the lines of a server stay in its file, each once and in
\* order, as long as no other server has emptied that file.
THEOREM LogsAreKept == Spec => []LogKept
  <1>1. IInv => LogKept
    <2> SUFFICES ASSUME IInv, NEW s \in Servers, proc[s].writer.to \in LogFiles, IsAlone(s)
                 PROVE  LET log == logs[proc[s].writer.to]
                        IN  /\ {log[i].no : i \in Own(s, log)} = 0..(proc[s].lines - 1)
                            /\ \A i, j \in Own(s, log) : i < j => log[i].no < log[j].no
      BY DEF LogKept
    <2> DEFINE log == logs[proc[s].writer.to]
               k == proc[s].lines
    <2>1. /\ \A i \in Own(s, log) : log[i].no < k
          /\ \A n \in 0..(k - 1) : \E i \in Own(s, log) : log[i].no = n
          /\ \A i, j \in Own(s, log) : i < j => log[i].no < log[j].no
      BY DEF IInv, Kept
    <2>2. log \in Seq(Lines) /\ k \in Nat
      BY BoundsAreNats DEF IInv, Types, Procs
    <2> HIDE DEF log, k
    <2>3. \A i \in Own(s, log) : log[i].no \in Nat
      <3>1. \A i \in DOMAIN log : log[i] \in Lines
        BY <2>2
      <3> QED
        BY <3>1 DEF Own, Lines
    <2>4. {log[i].no : i \in Own(s, log)} = 0..(k - 1)
      <3>1. {log[i].no : i \in Own(s, log)} \subseteq 0..(k - 1)
        BY <2>1, <2>2, <2>3
      <3>2. 0..(k - 1) \subseteq {log[i].no : i \in Own(s, log)}
        BY <2>1
      <3> QED
        BY <3>1, <3>2
    <2> QED
      BY <2>1, <2>4 DEF log, k
  <1> QED
    BY <1>1, Invariance, PTL
==============================================================================
