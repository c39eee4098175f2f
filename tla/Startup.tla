------------------------------- MODULE Startup -------------------------------
(***************************************************************************)
(* Starting MCP servers (src/src/bin/server.rs): load and normalise the    *)
(* configuration (src/src/configuration.rs), set up the log                *)
(* (src/src/logging.rs), take the port, publish CONFIG, serve.  Several    *)
(* servers may be started from the same files, which the administrator     *)
(* edits meanwhile; they may share the port, the log file, or neither.     *)
(***************************************************************************)
EXTENDS Naturals, Sequences

CONSTANTS Servers,    \* server processes
          Files,      \* what the configuration file may hold: settings by key
          None,       \* nothing; a configuration that is refused
          MaxEdits,   \* bound on the edits of the configuration file
          MaxLines    \* bound on the lines one process logs

ASSUME BoundsAreNats == MaxEdits \in Nat /\ MaxLines \in Nat
ASSUME NoneIsNoServer == None \notin Servers

VARIABLES file,     \* the configuration file
          edits,
          openable, \* whether the log files can be created and written
          proc,     \* the server processes
          logs,     \* the lines in each log file
          clients   \* clients[s]: the latest client of s

vars == <<file, edits, openable, proc, logs, clients>>

------------------------------------------------------------------------------
(* load_configuration: keys that are absent have defaults, or are required *)

\* `host` stands for the two sections, and the keys in them, that must be there.
Required == {"host", "admins"}
Defaults == [port |-> 8000, compression |-> "zstd", encryption |-> "aes_256_gcm",
             log_type |-> "console", log_mode |-> "append", log_rotation_age |-> "0",
             llm |-> None, host |-> "", admins |-> ""]

WithDefaults(f) == [k \in DOMAIN Defaults |-> IF k \in DOMAIN f THEN f[k] ELSE Defaults[k]]

Trim(s) == CASE s = " " -> ""
             [] s = " ollama " -> "ollama"
             [] OTHER -> s

DefaultModel(provider) == IF provider = "ollama" THEN "llama3.1" ELSE None

\* Trims after the checks.
MutantNormalizeLlm(llm) ==
    LET model == IF llm.model = "" THEN DefaultModel(Trim(llm.provider)) ELSE llm.model
    IN  IF "" \in {llm.provider, llm.endpoint} \/ model = None THEN None
        ELSE [provider |-> Trim(llm.provider), endpoint |-> Trim(llm.endpoint),
              model |-> Trim(model)]

\* An empty provider or endpoint, or a provider that is not supported, is an
\* error; an empty model is the default of its provider.
NormalizeLlm(llm) ==
    LET provider == Trim(llm.provider)
        model == IF Trim(llm.model) = "" THEN DefaultModel(provider) ELSE Trim(llm.model)
    IN  IF "" \in {provider, Trim(llm.endpoint)} \/ DefaultModel(provider) = None THEN None
        ELSE [provider |-> provider, endpoint |-> Trim(llm.endpoint), model |-> model]

Normalize(conf) == IF conf.llm = None THEN conf
                   ELSE IF NormalizeLlm(conf.llm) = None THEN None
                   ELSE [conf EXCEPT !.llm = NormalizeLlm(conf.llm)]

LoadConfiguration(f) == IF Required \subseteq DOMAIN f THEN Normalize(WithDefaults(f)) ELSE None

------------------------------------------------------------------------------
(* Logger::init *)

\* map_log_rotation_age: one letter, or 0.
Rotation(age) == CASE age = "0" -> "never"
                   [] age \in {"m", "M"} -> "minutely"
                   [] age \in {"h", "H"} -> "hourly"
                   [] age \in {"d", "D"} -> "daily"
                   [] age \in {"w", "W"} -> "weekly"
                   [] OTHER -> None

LogFiles == {"log_path", "log_path.date"}

\* Where make_writer sends the lines: a log file that was just emptied or is
\* appended to (under a name of its own if it rotates), syslog, or stderr,
\* which is also what every error falls back to; but a rolling file that cannot
\* be created panics.
Writer(to, how) == [to |-> to, how |-> how]
Stderr == Writer("stderr", "append")

MakeWriter(conf) ==
    CASE conf.log_type = "syslog" -> Writer("syslog", "append")
      [] conf.log_type = "file" /\ conf.log_mode = "create" ->
             IF openable THEN Writer("log_path", "create") ELSE Stderr
      [] conf.log_type = "file" /\ conf.log_mode = "append"
             /\ Rotation(conf.log_rotation_age) # None ->
             IF ~openable THEN None
             ELSE Writer(IF Rotation(conf.log_rotation_age) = "never"
                         THEN "log_path" ELSE "log_path.date", "append")
      [] OTHER -> Stderr

Truncates(w) == w.how = "create"

------------------------------------------------------------------------------
\* `lines` have been logged: the next one goes after them, or to the end of a
\* file that is appended to.
Off == [pc |-> "off", conf |-> None, config |-> None, writer |-> Stderr,
        lines |-> 0]

Init == /\ file \in Files /\ edits = 0
        /\ openable \in BOOLEAN
        /\ proc = [s \in Servers |-> Off]
        /\ logs = [l \in LogFiles |-> <<>>]
        /\ clients = [s \in Servers |-> "none"]

Advance(s, from, to) == proc[s].pc = from /\ proc' = [proc EXCEPT ![s].pc = to]

\* Goes on with what it could not load.
MutantLaunch(s) ==
    /\ proc[s].pc = "off"
    /\ proc' = [proc EXCEPT ![s].pc = "loaded", ![s].conf = LoadConfiguration(file)]
    /\ UNCHANGED <<file, edits, openable, logs, clients>>

Launch(s) ==
    /\ proc[s].pc = "off"
    /\ LET conf == LoadConfiguration(file)
       IN  IF conf = None THEN proc' = [proc EXCEPT ![s].pc = "ended"]
           ELSE proc' = [proc EXCEPT ![s].pc = "loaded", ![s].conf = conf]
    /\ UNCHANGED <<file, edits, openable, logs, clients>>

\* Before the port is known to be free.
InitLog(s) ==
    /\ proc[s].pc = "loaded"
    /\ LET w == MakeWriter(proc[s].conf)
       IN  IF w = None THEN proc' = [proc EXCEPT ![s].pc = "ended"] /\ UNCHANGED logs
           ELSE /\ proc' = [proc EXCEPT ![s].pc = "logging", ![s].writer = w]
                /\ logs' = IF Truncates(w) THEN [logs EXCEPT ![w.to] = <<>>] ELSE logs
    /\ UNCHANGED <<file, edits, openable, clients>>

Listening(s) == proc[s].pc \in {"bound", "ready", "serving"}

Rivals(s) == {t \in Servers \ {s} : Listening(t) /\ proc[t].conf.port = proc[s].conf.port}

\* The port is free, and then it may still be refused.
Bind(s) ==
    /\ proc[s].pc = "logging"
    /\ \/ Rivals(s) = {} /\ Advance(s, "logging", "bound")
       \/ Advance(s, "logging", "ended")
    /\ UNCHANGED <<file, edits, openable, logs, clients>>

\* Serves first.
MutantSetConfig(s) ==
    /\ proc[s].pc \in {"bound", "serving"}
    /\ proc' = [proc EXCEPT ![s].pc = "serving",
                           ![s].config = IF proc[s].pc = "bound" THEN None ELSE proc[s].conf]
    /\ UNCHANGED <<file, edits, openable, logs, clients>>

\* CONFIG.set.
SetConfig(s) ==
    /\ proc[s].pc = "bound"
    /\ proc' = [proc EXCEPT ![s].pc = "ready", ![s].config = proc[s].conf]
    /\ UNCHANGED <<file, edits, openable, logs, clients>>

Serve(s) == /\ Advance(s, "ready", "serving")
            /\ UNCHANGED <<file, edits, openable, logs, clients>>

Line(s) == [by |-> s, no |-> proc[s].lines]
Hole == [by |-> None, no |-> 0]

\* Writes at the place the process has got to, past the end or not.
PutAt(log, i, line) == [j \in 1..(IF i > Len(log) THEN i ELSE Len(log)) |->
                            IF j = i THEN line ELSE IF j \in DOMAIN log THEN log[j] ELSE Hole]

\* A file opened for append is written like any other.
MutantWritten(log, s) == PutAt(log, proc[s].lines + 1, Line(s))

\* An appended line goes to the end of the file, whoever wrote there.
Written(log, s) == IF proc[s].writer.how = "append" THEN Append(log, Line(s))
                   ELSE PutAt(log, proc[s].lines + 1, Line(s))

\* A line is logged when the writer thread has written it.
Log(s) ==
    /\ proc[s].pc \in {"ready", "serving"} /\ proc[s].lines < MaxLines
    /\ LET to == proc[s].writer.to
       IN  logs' = IF to \in LogFiles THEN [logs EXCEPT ![to] = Written(@, s)] ELSE logs
    /\ proc' = [proc EXCEPT ![s].lines = @ + 1]
    /\ UNCHANGED <<file, edits, openable, clients>>

\* The kernel takes connections from the bind on; they are served later.
Connect(s) == /\ Listening(s) /\ clients[s] = "none"
              /\ clients' = [clients EXCEPT ![s] = "waiting"]
              /\ UNCHANGED <<file, edits, openable, proc, logs>>

\* A tool call takes the configuration from CONFIG, or panics.
Handle(s) ==
    /\ proc[s].pc = "serving" /\ clients[s] = "waiting"
    /\ clients' = [clients EXCEPT ![s] = IF proc[s].config = None THEN "panic" ELSE "served"]
    /\ UNCHANGED <<file, edits, openable, proc, logs>>

\* Ctrl-C while serving, or a kill at any time.
Stop(s) == /\ proc[s].pc \notin {"off", "ended"}
           /\ proc' = [proc EXCEPT ![s].pc = "ended"]
           /\ UNCHANGED <<file, edits, openable, logs, clients>>

Edit == /\ edits < MaxEdits /\ edits' = edits + 1
        /\ file' \in Files
        /\ UNCHANGED <<openable, proc, logs, clients>>

Step(s) == \/ Launch(s) \/ InitLog(s) \/ Bind(s) \/ SetConfig(s) \/ Serve(s) \/ Log(s)
           \/ Connect(s) \/ Handle(s) \/ Stop(s)

Next == Edit \/ \E s \in Servers : Step(s)

Spec == Init /\ [][Next]_vars

------------------------------------------------------------------------------
TypeOK == /\ file \in Files /\ edits \in 0..MaxEdits /\ openable \in BOOLEAN
          /\ \A s \in Servers :
                 /\ proc[s].pc \in {"off", "loaded", "logging", "bound", "ready", "serving",
                                    "ended"}
                 /\ proc[s].conf = None => proc[s].pc \in {"off", "ended"}
                 /\ proc[s].config \in {None, proc[s].conf}
                 /\ proc[s].writer \in [to : LogFiles \cup {"syslog", "stderr"},
                                        how : {"create", "append"}]
                 /\ proc[s].lines \in 0..MaxLines
                 /\ clients[s] \in {"none", "waiting", "served", "panic"}
          /\ \A l \in LogFiles : \A i \in DOMAIN logs[l] :
                 logs[l][i].by \in Servers \cup {None}

\* What a server serves with stands, however the file is edited meanwhile: a
\* supported provider, an endpoint, a model, and it would load again as it is.
ServedConfIsNormal ==
    \A s \in Servers : proc[s].pc = "serving" =>
        LET conf == proc[s].config
        IN  /\ conf = Normalize(conf)
            /\ conf.llm # None => "" \notin {conf.llm.endpoint, conf.llm.model}

\* A client that connects as soon as the port is open finds the configuration.
HandlersSeeConfig == \A s \in Servers : clients[s] # "panic"

\* What a server logged to a file stays there, in order, whichever servers log
\* to the same file, unless another one was started in create mode.  (Such a
\* start empties the file even if it then ends because the port is taken, and
\* goes on writing over the lines of others.)
Own(s, log) == {i \in DOMAIN log : log[i].by = s}

SharesFile(s, t) == proc[t].writer.to = proc[s].writer.to
IsAlone(s) == \A t \in Servers \ {s} : Truncates(proc[t].writer) => ~SharesFile(s, t)

LogKept ==
    \A s \in Servers : proc[s].writer.to \in LogFiles /\ IsAlone(s) =>
        LET log == logs[proc[s].writer.to]
        IN  /\ {log[i].no : i \in Own(s, log)} = 0..(proc[s].lines - 1)
            /\ \A i, j \in Own(s, log) : i < j => log[i].no < log[j].no
==============================================================================
