------------------------------ MODULE MCStartup ------------------------------
(***************************************************************************)
(* Configuration files that differ in the log, in the port and in the LLM: *)
(* settings left out, blank, with blanks around them, or of unknown value. *)
(***************************************************************************)
EXTENDS Startup

Base == [host |-> "localhost", admins |-> "some"]

With(f, g) == [k \in DOMAIN f \cup DOMAIN g |-> IF k \in DOMAIN g THEN g[k] ELSE f[k]]
Llm(provider, endpoint, model) ==
    [llm |-> [provider |-> provider, endpoint |-> endpoint, model |-> model]]

MCFiles ==
    {[host |-> "localhost"], Base,
     With(Base, [log_type |-> "syslog"]),
     With(Base, Llm(" ollama ", "url", " ")), With(Base, Llm("ollama", "url", "own")),
     With(Base, Llm("ollama", " ", "own")), With(Base, Llm("gpt", "url", "own"))}
        \cup {With(Base, [log_type |-> "file", log_mode |-> mode, port |-> port]) :
                  mode \in {"append", "create"}, port \in {8000, 8001}}
        \cup {With(Base, [log_type |-> "file", log_rotation_age |-> age]) : age \in {"h", "1h"}}
==============================================================================
