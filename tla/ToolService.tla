----------------------------- MODULE ToolService -----------------------------
(***************************************************************************)
(* What an MCP client may rely on when it calls a tool of the server: the  *)
(* call ends at most once; pgmoneta runs its request at most once; the     *)
(* call reports that it was done only after it ran, and that pgmoneta      *)
(* refused it only if it did not run.  A call that fails, or is lost with  *)
(* the server, promises nothing: its request may have run, or may still.   *)
(* The ToolCall module implements this.                                    *)
(***************************************************************************)
EXTENDS Naturals

CONSTANT Calls

VARIABLES state,   \* what the client knows of each call
          runs     \* how often pgmoneta ran its request

Reports == {"done", "refused", "greeted", "failed", "lost"}

Init == /\ state = [c \in Calls |-> "idle"]
        /\ runs = [c \in Calls |-> 0]

Ask(c) == /\ state[c] = "idle"
          /\ state' = [state EXCEPT ![c] = "asked"]
          /\ UNCHANGED runs

Run(c) == /\ state[c] \in {"asked", "failed", "lost"} /\ runs[c] = 0
          /\ runs' = [runs EXCEPT ![c] = 1]
          /\ UNCHANGED state

Report(c, how) == /\ state[c] \in {"idle", "asked"}
                  /\ how = "done" => runs[c] = 1
                  /\ how = "refused" => runs[c] = 0
                  /\ state' = [state EXCEPT ![c] = how]
                  /\ UNCHANGED runs

\* The server dies with all the calls it is working on.
Lose == /\ state' = [c \in Calls |-> IF state[c] = "asked" THEN "lost" ELSE state[c]]
        /\ UNCHANGED runs

Next == Lose \/ \E c \in Calls : Ask(c) \/ Run(c) \/ \E how \in Reports : Report(c, how)

Spec == Init /\ [][Next]_<<state, runs>>
==============================================================================
