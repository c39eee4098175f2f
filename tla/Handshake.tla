------------------------------ MODULE Handshake ------------------------------
(***************************************************************************)
(* SecurityUtil::connect_to_server (src/src/security.rs): connecting to    *)
(* pgmoneta and the SCRAM-SHA-256 exchange.  Every await of the client has *)
(* its own timeout; the peer may be slow or silent, may hang up, and may   *)
(* send any message at any point.  Time is counted in seconds and the      *)
(* client is prompt: it does not sleep while a message for it is there.    *)
(*                                                                         *)
(* SCRAM itself (the scram crate) is external: a server-first is `good`    *)
(* only as an answer to our client-first, since it extends our nonce; a    *)
(* server-final is `good` only as an answer to our client-final from a     *)
(* server that holds a verifier of the same password.                      *)
(***************************************************************************)
EXTENDS Naturals, Sequences

CONSTANTS MaxInFlight   \* bound on messages sent and not yet read

ASSUME MaxInFlightIsNat == MaxInFlight \in Nat \ {0}

VARIABLES pc,       \* the await of connect_to_server, or its outcome
          waited,   \* seconds spent in this await
          elapsed,  \* seconds since the function was entered
          inbox,    \* messages on their way from the server
          closed,   \* whether the server has hung up (after inbox)
          knows,    \* whether the server holds this user's password
          agreed    \* how Ok was reached: not yet, without SASL, with it

clock == <<waited, elapsed>>
peer == <<closed, knows>>
vars == <<pc, waited, elapsed, inbox, closed, knows, agreed>>

Writing == {"startup", "client_first", "client_final"}
Reading == {"startup_resp", "server_first", "server_final", "auth_success"}
Awaits == {"connect"} \cup Writing \cup Reading
Phases == Awaits \cup {"ok", "err"}

MutantLimit(at) == IF at \in Reading \cup Writing THEN 5 ELSE 6

\* timeout(Duration::from_secs(..)) around each await.
Limit(at) == IF at \in Writing THEN 2 ELSE 5

\* A message is type byte and auth type; `good` is SCRAM's verdict on it (for
\* the SASL offer: whether it names SCRAM-SHA-256).  "junk" is a message with
\* an impossible length, a short one, or one of another type.
Auths == {"ok", "sasl", "continue", "final", "other"}
Messages == [tag : {"R"}, auth : Auths, good : BOOLEAN]
                \cup [tag : {"E", "junk"}, auth : {"other"}, good : {FALSE}]

Init == /\ pc = "connect"
        /\ waited = 0 /\ elapsed = 0
        /\ inbox = <<>>
        /\ closed = FALSE
        /\ knows \in BOOLEAN
        /\ agreed = "no"

Await(at) == pc' = at /\ waited' = 0 /\ UNCHANGED elapsed

------------------------------------------------------------------------------
(* The client *)

\* TcpStream::connect is accepted, or refused.
Connect == /\ pc = "connect"
           /\ \/ Await("startup")
              \/ Await("err")
           /\ UNCHANGED <<inbox, peer, agreed>>

After(at) == CASE at = "startup" -> "startup_resp"
               [] at = "client_first" -> "server_first"
               [] at = "client_final" -> "server_final"

\* write_all completes as the peer takes the bytes, or fails.
Write == /\ pc \in Writing
         /\ \/ Await(After(pc))
            \/ closed /\ Await("err")
         /\ UNCHANGED <<inbox, peer, agreed>>

MutantVerdict(at, m) ==
    CASE m.tag # "R" -> "err"
      [] at = "startup_resp" -> CASE m.auth = "ok" -> "ok"
                                  [] m.auth = "sasl" /\ m.good -> "client_first"
                                  [] OTHER -> "err"
      [] at = "server_first" -> IF m.auth = "continue" /\ m.good
                                THEN "client_final" ELSE "err"
      [] at = "server_final" -> IF m.auth = "final" THEN "auth_success" ELSE "err"
      [] at = "auth_success" -> IF m.auth = "ok" THEN "ok" ELSE "err"

\* What the client does with a message: the next await, or its outcome.
Verdict(at, m) ==
    CASE m.tag # "R" -> "err"
      [] at = "startup_resp" -> CASE m.auth = "ok" -> "ok"
                                  [] m.auth = "sasl" /\ m.good -> "client_first"
                                  [] OTHER -> "err"
      [] at = "server_first" -> IF m.auth = "continue" /\ m.good
                                THEN "client_final" ELSE "err"
      [] at = "server_final" -> IF m.auth = "final" /\ m.good
                                THEN "auth_success" ELSE "err"
      [] at = "auth_success" -> IF m.auth = "ok" THEN "ok" ELSE "err"

MutantRetryRead == /\ pc \in Reading /\ inbox # <<>>
                   /\ inbox' = Tail(inbox)
                   /\ IF Verdict(pc, Head(inbox)) = "err"
                      THEN Await(pc) ELSE Await(Verdict(pc, Head(inbox)))
                   /\ agreed' = IF pc' = "ok" THEN "sasl" ELSE agreed
                   /\ UNCHANGED peer

\* read_message, and the checks that follow it.
Receive == /\ pc \in Reading /\ inbox # <<>>
           /\ Await(Verdict(pc, Head(inbox)))
           /\ inbox' = Tail(inbox)
           /\ agreed' = CASE pc' # "ok" -> agreed
                          [] pc = "startup_resp" -> "trust"
                          [] OTHER -> "sasl"
           /\ UNCHANGED peer

Readable == pc \in Reading /\ (inbox # <<>> \/ closed)

\* The server hung up: read_message ends with UnexpectedEof.
ReceiveEof == /\ pc \in Reading /\ inbox = <<>> /\ closed
              /\ Await("err")
              /\ UNCHANGED <<inbox, peer, agreed>>

MutantTimeoutNever == FALSE /\ UNCHANGED vars

Timeout == /\ pc \in Awaits /\ waited = Limit(pc)
           /\ ~ Readable
           /\ Await("err")
           /\ UNCHANGED <<inbox, peer, agreed>>

------------------------------------------------------------------------------
(* The peer and time *)

\* A server can answer with a good server-first once it has our client-first,
\* with a good server-final once it has our proof, and if it knows us.
Possible(m) ==
    /\ m.auth = "continue" /\ m.good =>
           pc \in {"server_first", "client_final", "server_final", "auth_success"}
    /\ m.auth = "final" /\ m.good => knows /\ pc \in {"server_final", "auth_success"}

PeerSends == /\ pc \in Awaits \ {"connect"} /\ ~closed
             /\ Len(inbox) < MaxInFlight
             /\ \E m \in Messages : Possible(m) /\ inbox' = Append(inbox, m)
             /\ UNCHANGED <<pc, clock, peer, agreed>>

PeerCloses == /\ pc \in Awaits \ {"connect"} /\ ~closed
              /\ closed' = TRUE
              /\ UNCHANGED <<pc, clock, inbox, knows, agreed>>

\* A second passes while the client waits.
Tick == /\ pc \in Awaits /\ waited < Limit(pc)
        /\ ~ Readable
        /\ waited' = waited + 1 /\ elapsed' = elapsed + 1
        /\ UNCHANGED <<pc, inbox, peer, agreed>>

Client == Connect \/ Write \/ Receive \/ ReceiveEof \/ Timeout

Next == Client \/ PeerSends \/ PeerCloses \/ Tick

\* Time passes, the runtime polls the client when its timer or its socket is
\* ready.  Nothing is assumed of the peer: Connect and Write need not happen.
Spec == Init /\ [][Next]_vars /\ WF_vars(Receive \/ ReceiveEof \/ Timeout) /\ WF_vars(Tick)

------------------------------------------------------------------------------
\* The longest path: connect 5, three writes of 2 and four reads of 5 seconds.
Budget == 31

TypeOK == /\ pc \in Phases
          /\ waited \in 0..5 /\ elapsed \in Nat
          /\ Len(inbox) <= MaxInFlight /\ \A i \in DOMAIN inbox : inbox[i] \in Messages
          /\ closed \in BOOLEAN /\ knows \in BOOLEAN
          /\ agreed \in {"no", "trust", "sasl"}

\* Ok after a SASL exchange means that the server proved to hold the user's
\* password: no order of messages, early or repeated ones, skips a check.
SaslIsMutual == agreed = "sasl" => knows

\* However slowly the peer answers, every await has its own limit and the
\* whole handshake takes at most their sum.
HandshakeBounded == elapsed <= Budget

\* The handshake ends, with a stream or an error, whatever the peer does.
HandshakeEnds == <>(pc \in {"ok", "err"})
==============================================================================
