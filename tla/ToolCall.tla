------------------------------- MODULE ToolCall ------------------------------
(***************************************************************************)
(* Tool calls from end to end: the tools of the MCP server                 *)
(* (src/src/handler.rs, src/src/handler/) and forward_request              *)
(* (src/src/client.rs), for several calls of one server at a time, while   *)
(* the administrator rewrites master.key and the server is stopped, killed *)
(* and started again.                                                      *)
(*                                                                         *)
(* A call reads master.key up to three times: to decrypt the password, to  *)
(* encrypt the request and to decrypt the reply.  Nothing keeps the file   *)
(* the same in between.                                                    *)
(*                                                                         *)
(* The parts of a call are modelled in full elsewhere and by their results *)
(* here: the login in Handshake, the stream and its timeouts in Exchange,  *)
(* the translation of the reply in Response, the derivation of keys in     *)
(* MasterKeyCache, the files in Credentials.                               *)
(***************************************************************************)
EXTENDS Naturals, Sequences

CONSTANTS Calls, Users, MasterKeys,
          None,                   \* nothing; a master.key that does not load
          ServerKey,              \* the master key pgmoneta has
          CompressionSettings,    \* values of `compression` in the config file
          EncryptionSettings,     \* values of `encryption`
          MaxRewrites,            \* bound on the changes of master.key
          MaxStarts               \* bound on the starts of the server

VARIABLES master,    \* what is in master.key
          rewrites,
          mode,      \* the server process: down, up, or stopping
          starts,
          conf,      \* CONFIG of the server process
          call,      \* the calls of MCP clients
          request,   \* request[c]: the frame on its way to pgmoneta
          reply,     \* reply[c]: the frame on its way back, or what comes instead
          ran,       \* ran[c]: the requests of this call pgmoneta has run
          troubled   \* troubled[c]: something was wrong outside the server

keyFile == <<master, rewrites>>
process == <<mode, starts, conf>>
stream == <<request, reply, ran>>
vars == <<keyFile, process, call, stream, troubled>>

\* Texts: the request of a call, and pgmoneta's answer that it was done or not.
Text(kind, c) == [kind |-> kind, of |-> c]
Texts == [kind : {"request", "done", "refused"}, of : Calls]

INSTANCE Codec

ASSUME ServerHasKey == ServerKey \in MasterKeys

\* What may come instead of a reply: nothing, the end of the stream, or legacy
\* text that goes on and on.
HangUp == [hangUp |-> TRUE]
Endless == [endless |-> TRUE]
NoReply == {None, HangUp, Endless}

ASSUME NoneIsNothing == None \notin MasterKeys \cup Payloads \cup {HangUp, Endless}
ASSUME BoundsAreNats == MaxRewrites \in Nat /\ MaxStarts \in Nat \ {0}

Frame(comp, enc, p) == [comp |-> comp, enc |-> enc, payload |-> p]

Tools == {"say_hello", "get_backup_info", "list_backups"}

------------------------------------------------------------------------------
(* The settings of a request (build_request_header) *)

Disabled == {"none", "", "off"}

\* Unrecognized values are off, like those of the other setting.
MutantParseEncryption(s) == CASE s \in {"aes_256_gcm", "aes", "aes_256"} -> "aes_256_gcm"
                              [] s \in {"aes_192_gcm", "aes_192"} -> "aes_192_gcm"
                              [] s \in {"aes_128_gcm", "aes_128"} -> "aes_128_gcm"
                              [] OTHER -> "none"

\* None: an error, before anything is sent.
ParseEncryption(s) == CASE s \in {"aes_256_gcm", "aes", "aes_256"} -> "aes_256_gcm"
                        [] s \in {"aes_192_gcm", "aes_192"} -> "aes_192_gcm"
                        [] s \in {"aes_128_gcm", "aes_128"} -> "aes_128_gcm"
                        [] s \in Disabled -> "none"
                        [] OTHER -> None

\* The setting as it is.
MutantParseCompression(s) == s

\* A misspelt algorithm is no compression.
ParseCompression(s) == IF s \in Algorithms THEN s ELSE "none"

------------------------------------------------------------------------------
Idle == [pc |-> "idle", comp |-> "none", enc |-> "none"]

\* load_configuration: what the files hold by now; an entry is encrypted under
\* the key of the day it was made.
Configurations ==
    [compression : CompressionSettings, encryption : EncryptionSettings,
     admins : UNION {[known -> MasterKeys] : known \in SUBSET Users}]

Init == /\ master \in MasterKeys /\ rewrites = 0
        /\ mode = "up" /\ starts = 1
        /\ conf \in Configurations
        /\ call = [c \in Calls |-> Idle]
        /\ request = [c \in Calls |-> None]
        /\ reply = [c \in Calls |-> None]
        /\ ran = [c \in Calls |-> <<>>]
        /\ troubled = [c \in Calls |-> FALSE]

Reports == {"done", "refused", "greeted", "failed", "lost"}
Working(c) == call[c].pc \in {"login", "write", "read"}

Goto(c, at) == call' = [call EXCEPT ![c].pc = at]
Return(c, how) == call' = [call EXCEPT ![c] = [Idle EXCEPT !.pc = how]]
HangUpOn(c) == reply' = [reply EXCEPT ![c] = HangUp]
Drop(c) == reply' = [reply EXCEPT ![c] = None]
Blame(c) == troubled' = [troubled EXCEPT ![c] = TRUE]

\* What a call of `user` needs outside the server to begin with.
Decrypts(user) == user \in DOMAIN conf.admins /\ master = conf.admins[user]
Healthy(user, enc) == enc # None /\ Decrypts(user) /\ (enc # "none" => master = ServerKey)

------------------------------------------------------------------------------
(* One call *)

\* say_hello answers without pgmoneta.
SayHello(c) == /\ mode = "up" /\ call[c].pc = "idle"
               /\ Return(c, "greeted")
               /\ UNCHANGED <<keyFile, process, stream, troubled>>

\* A tool that asks pgmoneta: the header, the entry of the user in CONFIG, the
\* first look at master.key and the decryption of the password.
Invoke(c) ==
    /\ mode = "up" /\ call[c].pc = "idle"
    /\ \E tool \in Tools \ {"say_hello"}, user \in Users :
           LET enc == ParseEncryption(conf.encryption)
           IN  /\ call' = [call EXCEPT ![c] =
                      IF enc # None /\ Decrypts(user)
                      THEN [pc |-> "login", enc |-> enc,
                            comp |-> ParseCompression(conf.compression)]
                      ELSE [Idle EXCEPT !.pc = "failed"]]
               /\ troubled' = [troubled EXCEPT ![c] = ~Healthy(user, enc)]
    /\ UNCHANGED <<keyFile, process, stream>>

\* SecurityUtil::connect_to_server; it fails if pgmoneta refuses, hangs up or
\* takes too long (Handshake).
Login(c) == /\ call[c].pc = "login"
            /\ \/ Goto(c, "write") /\ UNCHANGED troubled
               \/ Return(c, "failed") /\ Blame(c)
            /\ UNCHANGED <<keyFile, process, stream>>

\* write_request, with the second look at master.key if the request is encrypted.
WriteRequest(c) ==
    /\ call[c].pc = "write"
    /\ LET p == Encode(Plain(Text("request", c)), call[c].comp, call[c].enc, master)
       IN  \/ /\ p # None
              /\ request' = [request EXCEPT ![c] = Frame(call[c].comp, call[c].enc, p)]
              /\ Goto(c, "read")
              /\ UNCHANGED reply
           \/ /\ p = None \/ reply[c] = HangUp
              /\ Return(c, "failed") /\ Drop(c)
              /\ UNCHANGED request
    /\ UNCHANGED <<keyFile, process, ran, troubled>>

\* The reply as read_response reads it, and as the handler parses it.
Received(r) == IF r.comp = "text" THEN Utf8(r.payload)
               ELSE Decode(r.payload, r.comp, r.enc, master)
Parses(p) == p # None /\ p.layers = <<>>

\* read_response, with the third look at master.key if the reply is encrypted,
\* and generate_call_tool_result_string.
ReadResponse(c) ==
    /\ call[c].pc = "read" /\ reply[c] \notin NoReply
    /\ LET p == Received(reply[c])
       IN  Return(c, IF Parses(p) THEN p.text.kind ELSE "failed")
    /\ Drop(c)
    /\ UNCHANGED <<keyFile, process, request, ran, troubled>>

\* The request is sent again when no answer comes.
MutantReadFails(c) ==
    /\ call[c].pc = "read" /\ reply[c] \in {None, HangUp}
    /\ Goto(c, "write") /\ Drop(c) /\ Blame(c)
    /\ UNCHANGED <<keyFile, process, request, ran>>

\* A silent stream does not time out.
MutantReadWaits(c) ==
    /\ call[c].pc = "read" /\ reply[c] = HangUp
    /\ Return(c, "failed") /\ Drop(c) /\ Blame(c)
    /\ UNCHANGED <<keyFile, process, request, ran>>

\* The stream ends or is silent for too long (Exchange); one that is never
\* silent for that long is read for as long as it goes on.
ReadFails(c) ==
    /\ call[c].pc = "read" /\ reply[c] \in {None, HangUp}
    /\ Return(c, "failed") /\ Drop(c) /\ Blame(c)
    /\ UNCHANGED <<keyFile, process, request, ran>>

------------------------------------------------------------------------------
(* pgmoneta: each call has a connection of its own *)

\* The reply it should send, in the modes of the request, and replies it may
\* send: in other modes, not in the modes it names, or as legacy text.
Honest(r, text) == Frame(r.comp, r.enc, Encode(text, r.comp, r.enc, ServerKey))
Others(r, text) ==
    {Frame("server_zstd", "none", Wrap(text, Base64)), Frame("text", "none", text),
     Frame(r.comp, r.enc, text)}
        \cup {Frame("none", enc, Encode(text, "none", enc, ServerKey)) :
                  enc \in {"none", "aes_256_gcm"}}

\* Runs a request it can decode, refuses any other, and answers, or does not;
\* the client may be gone by then.
Serve(c) ==
    /\ request[c] # None
    /\ LET r == request[c]
           p == Decode(r.payload, r.comp, r.enc, ServerKey)
           text == Plain(Text(IF Parses(p) THEN "done" ELSE "refused", c))
       IN  /\ ran' = IF Parses(p) THEN [ran EXCEPT ![c] = Append(@, p.text)] ELSE ran
           /\ \/ UNCHANGED <<reply, troubled>>
              \/ /\ call[c].pc = "read"
                 /\ reply' = [reply EXCEPT ![c] = Honest(r, text)]
                 /\ UNCHANGED troubled
              \/ /\ call[c].pc = "read"
                 /\ \E f \in Others(r, text) \cup {HangUp, Endless} : reply' = [reply EXCEPT ![c] = f]
                 /\ Blame(c)
    /\ request' = [request EXCEPT ![c] = None]
    /\ UNCHANGED <<keyFile, process, call>>

\* It hangs up, with the request or without having read it, or has no more to say.
Disconnect(c) == /\ call[c].pc \in {"write", "read"} /\ reply[c] \in {None, Endless}
                 /\ request' = [request EXCEPT ![c] = None]
                 /\ HangUpOn(c)
                 /\ Blame(c)
                 /\ UNCHANGED <<keyFile, process, call, ran>>

------------------------------------------------------------------------------
(* The administrator, and the server process *)

\* `master-key` truncates the file and writes it; the calls under way may meet
\* either, or neither.
RewriteMaster ==
    /\ rewrites < MaxRewrites /\ rewrites' = rewrites + 1
    /\ master' \in (MasterKeys \cup {None}) \ {master}
    /\ troubled' = [c \in Calls |-> troubled[c] \/ Working(c)]
    /\ UNCHANGED <<process, call, stream>>

\* Ctrl-C: no new calls; those under way are finished.
Shutdown == /\ mode = "up" /\ mode' = "stopping"
            /\ UNCHANGED <<keyFile, starts, conf, call, stream, troubled>>

Exit == /\ mode = "stopping" /\ \A c \in Calls : ~Working(c)
        /\ mode' = "down" /\ conf' = None
        /\ UNCHANGED <<keyFile, starts, call, stream, troubled>>

\* The process dies, its connections with it; a request that is out may still run.
Kill == /\ mode # "down" /\ mode' = "down" /\ conf' = None
        /\ call' = [c \in Calls |-> IF Working(c) THEN [Idle EXCEPT !.pc = "lost"]
                                                  ELSE call[c]]
        /\ reply' = [c \in Calls |-> None]
        /\ UNCHANGED <<keyFile, starts, request, ran, troubled>>

Start == /\ mode = "down" /\ starts < MaxStarts
         /\ mode' = "up" /\ starts' = starts + 1
         /\ conf' \in Configurations
         /\ UNCHANGED <<keyFile, call, stream, troubled>>

Answered(c) == ReadResponse(c) \/ ReadFails(c)

Server(c) == SayHello(c) \/ Invoke(c) \/ Login(c) \/ WriteRequest(c) \/ Answered(c)

Next == \/ \E c \in Calls : Server(c) \/ Serve(c) \/ Disconnect(c)
        \/ RewriteMaster \/ Shutdown \/ Exit \/ Kill \/ Start

\* Logins and reads end, by their timeouts if not before; a write need not, nor
\* the read of an endless reply.
Spec == Init /\ [][Next]_vars /\ \A c \in Calls : WF_vars(Login(c)) /\ WF_vars(Answered(c))

------------------------------------------------------------------------------
TypeOK == /\ master \in MasterKeys \cup {None} /\ rewrites \in 0..MaxRewrites
          /\ mode \in {"down", "up", "stopping"} /\ starts \in 1..MaxStarts
          /\ conf \in Configurations \cup {None}
          /\ call \in [Calls -> [pc : {"idle", "login", "write", "read"} \cup Reports,
                                 comp : {"none"} \cup Algorithms, enc : KnownEncryptions]]
          /\ troubled \in [Calls -> BOOLEAN]

\* A call is answered once, its request runs at most once, and what the client
\* is told agrees with what ran: however calls overlap, whatever becomes of
\* master.key between the three looks at it, and when the server is killed.
Service == INSTANCE ToolService
    WITH state <- [c \in Calls |-> IF Working(c) THEN "asked" ELSE call[c].pc],
         runs <- [c \in Calls |-> Len(ran[c])]
ImplementsService == Service!Spec

\* Unless the setting says that encryption is off, no request is ever on the
\* wire without it: a value that is not recognized sends nothing.
Sealed(p) == \E i \in DOMAIN p.layers : p.layers[i].kind \in Modes
NothingInClear ==
    \A c \in Calls : Working(c) /\ request[c] # None /\ conf.encryption \notin Disabled
                         => Sealed(request[c].payload)

\* What a reply says it is encrypted with, it is: a clear reply under such a
\* header is never handed to the client.
NoClearFallback ==
    [][\A c \in Calls : ReadResponse(c) /\ call'[c].pc # "failed" /\ reply[c].enc # "none"
                              => Sealed(reply[c].payload)]_vars

\* A call that fails, or is refused, had a cause outside the server: an unknown
\* user, a setting, a key, a rotation under way, or pgmoneta.  The server's own
\* steps always agree with each other, and with pgmoneta.
FailsOnlyInTrouble ==
    \A c \in Calls : call[c].pc \in {"failed", "refused"} => troubled[c]

\* A shutdown waits for the calls under way, and they end; what can keep it
\* waiting is pgmoneta that does not take a request, or never stops replying.
KeptBusy(c) == call[c].pc = "write" \/ (call[c].pc = "read" /\ reply[c] = Endless)
ShutdownDrains == mode = "stopping" ~> \/ \A c \in Calls : ~Working(c)
                                       \/ \E c \in Calls : KeptBusy(c)
==============================================================================
