------------------------------- MODULE Exchange ------------------------------
(***************************************************************************)
(* One request on an authenticated stream: write_request and read_response *)
(* (src/src/client.rs), and the parse of the answer by the tool handler    *)
(* (src/src/handler.rs).  The stream delivers the bytes of pgmoneta's      *)
(* reply in pieces, at any pace, and pgmoneta may stall or hang up at any  *)
(* byte.                                                                   *)
(*                                                                         *)
(* A framed reply is a compression byte, an encryption byte, a length and a*)
(* payload; a reply whose first byte is no compression code is legacy text,*)
(* read up to a 0 byte, which need never come.  The pieces a read          *)
(* distinguishes are units here: the two bytes, the length, and the units  *)
(* of text in the payload.                                                 *)
(***************************************************************************)
EXTENDS Naturals

CONSTANTS MaxText       \* bound on the units of text in a reply

ASSUME MaxTextIsPositive == MaxText \in Nat \ {0}

VARIABLES pc,       \* the await of the client, or the outcome of the tool call
          waited,   \* seconds spent in this await
          elapsed,  \* seconds since read_response was entered, unless endless
          reply,    \* what pgmoneta means to send
          arrived,  \* units of the reply the stream has delivered
          taken,    \* units of the reply the client has consumed
          closed,   \* whether pgmoneta hung up after those that arrived
          text      \* units of text read_response returned

vars == <<pc, waited, elapsed, reply, arrived, taken, closed, text>>

(* The first byte: no compression, a code the client can decompress, one     *)
(* that is known but that only the server decompresses, or text.             *)
Compressions == {"none", "zstd", "server_zstd", "text"}
Encryptions == {"none", "aes", "unknown"}

\* `size` units of text; `ended`: a 0 byte follows; `oversized`: the length
\* field exceeds MAX_FRAME_LEN; `sound`: it decodes, with the master key of
\* the moment, into UTF-8 text.
\* `endless`: more text follows without end, and no 0 byte.
\* A frame may be empty; legacy text has at least its first byte.
Replies == {r \in [comp : Compressions, enc : Encryptions, size : 0..MaxText, ended : BOOLEAN,
                   oversized : BOOLEAN, sound : BOOLEAN, endless : BOOLEAN] :
               /\ r.comp = "text" => r.size > 0
               /\ r.endless => r.comp = "text" /\ ~r.ended}

Framed == reply.comp # "text"

\* Of what follows an endless reply's text two units are kept: one stands for
\* all that was taken of it, the other for what is there to take.
Header == IF Framed THEN 3 ELSE 0
Length == Header + reply.size + (CASE reply.endless -> 2 [] reply.ended -> 1 [] OTHER -> 0)

Awaits == {"write", "compression", "encryption", "length", "payload", "legacy"}
Outcomes == {"ok", "err"}

\* read_response's timeouts; write_request has none.
Limit(at) == IF at \in {"compression", "payload"} THEN 10 ELSE 2

Init == /\ reply \in Replies
        /\ pc = "write"
        /\ waited = 0 /\ elapsed = 0
        /\ arrived = 0 /\ taken = 0
        /\ closed = FALSE
        /\ text = 0

Await(at) == pc' = at /\ waited' = 0

------------------------------------------------------------------------------
(* write_request *)

\* The framed request is written and flushed, or the stream is broken.
WriteRequest == /\ pc = "write"
                /\ \/ Await("compression")
                   \/ closed /\ Await("err")
                /\ UNCHANGED <<elapsed, reply, arrived, taken, closed, text>>

------------------------------------------------------------------------------
(* read_response *)

Has(n) == arrived >= taken + n

\* is_known_compression; anything else is the first byte of legacy text.
ReadCompression ==
    /\ pc = "compression" /\ Has(1)
    /\ Await(IF Framed THEN "encryption" ELSE "legacy")
    /\ taken' = taken + 1
    /\ UNCHANGED <<elapsed, reply, arrived, closed, text>>

ReadEncryption ==
    /\ pc = "encryption" /\ Has(1)
    /\ Await(IF reply.enc = "unknown" THEN "err" ELSE "length")
    /\ taken' = taken + 1
    /\ UNCHANGED <<elapsed, reply, arrived, closed, text>>

ReadLength ==
    /\ pc = "length" /\ Has(1)
    /\ Await(IF reply.oversized THEN "err" ELSE "payload")
    /\ taken' = taken + 1
    /\ UNCHANGED <<elapsed, reply, arrived, closed, text>>

\* base64, decryption and decompression of a protected payload, or UTF-8; the
\* codes of the server's own compression are known but not decompressed.
Decodes == reply.sound /\ reply.comp # "server_zstd"

\* The tool handler parses the text as JSON: a proper prefix of an object is
\* not an object, and so a tool error.
MutantParses(n) == n > 0 /\ reply.sound

Parses(n) == n > 0 /\ n = reply.size /\ reply.sound

\* The read returned n units of text to the tool handler.
Return(n) == /\ text' = n
             /\ Await(IF Parses(n) THEN "ok" ELSE "err")

\* read_exact under one timeout, then the trailing 0 byte is dropped.
ReadPayload ==
    /\ pc = "payload" /\ Has(Length - taken)
    /\ IF Decodes THEN Return(reply.size) ELSE Await("err") /\ UNCHANGED text
    /\ taken' = Length
    /\ UNCHANGED <<elapsed, reply, arrived, closed>>

\* The 0 byte is the last unit of a reply that has one.
AtNul == reply.ended /\ taken + 1 = Length

\* More was taken than an endless reply's text: another unit changes nothing.
Beyond == reply.endless /\ taken = reply.size + 1

\* Nothing bounds the number of bytes, or the time they take together.
ReadLegacyByte ==
    /\ pc = "legacy" /\ Has(1)
    /\ IF Beyond THEN arrived' = arrived - 1 /\ UNCHANGED taken
                 ELSE taken' = taken + 1 /\ UNCHANGED arrived
    /\ IF AtNul THEN Return(taken) ELSE Await("legacy") /\ UNCHANGED text
    /\ UNCHANGED <<elapsed, reply, closed>>

NothingMore == closed /\ taken = arrived

\* The stream ended: legacy text ends there too; anywhere else, and if the
\* connection was reset, it is an error.
Eof == /\ pc \in Awaits \ {"write"} /\ closed
       /\ IF pc = "payload" THEN ~Has(Length - taken) ELSE NothingMore
       /\ \/ pc = "legacy" /\ Return(taken)
          \/ Await("err") /\ UNCHANGED text
       /\ UNCHANGED <<elapsed, reply, arrived, taken, closed>>

Readable == CASE pc = "write" -> FALSE
              [] pc = "payload" -> Has(Length - taken) \/ closed
              [] pc \in Awaits -> Has(1) \/ closed
              [] OTHER -> FALSE

MutantExpired == waited = Limit(pc) + 1

Expired == waited = Limit(pc)

MutantTimeout == /\ pc \in Awaits \ {"write", "legacy"} /\ Expired /\ ~Readable
                 /\ Await("err")
                 /\ UNCHANGED <<elapsed, reply, arrived, taken, closed, text>>

\* The await ran out: an error, except that legacy text ends there too.
Timeout == /\ pc \in Awaits \ {"write"} /\ Expired /\ ~Readable
           /\ IF pc = "legacy" THEN Return(taken) ELSE Await("err") /\ UNCHANGED text
           /\ UNCHANGED <<elapsed, reply, arrived, taken, closed>>

------------------------------------------------------------------------------
(* pgmoneta, the stream and time *)

\* Every piece that arrives restarts the clock of the await.
MutantDeliver == /\ pc \in Awaits \ {"write"} /\ ~closed
                 /\ arrived' \in (arrived + 1)..Length
                 /\ waited' = 0
                 /\ UNCHANGED <<pc, elapsed, reply, taken, closed, text>>

\* The reply comes after the request, in pieces of any length.
Deliver == /\ pc \in Awaits \ {"write"} /\ ~closed
           /\ arrived' \in (arrived + 1)..Length
           /\ UNCHANGED <<pc, waited, elapsed, reply, taken, closed, text>>

\* pgmoneta is done, or dies in the middle of its reply.
Close == /\ pc \in Awaits /\ ~closed
         /\ closed' = TRUE
         /\ UNCHANGED <<pc, waited, elapsed, reply, arrived, taken, text>>

Tick == /\ pc \in Awaits \ {"write"} /\ ~Expired /\ ~Readable
        /\ waited' = waited + 1
        /\ elapsed' = IF reply.endless THEN elapsed ELSE elapsed + 1
        /\ UNCHANGED <<pc, reply, arrived, taken, closed, text>>

Read == \/ ReadCompression \/ ReadEncryption \/ ReadLength \/ ReadPayload
        \/ ReadLegacyByte \/ Eof \/ Timeout

Next == WriteRequest \/ Read \/ Deliver \/ Close \/ Tick

\* The runtime polls a read whose bytes or timer are ready; time passes.
\* Nothing is assumed of pgmoneta: it need not read, send or close.
Spec == Init /\ [][Next]_vars /\ WF_vars(Read) /\ WF_vars(Tick)

------------------------------------------------------------------------------
TypeOK == /\ reply \in Replies
          /\ pc \in Awaits \cup Outcomes
          /\ waited \in 0..10 /\ elapsed \in Nat
          /\ arrived \in 0..Length /\ taken \in 0..arrived
          /\ closed \in BOOLEAN
          /\ text \in 0..MaxText + 1

\* A framed reply is returned whole or not at all, wherever the connection
\* breaks and however it was cut into pieces.
FramedReadIsExact == Framed /\ text # 0 => text = reply.size

\* A tool call succeeds only with pgmoneta's complete reply, framed or legacy,
\* and never by falling back to the raw text of a reply it could not decode;
\* read_response itself makes sure of it for framed replies, not for legacy ones.
SuccessIsComplete ==
    /\ pc = "ok" => /\ text = reply.size /\ reply.sound
                    /\ Framed => /\ reply.comp # "server_zstd" /\ ~reply.oversized
                                 /\ reply.enc # "unknown"
    /\ FramedReadIsExact

\* What the reply costs in time: a framed one at most 10 + 2 + 2 + 10 seconds,
\* a legacy one 10 seconds and 2 more for each unit, if the units have an end.
ReadBounded ==
    ~reply.endless => elapsed <= IF Framed THEN 24 ELSE 10 + 2 * (Length + 1)

\* A call ends, even if pgmoneta stalls for ever at any byte, with two exceptions:
\* pgmoneta stalls before it has taken the whole request (the write is the one
\* await without a timeout), or it sends legacy text for ever, no two bytes more
\* than two seconds apart (each byte has a timer of its own).
EndsUnlessKeptBusy ==
    \/ <>(pc \in Outcomes)
    \/ <>[](pc = "write")
    \/ <>[](pc = "legacy" /\ reply.endless) /\ []<><<ReadLegacyByte>>_vars
==============================================================================
