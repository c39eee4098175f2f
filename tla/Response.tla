------------------------------- MODULE Response ------------------------------
(***************************************************************************)
(* From pgmoneta's answer to the result of a tool call                     *)
(* (src/src/handler.rs, generate_call_tool_result_string): the text is     *)
(* parsed as a JSON object that has an Outcome, its numbers are turned into*)
(* text that a language model can read, object by object, and the object is*)
(* serialized again.  A number that is missing, negative, beyond u64 or no *)
(* number where one is expected panics; a code that no table knows is an   *)
(* error.                                                                  *)
(*                                                                         *)
(* A JSON document is a function from the paths of its values to what is   *)
(* there: "object", "array", a number or a text.  The calls that           *)
(* _translate_result makes to itself are one walk: todo holds the paths    *)
(* that the running loops have still to come to, and trans_res the maps    *)
(* they have filled so far, each at its place in the result.               *)
(*                                                                         *)
(* serde_json::Map is a BTreeMap here (no preserve_order), so the fields of*)
(* an object come in byte order: "Backups", after which an object is left, *)
(* comes before most of its neighbours.                                    *)
(***************************************************************************)
EXTENDS Integers, Sequences, FiniteSets, SequencesExt

CONSTANTS Replies,   \* answers of pgmoneta: documents, or NotJson
          Fields,    \* the names of fields, in byte order
          Word,      \* u32::MAX + 1 (any bound above the largest code does)
          MaxU64     \* u64::MAX

VARIABLES reply,     \* what pgmoneta answered
          todo,      \* the paths that the loops have still to visit
          trans_res, \* the result so far
          result     \* what becomes of the call

vars == <<reply, todo, trans_res, result>>

------------------------------------------------------------------------------
(* What is at a path.  Text that the program composes from a number is told  *)
(* apart from other text by what it was composed from.                       *)
Object == [obj |-> TRUE]
Array == [arr |-> TRUE]
Num(n) == [num |-> n]          \* any number; as_u64 has only those a u64 holds
Text(t) == [text |-> t]

\* What a number that cannot be translated does to the call.
Panic == [panic |-> TRUE]
Err == [err |-> TRUE]

IsObj(v) == DOMAIN v = {"obj"}
IsArr(v) == DOMAIN v = {"arr"}
IsNum(v) == DOMAIN v = {"num"}
IsText(v) == DOMAIN v = {"text"}
IsU64(v) == IsNum(v) /\ v.num \in 0..MaxU64
Failed(v) == v \in {Panic, Err}

(* Paths: sequences of the fields and indexes that lead to a value.          *)
Key(k) == [key |-> k]
Index(i) == [index |-> i]
Steps == [key : Range(Fields)] \cup [index : Nat]
IsKey(s) == DOMAIN s = {"key"}

\* What is at p is in what is at q, at any depth.
Above(q, p) == IsStrictPrefix(q, p)
Children(d, p) == {c \in DOMAIN d : Above(p, c) /\ Len(c) = Len(p) + 1}
Siblings(p, q) == /\ p # <<>> /\ Len(p) = Len(q)
                  /\ \A i \in 1..Len(p) - 1 : p[i] = q[i]

\* p is the path of a field whose name is one of ks.
FieldIn(p, ks) == p # <<>> /\ IsKey(p[Len(p)]) /\ p[Len(p)].key \in ks

\* The order in which a Map and an array iterate.
ByteOrder(k) == CHOOSE i \in DOMAIN Fields : Fields[i] = k
StepBefore(s, t) == IF IsKey(s) THEN IsKey(t) /\ ByteOrder(s.key) < ByteOrder(t.key)
                                ELSE ~ IsKey(t) /\ s.index < t.index
Before(p, q) == \E i \in DOMAIN p \cap DOMAIN q :
                    StepBefore(p[i], q[i]) /\ \A j \in 1..i-1 : p[j] = q[j]

\* Every value but the root is in an object, by a field, or in an array.
IsDocument(d) ==
    /\ <<>> \in DOMAIN d /\ IsFiniteSet(DOMAIN d)
    /\ \A p \in DOMAIN d :
           /\ p \in Seq(Steps)
           /\ d[p] \in {Object, Array} \/ IsText(d[p]) \/ (IsNum(d[p]) /\ d[p].num \in Int)
           /\ \A n \in 1..Len(p) : LET q == SubSeq(p, 1, n - 1) IN
                  q \in DOMAIN d /\ IF IsKey(p[n]) THEN IsObj(d[q]) ELSE IsArr(d[q])
NotJson == [p \in {} |-> Object]

ASSUME RepliesAreDocuments == \A d \in Replies : d = NotJson \/ IsDocument(d)

FileSizeFields == {"BackupSize", "RestoreSize", "BiggestFileSize", "Delta", "TotalSpace",
                   "FreeSpace", "UsedSpace", "WorkspaceFreeSpace", "HotStandbySize"}
HexStringFields == {"CheckpointHiLSN", "CheckpointLoLSN", "StartHiLSN", "StartLoLSN",
                    "EndHiLSN", "EndLoLSN"}
NumberFields == FileSizeFields \cup HexStringFields
                    \cup {"Compression", "Encryption", "Command", "Error"}

ASSUME FieldsAreNames == /\ Fields \in Seq(STRING)
                         /\ NumberFields \cup {"Backups", "Outcome"} \subseteq Range(Fields)

------------------------------------------------------------------------------
(* The tables (src/src/constant.rs) *)

Byte == 256

CompressionNames == <<"none", "gzip", "zstd", "lz4", "bzip2", "server-side gzip",
                      "server-side zstd", "server-side lz4">>
EncryptionNames == <<"none", "aes_256_gcm", "aes_192_gcm", "aes_128_gcm">>
CommandNames == <<"backup", "list-backup", "restore", "archive", "delete", "shutdown",
                  "status", "status details", "ping", "clear prometheus", "conf reload",
                  "retain", "expunge", "decrypt", "encrypt", "decompress", "compress",
                  "info", "verify", "annotate", "conf ls", "conf get", "conf set", "mode">>

\* The declared error codes, in blocks of one operation each.
ErrorCodes ==
    (1..3) \cup (100..113) \cup (200..202) \cup (300..307) \cup (400..406)
        \cup (500..509) \cup (600..609) \cup (700..702) \cup (800..806)
        \cup (900..908) \cup (1000..1001) \cup (1100..1101) \cup (1200..1204)
        \cup (1300..1304) \cup (1400..1403) \cup (1500..1503) \cup (1600..1603)
        \cup (1700..1703) \cup (1800..1803) \cup (1900..1903) \cup (2000..2001)
        \cup (2100..2101) \cup (2200..2204) \cup (2302..2305) \cup (2402..2404)
        \cup (2500..2506) \cup {2600, 2602, 2603} \cup (2700..2707) \cup (2800..2805)

ASSUME WordExceedsCodes == Word \in Nat /\ \A c \in ErrorCodes : c < Word
ASSUME WordFitsU64 == MaxU64 \in Nat /\ Word <= MaxU64

Lookup(names, i) == IF i \in DOMAIN names THEN Text(names[i]) ELSE Err

\* value.as_u64(), truncated with `as`, looked up.
CompressionText(n) == Lookup(CompressionNames, (n % Byte) + 1)
EncryptionText(n) == Lookup(EncryptionNames, (n % Byte) + 1)
CommandText(n) == Lookup(CommandNames, n % Word)

\* Truncated like the codes of the other tables.
MutantErrorText(n) == LET code == n % Byte IN
    IF code \in ErrorCodes THEN [error |-> code] ELSE Text("Unknown error")

\* Every declared code has its own text (but 1204 and 2305 share one).
ErrorText(n) == LET code == n % Word IN
    IF code \in ErrorCodes THEN [error |-> code] ELSE Text("Unknown error")

------------------------------------------------------------------------------
(* The translation of one number                                             *)

MutantNumberText(k, v) ==
    IF ~ IsU64(v) THEN Panic ELSE
    CASE k \in FileSizeFields -> [size |-> v.num]
      [] k \in HexStringFields -> [hex |-> v.num]
      [] k = "Compression" -> CompressionText(v.num)
      [] k = "Encryption" -> IF EncryptionText(v.num) = Err THEN Panic
                             ELSE EncryptionText(v.num)
      [] k = "Command" -> CommandText(v.num)
      [] k = "Error" -> ErrorText(v.num)

NumberText(k, v) ==
    IF ~ IsU64(v) THEN Panic ELSE
    CASE k \in FileSizeFields -> [size |-> v.num]
      [] k \in HexStringFields -> [hex |-> v.num]
      [] k = "Compression" -> CompressionText(v.num)
      [] k = "Encryption" -> EncryptionText(v.num)
      [] k = "Command" -> CommandText(v.num)
      [] k = "Error" -> ErrorText(v.num)

------------------------------------------------------------------------------
(* generate_call_tool_result_string *)

Init == /\ reply \in Replies
        /\ todo = {} /\ trans_res = NotJson /\ result = "pending"

Goto(r) == result' = r /\ UNCHANGED <<todo, trans_res>>

\* A text that is no object, or has no Outcome, is taken for an empty one.
MutantParsed == TRUE

\* _parse_and_check_result
Parsed == <<Key("Outcome")>> \in DOMAIN reply

ParseAndCheckResult ==
    /\ result = "pending"
    /\ IF Parsed
       THEN /\ result' = "walking"
            /\ todo' = Children(reply, <<>>)
            /\ trans_res' = [p \in {<<>>} |-> Object]
       ELSE Goto("error")
    /\ UNCHANGED reply

(* _translate_result, the loop over the fields of an object, and the loop over *)
(* the items of Backups                                                        *)

\* The path that is next: the first of those that are left.
Turn(p) == /\ result = "walking" /\ p \in todo
           /\ \A q \in todo : p = q \/ Before(p, q)

\* trans_res.insert or trans_arr.push
Insert(p, v) == trans_res' = [q \in DOMAIN trans_res \cup {p} |->
                                  IF q = p THEN v ELSE trans_res[q]]

\* value.clone(): all that is at p and below.
Copy(p) == trans_res' = [q \in DOMAIN trans_res \cup {c \in DOMAIN reply : c = p \/ Above(p, c)} |->
                             IF q = p \/ Above(p, q) THEN reply[q] ELSE trans_res[q]]

\* A size, an LSN or a code.
TranslateNumber(p) ==
    /\ Turn(p) /\ FieldIn(p, NumberFields)
    /\ LET v == NumberText(p[Len(p)].key, reply[p]) IN
       IF Failed(v)
       THEN Goto(IF v = Panic THEN "panic" ELSE "error")
       ELSE Insert(p, v) /\ todo' = todo \ {p} /\ UNCHANGED result
    /\ UNCHANGED reply

\* Goes on to the fields that follow.
MutantReturn(p) == todo \ {p}

\* `return Ok(trans_res)`: the fields after p, of its object, are not visited.
Return(p) == {q \in todo : ~ Siblings(p, q)}

\* The items of a list; a value that is no list has none.
Items(p) == IF IsArr(reply[p]) THEN Children(reply, p) ELSE {}

\* The items are cloned, whatever they are.
MutantTranslateBackups(p) ==
    /\ Turn(p) /\ FieldIn(p, {"Backups"})
    /\ Copy(p)
    /\ todo' = Return(p)
    /\ UNCHANGED <<reply, result>>

TranslateBackups(p) ==
    /\ Turn(p) /\ FieldIn(p, {"Backups"})
    /\ Insert(p, Array)
    /\ todo' = Return(p) \cup Items(p)
    /\ UNCHANGED <<reply, result>>

\* An object in a field of any other name, or in Backups.
Nested(p) == IsObj(reply[p]) /\ ~ FieldIn(p, NumberFields \cup {"Backups"})

TranslateObject(p) ==
    /\ Turn(p) /\ Nested(p)
    /\ Insert(p, Object)
    /\ todo' = (todo \ {p}) \cup Children(reply, p)
    /\ UNCHANGED <<reply, result>>

Clone(p) ==
    /\ Turn(p) /\ ~ Nested(p) /\ ~ FieldIn(p, NumberFields \cup {"Backups"})
    /\ Copy(p)
    /\ todo' = todo \ {p}
    /\ UNCHANGED <<reply, result>>

Serialize ==
    /\ result = "walking" /\ todo = {}
    /\ Goto("ok")
    /\ UNCHANGED reply

Ended == result \in {"ok", "error", "panic"} /\ UNCHANGED vars

Next == \/ ParseAndCheckResult \/ Serialize \/ Ended
        \/ \E p \in todo : TranslateNumber(p) \/ TranslateBackups(p)
                               \/ TranslateObject(p) \/ Clone(p)

Spec == Init /\ [][Next]_vars

------------------------------------------------------------------------------
Labels == {{"obj"}, {"arr"}, {"num"}, {"text"}, {"size"}, {"hex"}, {"error"}}

\* The walk stays within the reply, and what it writes is JSON.
TypeOK == /\ reply = NotJson \/ IsDocument(reply)
          /\ result \in {"pending", "walking", "ok", "error", "panic"}
          /\ todo \cup DOMAIN trans_res \subseteq DOMAIN reply
          /\ \A p \in DOMAIN trans_res : DOMAIN trans_res[p] \in Labels

(* What the translation of d should be, said without a walk.                 *)

\* The loops go through what is at p, if they come there.
Open(d, p) == IF FieldIn(p, {"Backups"}) THEN IsArr(d[p]) ELSE IsObj(d[p])

\* p is where sizes, LSNs and codes are translated: in objects that are not in
\* an array other than Backups.
Translated(d, p) == \A q \in DOMAIN d : Above(q, p) => Open(d, q)

\* A field that comes after the Backups of its object, or what is in a Backups
\* that is no list, is lost, with all that is in it.
AfterBackups(d, p) ==
    Translated(d, p) /\ \E b \in DOMAIN d :
        FieldIn(b, {"Backups"}) /\ Siblings(b, p) /\ Before(b, p)
InNoList(d, q, p) ==
    Translated(d, q) /\ FieldIn(q, {"Backups"}) /\ ~ IsArr(d[q]) /\ Above(q, p)
Lost(d, p) == \E q \in DOMAIN d : \/ InNoList(d, q, p)
                                  \/ AfterBackups(d, q) /\ (q = p \/ Above(q, p))
Kept(d) == {p \in DOMAIN d : ~ Lost(d, p)}

Translation(d, p) ==
    CASE ~ Translated(d, p) -> d[p]
      [] Translated(d, p) /\ FieldIn(p, NumberFields) -> NumberText(p[Len(p)].key, d[p])
      [] Translated(d, p) /\ FieldIn(p, {"Backups"}) -> Array
      [] OTHER -> d[p]

\* A success is exactly the translation of the reply: all of it but what follows
\* a Backups, each value at its place, and nothing but the numbers rewritten.
ResultIsTranslation ==
    result = "ok" => Parsed /\ trans_res = [p \in Kept(reply) |-> Translation(reply, p)]

\* Who reads a successful result down through objects and lists of backups finds
\* every size, LSN and code as text.
ReadableResult ==
    result = "ok" => \A p \in DOMAIN trans_res :
        Translated(trans_res, p) /\ FieldIn(p, NumberFields) => ~ IsNum(trans_res[p])

\* A reply whose sizes, LSNs and codes are unsigned numbers of 64 bits never
\* panics the handler, whatever codes it has, even codes that no table knows or
\* that `as` cuts short: it gets a result or an error.
WellTyped(d) == \A p \in DOMAIN d : FieldIn(p, NumberFields) => IsU64(d[p])
WellTypedIsAnswered == WellTyped(reply) => result # "panic"

\* A success tells the outcome that pgmoneta reported: of which command, and
\* exactly the error it reported, wherever in the reply a list of backups ends
\* an object early (except beside it: "Backups" of the reply itself or of its
\* Outcome).
OutcomeReported ==
    LET outcome == <<Key("Outcome")>>
        error == Append(outcome, Key("Error"))
    IN  result = "ok" /\ <<Key("Backups")>> \notin DOMAIN reply =>
            /\ {<<Key("Header")>>, outcome} \cap DOMAIN reply \subseteq DOMAIN trans_res
            /\ /\ error \in DOMAIN reply /\ Append(outcome, Key("Backups")) \notin DOMAIN reply
               /\ reply[error].num \in ErrorCodes
               => error \in DOMAIN trans_res
                      /\ trans_res[error] = [error |-> reply[error].num]

\* doc/manual/en/79-mcp-api.md:194-197 shows "Outcome" beside "Backups" in a
\* result: a success has the Outcome that was checked.
OutcomeBesideBackups == result = "ok" => <<Key("Outcome")>> \in DOMAIN trans_res
==============================================================================
