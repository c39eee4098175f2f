# pgmoneta_mcp: a TLA+ verification project

pgmoneta_mcp lets a language model ask questions of a pgmoneta backup server. A
server process speaks the Model Context Protocol over HTTP; for each tool call it
logs in to pgmoneta over TCP (SCRAM-SHA-256), sends one request, reads one reply,
and translates its numbers into text. A separate command-line tool keeps the
users and the master key that protects their passwords. A library adds an agent
that lets an LLM call the tools.

This directory models that system, model-checks it with TLC on small instances,
and proves the central safety properties with TLAPS for every value of the
constants. `PROJECT.json` maps every definition to the source lines it models.

## Inventory

| Component | Source | State | Operations | Modelled by |
|---|---|---|---|---|
| Admin tool | `src/bin/admin.rs` | the users file, `master.key` | `user add/del/edit/ls`, `master-key` | `Credentials`, `CredentialVault` |
| Server life cycle | `src/bin/server.rs`, `configuration.rs` | `CONFIG`, a snapshot of both files' contents at start-up | load, set up the log, bind, publish `CONFIG`, serve, drain, stop | `Startup`, `ToolCall`, `Credentials` |
| Master key cache | `security.rs` 40-46, 318-364 | one process-wide entry behind a mutex | look up, derive, store | `MasterKeyCache`, `KeyDerivation` |
| Login | `security.rs` 295-312, 547-728 | a TCP stream, the SCRAM state | connect, three writes, four reads | `Handshake` |
| Exchange | `client.rs` | the position in the reply | `write_request`, `read_response`, the legacy reader | `Exchange`; `forward_request` as a whole in `ToolCall` |
| Reply translation | `handler.rs`, `constant.rs` | none (pure) | parse, translate, serialize | `Response` |
| Agent | `agent.rs`, `llm/mod.rs` | the chat history, the round | `prompt`, `execute_tool_call`, `clear_history` | `Agent`, `ChatTranscript` |
| Ollama client | `llm/ollama.rs` | none | `chat`, and queries of the model server | `chat` in `Agent`; the queries are not modelled |
| Codecs | `compression.rs`, `security.rs` | none | compress, encrypt, and their inverses | `Codec`, used by `ToolCall` |
| Configuration | `configuration.rs` | none | parse, defaults, normalise | `Startup`; the users part in `Credentials` |
| Tool routing, hello tool | `handler.rs`, `handler/*.rs`, `client/info.rs` | none | dispatch | `ToolCall`, `ToolService` |
| Logging | `logging.rs` | the subscriber, the log file | choose a writer, write lines | `Startup` (partly) |

How they interact:

- Admin tool and server share two files and nothing else: no lock, no rename, no
  notification. The server reads the users file once and `master.key` at every
  request.
- Requests of one server run concurrently and share `CONFIG` (read only) and the
  master key cache (a mutex). Each has its own connection to pgmoneta.
- A tool call is: look up the user in `CONFIG`, load the key, decrypt (through the
  cache), log in, encode (the second look at `master.key`), write, read, decode (the
  third), parse, translate. Any error on the way is the result of the call; nothing is
  retried.
- Several servers started from the same configuration share the file itself, the log
  file, and compete for the port.
- The agent calls tools in sequence and puts each result, or error, in the history.

What is hard here, and the property that answers to it:

- *Files rewritten in place by concurrent processes that may die.* Updates are
  lost, files torn and spliced. `SafeUnlessOverlapped` says when that cannot happen,
  `LoginsUseOwnPassword` that a command which dies, however it does, never leads to a
  login with somebody else's password (two that overlap can), `DamageIsFinal` what a
  damaged file means for the commands after it, `StartsWithWholeFile` what a server
  started meanwhile sees.
- *A lock released in the middle of a function.* `LockDiscipline`, `CacheCoherent`,
  `ReturnsOwnKey`, and the refinement `ImplementsService`.
- *A peer that lies, stalls, hangs up or runs ahead.* `SaslIsMutual`,
  `HandshakeBounded`, `HandshakeEnds`; `SuccessIsComplete`,
  `ReadBounded`, `EndsUnlessKeptBusy`.
- *Replies of the wrong shape.* `ReadableResult`, `WellTypedIsAnswered`,
  `OutcomeReported`.
- *A model that keeps calling tools, and tools that fail half way.* `RoundsBounded`,
  `PromptEnds`, and the refinement `ImplementsTranscript`.
- *A key file that changes between the three looks one call takes at it, two ends that
  must undo each other's layers, a setting that is not recognized.* `FailsOnlyInTrouble`,
  `NothingInClear`, `NoClearFallback`.
- *A call whose answer is lost, or whose server is killed, after pgmoneta has run the
  request.* The refinement `ImplementsService` of `ToolCall`; `ShutdownDrains` for the
  orderly way down.
- *A start-up in steps, beside other servers and an administrator who edits.*
  `HandlersSeeConfig`, `ServedConfIsNormal`, `LogKept`.

`PROJECT.json` lists each hazard at its line.

## Modules

### MasterKeyCache, KeyDerivation

`get_or_derive_master_key` is two critical sections around a long derivation.
Each thread goes `idle` (`Call`) - `lookup` (`LockForLookup`) - `check`
(`ReturnCached`, which unlocks and returns, or `Miss`, which unlocks) - `derive`
(`Derive`) - `relock` (`LockForStore`) - `store` (`Store`). `lock`, `cache`,
`args`, `local` and `ret` are the mutex, the static, the arguments, the local
`master_key` and the returned key. PBKDF2 is an injective function of its inputs
(`KeyOf`). `KeyDerivation` is the promise: a call is answered, once, with the key
of its own inputs. `ImplementsService` is the refinement.

`SomeCallReturns` is the progress that the code has: under weak fairness of each
thread (a runtime that goes on running its workers) calls keep returning. It is
not stated for each thread: a std mutex is not fair and weak fairness of a thread
does not promise it the lock.

### Credentials, CredentialVault

`master` and `users` are the contents of the two files: absent, empty, garbled, or
a map from users to ciphers. A cipher is a password, the number of the key it is
encrypted under, and (history only) the user it was entered for. An admin command
is a record in `proc` with its program counter and what it holds in memory:

| step | code |
|---|---|
| `StartUserCommand` | arguments, password, `path.exists()` of del and edit |
| `LoadKeyForUser` | `load_master_key` and `encrypt_to_base64_string` |
| `ReadAndChange` | `load_user_configuration` and the change of the map |
| `TruncateUsers`, `WriteUsers` | the two halves of `fs::write` |
| `StartMasterKey`, `TruncateMaster`, `WriteMaster` | `set_master_key`, `write_master_key` |
| `Die` | a kill or a failed write, at any of these |

`Partial` is what a write that is cut short leaves in the empty file: some of the lines,
the last of them perhaps cut in its value or in its name. `Over` is what a write leaves,
whole or cut short, when another command wrote into the file since the truncation: the
text goes to offset 0, and of a longer older text the end stays, from any byte on
(`Tails`). The line in which the two meet (`Torn`) may stand under any user, known or not
(the end of a name may be another name, a name and a value may come from two lines), with
the cipher of the older text's line or with a value that never decrypts. `Merge` is what
such a text reads as. A garbled file keeps its entries, because a later write over it may
leave some of them in a file that parses. The server is `srv`
(`LoadConfiguration`, `Serve`, `StopServer`) and its requests are `req` (`Login`,
`EndRequest`).

`overlap`, `torn` and `expected` are history: whether a command has truncated the file
while another was between its read and its write, whether one has died writing, and, until
either, the entries the finished commands call for. `LoginsUseOwnPassword` needs only that
nothing overlapped. That it needs it is no weakness of the model: two commands that write
over each other can join the name of one line with the password of another, and then a
request for the one user logs in as the other.

`CredentialVault` is the store as the documentation would have it: `Add`, `Edit`,
`Remove` and `Rotate` in one step each. With one process and no deaths the files
implement it (`ImplementsVault`); a command takes effect when it truncates the file
it is about to write.

Taken from how the libraries are used: an empty `[admins]` section is written and
read back as a section (`Ok(<<>>)`), and a file this small is written by one
`write(2)`. `user ls` only reads and has no action.

### Handshake

`pc` is the await that `connect_to_server` stands at, `waited` and `elapsed` are
seconds. `Limit` is the timeout of each await, `Verdict` what is made of each answer,
`After` the step that follows a write. The peer (`PeerSends`, `PeerCloses`) may send
any authentication message whenever it likes, with one restriction (`Possible`): a
valid server-first extends our nonce, so it follows our client-first, and a valid
server-final needs our proof and the user's password. An AuthenticationOk as the
first answer ends the login without SASL, as the code has it (`agreed = "trust"`);
`SaslIsMutual` is about the other way.

### Exchange

One reply, chosen in `Init`: framed or text, of any size up to `MaxText`, with a
trailing 0 byte or not, oversized or not, decodable or not, under a known code or
not; and text without end, which the legacy reader takes byte by byte for as long as it
comes (of such a text the model keeps what the reader took first and a window of what
follows, `Beyond`; it has no length to measure `elapsed` by). `Deliver` brings some of it, `Close` ends the stream at any point. `taken` is the
reader's position and `text` the units `read_response` returned. `Parses` is the JSON
parse of the handler, which a proper part of a JSON object does not survive; so
`pc = "ok"` is a tool call that succeeded.

### Response

`generate_call_tool_result_string` on a JSON document, which is a function from the paths
of its values (sequences of field names and indexes) to what is there: object, array, a
number or a text. So a property of values at any depth quantifies over paths, and nothing
is recursive. The calls of `_translate_result` to itself are one walk: `todo` holds the
paths that the loops of the running calls have still to come to, `Turn` is the one that is
next, and `trans_res` holds the maps of all running calls, each at its place in the result
(the code inserts a nested map when its call returns; nobody reads it before, and a failure
drops all of them). There is an action for each kind of branch of the loop:
`TranslateNumber` (with `unwrap`, which panics, and `?`), `TranslateBackups` (with the
`return` that leaves the object, `Return`), `TranslateObject` (a call to itself, for a field
or an item) and `Clone`. `Before` is the order of a serde_json `Map` (a BTreeMap: the crate
is built without `preserve_order`) and of an array; it decides which field fails first and
which are never reached. Translated texts keep the number that the tables or the formats
would show, so that two codes that the code shows alike are alike. `Kept` and `Translation`
say without a walk what the result should be.

### Codec

The layers `write_request` puts round a text and `read_response` takes off: one per
algorithm, one per encryption mode and key, and base64. A decoder undoes its own encoder
and refuses everything else; a mode of AES-GCM opens only what was sealed with that mode
and that key. `Encode` and `Decode` have the order, the early exits and the errors of the
two functions. `KnownCompressions` has the server-side algorithms: a frame may name them,
and the client then fails to decompress it.

### ToolCall, ToolService

Several tool calls of one server, from the invocation to the report. `call[c].pc` goes
`login` - `write` - `read`; the fields beside it are the modes `build_request_header` took
from the settings (`ParseCompression`, where a misspelt value is no compression, and
`ParseEncryption`, where it is an error). `request` and `reply` are the frames on the call's
own connection, `ran` the requests that pgmoneta ran. Each of `Invoke`, `WriteRequest` and
`ReadResponse` looks at `master` for itself. Around the calls: `RewriteMaster` (the admin
tool), `Shutdown` and `Exit` (axum's graceful shutdown), `Kill`, `Start`. pgmoneta is
external: it runs a request that it can decode, and then answers honestly, answers in other
modes, answers in legacy text, in legacy text that never ends (`Endless`), hangs up or says
nothing. The settings stand for their lower-case forms: `parse_compression` and
`parse_encryption` begin with `to_lowercase`, so "OFF" is "off".

The parts that have a module are used here by what that module shows of them: a login
succeeds or fails, a read ends. `troubled[c]` is history: something outside the server was
wrong for this call (its user, its settings, its keys, a rotation while it was under way,
pgmoneta). `FailsOnlyInTrouble` says that the calls which fail are among those, so the
server's own steps never disagree with each other or with an honest pgmoneta.

`ToolService` is the promise to an MCP client: a call ends once, its request runs at most
once, "done" means that it ran and "refused" that it did not. A failed or lost call promises
nothing, and may still run.

### Startup

`server.rs` from `load_configuration` to serving, for several servers. `Launch` reads and
normalises the file (`LoadConfiguration`), `InitLog` chooses a writer (`MakeWriter`) and, in
create mode, empties the log file, `Bind` takes the port, `SetConfig` publishes, `Serve`
hands the listener to axum. The kernel accepts clients from the bind on (`Connect`) and a
handler that ran before `SetConfig` would panic (`Handle`). `Edit` changes the configuration
file at any time; `openable` says whether log files can be created. `logs` holds the lines
with their author and number; a process in create mode writes at the place it has got to,
one in append mode at the end.

The order of the steps is the code's: the log is emptied before the port is known to be
free, so a second server that then ends has emptied the log of the first. `LogKept` is
therefore about a file that nobody opens in create mode.

### Agent, ChatTranscript

`history`, `round`, `tool_calls` (the calls of the turn), `done` (how many of them are
answered) and `pc`. `Chat` is what `OllamaClient::chat` makes of an HTTP response: an error
status, a body that does not parse or one call whose arguments are not an object are errors;
a message with calls is calls, whatever text it has. `Prompt` pushes the user's message and
enters the loop; `LlmFails`, `LlmAnswers`, `LlmCallsTools` are its outcomes; `ToolReturns`
executes the next call and pushes its result or its error (`NextCall` is the head of the
inner loop). `ChatTranscript` is the protocol of a chat: one system
message, then turns in which every call is answered once, in order, before anybody else
speaks. A failed prompt leaves its messages in the history, and `ImplementsTranscript`
says that the next prompt still continues a well-formed chat.

## Runs

| Run | Instance | Distinct states | Shows |
|---|---|---|---|
| `master_key_cache` | 2 threads, 2 passwords, 2 salts | 10 749 | cache safety, refinement, progress |
| `credentials_serial` | 1 command at a time, no deaths, 2 users, 2 passwords, 2 keys, 1 request | 48 343 | refinement of the vault, start-up |
| `credentials_concurrent` | 2 commands, deaths, 2 users, 1 password, 1 key, 1 request | 967 819 | what survives overlap and death |
| `credentials_rotation` | 2 commands, deaths, 1 user, 2 passwords, 3 keys, 1 request | 885 244 | the same beside and between rotations |
| `handshake` | 2 messages in flight | 267 000 | mutual authentication, time bound, termination |
| `exchange` | texts of up to 3 units, or without end | 374 172 | exact reads, complete successes, time bound, termination |
| `response` | 9 417 replies | 44 434 | the result is the translation, nothing raw, no panic when well typed |
| `response_fields` | the same | - | violation: fields beside Backups are dropped |
| `agent` | 2 tools (one unknown), 2 calls a turn, 2 rounds, 2 prompts | 6 483 | chat protocol, rounds, termination |
| `agent_rounds` | 1 call, 2 rounds, 1 prompt | - | violation: no text is forced |
| `tool_call` | 2 calls, 1 user, 2 keys, 2 rewrites of `master.key`, 2 starts | 351 710 | one answer and one run per call, nothing in clear, failures with a cause, shutdown |
| `startup` | 2 servers, 13 configuration files, 1 edit, 2 lines each | 396 072 | start-up order, normal configuration, log |

Why the bounds are enough:

- Two threads reach every order of two derivations around one entry; the theorems
  cover any number.
- Two commands reach every lost update and every torn file: each is the doing of one
  writer against one other. Two users make an entry that is lost differ from one that
  is written, and an entry that stands under a wrong name from one that does not; that
  needs one key only. `credentials_rotation` has the keys instead: three, that is, two
  rotations, which may overlap each other, and two passwords that tell two edits apart.
- Two messages in flight let the peer run ahead of the client by one; the theorems
  lift the bound.
- Three units of text have a first, a middle and a last one, in any pieces.
- `MCResponse` takes codes at both ends of each table, at the width the code narrows to
  (256; `Word` stands for 2^32 and `MaxU64` for 2^64 - 1, which TLC's integers cannot hold;
  the theorems need of them only that `Word` is above every error code and not above
  `MaxU64`), at and above `MaxU64`, negative and null,
  in every place where the walk or an early return changes what happens to them: lists and
  objects under Backups and under other names, lists in lists, and objects in all of them.
  The several size fields, and the several LSN fields, are treated alike by the code,
  so one of each is enough. The theorems lift every bound on replies.
- Two tool calls overlap in every order; one user is enough, because an entry may be
  missing, encrypted under the current key or under another one. Two rewrites are one whole
  rotation (truncated, then written), which may fall between any two of the three looks at
  the key. Two starts are a kill and a restart under other settings, with a request of the
  old server still out. The settings are one that is recognized, one that is misspelt and,
  for encryption, one that turns it off. The theorems lift every one of these bounds.
- Two servers are one that is disturbed and one that disturbs. The configuration files
  differ in the port, in the kind and mode of the log, in the rotation age (one that is
  accepted and one that is not) and in the LLM (blank, padded, unknown, complete). One edit
  lets the two servers differ; two lines each are enough for one to be written over.
- Two tools, two calls and two prompts are a failing call before and after one that
  succeeds, and a prompt after a failed prompt.

`Symmetric` permutes commands, users and passwords, in a run with no liveness property,
and no module tells members of these sets apart.

Runs that say `CHECK_DEADLOCK FALSE` are of a single call that returns, or of servers that
have all been stopped and calls that have all ended, within the bounds on starts and edits.

### Fairness

- `MasterKeyCache`: weak fairness of every thread that is inside a call; none of `Call`.
- `Handshake`, `Exchange`: weak fairness of the client's reads and timeouts (the tokio
  runtime polls a task whose socket or timer is ready) and of time. None of the peer,
  of connecting or of writing. `Tick` waits while something is readable: the client is
  prompt. The time bounds are therefore those of an unloaded runtime.
- `Exchange`: nothing makes a write end (`write_request` has no timeout), and nothing ends
  the read of legacy text as long as a byte comes every two seconds (the timeout is one for
  each byte, and nothing counts them). `EndsUnlessKeptBusy` says that a call ends, or stays in
  the write for ever, or reads such a text for ever.
- `ToolCall`: weak fairness of the login, and of the read unless its reply is endless; both
  end by their timeouts if not before (`HandshakeEnds`, `EndsUnlessKeptBusy`); none of the
  write, of pgmoneta, or of `Exit`: axum also waits for open HTTP streams, which the client
  closes. `ShutdownDrains` is therefore about the calls: they end unless one is stuck in a
  write or in an endless reply.
- `Agent`: weak fairness of the loop, that is, the model and the tools eventually answer or
  fail. The Ollama client has no timeout of its own, so this is an assumption about the
  model server.
- `Credentials`, `Startup` and `Response` have safety properties only. `Response` runs with
  the check for deadlock: the walk never gets stuck before it ends.

### Violations

- `TextIsForced` (`agent.rs:143`): after the last round the prompt fails; the comment on the
  field says that a text is forced.
- `OutcomeBesideBackups` (`handler.rs:151`): the fields of an object that follow `Backups`
  are dropped, where the manual shows a result that has one.

Divergences seen while modelling and not given a run of their own: the manual's table of
encryption codes (79-mcp-api.md: 1 is aes-256-cbc, 4 is aes-256-ctr) is not the code's
(1 is aes_256_gcm, 4 fails the whole result); the manual names error 0 "Success", the code
"Unknown error"; errors 1204 and 2305 have the same text; a compression or encryption code
of 256 is shown as 0; the quickstart's minimum of 8 characters for a password is not
enforced; `logging.rs:56` gives "1h" and "1d" as rotation ages, which
`map_log_rotation_age` refuses, so that the log goes to stderr; the configuration example of
79-mcp-api.md has sections `[log]` and `[admin]` that nothing reads; 72-architecture.md:72
keeps the master key in `~/.pgmoneta/mcp-master.key`, the code in
`~/.pgmoneta-mcp/master.key`; 81-client-api.md:69 has `Command::INFO` as 1, the code as 18;
the comment at `client.rs:148` says that a header defaults to no compression and no
encryption, and the function takes both from the configuration.

## Proofs

| Module | Theorem | Property |
|---|---|---|
| `MasterKeyCacheProofs` | `TypeInvariant` | `TypeOK` |
| | `MutexHeldOnlyAtEntry` | `LockDiscipline` |
| | `CacheStaysCoherent` | `CacheCoherent` |
| | `CallsReturnOwnKey` | `ReturnsOwnKey` |
| | `ImplementsPureDerivation` | `ImplementsService` |
| | `CallsComeToAnEnd` | at most five steps of a call, none repeated |
| `HandshakeProofs` | `TypeInvariant` | `TypeOK` |
| | `SaslAuthenticatesServer` | `SaslIsMutual` |
| | `HandshakeIsBounded` | `HandshakeBounded` |
| | `HandshakeComesToAnEnd` | each step and second brings the end nearer |
| `CredentialsProofs` | `TypeInvariant` | `TypeOK` |
| | `SafeWithoutOverlap` | `SafeUnlessOverlapped` |
| | `OwnPasswordsOnly` | `LoginsUseOwnPassword` |
| | `StartsWhole` | `StartsWithWholeFile` |
| | `DamageStays` | `DamageIsFinal` |
| | `ImplementsAtomicVault` | `ImplementsVault` |
| `ExchangeProofs` | `TypeInvariant` | `TypeOK` |
| | `FramedReadsAreExact` | `FramedReadIsExact`, a part of `SuccessIsComplete` |
| | `SuccessesAreComplete` | `SuccessIsComplete` |
| | `ReadsAreBounded` | `ReadBounded` |
| | `ReadComesToAnEnd` | each read and second brings the end nearer |
| `ResponseProofs` | `TypeCorrect` | `TypeOK` |
| | `ResultExact` | `ResultIsTranslation` |
| | `ResultReadable` | `ReadableResult` |
| | `WellTypedAnswered` | `WellTypedIsAnswered` |
| | `OutcomeIsReported` | `OutcomeReported` |
| | `WalkComesToAnEnd` | nothing is written twice, each round leaves less to write |
| `ToolCallProofs` | `RoundTrip` | about `Codec`: `Decode` undoes `Encode` |
| | `TypeInvariant` | `TypeOK` |
| | `NoRequestInClear` | `NothingInClear` |
| | `FailuresHaveCauses` | `FailsOnlyInTrouble` |
| | `NoReplyInClear` | `NoClearFallback` |
| | `ImplementsToolService` | `ImplementsService` |
| | `ShutdownComesToAnEnd` | a server that stops has ever less to wait for |
| `AgentProofs` | `TypeInvariant` | `TypeOK` |
| | `RoundsAreBounded` | `RoundsBounded` |
| | `PromptComesToAnEnd` | each answer and tool call brings the end nearer |
| | `KeepsTranscript` | `ImplementsTranscript` |
| `StartupProofs` | `TypeInvariant` | `TypeOK` |
| | `HandlersAreReady` | `HandlersSeeConfig` |
| | `ServesNormalConf` | `ServedConfIsNormal` |
| | `LogsAreKept` | `LogKept` |

*MasterKeyCache.* The inductive invariant is the conjunction of the four checked
invariants and `OwnWork`: a thread inside a call has its arguments and no result yet, and
past the derivation its local key is the one of its arguments. Without `OwnWork` a store
could put any key beside its inputs. The refinement follows from it: `ReturnCached` and
`Store` are `Answer`, `Call` is `Ask`, every other step stutters. Assumption: `None` is no
thread, key or entry.

*Handshake.* The invariant adds to the types `OnSchedule` (the time spent is at most the
limits of the awaits passed, plus the wait in this one), from which the bound of 31 seconds
is read off, and `GoodFinals` (a valid server-final, in flight or already accepted, comes
from a peer that knows the password), without which `SaslIsMutual` is not inductive: the
message that will be accepted is already in the inbox. Holds for any `MaxInFlight`.

*Credentials.* `Types` strengthens the types by what a command has in memory at each step
(`Proper`) and by `Entries(W)`: in every map, in a file or in memory, a cipher stands under
the user it was entered for, or is one of a user in W, or is cut. W is empty until commands
overlap and everybody after (`Mixed`): a splice of two texts leaves anything
(`OverContents`), but a write that nothing overlaps goes to a file that is empty, because who
writes is the only one between truncation and write (`Alone`), and a cut text alone joins no
name with another's value. `LoginsUseOwnPassword` follows. `Safe` says, until the first
overlap or death in a write: with nobody writing the file is as expected (`Whole`), and what a
writer holds is the expected map with its own change (`Current`). For `DamageStays`: in a damaged state no command is between
its read and its write, one that reads now is refused (`Accepts`), so none reaches the
write; the server writes nothing. `ImplementsAtomicVault` assumes `OneCommand` (one process,
no deaths), as the vault's promise does; its invariant `Serial` says that what the command
read is still so when it acts on it (`UpToDate`) and that the next key is above the current
one. A truncation is the vault's `Add`, `Edit`, `Remove` or `Rotate`; every other step
stutters.

*Exchange.* `Position` ties the place in the code to what has been taken of the reply,
`Returned` says that a text is returned only at the end and which one, `OnSchedule` bounds
the time by the limits of the awaits passed (for legacy text, by one more for each unit).
Holds for replies of any length; `ReadsAreBounded` says nothing of one without end.

*Response.* That the walk makes the translation: what is written is kept and translated
(`WrittenRight`); what is left to visit is where numbers are translated, inside values that
are written (`LeftInWritten`); a Backups is still to come as long as a field after it is
(`BackupsFirst`), which is why a field whose turn it is is kept; and what is kept is written,
or to come, or inside something that is (`NothingForgotten`). With nothing to come, the
second and the last make the result equal to the translation. `VisitKeepsIInv` says once what
a visit must do to keep all that, and each branch of the loop is a case of it. The other
properties then follow from the translation alone: `ReadableResult`, because what a reader
of the result can walk through is what the loops walked through. Assumptions:
`RepliesAreDocuments` (each value is in an object by a field or in an array by an index),
`FieldsAreNames`, `WordExceedsCodes`, `WordFitsU64`. Which order the fields come in plays no part, only that
it is one. That what is written is not visited again (`WrittenOnce`) gives
`WalkComesToAnEnd`: the number of values that are not written yet, which is finite because a
JSON text is, is smaller after each round.

*ToolCall.* `RoundTrip` comes first: for any settings, key and text, `Decode` undoes
`Encode`, and what is encoded with a mode is sealed. The invariant has, for each call: its
request is out or has run, once (`Once`); a reply on its way and the report of an ended call
agree with what ran (`Truthful`); a call under a setting that is not off has a mode and a
sealed request (`Secret`); while nothing was wrong, both frames are what the other end
expects, under pgmoneta's key (`Smooth`); a failed call was troubled (`Blameless`); and a
server that is down works on nothing (`Down`). `Smooth` is what makes `FailsOnlyInTrouble`
inductive, `Once` and `Truthful` are the refinement. Assumptions: `ServerHasKey`,
`NoneIsNothing`, `BoundsAreNats`.

*Agent.* While tools are called the history ends with the turn that calls them and `done`
results, in order (`InRound`); otherwise every turn is answered (`Answered`), and the model
is asked when it is its turn (`ItsTurn`); the turns with calls since the user spoke are as
many as the rounds begun (`Counted`). The last bounds the rounds; the first three make every
push a step of `ChatTranscript`.

*Startup.* `Published`: a server that is ready has published what it loaded, so no handler
runs before. `Placed` and `Kept`: while nobody shares its file in create
mode, a server's lines are at their places and complete. That what is served would load
again as it is needs that normalisation is idempotent (`LoadedIsNormal`). Assumptions:
`BoundsAreNats`, `NoneIsNoServer`.

The assumptions on the constants are the named ASSUMEs of the modules; TLC evaluates them in
the runs.

Only model-checked: all liveness (`SomeCallReturns`, `HandshakeEnds`, `EndsUnlessKeptBusy`,
`ShutdownDrains`, `PromptEnds`), which is out of the prover's reach: it has no rules for
ENABLED. What can be proved of it is: the `...ComesToAnEnd` theorems give, for every value of
the constants, a natural number that each step of the waiting party takes something from and
that no step of its environment adds to (in `ToolCallProofs`, one for each call; in
`MasterKeyCacheProofs`, one for each thread). That such a step is taken as long as the number
is not 0 is what remains to TLC: from the fairness in the five runs, and in `Response.cfg`,
where a walk that gets stuck would be a deadlock.

## Not modelled

- Cryptography: AES-GCM, PBKDF2 and SCRAM are what they promise (a wrong key does not decrypt;
  a proof needs the password).
- Texts: sizes, hexadecimal LSNs and messages are tagged values.
- HTTP sessions and the routing of tool names: library code. Tool schemas and descriptions
  are constants.
- Logging: levels and formats, the passing of time that starts the next rolled file, and the
  lines that are dropped when the queue of the writer thread is full.
- Ollama's `health_check`, `check_model_capabilities` and `list_models`: queries that keep no
  state and that no other component calls; the conversion of messages to its JSON.
- The INI parser, and the keys of the configuration that only pass through: `host` stands for
  everything that is required.
- Sizes: compressed lengths and their bounds in lz4, and the rounding of a file size.
- Cancellation of a prompt or a request by its caller: no binary of the repository calls the
  agent, and a dropped request has no shared state but the cache, whose mutex is never held
  over an await.
- The bytes of the users file: the line in which two texts meet is any that their bytes could
  make, whatever the lengths of names and values.
- The buffer of the legacy reader, which has no bound.

## What remains

Every safety property that a run checks is proved, and every refinement. What is left is
either out of reach of these tools (liveness) or is kept outside on purpose, as listed under
"Not modelled".
