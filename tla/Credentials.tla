----------------------------- MODULE Credentials -----------------------------
(***************************************************************************)
(* The two credential files and everyone who reads and writes them.        *)
(*                                                                         *)
(*   - pgmoneta-mcp-admin (src/src/bin/admin.rs): every command is its own *)
(*     OS process.  `user add|del|edit` loads the master key, reads the    *)
(*     whole users file, and rewrites it with fs::write, that is, truncates*)
(*     it and then writes; `master-key` does the same to master.key        *)
(*     (src/src/security.rs).  There is no lock and no rename, so commands *)
(*     interleave at those steps, and a command that is killed, or whose   *)
(*     write fails, leaves what it had done.                               *)
(*   - pgmoneta-mcp-server (src/src/bin/server.rs): reads the users file   *)
(*     once, at start-up; each request decrypts a password of that         *)
(*     snapshot with the master key it loads from disk at that moment      *)
(*     (src/src/client.rs, connect_to_server).                             *)
(*                                                                         *)
(* A write of a file this small is one write(2): it happens at once or, if *)
(* the command dies, in part.                                              *)
(***************************************************************************)
EXTENDS Integers, Functions

CONSTANTS Procs,      \* slots for concurrently running admin commands
          Requests,   \* slots for concurrent MCP requests of the server
          Users, Passwords,
          MaxKeys,    \* bound on the number of `master-key` commands
          Deaths,     \* whether a command may be killed or fail to write
          None

ASSUME MaxKeysIsNat == MaxKeys \in Nat
ASSUME DeathsIsBoolean == Deaths \in BOOLEAN
ASSUME NoneIsNoName == None \notin Users \cup Passwords

VARIABLES master,     \* contents of master.key
          users,      \* contents of pgmoneta-mcp-users.conf
          proc,       \* proc[p]: the command p runs and where it stands
          keys,       \* master keys generated so far; key k is the k-th
          srv,        \* the server: phase and CONFIG.admins
          req,        \* req[r]: the credentials request r connects with
          expected,   \* history: the entries the finished commands call for
          overlap,    \* history: commands overlapped in the users file
          torn        \* history: a command died while it wrote that file

files == <<master, users>>
history == <<expected, overlap, torn>>
vars == <<master, users, proc, keys, srv, req, expected, overlap, torn>>

------------------------------------------------------------------------------
(* File contents *)

\* master.key: absent or empty, unloadable, or the key with that number.
NoKey == 0
BadKey == -1
Loadable(k) == k \in 1..MaxKeys

\* An encrypted password: who it was entered for (history only: it is not part
\* of the text), the password, and the key that decrypts it.
Ciphers == [owner : Users, pw : Passwords, key : 1..MaxKeys]
\* A base64 value that is not all of one cipher: it never decrypts.
Cut == [owner |-> None, pw |-> None, key |-> NoKey]

Maps == UNION {[D -> Ciphers \cup {Cut}] : D \in SUBSET Users}

\* The users file: absent; without an [admins] section (0 bytes, say); not
\* parseable, with the entries of its lines that would be; or an [admins]
\* section with these entries.
File(s, m) == [state |-> s, admins |-> m]
Absent == File("absent", <<>>)
Empty == File("empty", <<>>)
Garbled(m) == File("garbled", m)
Ok(m) == File("ok", m)

\* The map m with the cipher c for the user u, new or not.
Insert(m, u, c) == [v \in DOMAIN m \cup {u} |-> IF v = u THEN c ELSE m[v]]

\* The entries of a text that has those of m and then those of n.
Merge(m, n) == [v \in DOMAIN m \cup DOMAIN n |-> IF v \in DOMAIN n THEN n[v] ELSE m[v]]

\* The entries are in no fixed order: any of them may be the first ones, or
\* the last.
Prefixes(m) == {Restrict(m, D) : D \in SUBSET DOMAIN m}

\* What a write that stops early leaves in the empty file: the text is cut
\* between two lines, inside a value, or inside a name or the section's.
Partial(m) ==
    {Ok(f) : f \in Prefixes(m)} \cup {Garbled(f) : f \in Prefixes(m)}
        \cup {Ok(Insert(f, u, Cut)) : u \in DOMAIN m, f \in Prefixes(m)}

\* What the end of an older text reads as behind a newer one that ends in its
\* line of x: the name there may be joined of two halves or be the end of one,
\* hence any, and the value is that of x or damaged.
Lines(c) == UNION {[{u} -> {c, Cut}] : u \in Users}
Torn(m, x) == {Merge(l, f) : l \in Lines(m[x]), f \in Prefixes(Restrict(m, DOMAIN m \ {x}))}
Tails(m) == Prefixes(m) \cup UNION {Torn(m, x) : x \in DOMAIN m}

\* Writing at offset 0 what another command wrote into since the truncation:
\* a newer text that is no shorter replaces the older one; else the end of the
\* older one stays, from any byte on, and the line in between parses or not.
Over(new, old) ==
    IF old = Empty THEN {new}
    ELSE {new} \cup {File(s, Merge(new.admins, t)) : s \in {"ok", "garbled"},
                                                   t \in Tails(old.admins)}

------------------------------------------------------------------------------
(* pgmoneta-mcp-admin user add | edit | del *)

Idle == [pc |-> "idle", op |-> None, user |-> None, pw |-> None,
         key |-> NoKey, conf |-> None]

Init == /\ master = NoKey
        /\ users = Absent
        /\ proc = [p \in Procs |-> Idle]
        /\ keys = 0
        /\ srv = [pc |-> "down", admins |-> <<>>]
        /\ req = [r \in Requests |-> None]
        /\ expected = <<>>
        /\ overlap = FALSE /\ torn = FALSE

Goto(p, pc) == [proc[p] EXCEPT !.pc = pc]
End(p) == proc' = [proc EXCEPT ![p] = Idle]

\* History: the entries m after the command c, which leaves the others alone.
Applied(m, c) ==
    LET rest == DOMAIN m \ {c.user} IN
    [v \in IF c.op = "del" THEN rest ELSE rest \cup {c.user} |->
        IF v = c.user THEN [owner |-> v, pw |-> c.pw, key |-> c.key] ELSE m[v]]

\* No command has disturbed another or left its work half done.
Orderly == ~overlap /\ ~torn

\* History: from the first overlap or torn file on, nothing is expected of it.
Note(overlaps, tears) == /\ overlap' = (overlap \/ overlaps)
                         /\ torn' = (torn \/ tears)
                         /\ expected' = IF Orderly' THEN expected ELSE <<>>

\* The command line is parsed and a password entered.  Editing and deleting
\* first check that the file exists.
StartUserCommand(p, op, u, pw) ==
    /\ proc[p] = Idle
    /\ op \in {"edit", "del"} => users # Absent
    /\ op = "del" <=> pw = None
    /\ proc' = [proc EXCEPT ![p] =
           [Idle EXCEPT !.pc = IF op = "del" THEN "read" ELSE "key",
                        !.op = op, !.user = u, !.pw = pw]]
    /\ UNCHANGED <<files, keys, srv, req, history>>

\* load_master_key; the password is encrypted before the file is read.
LoadKeyForUser(p) ==
    /\ proc[p].pc = "key"
    /\ IF Loadable(master)
       THEN proc' = [proc EXCEPT ![p] = [Goto(p, "read") EXCEPT !.key = master]]
       ELSE End(p)
    /\ UNCHANGED <<files, keys, srv, req, history>>

\* `user add` starts a section that the file does not have.
MutantAddsSection(op, u) ==
    CASE op = "add" -> /\ users.state \in {"absent", "empty", "ok"}
                       /\ u \notin DOMAIN users.admins
      [] OTHER      -> users.state = "ok" /\ u \in DOMAIN users.admins

\* The file parses, has [admins], and the user is new (add) or known.
Accepts(op, u) ==
    CASE op = "add" -> /\ users.state \in {"absent", "ok"}
                       /\ u \notin DOMAIN users.admins
      [] OTHER      -> users.state = "ok" /\ u \in DOMAIN users.admins

\* Forgets the entries that were there, as for a file that does not exist.
MutantFreshMap(m, op, u, cipher) ==
    IF op = "add" THEN [v \in {u} |-> cipher]
    ELSE IF op = "del" THEN Restrict(m, DOMAIN m \ {u}) ELSE Insert(m, u, cipher)

Changed(m, op, u, cipher) ==
    IF op = "del" THEN Restrict(m, DOMAIN m \ {u}) ELSE Insert(m, u, cipher)

MutantCipher(p) == [owner |-> proc[p].user, pw |-> proc[p].pw, key |-> NoKey]

CipherOf(p) ==
    [owner |-> proc[p].user, pw |-> proc[p].pw, key |-> proc[p].key]

\* load_user_configuration and the change to the map in memory.
ReadAndChange(p) ==
    LET c == proc[p] IN
    /\ c.pc = "read"
    /\ IF Accepts(c.op, c.user)
       THEN proc' = [proc EXCEPT ![p] = [Goto(p, "open") EXCEPT
                !.conf = Changed(users.admins, c.op, c.user, CipherOf(p))]]
       ELSE End(p)
    /\ UNCHANGED <<files, keys, srv, req, history>>

\* The file is opened to be written but not truncated.
MutantTruncateUsers(p) ==
    /\ proc[p].pc = "open"
    /\ users' = IF users = Absent THEN Empty ELSE users
    /\ proc' = [proc EXCEPT ![p] = Goto(p, "write")]
    /\ Note(\E q \in Procs \ {p} : proc[q].pc \in {"open", "write"}, FALSE)
    /\ UNCHANGED <<master, keys, srv, req>>

\* fs::write opens the file with O_CREAT and O_TRUNC ...
TruncateUsers(p) ==
    /\ proc[p].pc = "open"
    /\ users' = Empty
    /\ proc' = [proc EXCEPT ![p] = Goto(p, "write")]
    /\ Note(\E q \in Procs \ {p} : proc[q].pc \in {"open", "write"}, FALSE)
    /\ UNCHANGED <<master, keys, srv, req>>

\* ... and writes the new text into it.
WriteUsers(p) ==
    LET c == proc[p] IN
    /\ c.pc = "write"
    /\ users' \in Over(Ok(c.conf), users)
    /\ expected' = IF Orderly THEN Applied(expected, c) ELSE expected
    /\ End(p)
    /\ UNCHANGED <<master, keys, srv, req, overlap, torn>>

------------------------------------------------------------------------------
(* pgmoneta-mcp-admin master-key *)

\* A random salt makes this a key like no other.
StartMasterKey(p) ==
    /\ proc[p] = Idle
    /\ keys < MaxKeys
    /\ keys' = keys + 1
    /\ proc' = [proc EXCEPT ![p] = [Idle EXCEPT !.pc = "mopen", !.op = "master",
                                                !.key = keys + 1]]
    /\ UNCHANGED <<files, srv, req, history>>

TruncateMaster(p) ==
    /\ proc[p].pc = "mopen"
    /\ master' = NoKey
    /\ proc' = [proc EXCEPT ![p] = Goto(p, "mwrite")]
    /\ UNCHANGED <<users, keys, srv, req, history>>

\* A shorter text over a longer one leaves a third line: the file won't load.
WriteMaster(p) ==
    /\ proc[p].pc = "mwrite"
    /\ master' \in {proc[p].key} \cup (IF master = NoKey THEN {} ELSE {BadKey})
    /\ End(p)
    /\ UNCHANGED <<users, keys, srv, req, history>>

\* What a `master-key` that dies may leave: all but the last newline, a file
\* that does not load, or, over another's text, the lines of two keys: a new one.
LeftOfKey(c) ==
    IF c.pc # "mwrite" THEN {}
    ELSE {c.key, BadKey} \cup {k \in {keys + 1} : master # NoKey /\ keys < MaxKeys}

LeftOfUsers(c) ==
    IF c.pc = "write" THEN UNION {Over(part, users) : part \in Partial(c.conf)} ELSE {}

\* The command is killed or its write fails (a full disk): whatever it wrote
\* so far stays.
Die(p) ==
    /\ Deaths /\ proc[p].pc # "idle"
    /\ users' \in {users} \cup LeftOfUsers(proc[p])
    /\ master' \in {master} \cup LeftOfKey(proc[p])
    /\ keys' = IF master' > keys THEN master' ELSE keys
    /\ Note(FALSE, proc[p].pc = "write")
    /\ End(p)
    /\ UNCHANGED <<srv, req>>

------------------------------------------------------------------------------
(* pgmoneta-mcp-server *)

MutantDefaultAdmins ==
    /\ srv.pc = "down"
    /\ users.state \in {"ok", "empty"}
    /\ srv' = [pc |-> "starting", admins |-> users.admins]
    /\ UNCHANGED <<files, proc, keys, req, history>>

\* load_configuration: a users file that is missing, does not parse or has no
\* [admins] section ends the server.
LoadConfiguration ==
    /\ srv.pc = "down"
    /\ users.state = "ok"
    /\ srv' = [pc |-> "starting", admins |-> users.admins]
    /\ UNCHANGED <<files, proc, keys, req, history>>

\* The port is bound, CONFIG is set once, requests are served from now on.
Serve == /\ srv.pc = "starting"
         /\ srv' = [srv EXCEPT !.pc = "serving"]
         /\ UNCHANGED <<files, proc, keys, req, history>>

\* The port is taken, the server is interrupted, or it crashes.
StopServer == /\ srv.pc # "down"
              /\ srv' = [pc |-> "down", admins |-> <<>>]
              /\ req' = [r \in Requests |-> None]
              /\ UNCHANGED <<files, proc, keys, history>>

EntryOf(u) == srv.admins[u]

\* A request looks its user up in the snapshot, loads master.key and decrypts;
\* GCM rejects a password encrypted under another key.  It fails otherwise.
Login(r, u) ==
    /\ srv.pc = "serving" /\ req[r] = None
    /\ u \in DOMAIN srv.admins
    /\ Loadable(master)
    /\ EntryOf(u).key = master
    /\ req' = [req EXCEPT ![r] = [user |-> u, with |-> EntryOf(u)]]
    /\ UNCHANGED <<files, proc, keys, srv, history>>

EndRequest(r) == /\ req[r] # None
                 /\ req' = [req EXCEPT ![r] = None]
                 /\ UNCHANGED <<files, proc, keys, srv, history>>

------------------------------------------------------------------------------
UserCommand(p) ==
    \/ \E op \in {"add", "edit"}, u \in Users, pw \in Passwords :
           StartUserCommand(p, op, u, pw)
    \/ \E u \in Users : StartUserCommand(p, "del", u, None)
    \/ LoadKeyForUser(p) \/ ReadAndChange(p) \/ TruncateUsers(p) \/ WriteUsers(p)

MasterKeyCommand(p) == StartMasterKey(p) \/ TruncateMaster(p) \/ WriteMaster(p)

Server == \/ LoadConfiguration \/ Serve \/ StopServer
          \/ \E r \in Requests : (\E u \in Users : Login(r, u)) \/ EndRequest(r)

Next == \/ \E p \in Procs : UserCommand(p) \/ MasterKeyCommand(p) \/ Die(p)
        \/ Server

Spec == Init /\ [][Next]_vars

------------------------------------------------------------------------------
Commands ==
    [pc : {"idle", "key", "read", "open", "write", "mopen", "mwrite"},
     op : {"add", "edit", "del", "master", None}, user : Users \cup {None},
     pw : Passwords \cup {None}, key : 0..MaxKeys, conf : Maps \cup {None}]

\* Files, commands and server hold values of their kinds; in particular no
\* entry but a cut one lacks a key.
TypeOK ==
    /\ master \in {NoKey, BadKey} \cup 1..MaxKeys
    /\ users \in {Absent, Empty} \cup {File(s, m) : s \in {"ok", "garbled"}, m \in Maps}
    /\ proc \in [Procs -> Commands]
    /\ keys \in 0..MaxKeys
    /\ srv \in [pc : {"down", "starting", "serving"}, admins : Maps]
    /\ req \in [Requests -> [user : Users, with : Ciphers] \cup {None}]
    /\ expected \in Maps
    /\ overlap \in BOOLEAN /\ torn \in BOOLEAN

WritesUsers(p) == proc[p].pc = "write"
NobodyWrites == ~ \E p \in Procs : WritesUsers(p)

\* No lost update and no torn file, as long as no command reads the file
\* before another truncates it and writes after (or dies writing): the file
\* is then exactly what the finished commands, in their order, call for.
SafeUnlessOverlapped ==
    Orderly /\ NobodyWrites =>
        users = Ok(expected) \/ (users = Absent /\ expected = <<>>)

\* Once the users file has no readable [admins] section, and no command that
\* read it before is about to write, no command ever rewrites it again: `user
\* add` does not start over with a new file, so what an administrator could
\* salvage stays, and only the administrator can repair it.
Damaged == /\ users.state \in {"empty", "garbled"}
           /\ \A p \in Procs : proc[p].pc \notin {"open", "write"}
DamageIsFinal == [][Damaged => Damaged' /\ users' = users]_vars

\* A request connects for a user only with a password that an administrator
\* entered for that user, whatever commands died while they wrote, as long as no
\* two overlapped: a lone write that stops early loses entries but never puts one
\* under another's name.  (Two that overlap can, at the line their texts meet in.)
LoginsUseOwnPassword ==
    ~overlap => \A r \in Requests : req[r] # None => req[r].with.owner = req[r].user

\* A server that starts in the middle of a command gets the file as it was
\* before or does not start; it never gets half of the file.
StartsWithWholeFile ==
    [][srv.pc = "down" /\ srv'.pc = "starting" /\ Orderly
           => srv'.admins = expected]_vars

\* One command at a time, none dying: the files behave as an atomic vault.  A
\* command takes effect when it truncates the file it is about to write.
Plain(m) == [u \in DOMAIN m |-> [pw |-> m[u].pw, key |-> m[u].key]]
Writers(pc) == {p \in Procs : proc[p].pc = pc}
VaultEntries == IF Writers("write") = {} THEN Plain(users.admins)
                ELSE Plain(proc[CHOOSE p \in Writers("write") : TRUE].conf)
VaultKey == IF Writers("mwrite") = {} THEN master
            ELSE proc[CHOOSE p \in Writers("mwrite") : TRUE].key
Vault == INSTANCE CredentialVault WITH entries <- VaultEntries, key <- VaultKey
ImplementsVault == Vault!Spec
==============================================================================
