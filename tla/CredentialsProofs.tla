-------------------------- MODULE CredentialsProofs --------------------------
(***************************************************************************)
(* As long as no two commands overlap in the users file, no update is lost *)
(* but by a command that dies, and no password is used for somebody else   *)
(* even then; a damaged users file is final in any case: for any number of *)
(* commands, users, passwords, keys and requests.                          *)
(* Commands that are run one at a time, and finish, treat the two files as *)
(* one atomic vault.                                                       *)
(***************************************************************************)
EXTENDS Credentials, TLAPS

\* What any map of entries holds, in a file or in memory: each cipher was
\* entered for the user it stands under, or for one of W, or is cut.
Entry(W, u) == {c \in Ciphers : c.owner \in W \cup {u}} \cup {Cut}
Entries(W) == {m \in Maps : \A u \in DOMAIN m : m[u] \in Entry(W, u)}
Contents(W) == {Absent, Empty} \cup {File(s, m) : s \in {"ok", "garbled"}, m \in Entries(W)}

\* Whose ciphers may stand under other names: once commands overlapped, anyone's.
Mixed == IF overlap THEN Users ELSE {}

LEMMA EntriesFacts ==
  ASSUME NEW W, NEW m \in Entries(W)
  PROVE  /\ m \in Maps /\ DOMAIN m \in SUBSET Users /\ m = [u \in DOMAIN m |-> m[u]]
         /\ \A u \in DOMAIN m : m[u] \in Entry(W, u)
  BY DEF Entries, Maps

\* What makes a map one of entries.
LEMMA IsEntries ==
  ASSUME NEW W, NEW m, DOMAIN m \in SUBSET Users, m = [u \in DOMAIN m |-> m[u]],
         \A u \in DOMAIN m : m[u] \in Entry(W, u)
  PROVE  m \in Entries(W)
  <1>1. m \in [DOMAIN m -> Ciphers \cup {Cut}]
    BY DEF Entry
  <1>2. m \in Maps
    BY <1>1 DEF Maps
  <1> QED
    BY <1>2 DEF Entries

LEMMA NoEntries == ASSUME NEW W PROVE <<>> \in Entries(W)
  <1>1. <<>> \in [{} -> Ciphers \cup {Cut}]
    OBVIOUS
  <1>2. <<>> \in Maps
    BY <1>1 DEF Maps
  <1> QED
    BY <1>2 DEF Entries

\* Where nobody's ciphers may be misplaced is a special case of where W's may,
\* and where everybody's may, every map is one of entries.
LEMMA WiderEntries ==
  ASSUME NEW W, NEW V, W \subseteq V
  PROVE  Entries(W) \subseteq Entries(V) /\ Contents(W) \subseteq Contents(V)
  <1>1. Entries(W) \subseteq Entries(V)
    BY DEF Entries, Entry
  <1> QED
    BY <1>1 DEF Contents

LEMMA RestrictEntries ==
  ASSUME NEW W, NEW m \in Entries(W), NEW D \in SUBSET DOMAIN m
  PROVE  Restrict(m, D) \in Entries(W)
  <1>1. DOMAIN Restrict(m, D) = D /\ \A u \in D : Restrict(m, D)[u] = m[u]
    BY DEF Restrict
  <1>2. Restrict(m, D) = [u \in DOMAIN Restrict(m, D) |-> Restrict(m, D)[u]]
    BY DEF Restrict
  <1> QED
    BY <1>1, <1>2, EntriesFacts, IsEntries

LEMMA InsertEntries ==
  ASSUME NEW W, NEW m \in Entries(W), NEW u \in Users, NEW c \in Entry(W, u)
  PROVE  Insert(m, u, c) \in Entries(W)
  <1> DEFINE n == Insert(m, u, c)
  <1>1. /\ DOMAIN n = DOMAIN m \cup {u}
        /\ \A v \in DOMAIN n : n[v] = IF v = u THEN c ELSE m[v]
        /\ n = [v \in DOMAIN n |-> n[v]]
    BY DEF Insert
  <1> HIDE DEF n
  <1>2. DOMAIN n \in SUBSET Users /\ \A v \in DOMAIN n : n[v] \in Entry(W, v)
    BY <1>1, EntriesFacts
  <1>3. n \in Entries(W)
    BY <1>1, <1>2, IsEntries
  <1> QED
    BY <1>3 DEF n

LEMMA MergeEntries ==
  ASSUME NEW W, NEW m \in Entries(W), NEW f \in Entries(W)
  PROVE  Merge(m, f) \in Entries(W)
  <1> DEFINE n == Merge(m, f)
  <1>1. /\ DOMAIN n = DOMAIN m \cup DOMAIN f
        /\ \A v \in DOMAIN n : n[v] = IF v \in DOMAIN f THEN f[v] ELSE m[v]
        /\ n = [v \in DOMAIN n |-> n[v]]
    BY DEF Merge
  <1> HIDE DEF n
  <1>2. DOMAIN n \in SUBSET Users /\ \A v \in DOMAIN n : n[v] \in Entry(W, v)
    BY <1>1, EntriesFacts
  <1>3. n \in Entries(W)
    BY <1>1, <1>2, IsEntries
  <1> QED
    BY <1>3 DEF n

\* The texts of files, and what their states and entries are.
LEMMA ContentsFacts ==
  ASSUME NEW W, NEW f \in Contents(W)
  PROVE  /\ f.admins \in Entries(W)
         /\ f.state \in {"absent", "empty", "garbled", "ok"}
         /\ f.state = "ok" => f = Ok(f.admins)
         /\ f.state = "absent" => f = Absent /\ f.admins = <<>>
  BY NoEntries DEF Contents, Absent, Empty, Ok, File

LEMMA OkFacts ==
  /\ \A W : Absent \in Contents(W) /\ Empty \in Contents(W)
  /\ Empty # Absent /\ Empty.state = "empty"
  /\ \A m : Ok(m).state = "ok" /\ Ok(m).admins = m /\ Ok(m) # Empty
  /\ \A W : \A m \in Entries(W) : Ok(m) \in Contents(W) /\ Garbled(m) \in Contents(W)
  <1>1. \A W : Absent \in Contents(W) /\ Empty \in Contents(W)
    BY DEF Contents
  <1>2. Empty # Absent /\ Empty.state = "empty"
    BY DEF Absent, Empty, File
  <1>3. \A m : Ok(m).state = "ok" /\ Ok(m).admins = m /\ Ok(m) # Empty
    BY DEF Empty, Ok, File
  <1>4. ASSUME NEW W, NEW m \in Entries(W)
        PROVE  Ok(m) \in Contents(W) /\ Garbled(m) \in Contents(W)
    BY DEF Contents, Garbled, Ok
  <1> QED
    BY <1>1, <1>2, <1>3, <1>4

LEMMA PrefixEntries ==
  ASSUME NEW W, NEW m \in Entries(W)
  PROVE  Prefixes(m) \subseteq Entries(W)
  BY RestrictEntries DEF Prefixes

\* The line two texts meet in may give anyone's cipher to anyone.
LEMMA TailsEntries ==
  ASSUME NEW m \in Entries(Users)
  PROVE  Tails(m) \subseteq Entries(Users)
  <1>1. Prefixes(m) \subseteq Entries(Users)
    BY PrefixEntries
  <1>2. ASSUME NEW x \in DOMAIN m, NEW l \in Lines(m[x]) PROVE l \in Entries(Users)
    <2>1. PICK u \in Users : l \in [{u} -> {m[x], Cut}]
      BY DEF Lines
    <2>2. DOMAIN l = {u} /\ l = [v \in {u} |-> l[v]] /\ l[u] \in {m[x], Cut}
      BY <2>1
    <2>3. l[u] \in Entry(Users, u)
      BY <2>2, EntriesFacts DEF Entry, Ciphers
    <2> QED
      BY <2>2, <2>3, IsEntries
  <1>3. ASSUME NEW x \in DOMAIN m, NEW t \in Torn(m, x) PROVE t \in Entries(Users)
    <2>1. PICK l \in Lines(m[x]), f \in Prefixes(Restrict(m, DOMAIN m \ {x})) : t = Merge(l, f)
      BY DEF Torn
    <2>2. f \in Entries(Users)
      <3>1. DOMAIN m \ {x} \in SUBSET DOMAIN m
        OBVIOUS
      <3> QED
        BY <2>1, <3>1, RestrictEntries, PrefixEntries
    <2> QED
      BY <1>2, <2>1, <2>2, MergeEntries
  <1>4. ASSUME NEW t \in Tails(m) PROVE t \in Entries(Users)
    <2>1. t \in Prefixes(m) \/ \E x \in DOMAIN m : t \in Torn(m, x)
      BY DEF Tails
    <2> QED
      BY <1>1, <1>3, <2>1
  <1> QED
    BY <1>4

\* What is written, over an older text or not, is the text of a file; only over
\* an older one can ciphers get under other names.
LEMMA OverContents ==
  ASSUME NEW W, NEW new \in Contents(W), NEW old \in Contents(W), old = Empty \/ W = Users
  PROVE  Over(new, old) \subseteq Contents(W)
  <1>1. CASE old = Empty
    BY <1>1 DEF Over
  <1>2. CASE old # Empty
    <2>1. W = Users /\ new.admins \in Entries(W) /\ old.admins \in Entries(W)
      BY <1>2, ContentsFacts
    <2>2. \A t \in Tails(old.admins) : Merge(new.admins, t) \in Entries(W)
      BY <2>1, TailsEntries, MergeEntries
    <2> QED
      BY <1>2, <2>2 DEF Over, Contents
  <1> QED
    BY <1>1, <1>2

\* So is what is left of a write that stops early.
LEMMA PartialContents ==
  ASSUME NEW W, NEW m \in Entries(W)
  PROVE  Partial(m) \subseteq Contents(W)
  <1>1. \A f \in Prefixes(m) : f \in Entries(W)
    BY PrefixEntries
  <1>2. ASSUME NEW u \in DOMAIN m, NEW f \in Prefixes(m)
        PROVE  Ok(Insert(f, u, Cut)) \in Contents(W)
    <2>1. u \in Users /\ Cut \in Entry(W, u)
      BY EntriesFacts DEF Entry
    <2> QED
      BY <1>1, <2>1, InsertEntries, OkFacts
  <1> QED
    BY <1>1, <1>2, OkFacts DEF Partial

------------------------------------------------------------------------------
\* A command has what it needs for the steps before it.
Proper(W, c) ==
    /\ c.pc \in {"key", "read", "open", "write"} =>
           /\ c.user \in Users /\ c.op \in {"add", "edit", "del"}
           /\ c.op # "del" => c.pw \in Passwords
    /\ c.pc = "key" => c.op # "del"
    /\ c.pc \in {"read", "open", "write"} /\ c.op # "del" => c.key \in 1..MaxKeys
    /\ c.pc \in {"open", "write"} => c.conf \in Entries(W)
    /\ c.pc \in {"mopen", "mwrite"} => c.key \in 1..MaxKeys

ProperCommands(W) == {c \in Commands : Proper(W, c)}

Types == /\ master \in {NoKey, BadKey} \cup 1..MaxKeys
         /\ users \in Contents(Mixed)
         /\ proc \in [Procs -> ProperCommands(Mixed)]
         /\ keys \in 0..MaxKeys
         /\ srv \in [pc : {"down", "starting", "serving"}, admins : Entries(Mixed)]
         /\ req \in [Requests -> [user : Users, with : Ciphers] \cup {None}]
         /\ LoginsUseOwnPassword
         /\ expected \in Entries(Mixed)
         /\ overlap \in BOOLEAN /\ torn \in BOOLEAN

\* The record of a command at its place in the step.
LEMMA CommandFacts ==
  ASSUME NEW W, NEW c \in ProperCommands(W)
  PROVE  /\ c \in Commands /\ Proper(W, c)
         /\ c.pc \in {"idle", "key", "read", "open", "write", "mopen", "mwrite"}
         /\ c.op \in {"add", "edit", "del", "master", None} /\ c.user \in Users \cup {None}
         /\ c.pw \in Passwords \cup {None} /\ c.key \in 0..MaxKeys
         /\ c.conf \in Maps \cup {None}
  BY DEF ProperCommands, Commands

LEMMA IdleIsProper == ASSUME NEW W PROVE Idle \in ProperCommands(W)
  BY MaxKeysIsNat DEF Idle, ProperCommands, Commands, Proper, NoKey

LEMMA WiderCommands ==
  ASSUME NEW W, NEW V, W \subseteq V
  PROVE  ProperCommands(W) \subseteq ProperCommands(V)
  BY WiderEntries DEF ProperCommands, Proper

\* A command that goes on is the same command.
Same(c, d) == c.op = d.op /\ c.user = d.user /\ c.pw = d.pw

LEMMA GotoFacts ==
  ASSUME NEW W, NEW p \in Procs, proc[p] \in ProperCommands(W),
         NEW pc \in {"idle", "key", "read", "open", "write", "mopen", "mwrite"}
  PROVE  /\ Goto(p, pc) \in Commands /\ Goto(p, pc).pc = pc
         /\ Goto(p, pc).key = proc[p].key /\ Goto(p, pc).conf = proc[p].conf
         /\ Same(Goto(p, pc), proc[p])
  <1>1. proc[p] \in Commands
    BY CommandFacts
  <1> QED
    BY <1>1 DEF Goto, Commands, Same

LEMMA WithKeyFacts ==
  ASSUME NEW c \in Commands, NEW k \in 0..MaxKeys
  PROVE  LET d == [c EXCEPT !.key = k]
         IN  d \in Commands /\ d.pc = c.pc /\ d.key = k /\ d.conf = c.conf /\ Same(d, c)
  BY DEF Commands, Same

LEMMA WithConfFacts ==
  ASSUME NEW c \in Commands, NEW m \in Maps
  PROVE  LET d == [c EXCEPT !.conf = m]
         IN  d \in Commands /\ d.pc = c.pc /\ d.key = c.key /\ d.conf = m /\ Same(d, c)
  BY DEF Commands, Same

\* The new password of a command that has a key is an entry for its user.
LEMMA CipherFacts ==
  ASSUME NEW W, NEW p \in Procs, proc[p] \in ProperCommands(W),
         proc[p].pc \in {"read", "open", "write"}, proc[p].op # "del"
  PROVE  CipherOf(p) \in Entry(W, proc[p].user)
  BY CommandFacts DEF Proper, CipherOf, Entry, Ciphers

LEMMA ChangedEntries ==
  ASSUME NEW W, NEW m \in Entries(W), NEW op, NEW u \in Users, NEW c,
         op # "del" => c \in Entry(W, u)
  PROVE  Changed(m, op, u, c) \in Entries(W)
  <1>1. DOMAIN m \ {u} \in SUBSET DOMAIN m
    OBVIOUS
  <1> QED
    BY <1>1, RestrictEntries, InsertEntries DEF Changed

LEMMA AppliedEntries ==
  ASSUME NEW W, NEW m \in Entries(W), NEW p \in Procs, proc[p] \in ProperCommands(W),
         proc[p].pc = "write"
  PROVE  Applied(m, proc[p]) \in Entries(W)
  <1> DEFINE c == proc[p]
             n == Applied(m, c)
  <1>1. c.user \in Users /\ (c.op # "del" => CipherOf(p) \in Entry(W, c.user))
    BY CipherFacts, CommandFacts DEF Proper
  <1>2. /\ DOMAIN n = IF c.op = "del" THEN DOMAIN m \ {c.user}
                      ELSE (DOMAIN m \ {c.user}) \cup {c.user}
        /\ \A v \in DOMAIN n : n[v] = IF v = c.user THEN CipherOf(p) ELSE m[v]
        /\ n = [v \in DOMAIN n |-> n[v]]
    BY DEF Applied, CipherOf
  <1> HIDE DEF n, c
  <1>3. DOMAIN n \in SUBSET Users
    BY <1>1, <1>2, EntriesFacts
  <1>4. \A v \in DOMAIN n : n[v] \in Entry(W, v)
    BY <1>1, <1>2, EntriesFacts
  <1>5. n \in Entries(W)
    BY <1>2, <1>3, <1>4, IsEntries
  <1> QED
    BY <1>5 DEF n, c

------------------------------------------------------------------------------
\* Without an overlap a command that has read the file and not yet finished is
\* the only one of its kind once it has truncated the file: it writes into an
\* empty one.
Writer(p) == proc[p].pc \in {"open", "write"}

OneWriter == \A p \in Procs : WritesUsers(p) => /\ users = Empty
                                                /\ \A q \in Procs \ {p} : ~Writer(q)
Alone == ~overlap => OneWriter

LEMMA InitTypes == Init => Types
  <1> SUFFICES ASSUME Init PROVE Types
    OBVIOUS
  <1>1. proc \in [Procs -> ProperCommands(Mixed)]
    BY IdleIsProper DEF Init
  <1>2. srv \in [pc : {"down", "starting", "serving"}, admins : Entries(Mixed)] /\ expected \in Entries(Mixed)
    BY NoEntries DEF Init
  <1>3. req \in [Requests -> [user : Users, with : Ciphers] \cup {None}]
        /\ LoginsUseOwnPassword
    BY DEF Init, LoginsUseOwnPassword
  <1>4. master = NoKey /\ users \in Contents(Mixed) /\ keys \in 0..MaxKeys
    BY OkFacts, MaxKeysIsNat DEF Init
  <1>5. overlap \in BOOLEAN /\ torn \in BOOLEAN
    BY Zenon DEF Init
  <1> QED
    BY <1>1, <1>2, <1>3, <1>4, <1>5 DEF Types

\* What the history variables become is of their kinds.
LEMMA NoteTypes ==
  ASSUME Types, NEW o \in BOOLEAN, NEW t \in BOOLEAN, Note(o, t)
  PROVE  /\ overlap' \in BOOLEAN /\ torn' \in BOOLEAN
         /\ expected' \in Entries(Mixed')
         /\ Mixed \subseteq Mixed' /\ (~o => Mixed' = Mixed)
  <1>1. overlap \in BOOLEAN /\ torn \in BOOLEAN /\ expected \in Entries(Mixed)
    BY DEF Types
  <1>2. overlap' \in BOOLEAN /\ torn' \in BOOLEAN
    BY <1>1, Zenon DEF Note
  <1>3. Mixed \subseteq Mixed'
    BY DEF Note, Mixed
  <1>4. ~o => Mixed' = Mixed
    BY DEF Note, Mixed
  <1>5. expected' \in Entries(Mixed')
    BY <1>1, <1>3, NoEntries, WiderEntries DEF Note
  <1> QED
    BY <1>2, <1>3, <1>4, <1>5

\* The steps of a command leave the server alone and keep the rest in shape.
FilesTyped == /\ master \in {NoKey, BadKey} \cup 1..MaxKeys
              /\ users \in Contents(Mixed) /\ keys \in 0..MaxKeys
              /\ expected \in Entries(Mixed)
              /\ overlap \in BOOLEAN /\ torn \in BOOLEAN

LEMMA CommandKeeps ==
  ASSUME Types, NEW p \in Procs, NEW c \in ProperCommands(Mixed'),
         proc' = [proc EXCEPT ![p] = c], UNCHANGED <<srv, req>>, FilesTyped',
         Mixed \subseteq Mixed', overlap => overlap'
  PROVE  Types'
  <1>1. proc' \in [Procs -> ProperCommands(Mixed')]
    <2>1. \A q \in Procs : proc[q] \in ProperCommands(Mixed')
      BY WiderCommands DEF Types
    <2> QED
      BY <2>1 DEF Types
  <1>2. srv' \in [pc : {"down", "starting", "serving"}, admins : Entries(Mixed')]
    <2>1. Entries(Mixed) \subseteq Entries(Mixed')
      BY WiderEntries
    <2> QED
      BY <2>1 DEF Types
  <1>3. LoginsUseOwnPassword'
    BY DEF Types, LoginsUseOwnPassword
  <1> QED
    BY <1>1, <1>2, <1>3 DEF Types, FilesTyped

LEMMA QuietKeeps ==
  ASSUME Types, NEW p \in Procs, NEW c \in ProperCommands(Mixed),
         proc' = [proc EXCEPT ![p] = c], UNCHANGED <<srv, req, overlap>>, FilesTyped'
  PROVE  Types'
  <1>1. Mixed' = Mixed
    BY DEF Mixed
  <1> QED
    BY <1>1, CommandKeeps

LEMMA CommandTypes ==
  ASSUME Types, Alone, NEW p \in Procs, UserCommand(p) \/ MasterKeyCommand(p) \/ Die(p)
  PROVE  Types'
  <1> DEFINE c == proc[p]
  <1>0. /\ FilesTyped /\ c \in ProperCommands(Mixed) /\ c \in Commands /\ Proper(Mixed, c)
        /\ Idle \in ProperCommands(Mixed) /\ Idle \in Commands
    BY CommandFacts, IdleIsProper DEF Types, FilesTyped
  <1>1. ASSUME UNCHANGED <<files, keys, history>> PROVE FilesTyped' /\ overlap' = overlap
    BY <1>0, <1>1 DEF FilesTyped, Mixed, files, history
  <1>2. ASSUME NEW op \in {"add", "edit", "del"}, NEW u \in Users, NEW pw \in Passwords \cup {None},
               op = "del" <=> pw = None, StartUserCommand(p, op, u, pw)
        PROVE  Types'
    <2> DEFINE d == [Idle EXCEPT !.pc = IF op = "del" THEN "read" ELSE "key",
                                 !.op = op, !.user = u, !.pw = pw]
    <2>1. proc' = [proc EXCEPT ![p] = d] /\ UNCHANGED <<files, keys, srv, req, history>>
      BY <1>2 DEF StartUserCommand
    <2>2. Idle \in Commands /\ (IF op = "del" THEN "read" ELSE "key") \in {"read", "key"}
      BY <1>0, CommandFacts
    <2>3. /\ d \in Commands /\ d.pc = IF op = "del" THEN "read" ELSE "key"
          /\ d.op = op /\ d.user = u /\ d.pw = pw
      BY <2>2 DEF Commands
    <2> HIDE DEF d
    <2>4. Proper(Mixed, d)
      BY <1>2, <2>3, NoneIsNoName DEF Proper
    <2>5. d \in ProperCommands(Mixed) /\ FilesTyped'
          /\ overlap' = overlap
      BY <1>1, <2>1, <2>3, <2>4 DEF ProperCommands
    <2> QED
      BY <2>1, <2>5, QuietKeeps
  <1>3. CASE LoadKeyForUser(p)
    <2>1. c.pc = "key" /\ UNCHANGED <<files, keys, srv, req, history>> /\ FilesTyped'
          /\ overlap' = overlap
      BY <1>1, <1>3 DEF LoadKeyForUser
    <2>2. CASE Loadable(master)
      <3> DEFINE g == Goto(p, "read")
                 d == [g EXCEPT !.key = master]
      <3>1. proc' = [proc EXCEPT ![p] = d]
        BY <1>3, <2>2 DEF LoadKeyForUser
      <3>2. g \in Commands /\ g.pc = "read" /\ g.conf = c.conf /\ Same(g, c)
        BY <1>0, GotoFacts
      <3>3. master \in 1..MaxKeys /\ master \in 0..MaxKeys
        BY <2>2, MaxKeysIsNat DEF Loadable
      <3> HIDE DEF g
      <3>4. d \in Commands /\ d.pc = "read" /\ d.key = master /\ Same(d, g)
        BY <3>2, <3>3, WithKeyFacts
      <3> HIDE DEF d
      <3>5. Proper(Mixed, d)
        BY <1>0, <2>1, <3>2, <3>3, <3>4 DEF Proper, Same
      <3> QED
        BY <2>1, <3>1, <3>4, <3>5, QuietKeeps DEF ProperCommands
    <2>3. CASE ~Loadable(master)
      BY <1>0, <1>3, <2>1, <2>3, QuietKeeps DEF LoadKeyForUser, End
    <2> QED
      BY <2>2, <2>3
  <1>4. CASE ReadAndChange(p)
    <2>1. c.pc = "read" /\ UNCHANGED <<files, keys, srv, req, history>> /\ FilesTyped'
          /\ overlap' = overlap
      BY <1>1, <1>4 DEF ReadAndChange
    <2>2. CASE Accepts(c.op, c.user)
      <3> DEFINE g == Goto(p, "open")
                 m == Changed(users.admins, c.op, c.user, CipherOf(p))
                 d == [g EXCEPT !.conf = m]
      <3>1. proc' = [proc EXCEPT ![p] = d]
        BY <1>4, <2>2 DEF ReadAndChange
      <3>2. g \in Commands /\ g.pc = "open" /\ g.key = c.key /\ Same(g, c)
        BY <1>0, GotoFacts
      <3>3. m \in Entries(Mixed)
        <4>1. users.admins \in Entries(Mixed) /\ c.user \in Users
              /\ (c.op # "del" => CipherOf(p) \in Entry(Mixed, c.user))
          BY <1>0, <2>1, ContentsFacts, CipherFacts DEF Proper, FilesTyped
        <4> QED
          BY <4>1, ChangedEntries
      <3> HIDE DEF g, m
      <3>4. d \in Commands /\ d.pc = "open" /\ d.key = c.key /\ d.conf = m /\ Same(d, g)
        BY <3>2, <3>3, EntriesFacts, WithConfFacts
      <3> HIDE DEF d
      <3>5. Proper(Mixed, d)
        BY <1>0, <2>1, <3>2, <3>3, <3>4 DEF Proper, Same
      <3> QED
        BY <2>1, <3>1, <3>4, <3>5, QuietKeeps DEF ProperCommands
    <2>3. CASE ~Accepts(c.op, c.user)
      BY <1>0, <1>4, <2>1, <2>3, QuietKeeps DEF ReadAndChange, End
    <2> QED
      BY <2>2, <2>3
  <1>5. ASSUME NEW from \in {"open", "mopen"},
               NEW to \in {"write", "mwrite"}, from = "open" <=> to = "write", c.pc = from
        PROVE  Goto(p, to) \in ProperCommands(Mixed)
    <2> DEFINE d == Goto(p, to)
    <2>1. d \in Commands /\ d.pc = to /\ d.key = c.key /\ d.conf = c.conf /\ Same(d, c)
      BY <1>0, GotoFacts
    <2> HIDE DEF d
    <2>2. Proper(Mixed, d)
      BY <1>0, <1>5, <2>1 DEF Proper, Same
    <2>3. d \in ProperCommands(Mixed)
      BY <2>1, <2>2 DEF ProperCommands
    <2> QED
      BY <2>3 DEF d
  <1>6. CASE TruncateUsers(p)
    <2> DEFINE o == \E q \in Procs \ {p} : proc[q].pc \in {"open", "write"}
               d == Goto(p, "write")
    <2>1. /\ c.pc = "open" /\ users' = Empty /\ UNCHANGED <<master, keys, srv, req>>
          /\ proc' = [proc EXCEPT ![p] = d] /\ Note(o, FALSE)
      BY <1>6 DEF TruncateUsers
    <2>2. d \in ProperCommands(Mixed)
      BY <1>5, <2>1
    <2>3. o \in BOOLEAN
      BY Zenon
    <2>4. overlap => overlap'
      BY <2>1 DEF Note
    <2> HIDE DEF o, d
    <2>5. /\ overlap' \in BOOLEAN /\ torn' \in BOOLEAN /\ expected' \in Entries(Mixed')
          /\ Mixed \subseteq Mixed'
      BY <2>1, <2>3, NoteTypes
    <2>6. FilesTyped'
      BY <1>0, <2>1, <2>5, OkFacts DEF FilesTyped
    <2>7. d \in ProperCommands(Mixed')
      BY <2>2, <2>5, WiderCommands
    <2> QED
      BY <2>1, <2>4, <2>5, <2>6, <2>7, CommandKeeps
  <1>7. CASE WriteUsers(p)
    <2>1. /\ c.pc = "write" /\ users' \in Over(Ok(c.conf), users)
          /\ proc' = [proc EXCEPT ![p] = Idle]
          /\ UNCHANGED <<master, keys, srv, req, overlap, torn>>
          /\ expected' = expected \/ expected' = Applied(expected, c)
      BY <1>7 DEF WriteUsers, End
    <2>2. users' \in Contents(Mixed)
      <3>1. Ok(c.conf) \in Contents(Mixed)
        BY <1>0, <2>1, OkFacts DEF Proper
      <3>2. users = Empty \/ Mixed = Users
        BY <2>1 DEF Alone, OneWriter, WritesUsers, Mixed
      <3> QED
        BY <1>0, <2>1, <3>1, <3>2, OverContents DEF FilesTyped
    <2>3. expected' \in Entries(Mixed)
      BY <1>0, <2>1, AppliedEntries DEF FilesTyped
    <2>4. Mixed' = Mixed
      BY <2>1 DEF Mixed
    <2>5. FilesTyped'
      BY <1>0, <2>1, <2>2, <2>3, <2>4 DEF FilesTyped
    <2> QED
      BY <1>0, <2>1, <2>5, QuietKeeps
  <1>8. CASE StartMasterKey(p)
    <2> DEFINE d == [Idle EXCEPT !.pc = "mopen", !.op = "master", !.key = keys + 1]
    <2>1. /\ proc' = [proc EXCEPT ![p] = d] /\ keys' = keys + 1 /\ keys < MaxKeys
          /\ UNCHANGED <<files, srv, req, history>>
      BY <1>8 DEF StartMasterKey
    <2>2. keys + 1 \in 1..MaxKeys /\ keys + 1 \in 0..MaxKeys
      BY <1>0, <2>1, MaxKeysIsNat DEF FilesTyped
    <2>3. d \in Commands /\ d.pc = "mopen" /\ d.key = keys + 1
      BY <1>0, <2>2, CommandFacts DEF Commands
    <2> HIDE DEF d
    <2>4. d \in ProperCommands(Mixed)
      BY <2>2, <2>3 DEF ProperCommands, Proper
    <2>5. FilesTyped' /\ overlap' = overlap
      BY <1>0, <2>1, <2>2 DEF FilesTyped, Mixed, files, history
    <2> QED
      BY <2>1, <2>4, <2>5, QuietKeeps
  <1>9. CASE TruncateMaster(p)
    <2>1. /\ c.pc = "mopen" /\ master' = NoKey /\ UNCHANGED <<users, keys, srv, req, history>>
          /\ proc' = [proc EXCEPT ![p] = Goto(p, "mwrite")]
      BY <1>9 DEF TruncateMaster
    <2>2. FilesTyped' /\ overlap' = overlap
      BY <1>0, <2>1 DEF FilesTyped, Mixed, history
    <2> QED
      BY <1>5, <2>1, <2>2, QuietKeeps
  <1>10. CASE WriteMaster(p)
    <2>1. /\ c.pc = "mwrite" /\ master' \in {c.key, BadKey}
          /\ UNCHANGED <<users, keys, srv, req, history>> /\ proc' = [proc EXCEPT ![p] = Idle]
      BY <1>10 DEF WriteMaster, End
    <2>2. FilesTyped' /\ overlap' = overlap
      BY <1>0, <2>1 DEF FilesTyped, Mixed, history, Proper
    <2> QED
      BY <1>0, <2>1, <2>2, QuietKeeps
  <1>11. CASE Die(p)
    <2>1. /\ UNCHANGED <<srv, req>> /\ proc' = [proc EXCEPT ![p] = Idle]
          /\ Note(FALSE, c.pc = "write")
          /\ users' \in {users} \cup LeftOfUsers(c)
          /\ master' \in {master} \cup LeftOfKey(c)
          /\ keys' = IF master' > keys THEN master' ELSE keys
      BY <1>11 DEF Die, End
    <2>2. users' \in Contents(Mixed)
      <3>1. c.pc = "write" => Partial(c.conf) \subseteq Contents(Mixed)
        BY <1>0, PartialContents DEF Proper
      <3>2. c.pc = "write" => users = Empty \/ Mixed = Users
        BY DEF Alone, OneWriter, WritesUsers, Mixed
      <3>3. LeftOfUsers(c) \subseteq Contents(Mixed)
        BY <1>0, <3>1, <3>2, OverContents DEF FilesTyped, LeftOfUsers
      <3> QED
        BY <1>0, <2>1, <3>3 DEF FilesTyped
    <2>3. master' \in {NoKey, BadKey} \cup 1..MaxKeys
      <3>1. c.pc = "mwrite" => c.key \in 1..MaxKeys
        BY <1>0 DEF Proper
      <3>2. keys < MaxKeys => keys + 1 \in 1..MaxKeys
        BY <1>0, MaxKeysIsNat DEF FilesTyped
      <3>3. LeftOfKey(c) \subseteq {BadKey} \cup 1..MaxKeys
        <4>1. CASE c.pc # "mwrite"
          BY <4>1 DEF LeftOfKey
        <4>2. CASE c.pc = "mwrite" /\ master # NoKey /\ keys < MaxKeys
          BY <3>1, <3>2, <4>2 DEF LeftOfKey
        <4>3. CASE c.pc = "mwrite" /\ ~(master # NoKey /\ keys < MaxKeys)
          BY <3>1, <4>3 DEF LeftOfKey
        <4> QED
          BY <4>1, <4>2, <4>3
      <3> QED
        BY <1>0, <2>1, <3>3 DEF FilesTyped
    <2>4. keys' \in 0..MaxKeys
      BY <1>0, <2>1, <2>3, MaxKeysIsNat DEF FilesTyped, NoKey, BadKey
    <2>5. (c.pc = "write") \in BOOLEAN
      OBVIOUS
    <2>6. /\ overlap' \in BOOLEAN /\ torn' \in BOOLEAN /\ expected' \in Entries(Mixed')
          /\ Mixed' = Mixed
      BY <2>1, <2>5, NoteTypes
    <2>7. FilesTyped'
      BY <1>0, <2>2, <2>3, <2>4, <2>6 DEF FilesTyped
    <2>8. overlap => overlap'
      BY <2>1 DEF Note
    <2> QED
      BY <1>0, <2>1, <2>6, <2>7, <2>8, CommandKeeps
  <1>12. CASE UserCommand(p)
    <2>1. ASSUME NEW op \in {"add", "edit"}, NEW u \in Users, NEW pw \in Passwords,
                 StartUserCommand(p, op, u, pw)
          PROVE  Types'
      BY <1>2, <2>1, NoneIsNoName
    <2>2. ASSUME NEW u \in Users, StartUserCommand(p, "del", u, None)
          PROVE  Types'
      BY <1>2, <2>2
    <2> QED
      BY <1>3, <1>4, <1>6, <1>7, <1>12, <2>1, <2>2 DEF UserCommand
  <1> QED
    BY <1>8, <1>9, <1>10, <1>11, <1>12 DEF MasterKeyCommand

LEMMA ServerTypes ==
  ASSUME Types, Server \/ UNCHANGED vars
  PROVE  Types'
  <1> DEFINE Servers == [pc : {"down", "starting", "serving"}, admins : Entries(Mixed)]
             Logins == [Requests -> [user : Users, with : Ciphers] \cup {None}]
  <1>1. ASSUME UNCHANGED <<files, proc, keys, history>>, srv' \in Servers, req' \in Logins,
               LoginsUseOwnPassword'
        PROVE  Types'
    <2>1. Mixed' = Mixed
      BY <1>1 DEF Mixed, history
    <2> QED
      BY <1>1, <2>1 DEF Types, files, history
  <1>2. srv \in Servers /\ req \in Logins /\ LoginsUseOwnPassword
    BY DEF Types
  <1>3. UNCHANGED <<req, overlap>> => LoginsUseOwnPassword'
    BY <1>2 DEF LoginsUseOwnPassword
  <1>4. CASE LoadConfiguration
    <2>1. srv' = [pc |-> "starting", admins |-> users.admins] /\ users.admins \in Entries(Mixed)
          /\ UNCHANGED <<files, proc, keys, req, history>>
      BY <1>4, ContentsFacts DEF LoadConfiguration, Types
    <2>2. srv' \in Servers
      BY <2>1
    <2> QED
      BY <1>1, <1>2, <1>3, <2>1, <2>2 DEF history
  <1>5. CASE Serve
    <2>1. srv' = [srv EXCEPT !.pc = "serving"] /\ UNCHANGED <<files, proc, keys, req, history>>
      BY <1>5 DEF Serve
    <2>2. srv' \in Servers
      BY <1>2, <2>1
    <2> QED
      BY <1>1, <1>2, <1>3, <2>1, <2>2 DEF history
  <1>6. CASE StopServer
    <2>1. /\ srv' = [pc |-> "down", admins |-> <<>>] /\ req' = [r \in Requests |-> None]
          /\ UNCHANGED <<files, proc, keys, history>>
      BY <1>6 DEF StopServer
    <2>2. srv' \in Servers /\ req' \in Logins /\ LoginsUseOwnPassword'
      BY <2>1, NoEntries DEF LoginsUseOwnPassword
    <2> QED
      BY <1>1, <2>1, <2>2
  <1>7. ASSUME NEW r \in Requests, NEW u \in Users, Login(r, u) PROVE Types'
    <2> DEFINE w == EntryOf(u)
    <2>1. /\ u \in DOMAIN srv.admins /\ Loadable(master) /\ w.key = master
          /\ req' = [req EXCEPT ![r] = [user |-> u, with |-> w]]
          /\ UNCHANGED <<files, proc, keys, srv, history>>
      BY <1>7 DEF Login
    <2>2. w \in Ciphers /\ w.owner \in Mixed \cup {u}
      <3>1. w \in Entry(Mixed, u)
        BY <1>2, <2>1, EntriesFacts DEF EntryOf
      <3>2. Cut.key \notin 1..MaxKeys
        BY MaxKeysIsNat DEF Cut, NoKey
      <3> QED
        BY <2>1, <3>1, <3>2 DEF Entry, Loadable
    <2> HIDE DEF w
    <2>3. req' \in Logins
      BY <1>2, <2>1, <2>2
    <2>4. ASSUME ~overlap, NEW q \in Requests, req'[q] # None
          PROVE  req'[q].with.owner = req'[q].user
      <3>1. w.owner = u
        BY <2>2, <2>4 DEF Mixed
      <3> QED
        BY <1>2, <2>1, <2>4, <3>1 DEF LoginsUseOwnPassword
    <2>5. LoginsUseOwnPassword'
      BY <2>1, <2>4 DEF LoginsUseOwnPassword, history
    <2> QED
      BY <1>1, <1>2, <2>1, <2>3, <2>5
  <1>8. ASSUME NEW r \in Requests, EndRequest(r) PROVE Types'
    <2>1. /\ req' = [req EXCEPT ![r] = None] /\ UNCHANGED <<files, proc, keys, srv, history>>
      BY <1>8 DEF EndRequest
    <2>2. req' \in Logins
      BY <1>2, <2>1
    <2>3. LoginsUseOwnPassword'
      BY <1>2, <2>1 DEF LoginsUseOwnPassword, history
    <2> QED
      BY <1>1, <1>2, <2>1, <2>2, <2>3
  <1>9. CASE UNCHANGED vars
    BY <1>1, <1>2, <1>3, <1>9 DEF vars, files, history
  <1> QED
    BY <1>4, <1>5, <1>6, <1>7, <1>8, <1>9 DEF Server

------------------------------------------------------------------------------
\* Until something disturbs the files, they are as expected or about to be: a
\* command that has read the users file will write what the finished commands and
\* itself call for.
Whole == NobodyWrites => users = Ok(expected) \/ (users = Absent /\ expected = <<>>)
Current == \A p \in Procs : Writer(p) => proc[p].conf = Applied(expected, proc[p])

Safe == Orderly => Whole /\ Current

\* What a command makes of a map is what the history makes of it.
LEMMA ChangedIsApplied ==
  ASSUME NEW m \in Entries(Mixed), NEW p \in Procs
  PROVE  Changed(m, proc[p].op, proc[p].user, CipherOf(p)) = Applied(m, proc[p])
  <1> DEFINE c == proc[p]
  <1>1. CASE c.op = "del"
    <2>1. \A v \in DOMAIN m \ {c.user} : v # c.user
      OBVIOUS
    <2> QED
      BY <1>1, <2>1 DEF Changed, Applied, Restrict
  <1>2. CASE c.op # "del"
    <2>1. DOMAIN m \cup {c.user} = (DOMAIN m \ {c.user}) \cup {c.user}
      OBVIOUS
    <2> QED
      BY <1>2, <2>1 DEF Changed, Applied, Insert, CipherOf
  <1> QED
    BY <1>1, <1>2

LEMMA SameApplied ==
  ASSUME NEW m, NEW c, NEW d, Same(c, d), c.key = d.key
  PROVE  Applied(m, c) = Applied(m, d)
  BY DEF Applied, Same

\* A step of a command that is not writing, to a place where it does not.
Quietly(p, c) == /\ proc' = [proc EXCEPT ![p] = c] /\ UNCHANGED <<users, overlap, torn>>
                 /\ Orderly => expected' = expected
                 /\ c.pc \notin {"open", "write"} /\ proc[p].pc # "write"

LEMMA QuietStep ==
  ASSUME Types, NEW p \in Procs, NEW c, Quietly(p, c)
  PROVE  (Alone => Alone') /\ (Safe => Safe')
  <1>1. /\ proc'[p] = c /\ \A q \in Procs : q # p => proc'[q] = proc[q]
        /\ c.pc \notin {"open", "write"} /\ proc[p].pc # "write"
        /\ UNCHANGED <<users, overlap, torn>> /\ (Orderly => expected' = expected)
    BY DEF Quietly, Types
  <1>2. NobodyWrites' => NobodyWrites
    BY <1>1 DEF NobodyWrites, WritesUsers
  <1>3. Alone => Alone'
    BY <1>1 DEF Alone, OneWriter, WritesUsers, Writer
  <1>4. ASSUME Safe, Orderly PROVE Whole' /\ Current'
    <2>1. Whole /\ Current /\ expected' = expected
      BY <1>1, <1>4 DEF Safe
    <2>2. Whole'
      BY <1>1, <1>2, <2>1 DEF Whole
    <2>3. Current'
      <3> SUFFICES ASSUME NEW q \in Procs, Writer(q)'
                   PROVE  proc'[q].conf = Applied(expected', proc'[q])
        BY DEF Current
      <3>1. proc'[q] = proc[q]
        BY <1>1 DEF Writer
      <3> QED
        BY <2>1, <3>1 DEF Current, Writer
    <2> QED
      BY <2>2, <2>3
  <1>5. Orderly' = Orderly
    BY <1>1 DEF Orderly
  <1> QED
    BY <1>3, <1>4, <1>5 DEF Safe

\* The next step of a command is a quiet one, or on the way to its rewriting of
\* the users file, or in it.
LEMMA CommandSteps ==
  ASSUME Types, NEW p \in Procs, UserCommand(p) \/ MasterKeyCommand(p) \/ Die(p)
  PROVE  \/ \E c : Quietly(p, c)
         \/ ReadAndChange(p) /\ Accepts(proc[p].op, proc[p].user)
         \/ TruncateUsers(p) \/ WriteUsers(p)
         \/ Die(p) /\ proc[p].pc = "write"
  <1> DEFINE c == proc[p]
             Quiet == \E d : Quietly(p, d)
  <1>0. c \in ProperCommands(Mixed) /\ c \in Commands /\ Idle.pc = "idle"
        /\ overlap \in BOOLEAN /\ torn \in BOOLEAN
    BY CommandFacts DEF Types, Idle
  <1>2. ASSUME NEW op, NEW u, NEW pw, StartUserCommand(p, op, u, pw) PROVE Quiet
    <2> DEFINE d == [Idle EXCEPT !.pc = IF op = "del" THEN "read" ELSE "key",
                                 !.op = op, !.user = u, !.pw = pw]
    <2>1. proc[p] = Idle /\ proc' = [proc EXCEPT ![p] = d] /\ UNCHANGED <<users, history>>
      BY <1>2 DEF StartUserCommand, files
    <2>2. d.pc \in {"read", "key"}
      BY DEF Idle
    <2> HIDE DEF d
    <2> QED
      BY <1>0, <2>1, <2>2 DEF Quietly, history
  <1>3. CASE LoadKeyForUser(p)
    <2>1. c.pc = "key" /\ UNCHANGED <<users, history>>
      BY <1>3 DEF LoadKeyForUser, files
    <2>2. CASE Loadable(master)
      <3> DEFINE d == [Goto(p, "read") EXCEPT !.key = master]
      <3>1. proc' = [proc EXCEPT ![p] = d]
        BY <1>3, <2>2 DEF LoadKeyForUser
      <3>2. d.pc = "read"
        BY <1>0 DEF Goto, Commands
      <3> HIDE DEF d
      <3> QED
        BY <2>1, <3>1, <3>2 DEF Quietly, history
    <2>3. CASE ~Loadable(master)
      BY <1>0, <1>3, <2>1, <2>3 DEF LoadKeyForUser, End, Quietly, history
    <2> QED
      BY <2>2, <2>3
  <1>4. CASE ReadAndChange(p) /\ ~Accepts(c.op, c.user)
    BY <1>0, <1>4 DEF ReadAndChange, End, Quietly, files, history
  <1>5. CASE StartMasterKey(p)
    <2> DEFINE d == [Idle EXCEPT !.pc = "mopen", !.op = "master", !.key = keys + 1]
    <2>1. proc[p] = Idle /\ proc' = [proc EXCEPT ![p] = d] /\ UNCHANGED <<users, history>>
      BY <1>5 DEF StartMasterKey, files
    <2>2. d.pc = "mopen"
      BY DEF Idle
    <2> HIDE DEF d
    <2> QED
      BY <1>0, <2>1, <2>2 DEF Quietly, history
  <1>6. CASE TruncateMaster(p)
    <2>1. /\ c.pc = "mopen" /\ proc' = [proc EXCEPT ![p] = Goto(p, "mwrite")]
          /\ UNCHANGED <<users, history>> /\ Goto(p, "mwrite").pc = "mwrite"
      BY <1>0, <1>6, GotoFacts DEF TruncateMaster
    <2> QED
      BY <2>1 DEF Quietly, history
  <1>7. CASE WriteMaster(p)
    BY <1>0, <1>7 DEF WriteMaster, End, Quietly, history
  <1>8. CASE Die(p) /\ c.pc # "write"
    <2>1. proc' = [proc EXCEPT ![p] = Idle] /\ users' = users /\ Note(FALSE, c.pc = "write")
      BY <1>8 DEF Die, End, LeftOfUsers
    <2>2. overlap' = overlap /\ torn' = torn
      <3>1. overlap' = (overlap \/ FALSE) /\ torn' = (torn \/ c.pc = "write")
        BY <2>1 DEF Note
      <3> QED
        BY <1>0, <1>8, <3>1
    <2>3. expected' = expected \/ ~Orderly
      BY <2>1, <2>2 DEF Note, Orderly
    <2> QED
      BY <1>0, <1>8, <2>1, <2>2, <2>3 DEF Quietly
  <1> QED
    BY <1>2, <1>3, <1>4, <1>5, <1>6, <1>7, <1>8 DEF UserCommand, MasterKeyCommand

LEMMA CommandAlone ==
  ASSUME Types, Alone, NEW p \in Procs, UserCommand(p) \/ MasterKeyCommand(p) \/ Die(p)
  PROVE  Alone'
  <1> DEFINE c == proc[p]
  <1>0. DOMAIN proc = Procs /\ Idle.pc = "idle"
    BY DEF Types, Idle
  <1>1. CASE \E d : Quietly(p, d)
    BY <1>1, QuietStep
  <1>2. CASE ReadAndChange(p) /\ Accepts(c.op, c.user)
    <2>1. c.pc = "read" /\ UNCHANGED <<users, overlap>> /\ users # Empty
      BY <1>2, OkFacts DEF ReadAndChange, Accepts, files, history
    <2>2. ~overlap => NobodyWrites
      BY <2>1 DEF Alone, OneWriter, NobodyWrites
    <2>3. PICK d : proc' = [proc EXCEPT ![p] = d] /\ d.pc = "open"
      <3> DEFINE e == [Goto(p, "open") EXCEPT
                           !.conf = Changed(users.admins, c.op, c.user, CipherOf(p))]
      <3>1. c \in Commands
        BY CommandFacts DEF Types
      <3>2. proc' = [proc EXCEPT ![p] = e]
        BY <1>2 DEF ReadAndChange
      <3>3. e.pc = "open"
        BY <3>1 DEF Goto, Commands
      <3> HIDE DEF e
      <3> QED
        BY <3>2, <3>3
    <2>4. proc'[p] = d /\ \A q \in Procs : q # p => proc'[q] = proc[q]
      BY <1>0, <2>3
    <2>5. NobodyWrites => NobodyWrites'
      BY <2>3, <2>4 DEF NobodyWrites, WritesUsers
    <2> QED
      BY <2>1, <2>2, <2>5 DEF Alone, OneWriter, NobodyWrites
  <1>3. CASE TruncateUsers(p)
    <2> DEFINE d == Goto(p, "write")
    <2>1. /\ users' = Empty /\ proc' = [proc EXCEPT ![p] = d]
          /\ overlap' = (overlap \/ \E q \in Procs \ {p} : Writer(q))
      BY <1>3 DEF TruncateUsers, Note, Writer
    <2>2. proc'[p] = d /\ \A q \in Procs : q # p => proc'[q] = proc[q]
      BY <1>0, <2>1
    <2> HIDE DEF d
    <2>3. ASSUME ~overlap' PROVE OneWriter'
      <3>1. \A q \in Procs \ {p} : ~Writer(q)'
        BY <2>1, <2>2, <2>3 DEF Writer
      <3> QED
        BY <2>1, <3>1 DEF OneWriter, WritesUsers, Writer
    <2> QED
      BY <2>3 DEF Alone
  <1>4. CASE WriteUsers(p) \/ (Die(p) /\ c.pc = "write")
    <2>1. c.pc = "write" /\ proc' = [proc EXCEPT ![p] = Idle] /\ (overlap => overlap')
      <3>1. WriteUsers(p) => c.pc = "write" /\ End(p) /\ (overlap => overlap')
        BY DEF WriteUsers
      <3>2. Die(p) => End(p) /\ (overlap => overlap')
        BY DEF Die, Note
      <3> QED
        BY <1>4, <3>1, <3>2 DEF End
    <2>2. proc'[p] = Idle /\ \A q \in Procs : q # p => proc'[q] = proc[q]
      BY <1>0, <2>1
    <2>3. ASSUME ~overlap' PROVE \A q \in Procs : ~Writer(q)'
      <3>1. \A q \in Procs \ {p} : ~Writer(q)
        BY <2>1, <2>3 DEF Alone, OneWriter, WritesUsers
      <3> QED
        BY <1>0, <2>2, <3>1 DEF Writer
    <2> QED
      BY <2>3 DEF Alone, OneWriter, WritesUsers, Writer
  <1> QED
    BY <1>1, <1>2, <1>3, <1>4, CommandSteps

LEMMA CommandSafe ==
  ASSUME Types, Alone, Safe, NEW p \in Procs, UserCommand(p) \/ MasterKeyCommand(p) \/ Die(p)
  PROVE  Safe'
  <1> DEFINE c == proc[p]
  <1>0. /\ c \in ProperCommands(Mixed) /\ c \in Commands /\ Proper(Mixed, c)
        /\ Idle.pc = "idle" /\ DOMAIN proc = Procs /\ overlap \in BOOLEAN /\ torn \in BOOLEAN
    BY CommandFacts DEF Types, Idle
  <1>1. CASE \E d : Quietly(p, d)
    BY <1>1, QuietStep
  <1>2. CASE ReadAndChange(p) /\ Accepts(c.op, c.user)
    <2>1. c.pc = "read" /\ UNCHANGED <<users, expected, overlap, torn>>
      BY <1>2 DEF ReadAndChange, files, history
    <2> SUFFICES ASSUME Orderly PROVE Whole' /\ Current'
      BY <2>1 DEF Safe, Orderly
    <2>2. Whole /\ OneWriter /\ Current
      BY DEF Safe, Alone, Orderly
    <2> DEFINE g == Goto(p, "open")
               m == Changed(users.admins, c.op, c.user, CipherOf(p))
               d == [g EXCEPT !.conf = m]
    <2>3. proc' = [proc EXCEPT ![p] = d]
      BY <1>2 DEF ReadAndChange
    <2>4. users.state \in {"absent", "ok"}
      BY <1>2 DEF Accepts
    <2>5. NobodyWrites
      BY <2>2, <2>4, OkFacts DEF NobodyWrites, OneWriter
    <2>6. users.admins = expected /\ expected \in Entries(Mixed)
      BY <2>2, <2>5, OkFacts DEF Whole, Types, Absent, File
    <2>7. m = Applied(expected, c)
      BY <2>6, ChangedIsApplied
    <2>8. m \in Maps
      <3>1. c.user \in Users /\ (c.op # "del" => CipherOf(p) \in Entry(Mixed, c.user))
        BY <1>0, <2>1, CipherFacts DEF Proper
      <3> QED
        BY <2>6, <3>1, ChangedEntries, EntriesFacts
    <2>9. g \in Commands /\ g.pc = "open" /\ g.key = c.key /\ Same(g, c)
      BY <1>0, GotoFacts
    <2> HIDE DEF g, m
    <2>10. d \in Commands /\ d.pc = "open" /\ d.key = c.key /\ d.conf = m /\ Same(d, g)
      BY <2>8, <2>9, WithConfFacts
    <2> HIDE DEF d
    <2>11. Same(d, c)
      BY <2>9, <2>10 DEF Same
    <2>12. Applied(expected, d) = Applied(expected, c)
      BY <2>9, <2>10, <2>11, SameApplied
    <2>13. proc'[p] = d /\ \A q \in Procs : q # p => proc'[q] = proc[q]
      BY <1>0, <2>3
    <2>14. Whole'
      <3>1. NobodyWrites'
        BY <2>5, <2>10, <2>13 DEF NobodyWrites, WritesUsers
      <3> QED
        BY <2>1, <2>2, <2>5 DEF Whole
    <2>15. Current'
      <3> SUFFICES ASSUME NEW q \in Procs, Writer(q)'
                   PROVE  proc'[q].conf = Applied(expected', proc'[q])
        BY DEF Current
      <3>1. CASE q = p
        BY <2>1, <2>7, <2>10, <2>12, <2>13, <3>1
      <3>2. CASE q # p
        BY <2>1, <2>2, <2>13, <3>2 DEF Current, Writer
      <3> QED
        BY <3>1, <3>2
    <2> QED
      BY <2>14, <2>15
  <1>3. CASE TruncateUsers(p)
    <2> DEFINE d == Goto(p, "write")
    <2>1. /\ c.pc = "open" /\ proc' = [proc EXCEPT ![p] = d]
          /\ Note(\E q \in Procs \ {p} : Writer(q), FALSE)
      BY <1>3 DEF TruncateUsers, Writer
    <2> SUFFICES ASSUME Orderly' PROVE Whole' /\ Current'
      BY DEF Safe
    <2>2. Orderly /\ expected' = expected /\ \A q \in Procs \ {p} : ~Writer(q)
      BY <2>1 DEF Note, Orderly
    <2>3. d.pc = "write" /\ d.key = c.key /\ d.conf = c.conf /\ Same(d, c)
      BY <1>0, GotoFacts
    <2> HIDE DEF d
    <2>4. proc'[p] = d /\ \A q \in Procs : q # p => proc'[q] = proc[q]
      BY <1>0, <2>1
    <2>5. Applied(expected, d) = Applied(expected, c)
      BY <2>3, SameApplied
    <2>6. ~NobodyWrites' /\ \A q \in Procs : q # p => ~Writer(q)'
      BY <2>2, <2>3, <2>4 DEF NobodyWrites, WritesUsers, Writer
    <2>7. Current'
      BY <2>1, <2>2, <2>3, <2>4, <2>5, <2>6 DEF Safe, Current, Writer
    <2> QED
      BY <2>6, <2>7 DEF Whole
  <1>4. CASE WriteUsers(p)
    <2>1. /\ c.pc = "write" /\ users' \in Over(Ok(c.conf), users)
          /\ proc' = [proc EXCEPT ![p] = Idle] /\ UNCHANGED <<overlap, torn>>
          /\ expected' = IF Orderly THEN Applied(expected, c) ELSE expected
      BY <1>4 DEF WriteUsers, End
    <2> SUFFICES ASSUME Orderly PROVE Whole' /\ Current'
      BY <2>1 DEF Safe, Orderly
    <2>2. users = Empty /\ \A q \in Procs \ {p} : ~Writer(q)
      BY <2>1 DEF Alone, Orderly, OneWriter, WritesUsers
    <2>3. c.conf = Applied(expected, c)
      BY <2>1 DEF Safe, Current, Writer
    <2>4. users' = Ok(c.conf) /\ expected' = c.conf
      BY <2>1, <2>2, <2>3 DEF Over
    <2>5. proc'[p] = Idle /\ \A q \in Procs : q # p => proc'[q] = proc[q]
      BY <1>0, <2>1
    <2>6. \A q \in Procs : ~Writer(q)'
      BY <1>0, <2>2, <2>5 DEF Writer
    <2> QED
      BY <2>4, <2>6 DEF Whole, Current, Writer
  <1>5. CASE Die(p) /\ c.pc = "write"
    <2>1. torn'
      BY <1>5 DEF Die, Note
    <2> QED
      BY <2>1 DEF Safe, Orderly
  <1> QED
    BY <1>1, <1>2, <1>3, <1>4, <1>5, CommandSteps

LEMMA ServerSafe ==
  ASSUME Server \/ UNCHANGED vars
  PROVE  (Alone => Alone') /\ (Safe => Safe')
  <1>1. UNCHANGED <<users, proc, expected, overlap, torn>>
    BY DEF Server, LoadConfiguration, Serve, StopServer, Login, EndRequest, vars, files, history
  <1>2. Alone => Alone'
    BY <1>1 DEF Alone, WritesUsers, OneWriter, Writer
  <1>3. Safe => Safe'
    BY <1>1 DEF Safe, Orderly, Whole, NobodyWrites, WritesUsers, Current, Writer
  <1> QED
    BY <1>2, <1>3

------------------------------------------------------------------------------
LEMMA Invariance == Spec => [](Types /\ Alone /\ Safe)
  <1>1. Init => Types /\ Alone /\ Safe
    <2> SUFFICES ASSUME Init PROVE Types /\ Alone /\ Safe
      OBVIOUS
    <2>1. \A p \in Procs : proc[p].pc = "idle"
      BY DEF Init, Idle
    <2>2. users = Absent /\ expected = <<>>
      BY DEF Init
    <2>3. Alone
      BY <2>1 DEF Alone, OneWriter, WritesUsers
    <2>4. Safe
      BY <2>1, <2>2 DEF Safe, Whole, Current, Writer
    <2> QED
      BY <2>3, <2>4, InitTypes
  <1>2. Types /\ Alone /\ Safe /\ [Next]_vars => (Types /\ Alone /\ Safe)'
    BY CommandTypes, CommandAlone, CommandSafe, ServerTypes, ServerSafe DEF Next
  <1> QED
    BY <1>1, <1>2, PTL DEF Spec

\* Files, commands, server and requests hold values of their kinds.
THEOREM TypeInvariant == Spec => []TypeOK
  <1>1. Types => TypeOK
    <2> SUFFICES ASSUME Types PROVE TypeOK
      OBVIOUS
    <2>1. \A m \in Entries(Mixed) : m \in Maps
      BY EntriesFacts
    <2>2. users \in {Absent, Empty} \cup {File(s, m) : s \in {"ok", "garbled"}, m \in Maps}
      BY <2>1 DEF Types, Contents
    <2>3. proc \in [Procs -> Commands]
      BY DEF Types, ProperCommands
    <2>4. srv \in [pc : {"down", "starting", "serving"}, admins : Maps] /\ expected \in Maps
      BY <2>1 DEF Types
    <2> QED
      BY <2>2, <2>3, <2>4 DEF Types, TypeOK
  <1> QED
    BY <1>1, Invariance, PTL

\* src/src/client.rs: a request connects for a user only with a password that
\* was entered for that user, whatever dies while it writes the users file, as
\* long as no two commands overlap in it.
THEOREM OwnPasswordsOnly == Spec => []LoginsUseOwnPassword
  <1>1. Types => LoginsUseOwnPassword
    BY DEF Types
  <1> QED
    BY <1>1, Invariance, PTL

\* src/src/bin/admin.rs: as long as no two commands overlap in the users file
\* and none dies in it, no update is lost.
THEOREM SafeWithoutOverlap == Spec => []SafeUnlessOverlapped
  <1>1. Safe => SafeUnlessOverlapped
    BY DEF Safe, Whole, SafeUnlessOverlapped
  <1> QED
    BY <1>1, Invariance, PTL

\* src/src/bin/server.rs: a server that starts while a command is at work has
\* the entries of before it or does not start.
THEOREM StartsWhole == Spec => StartsWithWholeFile
  <1>1. Types /\ Alone /\ Safe /\ [Next]_vars =>
            [srv.pc = "down" /\ srv'.pc = "starting" /\ Orderly
                 => srv'.admins = expected]_vars
    <2> SUFFICES ASSUME Types, Alone, Safe, Next, srv.pc = "down", srv'.pc = "starting",
                        Orderly
                 PROVE  srv'.admins = expected
      OBVIOUS
    <2>1. \A p \in Procs : ~(UserCommand(p) \/ MasterKeyCommand(p) \/ Die(p))
      BY DEF UserCommand, MasterKeyCommand, StartUserCommand, LoadKeyForUser, ReadAndChange,
             TruncateUsers, WriteUsers, StartMasterKey, TruncateMaster, WriteMaster, Die
    <2>2. LoadConfiguration
      BY <2>1 DEF Next, Server, Serve, StopServer, Login, EndRequest
    <2>3. users.state = "ok" /\ srv'.admins = users.admins
      BY <2>2 DEF LoadConfiguration
    <2>4. NobodyWrites
      BY <2>3, OkFacts DEF Alone, Orderly, OneWriter, NobodyWrites
    <2> QED
      BY <2>3, <2>4, OkFacts DEF Safe, Whole, Absent, File
  <1> QED
    BY <1>1, Invariance, PTL DEF Spec, StartsWithWholeFile

------------------------------------------------------------------------------
(* Damage, and the vault                                                     *)

\* What the proof needs to know of the kinds of the variables.
Kinds == /\ users.state \in {"absent", "empty", "garbled", "ok"}
         /\ DOMAIN proc = Procs
         /\ \A p \in Procs : "pc" \in DOMAIN proc[p]

\* No step of a command rewrites a damaged file unless the command read it
\* while it was whole, and no command that reads it damaged gets that far.
LEMMA CommandLeavesDamage ==
  ASSUME NEW p \in Procs, Kinds, Damaged,
         UserCommand(p) \/ MasterKeyCommand(p) \/ Die(p)
  PROVE  Damaged' /\ users' = users
  <1> USE DEF Kinds, Damaged, files, history
  <1>1. ASSUME NEW op, NEW u, NEW pw, StartUserCommand(p, op, u, pw)
        PROVE  Damaged' /\ users' = users
    BY <1>1 DEF StartUserCommand, Idle
  <1>2. CASE LoadKeyForUser(p)
    <2>1. CASE Loadable(master)
      BY <1>2, <2>1 DEF LoadKeyForUser, Goto
    <2>2. CASE ~ Loadable(master)
      BY <1>2, <2>2 DEF LoadKeyForUser, End, Idle
    <2> QED
      BY <2>1, <2>2
  <1>3. CASE ReadAndChange(p)
    <2>1. ~ Accepts(proc[p].op, proc[p].user)
      BY DEF Accepts
    <2> QED
      BY <1>3, <2>1 DEF ReadAndChange, End, Idle
  <1>4. CASE TruncateUsers(p) \/ WriteUsers(p)
    BY <1>4 DEF TruncateUsers, WriteUsers
  <1>5. CASE StartMasterKey(p)
    BY <1>5 DEF StartMasterKey, Idle
  <1>6. CASE TruncateMaster(p)
    BY <1>6 DEF TruncateMaster, Goto
  <1>7. CASE WriteMaster(p)
    BY <1>7 DEF WriteMaster, End, Idle
  <1>8. CASE Die(p)
    BY <1>8 DEF Die, End, Idle, LeftOfUsers
  <1> QED
    BY <1>1, <1>2, <1>3, <1>4, <1>5, <1>6, <1>7, <1>8 DEF UserCommand, MasterKeyCommand

LEMMA TypesGiveKinds == Types => Kinds
  <1> SUFFICES ASSUME Types PROVE Kinds
    OBVIOUS
  <1>1. users.state \in {"absent", "empty", "garbled", "ok"}
    BY ContentsFacts DEF Types
  <1>2. DOMAIN proc = Procs /\ \A p \in Procs : proc[p] \in Commands
    BY DEF Types, ProperCommands
  <1> QED
    BY <1>1, <1>2 DEF Kinds, Commands

\* Once the users file is damaged and no command that read it before is about
\* to write, it stays as it is for good: the server, too, only reads it.
THEOREM DamageStays == Spec => DamageIsFinal
  <1>1. Kinds /\ [Next]_vars => [Damaged => Damaged' /\ users' = users]_vars
    <2> SUFFICES ASSUME Kinds, Next, Damaged PROVE Damaged' /\ users' = users
      OBVIOUS
    <2>1. CASE \E p \in Procs : UserCommand(p) \/ MasterKeyCommand(p) \/ Die(p)
      BY <2>1, CommandLeavesDamage
    <2>2. CASE Server
      BY <2>2 DEF Server, LoadConfiguration, Serve, StopServer, Login, EndRequest,
                  Damaged, files, history
    <2> QED
      BY <2>1, <2>2 DEF Next
  <1> QED
    BY <1>1, TypesGiveKinds, Invariance, PTL DEF Spec, DamageIsFinal

------------------------------------------------------------------------------
\* One command at a time, from where it starts to where it ends.
OneCommand == (\A p, q \in Procs : p = q) /\ ~Deaths

\* What a command knows at each step is still so: nobody else changed it.
UpToDate(p) ==
    LET c == proc[p] IN
    /\ c.pc \in {"read", "open"} /\ c.op # "del" => c.key = master
    /\ c.pc = "open" => /\ Accepts(c.op, c.user)
                        /\ c.conf = Changed(users.admins, c.op, c.user, CipherOf(p))
    /\ c.pc = "write" => users = Empty
    /\ c.pc = "mopen" => c.key = keys /\ master < keys
    /\ c.pc = "mwrite" => c.key \in 1..keys /\ master = NoKey

Serial == master \in 0..keys /\ \A p \in Procs : UpToDate(p)

\* The command is the only one there is.
LEMMA SerialStep ==
  ASSUME OneCommand, Types, NEW p \in Procs, NEW c, proc' = [proc EXCEPT ![p] = c],
         master' \in 0..keys', UpToDate(p)'
  PROVE  Serial'
  BY DEF OneCommand, Serial

LEMMA IdleIsSerial ==
  ASSUME OneCommand, Types, NEW p \in Procs, proc' = [proc EXCEPT ![p] = Idle],
         master' \in 0..keys'
  PROVE  Serial'
  <1>1. proc'[p].pc = "idle"
    BY DEF Types, Idle
  <1>2. UpToDate(p)'
    BY <1>1 DEF UpToDate
  <1> QED
    BY <1>2, SerialStep

LEMMA CommandSerial ==
  ASSUME OneCommand, Types, Serial, NEW p \in Procs, UserCommand(p) \/ MasterKeyCommand(p)
  PROVE  Serial'
  <1> DEFINE c == proc[p]
  <1>0. /\ c \in ProperCommands(Mixed) /\ c \in Commands /\ Proper(Mixed, c) /\ UpToDate(p)
        /\ \A d : proc' = [proc EXCEPT ![p] = d] => proc'[p] = d
        /\ master \in 0..keys /\ keys \in 0..MaxKeys
    BY CommandFacts DEF Types, Serial
  <1>1. ASSUME NEW op \in {"add", "edit", "del"}, NEW u, NEW pw, StartUserCommand(p, op, u, pw)
        PROVE  Serial'
    <2> DEFINE d == [Idle EXCEPT !.pc = IF op = "del" THEN "read" ELSE "key",
                                 !.op = op, !.user = u, !.pw = pw]
    <2>1. proc' = [proc EXCEPT ![p] = d] /\ UNCHANGED <<master, users, keys>>
      BY <1>1 DEF StartUserCommand, files
    <2>2. d.op = op /\ d.pc = IF op = "del" THEN "read" ELSE "key"
      BY DEF Idle
    <2> HIDE DEF d
    <2>3. UpToDate(p)'
      BY <1>0, <2>1, <2>2 DEF UpToDate
    <2> QED
      BY <1>0, <2>1, <2>3, SerialStep
  <1>2. CASE LoadKeyForUser(p)
    <2>1. c.pc = "key" /\ UNCHANGED <<master, users, keys>>
      BY <1>2 DEF LoadKeyForUser, files
    <2>2. CASE Loadable(master)
      <3> DEFINE g == Goto(p, "read")
                 d == [g EXCEPT !.key = master]
      <3>1. proc' = [proc EXCEPT ![p] = d]
        BY <1>2, <2>2 DEF LoadKeyForUser
      <3>2. g \in Commands /\ g.pc = "read"
        BY <1>0, GotoFacts
      <3>3. master \in 0..MaxKeys
        BY <2>2, MaxKeysIsNat DEF Loadable
      <3> HIDE DEF g
      <3>4. d.pc = "read" /\ d.key = master
        BY <3>2, <3>3, WithKeyFacts
      <3> HIDE DEF d
      <3>5. UpToDate(p)'
        BY <1>0, <2>1, <3>1, <3>4 DEF UpToDate
      <3> QED
        BY <1>0, <2>1, <3>1, <3>5, SerialStep
    <2>3. CASE ~Loadable(master)
      BY <1>0, <1>2, <2>1, <2>3, IdleIsSerial DEF LoadKeyForUser, End
    <2> QED
      BY <2>2, <2>3
  <1>3. CASE ReadAndChange(p)
    <2>1. c.pc = "read" /\ UNCHANGED <<master, users, keys>>
      BY <1>3 DEF ReadAndChange, files
    <2>2. CASE Accepts(c.op, c.user)
      <3> DEFINE g == Goto(p, "open")
                 m == Changed(users.admins, c.op, c.user, CipherOf(p))
                 d == [g EXCEPT !.conf = m]
      <3>1. proc' = [proc EXCEPT ![p] = d]
        BY <1>3, <2>2 DEF ReadAndChange
      <3>2. g \in Commands /\ g.pc = "open" /\ g.key = c.key /\ Same(g, c)
        BY <1>0, GotoFacts
      <3>3. m \in Maps
        <4>1. users.admins \in Entries(Mixed) /\ c.user \in Users
              /\ (c.op # "del" => CipherOf(p) \in Entry(Mixed, c.user))
          BY <1>0, <2>1, ContentsFacts, CipherFacts DEF Proper, Types
        <4> QED
          BY <4>1, ChangedEntries, EntriesFacts
      <3> HIDE DEF g
      <3>4. d.pc = "open" /\ d.key = c.key /\ d.conf = m /\ Same(d, g)
        BY <3>2, <3>3, WithConfFacts
      <3> HIDE DEF d
      <3>5. Same(d, c)
        BY <3>2, <3>4 DEF Same
      <3>6. proc'[p] = d
        BY <1>0, <3>1
      <3>7. CipherOf(p)' = CipherOf(p)
        BY <3>4, <3>5, <3>6 DEF CipherOf, Same
      <3>8. UpToDate(p)'
        BY <1>0, <2>1, <2>2, <3>4, <3>5, <3>6, <3>7 DEF UpToDate, Same, Accepts
      <3> QED
        BY <1>0, <2>1, <3>1, <3>8, SerialStep
    <2>3. CASE ~Accepts(c.op, c.user)
      BY <1>0, <1>3, <2>1, <2>3, IdleIsSerial DEF ReadAndChange, End
    <2> QED
      BY <2>2, <2>3
  <1>4. CASE TruncateUsers(p)
    <2>1. /\ users' = Empty /\ proc' = [proc EXCEPT ![p] = Goto(p, "write")]
          /\ UNCHANGED <<master, keys>>
      BY <1>4 DEF TruncateUsers
    <2>2. Goto(p, "write").pc = "write"
      BY <1>0, GotoFacts
    <2>3. UpToDate(p)'
      BY <1>0, <2>1, <2>2 DEF UpToDate
    <2> QED
      BY <1>0, <2>1, <2>3, SerialStep
  <1>5. CASE WriteUsers(p)
    BY <1>0, <1>5, IdleIsSerial DEF WriteUsers, End
  <1>6. CASE StartMasterKey(p)
    <2> DEFINE d == [Idle EXCEPT !.pc = "mopen", !.op = "master", !.key = keys + 1]
    <2>1. proc' = [proc EXCEPT ![p] = d] /\ UNCHANGED master /\ keys' = keys + 1
      BY <1>6 DEF StartMasterKey, files
    <2>2. d.pc = "mopen" /\ d.key = keys + 1
      BY DEF Idle
    <2> HIDE DEF d
    <2>3. master' \in 0..keys' /\ master < keys'
      BY <1>0, <2>1, MaxKeysIsNat
    <2>4. UpToDate(p)'
      BY <1>0, <2>1, <2>2, <2>3 DEF UpToDate
    <2> QED
      BY <2>1, <2>3, <2>4, SerialStep
  <1>7. CASE TruncateMaster(p)
    <2>1. /\ c.pc = "mopen" /\ proc' = [proc EXCEPT ![p] = Goto(p, "mwrite")]
          /\ master' = NoKey /\ UNCHANGED keys
      BY <1>7 DEF TruncateMaster
    <2>2. Goto(p, "mwrite").pc = "mwrite" /\ Goto(p, "mwrite").key = c.key
      BY <1>0, GotoFacts
    <2>3. c.key \in 1..keys /\ master' \in 0..keys'
      BY <1>0, <2>1, MaxKeysIsNat DEF UpToDate, NoKey
    <2>4. UpToDate(p)'
      BY <1>0, <2>1, <2>2, <2>3 DEF UpToDate
    <2> QED
      BY <2>1, <2>3, <2>4, SerialStep
  <1>8. CASE WriteMaster(p)
    <2>1. c.pc = "mwrite" /\ proc' = [proc EXCEPT ![p] = Idle] /\ UNCHANGED keys
      BY <1>8 DEF WriteMaster, End
    <2>2. master = NoKey /\ c.key \in 1..keys
      BY <1>0, <2>1 DEF UpToDate
    <2>3. master' = c.key
      BY <1>8, <2>2 DEF WriteMaster
    <2>4. master' \in 0..keys'
      BY <1>0, <2>1, <2>2, <2>3, MaxKeysIsNat
    <2> QED
      BY <2>1, <2>4, IdleIsSerial
  <1> QED
    BY <1>1, <1>2, <1>3, <1>4, <1>5, <1>6, <1>7, <1>8 DEF UserCommand, MasterKeyCommand

LEMMA SerialInvariant == ASSUME OneCommand PROVE Spec => []Serial
  <1>1. Init => Serial
    <2> SUFFICES ASSUME Init PROVE Serial
      OBVIOUS
    <2>1. master = 0 /\ keys = 0 /\ \A p \in Procs : proc[p].pc = "idle"
      BY DEF Init, Idle, NoKey
    <2> QED
      BY <2>1 DEF Serial, UpToDate
  <1>2. OneCommand /\ Types /\ Serial /\ [Next]_vars => Serial'
    <2> SUFFICES ASSUME OneCommand, Types, Serial, [Next]_vars PROVE Serial'
      OBVIOUS
    <2>1. CASE Server \/ UNCHANGED vars
      <3>1. UNCHANGED <<master, users, proc, keys>>
        BY <2>1 DEF Server, LoadConfiguration, Serve, StopServer, Login, EndRequest, vars, files
      <3> QED
        BY <3>1 DEF Serial, UpToDate, Accepts, CipherOf
    <2>2. \A p \in Procs : ~Die(p)
      BY DEF OneCommand, Die
    <2> QED
      BY <2>1, <2>2, CommandSerial DEF Next
  <1> QED
    BY <1>1, <1>2, Invariance, PTL DEF Spec

------------------------------------------------------------------------------
\* What the vault holds, seen from the one command.
Seen(p) == /\ VaultEntries = IF proc[p].pc = "write" THEN Plain(proc[p].conf)
                             ELSE Plain(users.admins)
           /\ VaultKey = IF proc[p].pc = "mwrite" THEN proc[p].key ELSE master

\* What a change of the map is to the vault.
LEMMA PlainChanged ==
  ASSUME NEW m \in Entries(Mixed), NEW u \in Users, NEW p \in Procs
  PROVE  LET c == proc[p]
             with == [v \in DOMAIN Plain(m) \cup {u} |->
                          IF v = u THEN [pw |-> c.pw, key |-> c.key] ELSE Plain(m)[v]]
         IN  /\ DOMAIN Plain(m) = DOMAIN m
             /\ Plain(Insert(m, u, CipherOf(p))) = with
             /\ Plain(Restrict(m, DOMAIN m \ {u})) =
                    [v \in DOMAIN Plain(m) \ {u} |-> Plain(m)[v]]
  <1>1. DOMAIN Plain(m) = DOMAIN m
    BY DEF Plain
  <1>2. /\ DOMAIN Insert(m, u, CipherOf(p)) = DOMAIN m \cup {u}
        /\ \A v \in DOMAIN m \cup {u} :
               Insert(m, u, CipherOf(p))[v] = IF v = u THEN CipherOf(p) ELSE m[v]
    BY DEF Insert
  <1>3. CipherOf(p).pw = proc[p].pw /\ CipherOf(p).key = proc[p].key
    BY DEF CipherOf
  <1>4. /\ DOMAIN Restrict(m, DOMAIN m \ {u}) = DOMAIN m \ {u}
        /\ \A v \in DOMAIN m \ {u} : Restrict(m, DOMAIN m \ {u})[v] = m[v]
    BY DEF Restrict
  <1> QED
    BY <1>1, <1>2, <1>3, <1>4 DEF Plain

LEMMA CommandRefines ==
  ASSUME OneCommand, Types, Serial, NEW p \in Procs,
         UserCommand(p) \/ MasterKeyCommand(p)
  PROVE  Vault!Next \/ UNCHANGED <<VaultEntries, VaultKey>>
  <1> DEFINE c == proc[p]
  <1>0. /\ c \in ProperCommands(Mixed) /\ c \in Commands /\ Proper(Mixed, c) /\ UpToDate(p)
        /\ \A d : proc' = [proc EXCEPT ![p] = d] => proc'[p] = d
        /\ master \in 0..keys /\ keys \in 0..MaxKeys /\ users \in Contents(Mixed)
    BY CommandFacts DEF Types, Serial
  <1>1. \A q \in Procs : q = p
    BY DEF OneCommand
  <1>2. Seen(p)
    <2>1. \A pc : Writers(pc) = IF c.pc = pc THEN {p} ELSE {}
      BY <1>1 DEF Writers
    <2> QED
      BY <2>1 DEF Seen, VaultEntries, VaultKey
  <1>3. Seen(p)'
    <2>1. \A pc : Writers(pc)' = IF proc'[p].pc = pc THEN {p} ELSE {}
      BY <1>1 DEF Writers
    <2> QED
      BY <2>1 DEF Seen, VaultEntries, VaultKey
  <1>4. ASSUME UNCHANGED <<master, users>>, c.pc \notin {"write", "mwrite"},
               proc'[p].pc \notin {"write", "mwrite"}
        PROVE  UNCHANGED <<VaultEntries, VaultKey>>
    BY <1>2, <1>3, <1>4 DEF Seen
  <1>5. ASSUME NEW op, NEW u, NEW pw, StartUserCommand(p, op, u, pw)
        PROVE  UNCHANGED <<VaultEntries, VaultKey>>
    <2> DEFINE d == [Idle EXCEPT !.pc = IF op = "del" THEN "read" ELSE "key",
                                 !.op = op, !.user = u, !.pw = pw]
    <2>1. proc' = [proc EXCEPT ![p] = d] /\ c.pc = "idle" /\ UNCHANGED <<master, users>>
      BY <1>5 DEF StartUserCommand, files, Idle
    <2>2. d.pc \in {"read", "key"}
      BY DEF Idle
    <2> HIDE DEF d
    <2> QED
      BY <1>0, <1>4, <2>1, <2>2
  <1>6. CASE LoadKeyForUser(p)
    <2>1. c.pc = "key" /\ UNCHANGED <<master, users>>
      BY <1>6 DEF LoadKeyForUser, files
    <2>2. proc'[p].pc \in {"read", "idle"}
      <3> DEFINE d == [Goto(p, "read") EXCEPT !.key = master]
      <3>1. d.pc = "read" /\ Idle.pc = "idle"
        BY <1>0 DEF Goto, Commands, Idle
      <3>2. proc' = [proc EXCEPT ![p] = d] \/ proc' = [proc EXCEPT ![p] = Idle]
        BY <1>6 DEF LoadKeyForUser, End
      <3> HIDE DEF d
      <3> QED
        BY <1>0, <3>1, <3>2
    <2> QED
      BY <1>4, <2>1, <2>2
  <1>7. CASE ReadAndChange(p)
    <2>1. c.pc = "read" /\ UNCHANGED <<master, users>>
      BY <1>7 DEF ReadAndChange, files
    <2>2. proc'[p].pc \in {"open", "idle"}
      <3> DEFINE m == Changed(users.admins, c.op, c.user, CipherOf(p))
                 d == [Goto(p, "open") EXCEPT !.conf = m]
      <3>1. d.pc = "open" /\ Idle.pc = "idle"
        BY <1>0 DEF Goto, Commands, Idle
      <3>2. proc' = [proc EXCEPT ![p] = d] \/ proc' = [proc EXCEPT ![p] = Idle]
        BY <1>7 DEF ReadAndChange, End
      <3> HIDE DEF d
      <3> QED
        BY <1>0, <3>1, <3>2
    <2> QED
      BY <1>4, <2>1, <2>2
  <1>8. CASE TruncateUsers(p)
    <2> DEFINE m == users.admins
    <2>1. c.pc = "open" /\ proc'[p] = Goto(p, "write") /\ UNCHANGED <<master, keys>>
      BY <1>0, <1>8 DEF TruncateUsers
    <2>2. proc'[p].pc = "write" /\ proc'[p].conf = c.conf
      BY <1>0, <2>1, GotoFacts
    <2>3. /\ Accepts(c.op, c.user) /\ c.conf = Changed(m, c.op, c.user, CipherOf(p))
          /\ c.op # "del" => c.key = master
      BY <1>0, <2>1 DEF UpToDate
    <2>4. /\ VaultEntries = Plain(m) /\ VaultKey = master
          /\ VaultEntries' = Plain(c.conf) /\ VaultKey' = master
      BY <1>2, <1>3, <2>1, <2>2 DEF Seen
    <2>5. /\ m \in Entries(Mixed) /\ c.user \in Users /\ c.op \in {"add", "edit", "del"}
          /\ c.op # "del" => c.pw \in Passwords /\ c.key \in 1..MaxKeys
      BY <1>0, <2>1, ContentsFacts DEF Proper
    <2>6. c.op # "del" => VaultKey # 0
      BY <2>3, <2>4, <2>5, MaxKeysIsNat
    <2>7. DOMAIN VaultEntries = DOMAIN m
      BY <2>4, <2>5, PlainChanged
    <2>8. CASE c.op = "del"
      <3>1. c.user \in DOMAIN m /\ c.conf = Restrict(m, DOMAIN m \ {c.user})
        BY <2>3, <2>8 DEF Accepts, Changed
      <3>2. VaultEntries' = [v \in DOMAIN VaultEntries \ {c.user} |-> VaultEntries[v]]
        <4>1. Plain(Restrict(m, DOMAIN m \ {c.user})) =
                  [v \in DOMAIN Plain(m) \ {c.user} |-> Plain(m)[v]]
          BY <2>5, PlainChanged
        <4> HIDE DEF m
        <4> QED
          BY <2>4, <3>1, <4>1
      <3>3. Vault!Remove(c.user)
        BY <2>4, <2>7, <3>1, <3>2 DEF Vault!Remove
      <3> QED
        BY <2>5, <3>3 DEF Vault!Next
    <2>9. CASE c.op # "del"
      <3>1. c.conf = Insert(m, c.user, CipherOf(p)) /\ VaultKey = c.key
        BY <2>3, <2>4, <2>9 DEF Changed
      <3>2. VaultEntries' = Vault!With(c.user, [pw |-> c.pw, key |-> VaultKey])
        <4>1. Plain(Insert(m, c.user, CipherOf(p))) =
                  [v \in DOMAIN Plain(m) \cup {c.user} |->
                       IF v = c.user THEN [pw |-> c.pw, key |-> c.key] ELSE Plain(m)[v]]
          BY <2>5, PlainChanged
        <4> HIDE DEF m, c
        <4> QED
          BY <2>4, <3>1, <4>1 DEF Vault!With
      <3>3. CASE c.op = "add"
        <4>1. c.user \notin DOMAIN VaultEntries
          BY <2>3, <2>7, <3>3 DEF Accepts
        <4>2. Vault!Add(c.user, c.pw)
          BY <2>4, <2>6, <2>9, <3>2, <4>1 DEF Vault!Add
        <4> QED
          BY <2>5, <2>9, <4>2 DEF Vault!Next
      <3>4. CASE c.op = "edit"
        <4>1. c.user \in DOMAIN VaultEntries
          BY <2>3, <2>7, <3>4 DEF Accepts
        <4>2. Vault!Edit(c.user, c.pw)
          BY <2>4, <2>6, <2>9, <3>2, <4>1 DEF Vault!Edit
        <4> QED
          BY <2>5, <2>9, <4>2 DEF Vault!Next
      <3> QED
        BY <2>5, <2>9, <3>3, <3>4
    <2> QED
      BY <2>8, <2>9
  <1>9. CASE WriteUsers(p)
    <2>1. /\ c.pc = "write" /\ users' \in Over(Ok(c.conf), users) /\ UNCHANGED master
          /\ proc' = [proc EXCEPT ![p] = Idle]
      BY <1>9 DEF WriteUsers, End
    <2>2. users = Empty /\ proc'[p].pc = "idle"
      BY <1>0, <2>1 DEF UpToDate, Idle
    <2>3. users'.admins = c.conf
      BY <2>1, <2>2, OkFacts DEF Over
    <2> QED
      BY <1>2, <1>3, <2>1, <2>2, <2>3 DEF Seen
  <1>10. CASE StartMasterKey(p)
    <2> DEFINE d == [Idle EXCEPT !.pc = "mopen", !.op = "master", !.key = keys + 1]
    <2>1. proc' = [proc EXCEPT ![p] = d] /\ c.pc = "idle" /\ UNCHANGED <<master, users>>
      BY <1>10 DEF StartMasterKey, files, Idle
    <2>2. d.pc = "mopen"
      BY DEF Idle
    <2> HIDE DEF d
    <2> QED
      BY <1>0, <1>4, <2>1, <2>2
  <1>11. CASE TruncateMaster(p)
    <2>1. c.pc = "mopen" /\ proc'[p] = Goto(p, "mwrite") /\ UNCHANGED <<users, keys>>
      BY <1>0, <1>11 DEF TruncateMaster
    <2>2. proc'[p].pc = "mwrite" /\ proc'[p].key = c.key
      BY <1>0, <2>1, GotoFacts
    <2>3. VaultEntries' = VaultEntries /\ VaultKey = master /\ VaultKey' = c.key
      BY <1>2, <1>3, <2>1, <2>2 DEF Seen
    <2>4. c.key \in (master + 1)..MaxKeys
      BY <1>0, <2>1, MaxKeysIsNat DEF UpToDate
    <2>5. Vault!Rotate
      BY <2>3, <2>4 DEF Vault!Rotate
    <2> QED
      BY <2>5 DEF Vault!Next
  <1>12. CASE WriteMaster(p)
    <2>1. /\ c.pc = "mwrite" /\ master' \in {c.key} \cup (IF master = NoKey THEN {} ELSE {BadKey})
          /\ proc' = [proc EXCEPT ![p] = Idle] /\ UNCHANGED users
      BY <1>12 DEF WriteMaster, End
    <2>2. master' = c.key /\ proc'[p].pc = "idle"
      BY <1>0, <2>1 DEF UpToDate, Idle
    <2> QED
      BY <1>2, <1>3, <2>1, <2>2 DEF Seen
  <1> QED
    BY <1>5, <1>6, <1>7, <1>8, <1>9, <1>10, <1>11, <1>12 DEF UserCommand, MasterKeyCommand

\* src/src/bin/admin.rs: with one command at a time, and none dying, what the
\* commands do to the two files in several steps is what they would do to an
\* atomic vault, for any users, passwords and number of master keys.
THEOREM ImplementsAtomicVault ==
  ASSUME OneCommand
  PROVE  Spec => ImplementsVault
  <1>1. Init => Vault!Init
    <2> SUFFICES ASSUME Init PROVE VaultEntries = <<>> /\ VaultKey = 0
      BY DEF Vault!Init
    <2>1. Writers("write") = {} /\ Writers("mwrite") = {}
      BY DEF Init, Idle, Writers
    <2>2. users.admins = <<>> /\ master = 0
      BY DEF Init, Absent, File, NoKey
    <2>3. Plain(<<>>) = <<>>
      BY DEF Plain
    <2> QED
      BY <2>1, <2>2, <2>3 DEF VaultEntries, VaultKey
  <1>2. OneCommand /\ Types /\ Serial /\ [Next]_vars
            => [Vault!Next]_(Vault!vaultVars)
    <2> SUFFICES ASSUME OneCommand, Types, Serial, [Next]_vars
                 PROVE  Vault!Next \/ UNCHANGED <<VaultEntries, VaultKey>>
      BY DEF Vault!vaultVars
    <2>1. CASE Server \/ UNCHANGED vars
      <3>1. UNCHANGED <<master, users, proc>>
        BY <2>1 DEF Server, LoadConfiguration, Serve, StopServer, Login, EndRequest, vars, files
      <3> QED
        BY <3>1 DEF VaultEntries, VaultKey, Writers
    <2>2. \A p \in Procs : ~Die(p)
      BY DEF OneCommand, Die
    <2> QED
      BY <2>1, <2>2, CommandRefines DEF Next
  <1> QED
    BY <1>1, <1>2, Invariance, SerialInvariant, PTL DEF Spec, ImplementsVault, Vault!Spec
==============================================================================
