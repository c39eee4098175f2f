----------------------------- MODULE MCResponse ------------------------------
(***************************************************************************)
(* Replies of the shape of list-backup and info, with fields missing, of   *)
(* wrong types, and with codes at the ends of their tables and widths.     *)
(***************************************************************************)
EXTENDS Response

MCWord == 4096
MCMaxU64 == 3 * MCWord - 1

MCFields == <<"BackupSize", "Backups", "BiggestFileSize", "CheckpointHiLSN", "CheckpointLoLSN",
              "Command", "Compression", "Delta", "Encryption", "EndHiLSN", "EndLoLSN", "Error",
              "FreeSpace", "Header", "HotStandbySize", "Outcome", "Response", "RestoreSize",
              "Server", "StartHiLSN", "StartLoLSN", "Tablespaces", "TotalSpace", "UsedSpace",
              "WorkspaceFreeSpace">>

(* Replies are put together as trees, and then laid out as documents.        *)
Obj(f) == [fields |-> f]
Arr(s) == [items |-> s]
IsTree(v) == DOMAIN v \in {{"fields"}, {"items"}}
Parts(v) == IF "fields" \in DOMAIN v THEN {<<Key(k), v.fields[k]>> : k \in DOMAIN v.fields}
                                     ELSE {<<Index(i), v.items[i]>> : i \in DOMAIN v.items}

RECURSIVE Values(_, _)
Values(p, v) ==
    IF ~ IsTree(v) THEN {<<p, v>>}
    ELSE {<<p, IF "fields" \in DOMAIN v THEN Object ELSE Array>>}
             \cup UNION {Values(Append(p, part[1]), part[2]) : part \in Parts(v)}

Document(v) == LET all == Values(<<>>, v)
               IN  [p \in {x[1] : x \in all} |-> (CHOOSE x \in all : x[1] = p)[2]]

Null == Text("null")
Optional(k, vals) == {<<>>} \cup {[j \in {k} |-> v] : v \in vals}
Join(A, B) == {[k \in DOMAIN a \cup DOMAIN b |-> IF k \in DOMAIN a THEN a[k] ELSE b[k]] :
                   a \in A, b \in B}
Objects(A) == {Obj(f) : f \in A}

Entries == Objects(Join(Optional("BackupSize", {Num(1025), Num(-1)}),
                        Optional("Encryption", {Num(3), Num(4), Num(256)})))
Sample == {Obj([BackupSize |-> n]) : n \in {Num(0), Num(-1)}}
              \cup {Obj([Encryption |-> Num(4)]), Null}

Lists == {Null, Obj([Encryption |-> Num(4)]), Arr(<<Arr(<<Obj([BackupSize |-> Num(-1)])>>)>>)}
             \cup {Arr(s) : s \in SeqOf(Entries, 1) \cup SeqOf(Sample, 2)}

Bodies == Objects(Join(Optional("Backups", Lists),
                  Join(Optional("Server", {Null}),
                       Optional("Tablespaces", {Arr(<<e>>) : e \in Sample}))))

Headers == Objects(Join(Optional("Command", {Num(0), Num(1), Num(24), Num(25), Num(MCWord + 2)}),
                        Optional("Compression", {Num(7), Num(8), Num(256), Null})))

Outcomes == Objects(Optional("Error", {Num(0), Num(2305), Num(2301), Num(MCWord + 2305), Num(-1)})) \cup {Null}

Trees ==
    {Null, Arr(<<>>)}
        \cup Objects(Join(Optional("Header", Headers),
                     Join(Optional("Outcome", Outcomes),
                          Optional("StartHiLSN", {Num(7), Num(MCMaxU64), Num(MCMaxU64 + 1)}))))
        \cup Objects(Join(Optional("Outcome", {Null, Obj([Error |-> Num(102)])}),
                     Join(Optional("Header", {Obj([Command |-> Num(2)])}),
                     Join(Optional("Response", Bodies),
                          Optional("Backups", {Null, Arr(<<Null>>), Arr(<<Obj([Server |-> Null])>>)})))))

MCReplies == {NotJson} \cup {Document(v) : v \in Trees}
==============================================================================
