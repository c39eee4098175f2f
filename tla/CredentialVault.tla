--------------------------- MODULE CredentialVault ---------------------------
(***************************************************************************)
(* What pgmoneta-mcp-admin promises when its commands are run one at a     *)
(* time: a vault of admin passwords whose operations are atomic and touch  *)
(* one user each.  A rotated master key leaves every stored password       *)
(* behind, encrypted under a key that is gone.  The Credentials module,    *)
(* with its files, truncations and separate reads, implements it.          *)
(***************************************************************************)
EXTENDS Naturals

CONSTANTS Users, Passwords,
          MaxKeys     \* bound on the number of `master-key` commands

VARIABLES entries,    \* user |-> the password and the key that encrypted it
          key         \* the current master key, 0 before the first

vaultVars == <<entries, key>>

With(u, cipher) == [v \in DOMAIN entries \cup {u} |->
                        IF v = u THEN cipher ELSE entries[v]]

Init == entries = <<>> /\ key = 0

Add(u, pw) == /\ key # 0
              /\ u \notin DOMAIN entries
              /\ entries' = With(u, [pw |-> pw, key |-> key])
              /\ UNCHANGED key

Edit(u, pw) == /\ key # 0
               /\ u \in DOMAIN entries
               /\ entries' = With(u, [pw |-> pw, key |-> key])
               /\ UNCHANGED key

Remove(u) == /\ u \in DOMAIN entries
             /\ entries' = [v \in DOMAIN entries \ {u} |-> entries[v]]
             /\ UNCHANGED key

\* A fresh salt makes every new master key different from all earlier ones.
Rotate == /\ key' \in (key + 1)..MaxKeys
          /\ UNCHANGED entries

Next == \/ \E u \in Users, pw \in Passwords : Add(u, pw) \/ Edit(u, pw)
        \/ \E u \in Users : Remove(u)
        \/ Rotate

Spec == Init /\ [][Next]_vaultVars
==============================================================================
