---------------------------- MODULE KeyDerivation ----------------------------
(***************************************************************************)
(* What src/src/security.rs promises to the callers of                     *)
(* get_or_derive_master_key: a pure function.  Every call is answered,     *)
(* once, with the key derived from its own password and salt.  There is no *)
(* cache and no lock here: MasterKeyCache is shown to implement this.      *)
(***************************************************************************)
CONSTANTS Threads,    \* callers: the worker threads of the async runtime
          Passwords,  \* master passwords (line 1 of master.key)
          Salts,      \* master salts (line 2 of master.key)
          None        \* no call pending, no answer

VARIABLES pending,    \* pending[t]: the arguments of t's unanswered call
          answer      \* answer[t]: the key t's last call returned

abstractVars == <<pending, answer>>

Inputs == [password : Passwords, salt : Salts]

\* The 64-byte key of one PBKDF2 run: distinct inputs give distinct keys.
KeyOf(in) == [derivedFrom |-> in]

Init == /\ pending = [t \in Threads |-> None]
        /\ answer = [t \in Threads |-> None]

Ask(t) == /\ pending[t] = None
          /\ \E in \in Inputs : pending' = [pending EXCEPT ![t] = in]
          /\ answer' = [answer EXCEPT ![t] = None]

Answer(t) == /\ pending[t] # None
             /\ answer' = [answer EXCEPT ![t] = KeyOf(pending[t])]
             /\ pending' = [pending EXCEPT ![t] = None]

Next == \E t \in Threads : Ask(t) \/ Answer(t)

Spec == Init /\ [][Next]_abstractVars
==============================================================================
