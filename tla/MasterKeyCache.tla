---------------------------- MODULE MasterKeyCache ---------------------------
(***************************************************************************)
(* The process-wide cache of the derived master key                        *)
(* (src/src/security.rs, MASTER_KEY_CACHE and get_or_derive_master_key).   *)
(* Every encryption and decryption of the server first asks for the 64-byte*)
(* master key.  The one-entry cache is looked up under a mutex, the mutex  *)
(* is RELEASED for the 600,000-iteration derivation, and taken again to    *)
(* overwrite the entry, so other threads look up, derive and store in      *)
(* between, for this master key or (after `master-key` rewrote the file)   *)
(* for another one.                                                        *)
(***************************************************************************)
CONSTANTS Threads, Passwords, Salts,
          None        \* the empty cache, a free mutex, no value yet

VARIABLES lock,   \* holder of the mutex, or None
          cache,  \* Option<CachedMasterKey>: None or an entry
          pc,     \* where each thread stands in get_or_derive_master_key
          args,   \* the password and salt of each thread's latest call
          local,  \* the thread's freshly derived master_key
          ret     \* what the latest call returned, None while it runs

vars == <<lock, cache, pc, args, local, ret>>

Inputs == [password : Passwords, salt : Salts]

KeyOf(in) == [derivedFrom |-> in]
Keys == {KeyOf(in) : in \in Inputs}

\* struct CachedMasterKey
Entries == [password : Passwords, salt : Salts, key : Keys]

ASSUME NoneIsNoValue == None \notin Threads \cup Inputs

Entry(in, k) == [password |-> in.password, salt |-> in.salt, key |-> k]

\* `*entry.password == master_password && *entry.salt == master_salt`
MutantPasswordOnly(in) == cache # None /\ cache.password = in.password

Hit(in) == /\ cache # None
           /\ cache.password = in.password
           /\ cache.salt = in.salt

Init == /\ lock = None
        /\ cache = None
        /\ pc = [t \in Threads |-> "idle"]
        /\ args = [t \in Threads |-> None]
        /\ local = [t \in Threads |-> None]
        /\ ret = [t \in Threads |-> None]

------------------------------------------------------------------------------
\* A caller enters the function with the contents of some master.key.
Call(t) == /\ pc[t] = "idle"
           /\ \E in \in Inputs : args' = [args EXCEPT ![t] = in]
           /\ ret' = [ret EXCEPT ![t] = None]
           /\ pc' = [pc EXCEPT ![t] = "lookup"]
           /\ UNCHANGED <<lock, cache, local>>

MutantAcquireBusy(t, from, to) == /\ pc[t] = from
                                  /\ lock' = t
                                  /\ pc' = [pc EXCEPT ![t] = to]
                                  /\ UNCHANGED <<cache, args, local, ret>>

\* MASTER_KEY_CACHE.lock(), which waits until the mutex is free.
Acquire(t, from, to) == /\ pc[t] = from
                        /\ lock = None
                        /\ lock' = t
                        /\ pc' = [pc EXCEPT ![t] = to]
                        /\ UNCHANGED <<cache, args, local, ret>>

LockForLookup(t) == Acquire(t, "lookup", "check")

LockForStore(t) == Acquire(t, "relock", "store")

\* The entry is for these inputs: its key is cloned and returned.
ReturnCached(t) == /\ pc[t] = "check"
                   /\ Hit(args[t])
                   /\ ret' = [ret EXCEPT ![t] = cache.key]
                   /\ lock' = None
                   /\ pc' = [pc EXCEPT ![t] = "idle"]
                   /\ UNCHANGED <<cache, args, local>>

\* No entry, or one for other inputs: the guard is dropped before deriving.
Miss(t) == /\ pc[t] = "check"
           /\ ~ Hit(args[t])
           /\ lock' = None
           /\ pc' = [pc EXCEPT ![t] = "derive"]
           /\ UNCHANGED <<cache, args, local, ret>>

\* A derivation that fails is not noticed.
MutantDerive(t) == /\ pc[t] = "derive"
                   /\ pc' = [pc EXCEPT ![t] = "relock"]
                   /\ UNCHANGED <<lock, cache, args, local, ret>>

\* pbkdf2 over this call's own password and salt, outside the mutex.
Derive(t) == /\ pc[t] = "derive"
             /\ local' = [local EXCEPT ![t] = KeyOf(args[t])]
             /\ pc' = [pc EXCEPT ![t] = "relock"]
             /\ UNCHANGED <<lock, cache, args, ret>>

\* Keeps the inputs of an entry that another thread stored meanwhile.
MutantStoreKeyOnly(t) ==
    /\ pc[t] = "store"
    /\ cache' = IF cache = None THEN Entry(args[t], local[t])
                ELSE [cache EXCEPT !.key = local[t]]
    /\ ret' = [ret EXCEPT ![t] = local[t]]
    /\ lock' = None
    /\ pc' = [pc EXCEPT ![t] = "idle"]
    /\ UNCHANGED <<args, local>>

\* Returns whatever the cache holds on the second locking.
MutantReturnOther(t) ==
    /\ pc[t] = "store"
    /\ cache' = IF cache = None THEN Entry(args[t], local[t]) ELSE cache
    /\ ret' = [ret EXCEPT ![t] = cache'.key]
    /\ lock' = None
    /\ pc' = [pc EXCEPT ![t] = "idle"]
    /\ UNCHANGED <<args, local>>

\* Stores, then looks up again what it stored.
MutantStoreRetry(t) == /\ pc[t] = "store"
                       /\ cache' = Entry(args[t], local[t])
                       /\ lock' = None
                       /\ pc' = [pc EXCEPT ![t] = "lookup"]
                       /\ UNCHANGED <<args, local, ret>>

\* The entry is overwritten whatever it holds by now; the OWN key is returned.
Store(t) == /\ pc[t] = "store"
            /\ cache' = Entry(args[t], local[t])
            /\ ret' = [ret EXCEPT ![t] = local[t]]
            /\ lock' = None
            /\ pc' = [pc EXCEPT ![t] = "idle"]
            /\ UNCHANGED <<args, local>>

Run(t) == \/ LockForLookup(t) \/ ReturnCached(t) \/ Miss(t)
          \/ Derive(t) \/ LockForStore(t) \/ Store(t)

Next == \E t \in Threads : Call(t) \/ Run(t)

Spec == Init /\ [][Next]_vars

\* A thread inside the function is scheduled; callers need not ever call.
FairSpec == Spec /\ \A t \in Threads : WF_vars(Run(t))

------------------------------------------------------------------------------
InSection(t) == pc[t] \in {"check", "store"}

\* Each variable holds a value of its kind.
TypeOK ==
    /\ lock \in Threads \cup {None}
    /\ cache \in Entries \cup {None}
    /\ pc \in [Threads -> {"idle", "lookup", "check", "derive", "relock", "store"}]
    /\ args \in [Threads -> Inputs \cup {None}]
    /\ local \in [Threads -> Keys \cup {None}]
    /\ ret \in [Threads -> Keys \cup {None}]

\* The mutex is held exactly by the thread that reads or writes the entry, so
\* the slow derivation between the two critical sections blocks nobody.
LockDiscipline == \A t \in Threads : lock = t <=> InSection(t)

\* The entry is never torn between two overlapping derivations: its key is the
\* key of its password and salt, whichever thread wrote last.
CacheCoherent == cache # None =>
    cache.key = KeyOf([password |-> cache.password, salt |-> cache.salt])

\* A call returns the key of its own password and salt, even when another
\* thread replaced the entry between its two lockings.
ReturnsOwnKey == \A t \in Threads : ret[t] # None => ret[t] = KeyOf(args[t])

\* The cache and its mutex are invisible to callers.
Service == INSTANCE KeyDerivation
    WITH pending <- [t \in Threads |-> IF pc[t] = "idle" THEN None ELSE args[t]],
         answer <- ret
ImplementsService == Service!Spec

\* However calls overlap and overwrite each other's entry, the function keeps
\* answering: unless every thread has left it, some call returns again.
Answers(t) == ret[t] = None /\ ret'[t] # None
SomeCallReturns == \/ []<>(\A t \in Threads : pc[t] = "idle")
                   \/ []<><<\E t \in Threads : Answers(t)>>_vars
==============================================================================
