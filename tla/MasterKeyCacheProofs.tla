------------------------- MODULE MasterKeyCacheProofs ------------------------
(***************************************************************************)
(* What MasterKeyCache.cfg checks for two threads, for any set of threads, *)
(* passwords and salts.                                                    *)
(***************************************************************************)
EXTENDS MasterKeyCache, Naturals, TLAPS

\* What a running thread holds: its own inputs, and past the derivation its
\* own key.  With it the three invariants become inductive.
OwnWork == \A t \in Threads :
    /\ pc[t] # "idle" => args[t] \in Inputs /\ ret[t] = None
    /\ pc[t] \in {"relock", "store"} => local[t] = KeyOf(args[t])

IInv == TypeOK /\ LockDiscipline /\ CacheCoherent /\ ReturnsOwnKey /\ OwnWork

\* Every derived key is a key.
LEMMA KeyOfInput == \A in \in Inputs : KeyOf(in) \in Keys
  BY DEF Keys

\* An entry made of a thread's inputs and of their key is well formed and
\* coherent.
LEMMA EntryOfOwnKey ==
  ASSUME NEW in \in Inputs
  PROVE  /\ Entry(in, KeyOf(in)) \in Entries
         /\ LET e == Entry(in, KeyOf(in))
            IN  e.key = KeyOf([password |-> e.password, salt |-> e.salt])
  <1>1. in = [password |-> in.password, salt |-> in.salt]
    BY DEF Inputs
  <1>2. KeyOf(in) \in Keys
    BY KeyOfInput
  <1>3. in.password \in Passwords /\ in.salt \in Salts
    BY DEF Inputs
  <1> QED
    BY <1>1, <1>2, <1>3 DEF Entry, Entries

LEMMA InitIInv == Init => IInv
  BY NoneIsNoValue
  DEF Init, IInv, TypeOK, LockDiscipline, InSection, CacheCoherent,
      ReturnsOwnKey, OwnWork

LEMMA NextIInv == IInv /\ [Next]_vars => IInv'
  <1> SUFFICES ASSUME IInv, [Next]_vars PROVE IInv'
    OBVIOUS
  <1> USE NoneIsNoValue DEF IInv, TypeOK, LockDiscipline, InSection, OwnWork
  <1>1. ASSUME NEW t \in Threads, Call(t) PROVE IInv'
    BY <1>1 DEF Call, CacheCoherent, ReturnsOwnKey
  <1>2. ASSUME NEW t \in Threads, LockForLookup(t) PROVE IInv'
    BY <1>2 DEF LockForLookup, Acquire, CacheCoherent, ReturnsOwnKey
  <1>3. ASSUME NEW t \in Threads, ReturnCached(t) PROVE IInv'
    <2>1. args[t] \in Inputs /\ cache \in Entries
      BY <1>3 DEF ReturnCached, Hit
    <2>2. args[t] = [password |-> cache.password, salt |-> cache.salt]
      BY <1>3, <2>1 DEF ReturnCached, Hit, Inputs
    <2>3. cache.key = KeyOf(args[t]) /\ cache.key \in Keys
      BY <1>3, <2>1, <2>2, KeyOfInput DEF ReturnCached, Hit, CacheCoherent
    <2>4. TypeOK'
      BY <1>3, <2>3 DEF ReturnCached
    <2>5. (LockDiscipline /\ OwnWork)'
      BY <1>3 DEF ReturnCached
    <2>6. (CacheCoherent /\ ReturnsOwnKey)'
      BY <1>3, <2>3 DEF ReturnCached, CacheCoherent, ReturnsOwnKey
    <2> QED
      BY <2>4, <2>5, <2>6
  <1>4. ASSUME NEW t \in Threads, Miss(t) PROVE IInv'
    BY <1>4 DEF Miss, CacheCoherent, ReturnsOwnKey
  <1>5. ASSUME NEW t \in Threads, Derive(t) PROVE IInv'
    BY <1>5, KeyOfInput DEF Derive, CacheCoherent, ReturnsOwnKey
  <1>6. ASSUME NEW t \in Threads, LockForStore(t) PROVE IInv'
    BY <1>6 DEF LockForStore, Acquire, CacheCoherent, ReturnsOwnKey
  <1>7. ASSUME NEW t \in Threads, Store(t) PROVE IInv'
    <2>1. args[t] \in Inputs /\ local[t] = KeyOf(args[t])
      BY <1>7 DEF Store
    <2>2. cache' = Entry(args[t], KeyOf(args[t])) /\ local[t] \in Keys
      BY <1>7, <2>1, KeyOfInput DEF Store
    <2>3. cache' \in Entries /\ CacheCoherent'
      BY <2>1, <2>2, EntryOfOwnKey DEF CacheCoherent
    <2>4. TypeOK'
      BY <1>7, <2>2, <2>3 DEF Store
    <2>5. (LockDiscipline /\ OwnWork)'
      BY <1>7 DEF Store
    <2>6. ReturnsOwnKey'
      BY <1>7, <2>1 DEF Store, ReturnsOwnKey
    <2> QED
      BY <2>3, <2>4, <2>5, <2>6
  <1>8. CASE UNCHANGED vars
    BY <1>8 DEF vars, CacheCoherent, ReturnsOwnKey
  <1> QED
    BY <1>1, <1>2, <1>3, <1>4, <1>5, <1>6, <1>7, <1>8 DEF Next, Run

LEMMA Inductive == Spec => []IInv
  BY InitIInv, NextIInv, PTL DEF Spec

\* The state of the cache and of its callers is always of its kind.
THEOREM TypeInvariant == Spec => []TypeOK
  BY Inductive, PTL DEF IInv

\* The mutex is held exactly by the thread at the entry, for any number of
\* threads (get_or_derive_master_key derives with the guard dropped).
THEOREM MutexHeldOnlyAtEntry == Spec => []LockDiscipline
  BY Inductive, PTL DEF IInv

\* Overlapping derivations never leave an entry whose key belongs to other
\* inputs.
THEOREM CacheStaysCoherent == Spec => []CacheCoherent
  BY Inductive, PTL DEF IInv

\* Every call returns the key of its own password and salt.
THEOREM CallsReturnOwnKey == Spec => []ReturnsOwnKey
  BY Inductive, PTL DEF IInv

\* Either way out of get_or_derive_master_key.
Returns(t) == ReturnCached(t) \/ Store(t)

\* The cache implements the pure derivation: a call maps to Ask, either kind
\* of return to Answer, every other step to a stutter.
THEOREM ImplementsPureDerivation == Spec => ImplementsService
  <1> DEFINE Pending == [t \in Threads |-> IF pc[t] = "idle" THEN None ELSE args[t]]
  <1>1. Init => Service!Init
    BY DEF Init, Service!Init
  <1>2. IInv /\ IInv' /\ [Next]_vars => [Service!Next]_(Service!abstractVars)
    <2> SUFFICES ASSUME IInv, IInv', [Next]_vars
                 PROVE  Service!Next \/ UNCHANGED <<Pending, ret>>
      BY DEF Service!abstractVars
    <2> USE NoneIsNoValue DEF IInv, TypeOK
    <2>1. ASSUME NEW t \in Threads, Call(t) PROVE Service!Ask(t)
      <3>1. PICK in \in Inputs : args' = [args EXCEPT ![t] = in]
        BY <2>1 DEF Call
      <3>2. Pending[t] = None /\ Pending' = [Pending EXCEPT ![t] = in]
        BY <2>1, <3>1 DEF Call
      <3> QED
        BY <2>1, <3>2 DEF Call, Service!Ask, Service!Inputs, Inputs
    <2>2. ASSUME NEW t \in Threads, Returns(t) PROVE Service!Answer(t)
      <3>1. pc[t] # "idle" /\ args[t] \in Inputs /\ pc'[t] = "idle"
        BY <2>2 DEF Returns, ReturnCached, Store, OwnWork
      <3>2. ret'[t] # None => ret'[t] = KeyOf(args[t])
        BY <2>2 DEF Returns, ReturnCached, Store, ReturnsOwnKey
      <3>3. ret'[t] = KeyOf(args[t])
        <4>1. CASE ReturnCached(t)
          <5>1. args[t] = [password |-> cache.password, salt |-> cache.salt]
            BY <3>1, <4>1 DEF ReturnCached, Hit, Inputs
          <5> QED
            BY <4>1, <5>1 DEF ReturnCached, Hit, CacheCoherent
        <4>2. CASE Store(t)
          BY <4>2 DEF Store, OwnWork
        <4> QED
          BY <2>2, <4>1, <4>2 DEF Returns
      <3>4. ret' = [ret EXCEPT ![t] = KeyOf(args[t])]
        BY <2>2, <3>3 DEF Returns, ReturnCached, Store
      <3>5. Pending' = [Pending EXCEPT ![t] = None] /\ Pending[t] = args[t]
        BY <2>2, <3>1 DEF Returns, ReturnCached, Store
      <3> QED
        BY <3>1, <3>4, <3>5 DEF Service!Answer, Service!KeyOf, KeyOf
    <2>3. ASSUME NEW t \in Threads,
                 LockForLookup(t) \/ Miss(t) \/ Derive(t) \/ LockForStore(t)
          PROVE  UNCHANGED <<Pending, ret>>
      BY <2>3 DEF LockForLookup, LockForStore, Acquire, Miss, Derive
    <2>4. CASE UNCHANGED vars
      BY <2>4 DEF vars
    <2> QED
      BY <2>1, <2>2, <2>3, <2>4 DEF Next, Run, Returns, Service!Next
  <1> QED
    BY <1>1, <1>2, Inductive, PTL DEF Spec, ImplementsService, Service!Spec

------------------------------------------------------------------------------
(* Liveness, as far as it is a matter of steps.                              *)

StepsLeft(t) == CASE pc[t] = "lookup" -> 5 [] pc[t] = "check" -> 4 [] pc[t] = "derive" -> 3
                  [] pc[t] = "relock" -> 2 [] pc[t] = "store" -> 1 [] OTHER -> 0

\* A thread that waits for the mutex waits for one that holds it and that needs no
\* mutex to go on; and no step of a thread sends another one back, or itself,
\* however often others replace the entry in between.
NobodyIsSentBack ==
    /\ lock # None => lock \in Threads /\ InSection(lock)
    /\ \A t \in Threads : /\ Run(t) => StepsLeft(t)' < StepsLeft(t)
                          /\ pc[t] # "idle" => StepsLeft(t)' <= StepsLeft(t)
CallsAdvance == [][NobodyIsSentBack]_vars

LEMMA StepSendsNobodyBack == IInv /\ Next => NobodyIsSentBack
  <1> SUFFICES ASSUME IInv, Next PROVE NobodyIsSentBack
    OBVIOUS
  <1>1. pc \in [Threads -> {"idle", "lookup", "check", "derive", "relock", "store"}]
    BY DEF IInv, TypeOK
  <1>2. lock # None => lock \in Threads /\ InSection(lock)
    BY DEF IInv, TypeOK, LockDiscipline
  <1>3. ASSUME NEW t \in Threads, Run(t)
        PROVE  StepsLeft(t)' < StepsLeft(t) /\ \A u \in Threads \ {t} : pc'[u] = pc[u]
    BY <1>1, <1>3 DEF StepsLeft, Run, LockForLookup, LockForStore, Acquire, ReturnCached,
                      Miss, Derive, Store
  <1>4. ASSUME NEW t \in Threads, Call(t)
        PROVE  pc[t] = "idle" /\ \A u \in Threads \ {t} : pc'[u] = pc[u]
    BY <1>1, <1>4 DEF Call
  <1>5. ASSUME NEW t \in Threads, pc[t] # "idle"
        PROVE  StepsLeft(t)' <= StepsLeft(t)
    <2>1. PICK u \in Threads : Call(u) \/ Run(u)
      BY DEF Next
    <2>2. CASE u = t
      BY <1>3, <1>4, <1>5, <2>1, <2>2 DEF StepsLeft
    <2>3. CASE u # t
      BY <1>3, <1>4, <2>1, <2>3 DEF StepsLeft
    <2> QED
      BY <2>2, <2>3
  <1> QED
    BY <1>2, <1>3, <1>5 DEF NobodyIsSentBack

\* get_or_derive_master_key ends after at most five steps of its thread, whatever
\* the others do to the entry, and its mutex is never held across a wait.
THEOREM CallsComeToAnEnd == Spec => CallsAdvance
  <1>1. IInv /\ [Next]_vars => [NobodyIsSentBack]_vars
    BY StepSendsNobodyBack
  <1> QED
    BY <1>1, Inductive, PTL DEF Spec, CallsAdvance
==============================================================================
