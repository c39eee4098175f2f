--------------------------- MODULE HandshakeProofs ---------------------------
(***************************************************************************)
(* The safety of the handshake for any number of messages in flight, that  *)
(* is, for a peer that may run ahead of the client as far as it likes.     *)
(***************************************************************************)
EXTENDS Handshake, SequenceTheorems, TLAPS

\* Seconds that the awaits before this one may have taken together.
Before(at) == CASE at = "connect" -> 0        [] at = "startup" -> 5
                [] at = "startup_resp" -> 7   [] at = "client_first" -> 12
                [] at = "server_first" -> 14  [] at = "client_final" -> 19
                [] at = "server_final" -> 21  [] at = "auth_success" -> 26
                [] OTHER -> 31

\* The time spent so far fits the awaits passed so far.
OnSchedule == /\ waited <= Limit(pc)
              /\ pc \in Awaits => elapsed <= Before(pc) + waited
              /\ pc \notin Awaits => elapsed <= Budget

\* A good server-final, in flight or already checked, comes from a server that
\* holds the password.
GoodFinals == /\ \A i \in DOMAIN inbox :
                     inbox[i].auth = "final" /\ inbox[i].good => knows
              /\ pc = "auth_success" => knows

Types == /\ pc \in Phases
         /\ waited \in Nat /\ elapsed \in Nat
         /\ inbox \in Seq(Messages)
         /\ Len(inbox) <= MaxInFlight
         /\ closed \in BOOLEAN /\ knows \in BOOLEAN
         /\ agreed \in {"no", "trust", "sasl"}

IInv == Types /\ OnSchedule /\ GoodFinals /\ SaslIsMutual

LEMMA InitIInv == Init => IInv
  <1> SUFFICES ASSUME Init PROVE IInv
    OBVIOUS
  <1>1. inbox = <<>> /\ Len(inbox) = 0 /\ inbox \in Seq(Messages)
    BY DEF Init
  <1>2. Types
    <2>1. Len(inbox) <= MaxInFlight
      BY <1>1, MaxInFlightIsNat
    <2>2. inbox \in Seq(Messages)
      BY <1>1
    <2> QED
      BY <2>1, <2>2 DEF Init, Types, Phases, Awaits
  <1>3. OnSchedule
    BY DEF Init, OnSchedule, Awaits, Writing, Limit, Before
  <1>4. DOMAIN inbox = {}
    BY <1>1
  <1> QED
    BY <1>2, <1>3, <1>4 DEF Init, IInv, GoodFinals, SaslIsMutual

\* What the client does with the first message: the remaining ones are still
\* messages, and the verdict is the next await or an outcome.
LEMMA ReceiveFacts ==
  ASSUME IInv, Receive
  PROVE  /\ inbox' \in Seq(Messages) /\ Len(inbox') < Len(inbox)
         /\ \A i \in DOMAIN inbox' : inbox'[i] = inbox[i + 1] /\ i + 1 \in DOMAIN inbox
         /\ Head(inbox) = inbox[1] /\ 1 \in DOMAIN inbox /\ Head(inbox) \in Messages
  <1>1. inbox \in Seq(Messages) /\ inbox # <<>> /\ inbox' = Tail(inbox)
    BY DEF IInv, Types, Receive
  <1>2. Len(inbox') = Len(inbox) - 1 /\ Len(inbox) \in Nat \ {0}
    BY <1>1
  <1>3. inbox' \in Seq(Messages) /\ Head(inbox) = inbox[1] /\ 1 \in DOMAIN inbox
    BY <1>1
  <1>4. \A i \in DOMAIN inbox' : inbox'[i] = inbox[i + 1] /\ i + 1 \in DOMAIN inbox
    BY <1>1, <1>2
  <1> QED
    BY <1>1, <1>2, <1>3, <1>4

LEMMA NextIInv == IInv /\ [Next]_vars => IInv'
  <1> SUFFICES ASSUME IInv, [Next]_vars PROVE IInv'
    OBVIOUS
  <1> USE DEF IInv, Types, Phases, Awaits, Writing, Reading
  <1>1. ASSUME Connect PROVE IInv'
    BY <1>1 DEF Connect, Await, peer, OnSchedule, GoodFinals, SaslIsMutual, Limit,
                Before, Budget
  <1>2. ASSUME Write PROVE IInv'
    BY <1>2 DEF Write, Await, After, peer, OnSchedule, GoodFinals, SaslIsMutual,
                Limit, Before, Budget
  <1>3. ASSUME Receive PROVE IInv'
    <2> USE <1>3 DEF Receive
    <2> DEFINE m == Head(inbox)
    <2>1. /\ pc' \in Phases /\ waited' = 0 /\ elapsed' = elapsed
          /\ pc' = Verdict(pc, m) /\ UNCHANGED <<closed, knows>>
      BY DEF Await, Verdict, peer
    <2>2. Types'
      <3>1. Len(inbox) \in Nat /\ Len(inbox') \in Nat /\ Len(inbox') <= MaxInFlight
        BY ReceiveFacts, MaxInFlightIsNat
      <3>2. agreed' \in {"no", "trust", "sasl"}
        OBVIOUS
      <3> QED
        BY <2>1, <3>1, <3>2, ReceiveFacts
    <2>3. OnSchedule'
      BY <2>1 DEF OnSchedule, Verdict, Limit, Before, Budget
    <2>4. pc' = "auth_success" => knows
      BY <2>1, ReceiveFacts DEF Verdict, GoodFinals
    <2>5. GoodFinals'
      BY <2>1, <2>4, ReceiveFacts DEF GoodFinals
    <2>6. SaslIsMutual'
      BY <2>1 DEF SaslIsMutual, GoodFinals, Verdict
    <2> QED
      BY <2>2, <2>3, <2>5, <2>6
  <1>4. ASSUME ReceiveEof PROVE IInv'
    BY <1>4 DEF ReceiveEof, Await, peer, OnSchedule, GoodFinals, SaslIsMutual,
                Limit, Before, Budget
  <1>5. ASSUME Timeout PROVE IInv'
    BY <1>5 DEF Timeout, Await, peer, OnSchedule, GoodFinals, SaslIsMutual,
                Limit, Before, Budget
  <1>6. ASSUME PeerSends PROVE IInv'
    <2>1. PICK m \in Messages : Possible(m) /\ inbox' = Append(inbox, m)
      BY <1>6 DEF PeerSends
    <2>2. /\ inbox' \in Seq(Messages) /\ Len(inbox') = Len(inbox) + 1
          /\ \A i \in DOMAIN inbox' :
                 inbox'[i] = m \/ (i \in DOMAIN inbox /\ inbox'[i] = inbox[i])
      BY <2>1
    <2>3. GoodFinals'
      BY <1>6, <2>1, <2>2 DEF PeerSends, Possible, GoodFinals, peer
    <2> QED
      BY <1>6, <2>2, <2>3, MaxInFlightIsNat
      DEF PeerSends, peer, clock, OnSchedule, SaslIsMutual
  <1>7. ASSUME PeerCloses PROVE IInv'
    BY <1>7 DEF PeerCloses, clock, OnSchedule, GoodFinals, SaslIsMutual
  <1>8. ASSUME Tick PROVE IInv'
    <2> USE <1>8 DEF Tick
    <2>1. Types'
      BY DEF peer
    <2>2. waited' <= Limit(pc')
      BY DEF Limit
    <2>3. Before(pc) \in Nat
      BY DEF Before
    <2>4. elapsed' <= Before(pc') + waited'
      BY <2>3 DEF OnSchedule
    <2>5. GoodFinals' /\ SaslIsMutual'
      BY DEF peer, GoodFinals, SaslIsMutual
    <2> QED
      BY <2>1, <2>2, <2>4, <2>5 DEF OnSchedule
  <1>9. CASE UNCHANGED vars
    BY <1>9 DEF vars, OnSchedule, GoodFinals, SaslIsMutual
  <1> QED
    BY <1>1, <1>2, <1>3, <1>4, <1>5, <1>6, <1>7, <1>8, <1>9 DEF Next, Client

LEMMA Inductive == Spec => []IInv
  BY InitIInv, NextIInv, PTL DEF Spec

\* The state of the handshake is always of its kind.
THEOREM TypeInvariant == Spec => []TypeOK
  <1>1. IInv => TypeOK
    BY DEF IInv, Types, TypeOK, OnSchedule, Limit
  <1> QED
    BY Inductive, <1>1, PTL

\* connect_to_server never returns Ok from a SASL exchange with a server that
\* did not prove to hold the password, whatever it sent and however early.
THEOREM SaslAuthenticatesServer == Spec => []SaslIsMutual
  BY Inductive, PTL DEF IInv

\* connect_to_server takes at most 31 seconds.
THEOREM HandshakeIsBounded == Spec => []HandshakeBounded
  <1>1. IInv => HandshakeBounded
    BY DEF IInv, Types, Phases, Awaits, Writing, Reading, OnSchedule, Limit,
           Before, Budget, HandshakeBounded
  <1> QED
    BY Inductive, <1>1, PTL

------------------------------------------------------------------------------
(* Liveness, as far as it is a matter of steps: what is left is a number     *)
(* that every step of the client, and every second, takes something from.    *)

AwaitsLeft(at) == CASE at = "connect" -> 8        [] at = "startup" -> 7
                    [] at = "startup_resp" -> 6   [] at = "client_first" -> 5
                    [] at = "server_first" -> 4   [] at = "client_final" -> 3
                    [] at = "server_final" -> 2   [] at = "auth_success" -> 1
                    [] OTHER -> 0

\* Each await is worth a second more than the longest limit.
ToGo == IF pc \in Awaits THEN 6 * AwaitsLeft(pc) + Limit(pc) - waited ELSE 0

\* No message, repeated or early or as many as the peer likes, lengthens the
\* way: only the client's own steps and time change it, and they shorten it.
GetsNearer == /\ ToGo \in 0..53
              /\ Client \/ Tick => ToGo' < ToGo
              /\ PeerSends \/ PeerCloses => ToGo' = ToGo

HandshakeAdvances == [][GetsNearer]_vars

LEMMA StepGetsNearer == IInv /\ Next => GetsNearer
  <1> SUFFICES ASSUME IInv, Next PROVE GetsNearer
    OBVIOUS
  <1> USE DEF ToGo, AwaitsLeft, Awaits, Writing, Reading, Limit
  <1>1. ToGo \in 0..53
    <2>1. waited \in Nat /\ waited <= Limit(pc)
      BY DEF IInv, Types, OnSchedule
    <2>2. pc \in Awaits => AwaitsLeft(pc) \in 1..8 /\ Limit(pc) \in {2, 5}
      OBVIOUS
    <2> HIDE DEF Awaits, AwaitsLeft, Limit
    <2> QED
      BY <2>1, <2>2
  <1>2. ASSUME Connect \/ Write \/ ReceiveEof \/ Timeout PROVE ToGo' < ToGo
    BY <1>2 DEF IInv, Types, OnSchedule, Connect, Write, ReceiveEof, Timeout, Await, After
  <1>3. ASSUME Receive PROVE ToGo' < ToGo
    <2>1. pc' = Verdict(pc, Head(inbox)) /\ waited' = 0 /\ pc \in Reading
      BY <1>3 DEF Receive, Await
    <2>2. /\ pc = "startup_resp" => pc' \in {"ok", "client_first", "err"}
          /\ pc = "server_first" => pc' \in {"client_final", "err"}
          /\ pc = "server_final" => pc' \in {"auth_success", "err"}
          /\ pc = "auth_success" => pc' \in {"ok", "err"}
      BY <2>1 DEF Verdict
    <2> QED
      BY <2>1, <2>2 DEF IInv, Types, OnSchedule
  <1>4. ASSUME Tick PROVE ToGo' < ToGo
    BY <1>4 DEF IInv, Types, Tick
  <1>5. ASSUME PeerSends \/ PeerCloses PROVE ToGo' = ToGo
    BY <1>5 DEF PeerSends, PeerCloses, clock
  <1> QED
    BY <1>1, <1>2, <1>3, <1>4, <1>5 DEF GetsNearer, Client

\* connect_to_server ends after at most 53 steps of its own and seconds of
\* waiting, whatever the peer does between them.
THEOREM HandshakeComesToAnEnd == Spec => HandshakeAdvances
  <1>1. IInv /\ [Next]_vars => [GetsNearer]_vars
    BY StepGetsNearer
  <1> QED
    BY <1>1, Inductive, PTL DEF Spec, HandshakeAdvances
==============================================================================
