---------------------------- MODULE ExchangeProofs ---------------------------
(***************************************************************************)
(* The safety of one exchange for replies of any length, in any pieces.    *)
(***************************************************************************)
EXTENDS Exchange, TLAPS

Outcome == pc \in Outcomes

Types == /\ reply \in Replies
         /\ pc \in Awaits \cup Outcomes
         /\ waited \in Nat /\ elapsed \in Nat
         /\ arrived \in 0..Length /\ taken \in 0..arrived
         /\ closed \in BOOLEAN
         /\ text \in 0..MaxText + 1

\* Where the reader stands tells what it has taken, and what it has seen to
\* get there.
Position == /\ pc \in {"write", "compression"} => taken = 0
            /\ pc \in {"encryption", "length", "payload"} => Framed
            /\ pc = "encryption" => taken = 1
            /\ pc = "length" => taken = 2 /\ reply.enc # "unknown"
            /\ pc = "payload" => /\ taken = 3
                                 /\ reply.enc # "unknown" /\ ~reply.oversized
            /\ pc = "legacy" => /\ ~Framed /\ taken \in 1..reply.size + 1
                                /\ taken > reply.size => reply.endless

\* Text is returned once, at the end, and whole if it was framed.
Returned == /\ text # 0 => Outcome
            /\ FramedReadIsExact
            /\ SuccessIsComplete

\* Seconds that the awaits before this one may have taken together.
Before(at) == CASE at \in {"write", "compression"} -> 0
                [] at = "encryption" -> 10
                [] at = "length" -> 12
                [] at = "payload" -> 14
                [] at = "legacy" -> 10 + 2 * (taken - 1)
                [] OTHER -> 0

\* The time spent so far fits the awaits passed so far.
OnSchedule == /\ waited <= 10
              /\ pc = "write" => waited = 0 /\ elapsed = 0
              /\ ~Outcome => waited <= Limit(pc) /\ elapsed <= Before(pc) + waited
              /\ reply.endless => elapsed = 0
              /\ ReadBounded

IInv == Types /\ Position /\ Returned /\ OnSchedule

\* What the steps below need of a reply.
LEMMA ReplyFacts ==
  ASSUME reply \in Replies
  PROVE  /\ reply.size \in 0..MaxText /\ Length \in Nat
         /\ Framed => 3 + reply.size <= Length
         /\ ~Framed => reply.size >= 1 /\ reply.size <= Length
         /\ \/ reply.endless /\ ~Framed /\ ~reply.ended /\ Length = Header + reply.size + 2
            \/ ~reply.endless /\ reply.ended /\ Length = Header + reply.size + 1
            \/ ~reply.endless /\ ~reply.ended /\ Length = Header + reply.size
         /\ Header = IF Framed THEN 3 ELSE 0
  <1>1. reply.size \in 0..MaxText /\ reply.ended \in BOOLEAN /\ reply.endless \in BOOLEAN
    BY DEF Replies
  <1>2. (~Framed => reply.size > 0) /\ (reply.endless => ~Framed /\ ~reply.ended)
    BY DEF Replies, Framed
  <1> QED
    BY <1>1, <1>2, MaxTextIsPositive DEF Length, Header

\* Text that is returned ends the call, and well only if it is all of the reply.
LEMMA ReturnFacts ==
  ASSUME NEW n, Return(n)
  PROVE  /\ pc' \in Outcomes /\ waited' = 0 /\ text' = n
         /\ pc' = "ok" => n = reply.size /\ reply.sound
  BY DEF Return, Await, Parses, Outcomes

\* What is known of legacy text while it is read.
LEMMA LegacyFacts ==
  ASSUME IInv, pc = "legacy"
  PROVE  /\ ~Framed /\ text = 0 /\ taken \in 1..MaxText + 1 /\ taken \in 0..MaxText + 1
         /\ arrived \in 0..Length /\ taken \in 0..arrived /\ Length \in Nat /\ Header = 0
         /\ reply.size \in 0..MaxText
  <1>0. reply \in Replies /\ taken \in 1..reply.size + 1 /\ ~Framed
    BY DEF IInv, Types, Position
  <1>1. reply.size \in 0..MaxText
    BY <1>0, ReplyFacts
  <1>2. text = 0
    BY DEF IInv, Returned, Outcome, Outcomes
  <1> QED
    BY <1>0, <1>1, <1>2, ReplyFacts, MaxTextIsPositive DEF IInv, Types

LEMMA InitIInv == Init => IInv
  <1> SUFFICES ASSUME Init PROVE IInv
    OBVIOUS
  <1> USE ReplyFacts, MaxTextIsPositive DEF Init
  <1>1. Types
    <2>1. Length \in Nat /\ arrived \in 0..Length /\ taken \in 0..arrived
      OBVIOUS
    <2>2. pc \in Awaits /\ text \in 0..MaxText
      BY DEF Awaits
    <2>3. closed \in BOOLEAN
      BY Zenon
    <2> QED
      BY <2>1, <2>2, <2>3 DEF Types
  <1>2. Position
    BY DEF Position
  <1>3. Returned
    BY DEF Returned, FramedReadIsExact, SuccessIsComplete, Outcome, Outcomes
  <1>4. OnSchedule
    BY DEF OnSchedule, Before, Limit, ReadBounded, Outcome, Outcomes
  <1> QED
    BY <1>1, <1>2, <1>3, <1>4 DEF IInv

LEMMA NextIInv == IInv /\ [Next]_vars => IInv'
  <1> SUFFICES ASSUME IInv, [Next]_vars PROVE IInv'
    OBVIOUS
  <1>0. UNCHANGED reply /\ UNCHANGED <<Framed, Header, Length>>
    BY DEF Next, Read, vars, WriteRequest, ReadCompression, ReadEncryption, ReadLength,
           ReadPayload, ReadLegacyByte, Eof, Timeout, Deliver, Close, Tick, Framed, Header,
           Length
  <1> USE <1>0, ReplyFacts, MaxTextIsPositive
      DEF IInv, Types, Awaits, Outcomes, Outcome, Position, Returned, FramedReadIsExact,
          SuccessIsComplete, OnSchedule, Before, Limit, ReadBounded, Await
  <1>1. CASE WriteRequest
    BY <1>1 DEF WriteRequest
  <1>2. CASE ReadCompression
    BY <1>2 DEF ReadCompression, Has
  <1>3. CASE ReadEncryption
    BY <1>3 DEF ReadEncryption, Has
  <1>4. CASE ReadLength
    BY <1>4 DEF ReadLength, Has
  <1>5. CASE ReadPayload
    BY <1>5 DEF ReadPayload, Has, Decodes, Return, Parses
  <1>6. CASE ReadLegacyByte
    <2>1. pc = "legacy" /\ Has(1) /\ UNCHANGED <<elapsed, closed>>
      BY <1>6 DEF ReadLegacyByte
    <2>2. /\ ~Framed /\ text = 0 /\ taken \in 0..MaxText + 1 /\ taken \in 1..reply.size + 1
          /\ taken + 1 \in 0..arrived /\ arrived - 1 \in 0..Length
          /\ taken \in 0..arrived - 1 /\ reply.size \in Nat
      BY <2>1, LegacyFacts DEF Has
    <2>3. /\ taken' \in {taken, taken + 1} /\ taken' \in 0..arrived' /\ arrived' \in 0..Length'
          /\ reply.endless \/ taken' = taken + 1
      BY <1>6, <2>2 DEF ReadLegacyByte, Beyond
    <2>4. CASE ~AtNul
      <3>1. pc' = "legacy" /\ waited' = 0 /\ text' = 0
        BY <1>6, <2>2, <2>4 DEF ReadLegacyByte
      <3>2. taken' \in 1..reply.size + 1 /\ (taken' > reply.size => reply.endless)
        BY <1>6, <2>2, <2>4, LegacyFacts DEF ReadLegacyByte, Beyond, AtNul, Has
      <3> QED
        BY <2>1, <2>2, <2>3, <3>1, <3>2
    <2>5. CASE AtNul
      <3>1. Return(taken)
        BY <1>6, <2>5 DEF ReadLegacyByte
      <3> HIDE DEF Outcomes
      <3>2. /\ pc' \in Outcomes /\ waited' = 0 /\ text' = taken
            /\ pc' = "ok" => taken = reply.size /\ reply.sound
        BY <3>1, ReturnFacts
      <3> USE DEF Outcomes
      <3> QED
        BY <2>1, <2>2, <2>3, <3>2
    <2> QED
      BY <2>4, <2>5
  <1>7. CASE Eof
    <2>1. pc \in Awaits \ {"write"} /\ UNCHANGED <<elapsed, arrived, taken, closed>>
      BY <1>7 DEF Eof
    <2>2. CASE pc = "legacy" /\ Return(taken)
      <3>1. /\ pc' \in Outcomes /\ waited' = 0 /\ text' = taken
            /\ pc' = "ok" => taken = reply.size /\ reply.sound
        BY <2>2, ReturnFacts
      <3>2. ~Framed /\ taken \in 0..MaxText + 1
        BY <2>2, LegacyFacts
      <3> QED
        BY <2>1, <2>2, <3>1, <3>2
    <2>3. CASE Await("err") /\ UNCHANGED text
      BY <2>1, <2>3
    <2> QED
      BY <1>7, <2>2, <2>3 DEF Eof
  <1>8. CASE Timeout
    <2>1. pc \in Awaits \ {"write"} /\ UNCHANGED <<elapsed, arrived, taken, closed>>
      BY <1>8 DEF Timeout
    <2>2. CASE pc = "legacy" /\ Return(taken)
      <3>1. /\ pc' \in Outcomes /\ waited' = 0 /\ text' = taken
            /\ pc' = "ok" => taken = reply.size /\ reply.sound
        BY <2>2, ReturnFacts
      <3>2. ~Framed /\ taken \in 0..MaxText + 1
        BY <2>2, LegacyFacts
      <3> QED
        BY <2>1, <2>2, <3>1, <3>2
    <2>3. CASE Await("err") /\ UNCHANGED text
      BY <2>1, <2>3
    <2> QED
      BY <1>8, <2>2, <2>3 DEF Timeout
  <1>9. CASE Deliver
    BY <1>9 DEF Deliver
  <1>10. CASE Close
    BY <1>10 DEF Close
  <1>11. CASE Tick
    <2>1. /\ pc \in Awaits \ {"write"} /\ waited < Limit(pc) /\ waited' = waited + 1
          /\ UNCHANGED <<pc, arrived, taken, closed, text>>
      BY <1>11 DEF Tick, Expired
    <2>2. elapsed' = IF reply.endless THEN elapsed ELSE elapsed + 1
      BY <1>11 DEF Tick
    <2>3. Types' /\ Position' /\ Returned'
      BY <2>1, <2>2
    <2>4. OnSchedule'
      <3>1. CASE reply.endless
        BY <2>1, <2>2, <3>1
      <3>2. CASE ~reply.endless
        <4>1. /\ Before(pc) \in Nat /\ waited \in Nat /\ elapsed \in Nat /\ Limit(pc) \in Nat
              /\ elapsed <= Before(pc) + waited /\ waited + 1 <= Limit(pc) /\ Limit(pc) <= 10
          BY <2>1
        <4>2. Before(pc) + Limit(pc) <= IF Framed THEN 24 ELSE 10 + 2 * (Length + 1)
          <5>1. CASE pc = "compression"
            BY <5>1
          <5>2. CASE pc \in {"encryption", "length", "payload"}
            BY <5>2
          <5>3. CASE pc = "legacy"
            <6>1. ~Framed /\ taken \in Nat /\ taken <= Length /\ Length \in Nat
              BY <5>3, LegacyFacts
            <6> HIDE DEF Length, IInv, Types, Position
            <6> QED
              BY <5>3, <6>1
          <5> QED
            BY <2>1, <5>1, <5>2, <5>3
        <4>3. elapsed' <= Before(pc) + waited' /\ waited' <= Limit(pc)
          BY <2>1, <2>2, <3>2, <4>1
        <4>4. elapsed' <= IF Framed THEN 24 ELSE 10 + 2 * (Length + 1)
          <5> HIDE DEF IInv, Types, Position, Before, Limit, ReadBounded, OnSchedule, Returned
          <5>1. elapsed' \in Nat /\ waited' \in Nat
            BY <2>2, <3>2, <2>1, <4>1
          <5>2. Length \in Nat
            BY ReplyFacts DEF IInv, Types
          <5> QED
            BY <4>1, <4>2, <4>3, <5>1, <5>2
        <4> QED
          BY <2>1, <3>2, <4>1, <4>3, <4>4
      <3> QED
        BY <3>1, <3>2
    <2> QED
      BY <2>3, <2>4
  <1>12. CASE UNCHANGED vars
    BY <1>12 DEF vars
  <1> QED
    BY <1>1, <1>2, <1>3, <1>4, <1>5, <1>6, <1>7, <1>8, <1>9, <1>10, <1>11, <1>12
    DEF Next, Read

LEMMA Inductive == Spec => []IInv
  BY InitIInv, NextIInv, PTL DEF Spec

\* The position, the clocks and the text of an exchange are always of their kinds.
THEOREM TypeInvariant == Spec => []TypeOK
  <1>1. IInv => TypeOK
    BY DEF IInv, Types, TypeOK, OnSchedule
  <1> QED
    BY Inductive, <1>1, PTL

\* read_response returns a framed reply whole or not at all, however long it is
\* and wherever the connection breaks.
THEOREM FramedReadsAreExact == Spec => []FramedReadIsExact
  BY Inductive, PTL DEF IInv, Returned

\* A tool call succeeds only with the whole of a reply that decodes.
THEOREM SuccessesAreComplete == Spec => []SuccessIsComplete
  BY Inductive, PTL DEF IInv, Returned

\* read_response takes at most 24 seconds for a framed reply, and at most 10
\* and 2 for each unit for a legacy one that comes to an end.
THEOREM ReadsAreBounded == Spec => []ReadBounded
  BY Inductive, PTL DEF IInv, OnSchedule

------------------------------------------------------------------------------
(* Liveness, as far as it is a matter of steps: what is left is a number     *)
(* that every step of the reader, and every second, takes something from.    *)

\* Legacy text is one await for each unit.
AwaitsLeft == CASE pc = "write" -> Length + 6        [] pc = "compression" -> Length + 5
                [] pc = "encryption" -> 4            [] pc = "length" -> 3
                [] pc = "payload" -> 2               [] pc = "legacy" -> Length - taken + 1
                [] OTHER -> 0

\* Each await is worth a second more than the longest limit.
ToGo == IF Outcome THEN 0 ELSE 11 * AwaitsLeft + Limit(pc) - waited

\* However pgmoneta cuts its reply into pieces, and whenever it hangs up, that
\* is no reason to read for longer; each read and each second is one less, save
\* for the reads of legacy text that has no end.
GetsNearer == /\ ToGo \in Nat
              /\ WriteRequest \/ Tick \/ (Read /\ ~Beyond) => ToGo' < ToGo
              /\ Deliver \/ Close => ToGo' = ToGo

ReadAdvances == [][GetsNearer]_vars

LEMMA ToGoIsNat == IInv => ToGo \in Nat
  <1> SUFFICES ASSUME IInv PROVE ToGo \in Nat
    OBVIOUS
  <1>1. Length \in Nat /\ taken \in Nat /\ taken <= Length /\ pc \in Awaits \cup Outcomes
    BY ReplyFacts DEF IInv, Types
  <1>2. ~Outcome => AwaitsLeft \in Nat \ {0} /\ waited \in Nat /\ waited <= Limit(pc)
    BY <1>1 DEF IInv, Types, OnSchedule, AwaitsLeft, Awaits, Outcomes, Outcome
  <1>3. Limit(pc) \in Nat
    BY DEF Limit
  <1> QED
    BY <1>2, <1>3 DEF ToGo

LEMMA StepGetsNearer == IInv /\ Next => GetsNearer
  <1> SUFFICES ASSUME IInv, Next PROVE GetsNearer
    OBVIOUS
  <1>1. UNCHANGED reply /\ UNCHANGED <<Framed, Header, Length>>
    BY DEF Next, Read, WriteRequest, ReadCompression, ReadEncryption, ReadLength,
           ReadPayload, ReadLegacyByte, Eof, Timeout, Deliver, Close, Tick, Framed, Header,
           Length
  <1>2. /\ Length \in Nat /\ taken \in Nat /\ taken <= arrived /\ arrived \in Nat
        /\ arrived <= Length /\ waited \in Nat
        /\ ~Outcome => waited <= Limit(pc)
        /\ pc = "compression" => taken = 0
    BY ReplyFacts DEF IInv, Types, OnSchedule, Position
  <1>3. ToGo \in Nat
    BY ToGoIsNat
  <1> USE <1>1, <1>2
      DEF ToGo, AwaitsLeft, Outcome, Outcomes, Limit, Await, Awaits
  <1>4. ASSUME WriteRequest PROVE ToGo' < ToGo
    BY <1>4 DEF WriteRequest
  <1>5. ASSUME ReadCompression PROVE ToGo' < ToGo
    BY <1>5 DEF ReadCompression, Has
  <1>6. ASSUME ReadEncryption PROVE ToGo' < ToGo
    BY <1>6 DEF ReadEncryption
  <1>7. ASSUME ReadLength PROVE ToGo' < ToGo
    BY <1>7 DEF ReadLength
  <1>8. ASSUME ReadPayload PROVE ToGo' < ToGo
    BY <1>8 DEF ReadPayload, Return
  <1>9. ASSUME ReadLegacyByte, ~Beyond PROVE ToGo' < ToGo
    BY <1>9 DEF ReadLegacyByte, Return, Has
  <1>10. ASSUME Eof \/ Timeout PROVE ToGo' < ToGo
    BY <1>10 DEF Eof, Timeout, Return
  <1>11. ASSUME Tick PROVE ToGo' < ToGo
    BY <1>11 DEF Tick, Expired
  <1>12. ASSUME Deliver \/ Close PROVE ToGo' = ToGo
    BY <1>12 DEF Deliver, Close
  <1> QED
    BY <1>3, <1>4, <1>5, <1>6, <1>7, <1>8, <1>9, <1>10, <1>11, <1>12 DEF GetsNearer, Read

\* read_response ends after so many reads and seconds of waiting, whatever
\* pgmoneta does between them, unless it reads beyond all bounds.
THEOREM ReadComesToAnEnd == Spec => ReadAdvances
  <1>1. IInv /\ [Next]_vars => [GetsNearer]_vars
    BY StepGetsNearer
  <1> QED
    BY <1>1, Inductive, PTL DEF Spec, ReadAdvances
==============================================================================
