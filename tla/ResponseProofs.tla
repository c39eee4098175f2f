---------------------------- MODULE ResponseProofs ----------------------------
(***************************************************************************)
(* The walk of _translate_result over a reply of any size and depth makes  *)
(* exactly the translation of the reply that is said without a walk, and   *)
(* the properties of the run follow from that.                             *)
(***************************************************************************)
EXTENDS Response, FiniteSetTheorems, SequenceTheorems, TLAPS

------------------------------------------------------------------------------
(* Paths                                                                     *)

LEMMA AbovePointwise ==
  ASSUME NEW q \in Seq(Steps), NEW p \in Seq(Steps)
  PROVE  Above(q, p) <=> Len(q) < Len(p) /\ \A i \in 1..Len(q) : q[i] = p[i]
  <1>1. Len(q) \in Nat /\ Len(p) \in Nat
    BY LenProperties
  <1>2. SubSeq(q, 1, Len(q)) = q
    BY SubSeqFull
  <1>3. CASE Len(q) <= Len(p)
    <2>1. /\ SubSeq(p, 1, Len(q)) \in Seq(Steps)
          /\ Len(SubSeq(p, 1, Len(q))) = Len(q)
          /\ \A i \in 1..Len(q) : SubSeq(p, 1, Len(q))[i] = p[i]
      BY <1>1, <1>3, SubSeqProperties
    <2>2. q = SubSeq(p, 1, Len(q)) <=> \A i \in 1..Len(q) : q[i] = p[i]
      BY <2>1, SeqEqual
    <2>3. Len(q) = Len(p) /\ q # p => q # SubSeq(p, 1, Len(q))
      BY SubSeqFull
    <2> QED
      BY <1>1, <1>2, <1>3, <2>2, <2>3 DEF Above, IsStrictPrefix, IsPrefix
  <1>4. CASE ~ (Len(q) <= Len(p))
    BY <1>1, <1>4 DEF Above, IsStrictPrefix, IsPrefix
  <1> QED
    BY <1>3, <1>4

LEMMA AboveIsTransitive ==
  ASSUME NEW a \in Seq(Steps), NEW b \in Seq(Steps), NEW c \in Seq(Steps),
         Above(a, b), Above(b, c)
  PROVE  Above(a, c)
  <1>1. Len(a) \in Nat /\ Len(b) \in Nat /\ Len(c) \in Nat
    BY LenProperties
  <1> QED
    BY <1>1, AbovePointwise

\* What is at a path is not in itself.
LEMMA NotAboveItself ==
  ASSUME NEW p
  PROVE  ~ Above(p, p)
  BY DEF Above, IsStrictPrefix

\* The places that a value is in lie on one line.
LEMMA AboveIsLinear ==
  ASSUME NEW a \in Seq(Steps), NEW b \in Seq(Steps), NEW p \in Seq(Steps),
         Above(a, p), b = p \/ Above(b, p)
  PROVE  a = b \/ Above(a, b) \/ Above(b, a)
  <1>1. Len(a) \in Nat /\ Len(b) \in Nat /\ Len(p) \in Nat
    BY LenProperties
  <1>2. /\ Len(a) < Len(p) /\ \A i \in 1..Len(a) : a[i] = p[i]
        /\ Len(b) <= Len(p) /\ \A i \in 1..Len(b) : b[i] = p[i]
    BY <1>1, AbovePointwise
  <1>3. CASE Len(a) = Len(b)
    BY <1>1, <1>2, <1>3, SeqEqual
  <1>4. CASE Len(a) < Len(b)
    BY <1>1, <1>2, <1>4, AbovePointwise
  <1>5. CASE Len(b) < Len(a)
    BY <1>1, <1>2, <1>5, AbovePointwise
  <1> QED
    BY <1>1, <1>3, <1>4, <1>5

\* Siblings are in the same values.
LEMMA SiblingsShareWhatIsAbove ==
  ASSUME NEW p \in Seq(Steps), NEW q \in Seq(Steps), Siblings(p, q),
         NEW a \in Seq(Steps)
  PROVE  Above(a, p) <=> Above(a, q)
  <1>1. Len(a) \in Nat /\ Len(p) \in Nat /\ Len(q) \in Nat
    BY LenProperties
  <1> QED
    BY <1>1, AbovePointwise DEF Siblings

\* A path comes before another in one order only.
LEMMA BeforeIsAsymmetric ==
  ASSUME NEW p \in Seq(Steps), NEW q \in Seq(Steps)
  PROVE  ~ (Before(p, q) /\ Before(q, p))
  <1>1. \A s, t \in Steps : ~ (StepBefore(s, t) /\ StepBefore(t, s))
    <2> SUFFICES ASSUME NEW s \in Steps, NEW t \in Steps,
                        StepBefore(s, t), StepBefore(t, s)
                 PROVE  FALSE
      OBVIOUS
    <2>1. CASE IsKey(s)
      <3>1. IsKey(t) /\ s.key \in Range(Fields) /\ t.key \in Range(Fields)
        BY <2>1 DEF StepBefore, Steps, IsKey
      <3>2. \A k \in Range(Fields) : ByteOrder(k) \in Int
        <4>1. DOMAIN Fields \subseteq Int
          BY FieldsAreNames, LenProperties
        <4>2. ASSUME NEW k \in Range(Fields)
              PROVE  ByteOrder(k) \in DOMAIN Fields
          BY DEF ByteOrder, Range
        <4> QED
          BY <4>1, <4>2
      <3> QED
        BY <2>1, <3>1, <3>2 DEF StepBefore
    <2>2. CASE ~ IsKey(s)
      <3>1. ~ IsKey(t) /\ s.index \in Nat /\ t.index \in Nat
        BY <2>2 DEF StepBefore, Steps, IsKey
      <3> QED
        BY <2>2, <3>1 DEF StepBefore
    <2> QED
      BY <2>1, <2>2
  <1>2. \A s \in Steps : ~ StepBefore(s, s)
    BY <1>1
  <1> SUFFICES ASSUME Before(p, q), Before(q, p) PROVE FALSE
    OBVIOUS
  <1>3. DOMAIN p = 1..Len(p) /\ DOMAIN q = 1..Len(q) /\ Len(p) \in Nat /\ Len(q) \in Nat
    BY LenProperties
  <1>4. /\ \A i \in DOMAIN p : p[i] \in Steps
        /\ \A i \in DOMAIN q : q[i] \in Steps
    BY <1>3, ElementOfSeq
  <1>5. PICK i \in DOMAIN p \cap DOMAIN q :
            StepBefore(p[i], q[i]) /\ \A j \in 1..i-1 : p[j] = q[j]
    BY DEF Before
  <1>6. PICK k \in DOMAIN q \cap DOMAIN p :
            StepBefore(q[k], p[k]) /\ \A j \in 1..k-1 : q[j] = p[j]
    BY DEF Before
  <1>7. i = k
    BY <1>2, <1>3, <1>4, <1>5, <1>6
  <1> QED
    BY <1>1, <1>4, <1>5, <1>6, <1>7

LEMMA ChildrenAreBelow ==
  ASSUME NEW d, IsDocument(d), NEW p \in DOMAIN d, NEW c \in Children(d, p),
         NEW q \in DOMAIN d
  PROVE  Above(q, c) <=> q = p \/ Above(q, p)
  <1>1. p \in Seq(Steps) /\ c \in Seq(Steps) /\ q \in Seq(Steps)
    BY DEF IsDocument, Children
  <1>2. Len(p) \in Nat /\ Len(c) = Len(p) + 1 /\ Above(p, c) /\ Len(q) \in Nat
    BY <1>1, LenProperties DEF Children
  <1>3. ASSUME Above(q, c)
        PROVE  q = p \/ Above(q, p)
    <2>1. ~ Above(p, q)
      BY <1>1, <1>2, <1>3, LenProperties, AbovePointwise
    <2> QED
      BY <1>1, <1>2, <1>3, <2>1, AboveIsLinear
  <1> QED
    BY <1>1, <1>2, <1>3, AboveIsTransitive

\* A value is in values of the document, each an object or an array, and in one
\* of the children of each.
LEMMA WhatIsAboveIsThere ==
  ASSUME NEW d, IsDocument(d), NEW p \in DOMAIN d, NEW q \in Seq(Steps), Above(q, p)
  PROVE  /\ q \in DOMAIN d
         /\ IF IsKey(p[Len(q) + 1]) THEN IsObj(d[q]) ELSE IsArr(d[q])
         /\ \E c \in Children(d, q) : c = p \/ Above(c, p)
  <1> DEFINE c == SubSeq(p, 1, Len(q) + 1)
  <1>1. /\ p \in Seq(Steps) /\ Len(p) \in Nat /\ Len(q) \in Nat
        /\ Len(q) < Len(p) /\ \A i \in 1..Len(q) : q[i] = p[i]
    BY LenProperties, AbovePointwise DEF IsDocument
  <1>2. \A n \in 1..Len(p) :
            /\ SubSeq(p, 1, n - 1) \in DOMAIN d
            /\ IF IsKey(p[n]) THEN IsObj(d[SubSeq(p, 1, n - 1)])
                              ELSE IsArr(d[SubSeq(p, 1, n - 1)])
    BY DEF IsDocument
  <1>3. SubSeq(p, 1, Len(q)) = q
    <2>1. /\ SubSeq(p, 1, Len(q)) \in Seq(Steps)
          /\ Len(SubSeq(p, 1, Len(q))) = Len(q)
          /\ \A i \in 1..Len(q) : SubSeq(p, 1, Len(q))[i] = p[i]
      BY <1>1, SubSeqProperties
    <2> QED
      BY <1>1, <2>1, SeqEqual
  <1>4. /\ c \in Seq(Steps)
        /\ Len(c) = Len(q) + 1
        /\ \A i \in 1..Len(c) : c[i] = p[i]
    BY <1>1, SubSeqProperties
  <1>5. q \in DOMAIN d /\ IF IsKey(p[Len(q) + 1]) THEN IsObj(d[q]) ELSE IsArr(d[q])
    <2>1. Len(q) + 1 \in 1..Len(p) /\ (Len(q) + 1) - 1 = Len(q)
      BY <1>1
    <2> QED
      BY <1>2, <1>3, <2>1
  <1>6. c \in DOMAIN d /\ (c = p \/ Above(c, p))
    <2>1. CASE Len(p) = Len(q) + 1
      BY <1>1, <2>1, SubSeqFull
    <2>2. CASE Len(p) > Len(q) + 1
      <3>1. Len(q) + 2 \in 1..Len(p) /\ (Len(q) + 2) - 1 = Len(q) + 1
        BY <1>1, <2>2
      <3> HIDE DEF c
      <3>2. Above(c, p)
        BY <1>1, <1>4, <2>2, AbovePointwise
      <3> QED
        BY <1>2, <3>1, <3>2 DEF c
    <2> QED
      BY <1>1, <2>1, <2>2
  <1> HIDE DEF c
  <1>7. Above(q, c)
    BY <1>1, <1>4, AbovePointwise
  <1> QED
    BY <1>4, <1>5, <1>6, <1>7 DEF Children

------------------------------------------------------------------------------
(* What is kept, and how it is translated                                    *)

LEMMA FieldNames ==
  ASSUME NEW p
  PROVE  /\ FieldIn(p, NumberFields) => ~ FieldIn(p, {"Backups"})
         /\ FieldIn(p, NumberFields \cup {"Backups"})
                <=> FieldIn(p, NumberFields) \/ FieldIn(p, {"Backups"})
         /\ FieldIn(p, NumberFields) => p[Len(p)].key \in NumberFields
  BY DEF FieldIn, NumberFields, FileSizeFields, HexStringFields

LEMMA OneObjectLabel ==
  ASSUME NEW v, v \in {Object, Array} \/ IsText(v) \/ IsNum(v), IsObj(v)
  PROVE  v = Object
  BY DEF IsObj, IsText, IsNum, Array, Object

LEMMA TranslatedGoesUp ==
  ASSUME NEW d, IsDocument(d), NEW p \in DOMAIN d, NEW q \in DOMAIN d,
         Above(q, p), Translated(d, p)
  PROVE  Translated(d, q) /\ Open(d, q)
  <1>1. \A a \in DOMAIN d : a \in Seq(Steps)
    BY DEF IsDocument
  <1> QED
    BY <1>1, AboveIsTransitive DEF Translated

LEMMA TranslatedGoesDown ==
  ASSUME NEW d, IsDocument(d), NEW p \in DOMAIN d, NEW c \in Children(d, p),
         Translated(d, p), Open(d, p)
  PROVE  Translated(d, c)
  BY ChildrenAreBelow DEF Translated

LEMMA KeptGoesUp ==
  ASSUME NEW d, IsDocument(d), NEW p \in Kept(d), NEW q \in DOMAIN d, Above(q, p)
  PROVE  q \in Kept(d)
  <1>1. \A a \in DOMAIN d : a \in Seq(Steps)
    BY DEF IsDocument
  <1>2. \A a \in DOMAIN d : Above(a, q) => Above(a, p)
    BY <1>1, AboveIsTransitive DEF Kept
  <1> QED
    BY <1>2 DEF Kept, Lost, InNoList

\* What is in a value that the loops do not go through is kept with it, as it is.
LEMMA ClonedWithItsValue ==
  ASSUME NEW d, IsDocument(d), NEW p \in Kept(d), NEW c \in DOMAIN d, Above(p, c),
         ~ Open(d, p), ~ FieldIn(p, {"Backups"})
  PROVE  c \in Kept(d) /\ Translation(d, c) = d[c]
  <1>1. p \in DOMAIN d /\ ~ Lost(d, p) /\ \A a \in DOMAIN d : a \in Seq(Steps)
    BY DEF IsDocument, Kept
  <1>2. ~ Translated(d, c)
    BY <1>1 DEF Translated
  <1>3. ASSUME NEW q \in DOMAIN d, Translated(d, q), q = c \/ Above(q, c)
        PROVE  q = p \/ Above(q, p)
    <2>1. ~ Above(p, q)
      BY <1>1, <1>3 DEF Translated
    <2> QED
      BY <1>1, <1>3, <2>1, AboveIsLinear
  <1>4. ~ Lost(d, c)
    <2>1. ASSUME NEW q \in DOMAIN d, InNoList(d, q, c) PROVE FALSE
      BY <1>1, <1>3, <2>1 DEF InNoList, Lost
    <2>2. ASSUME NEW q \in DOMAIN d, AfterBackups(d, q), q = c \/ Above(q, c) PROVE FALSE
      BY <1>1, <1>3, <2>2 DEF AfterBackups, Lost
    <2> QED
      BY <2>1, <2>2 DEF Lost
  <1> QED
    BY <1>2, <1>4 DEF Kept, Translation

\* A number has a text, or fails the call; it panics only if it is no u64.
LEMMA NumbersBecomeText ==
  ASSUME NEW k \in NumberFields, NEW v
  PROVE  /\ NumberText(k, v) = Panic <=> ~ IsU64(v)
         /\ Failed(NumberText(k, v))
                \/ DOMAIN NumberText(k, v) \in {{"size"}, {"hex"}, {"text"}, {"error"}}
  <1>1. CASE ~ IsU64(v)
    BY <1>1 DEF NumberText, Failed
  <1>2. CASE IsU64(v)
    <2>1. Err # Panic /\ \A t : Text(t) # Panic /\ DOMAIN Text(t) = {"text"}
      <3>1. DOMAIN Panic = {"panic"} /\ DOMAIN Err = {"err"}
        BY DEF Panic, Err
      <3>2. \A t : DOMAIN Text(t) = {"text"}
        BY DEF Text
      <3> QED
        BY <3>1, <3>2
    <2>2. \A t : DOMAIN [size |-> t] = {"size"} /\ DOMAIN [hex |-> t] = {"hex"}
                     /\ DOMAIN [error |-> t] = {"error"}
      OBVIOUS
    <2>3. \A names, i : Lookup(names, i) = Err \/ \E t : Lookup(names, i) = Text(t)
      BY DEF Lookup
    <2>4. \A n : \E t : ErrorText(n) = Text(t) \/ ErrorText(n) = [error |-> t]
      BY DEF ErrorText
    <2>5. DOMAIN Panic = {"panic"}
      BY DEF Panic
    <2>6. CASE k \in FileSizeFields
      <3>1. k \notin HexStringFields \cup {"Compression", "Encryption", "Command", "Error"}
        BY <2>6 DEF FileSizeFields, HexStringFields
      <3>2. NumberText(k, v) = [size |-> v.num]
        BY <1>2, <2>6, <3>1 DEF NumberText
      <3> QED
        BY <1>2, <2>2, <2>5, <3>2
    <2>7. CASE k \in HexStringFields
      <3>1. k \notin FileSizeFields \cup {"Compression", "Encryption", "Command", "Error"}
        BY <2>7 DEF FileSizeFields, HexStringFields
      <3>2. NumberText(k, v) = [hex |-> v.num]
        BY <1>2, <2>7, <3>1 DEF NumberText
      <3> QED
        BY <1>2, <2>2, <2>5, <3>2
    <2>8. CASE k = "Compression"
      <3>1. NumberText(k, v) = CompressionText(v.num)
        BY <1>2, <2>8 DEF NumberText, FileSizeFields, HexStringFields
      <3> QED
        BY <1>2, <2>1, <2>3, <3>1 DEF CompressionText, Failed
    <2>9. CASE k = "Encryption"
      <3>1. NumberText(k, v) = EncryptionText(v.num)
        BY <1>2, <2>9 DEF NumberText, FileSizeFields, HexStringFields
      <3> QED
        BY <1>2, <2>1, <2>3, <3>1 DEF EncryptionText, Failed
    <2>10. CASE k = "Command"
      <3>1. NumberText(k, v) = CommandText(v.num)
        BY <1>2, <2>10 DEF NumberText, FileSizeFields, HexStringFields
      <3> QED
        BY <1>2, <2>1, <2>3, <3>1 DEF CommandText, Failed
    <2>11. CASE k = "Error"
      <3>1. NumberText(k, v) = ErrorText(v.num)
        BY <1>2, <2>11 DEF NumberText, FileSizeFields, HexStringFields
      <3> QED
        BY <1>2, <2>1, <2>2, <2>4, <2>5, <3>1
    <2> QED
      BY <2>6, <2>7, <2>8, <2>9, <2>10, <2>11 DEF NumberFields
  <1> QED
    BY <1>1, <1>2

------------------------------------------------------------------------------
(* The inductive invariant                                                   *)

\* What is written is kept, and translated.
WrittenRight == \A p \in DOMAIN trans_res :
    p \in Kept(reply) /\ trans_res[p] = Translation(reply, p)

\* What is left to visit is in the translated part of the reply, in values that
\* are written.
LeftInWritten == \A p \in todo :
    /\ p # <<>> /\ Translated(reply, p)
    /\ \A q \in DOMAIN reply : Above(q, p) => q \in DOMAIN trans_res

\* A Backups is visited before the fields that follow it.
BackupsFirst == \A p \in todo, b \in DOMAIN reply :
    FieldIn(b, {"Backups"}) /\ Siblings(b, p) /\ Before(b, p) => b \in todo

\* What is kept is written, or left to visit, or in something that is.
NothingForgotten == \A p \in Kept(reply) :
    p \in DOMAIN trans_res \/ \E q \in todo : q = p \/ Above(q, p)

\* What is written is in values that are written, and is not visited again.
WrittenOnce ==
    /\ \A p \in DOMAIN trans_res, q \in DOMAIN reply : Above(q, p) => q \in DOMAIN trans_res
    /\ todo \cap DOMAIN trans_res = {}

Walk == /\ IsDocument(reply) /\ Parsed
        /\ WrittenRight /\ LeftInWritten /\ BackupsFirst /\ NothingForgotten /\ WrittenOnce

IInv == /\ TypeOK
        /\ trans_res = [p \in DOMAIN trans_res |-> trans_res[p]]
        /\ result \in {"walking", "ok"} => Walk
        /\ result = "pending" => DOMAIN trans_res = {}
        /\ result = "ok" => todo = {}
        /\ result = "panic" => ~ WellTyped(reply)

LEMMA InitGivesIInv == Init => IInv
  BY RepliesAreDocuments DEF Init, IInv, TypeOK, NotJson

\* Whoever's turn it is has not been lost, and the loops are where it is.
LEMMA TurnIsKept ==
  ASSUME IInv, NEW p, Turn(p)
  PROVE  /\ IsDocument(reply) /\ Walk /\ p \in todo /\ result = "walking"
         /\ p \in DOMAIN reply /\ p \in Kept(reply) /\ Translated(reply, p)
  <1>1. /\ IsDocument(reply) /\ Walk /\ p \in todo /\ result = "walking"
        /\ p \in DOMAIN reply /\ Translated(reply, p) /\ todo \subseteq DOMAIN reply
    BY DEF IInv, TypeOK, Walk, LeftInWritten, Turn
  <1>2. \A a \in DOMAIN reply : a \in Seq(Steps)
    BY <1>1 DEF IsDocument
  <1>3. \A q \in DOMAIN reply : ~ InNoList(reply, q, p)
    BY <1>1 DEF InNoList, Translated, Open
  <1>4. ~ AfterBackups(reply, p)
    <2> SUFFICES ASSUME AfterBackups(reply, p) PROVE FALSE
      OBVIOUS
    <2>1. PICK b \in DOMAIN reply : FieldIn(b, {"Backups"}) /\ Siblings(b, p) /\ Before(b, p)
      BY DEF AfterBackups
    <2>2. b \in todo
      BY <1>1, <2>1 DEF Walk, BackupsFirst
    <2>3. p = b \/ Before(p, b)
      BY <2>2 DEF Turn
    <2> QED
      BY <1>1, <1>2, <2>1, <2>3, BeforeIsAsymmetric
  <1>5. \A q \in DOMAIN reply : Above(q, p) => ~ AfterBackups(reply, q)
    <2> SUFFICES ASSUME NEW q \in DOMAIN reply, Above(q, p) PROVE ~ AfterBackups(reply, q)
      OBVIOUS
    <2>1. q \in Kept(reply)
      BY <1>1 DEF Walk, LeftInWritten, WrittenRight
    <2> QED
      BY <2>1 DEF Kept, Lost
  <1>6. p \in Kept(reply)
    BY <1>1, <1>3, <1>4, <1>5 DEF Kept, Lost
  <1> QED
    BY <1>1, <1>6

\* A visit of p writes W, which is p and maybe all that is in it, each as it should
\* be; leaves Rest of what was to come, and goes on to Below; and forgets nothing
\* of what is kept.
Visits(p, W, Rest, Below) ==
    /\ Turn(p) /\ UNCHANGED <<reply, result>>
    /\ p \in W /\ W \subseteq Kept(reply) /\ \A r \in W : r = p \/ Above(p, r)
    /\ \A q \in DOMAIN reply : Above(p, q) => q \in W \/ W = {p}
    /\ trans_res' = [q \in DOMAIN trans_res \cup W |-> trans_res'[q]]
    /\ \A q \in W : trans_res'[q] = Translation(reply, q) /\ DOMAIN trans_res'[q] \in Labels
    /\ \A q \in DOMAIN trans_res \ W : trans_res'[q] = trans_res[q]
    /\ todo' = Rest \cup Below /\ Rest \subseteq todo \ {p}
    /\ Below = {} \/ (Below = Children(reply, p) /\ Open(reply, p) /\ W = {p})
    /\ \A q \in Rest, b \in todo : FieldIn(b, {"Backups"}) /\ Siblings(b, q) => b \in Rest
    /\ \A q \in todo \ Rest, r \in Kept(reply) :
           q = r \/ Above(q, r) => r \in W \/ \E c \in Below : c = r \/ Above(c, r)

LEMMA VisitKeepsIInv ==
  ASSUME IInv, NEW p, NEW W, NEW Rest, NEW Below, Visits(p, W, Rest, Below)
  PROVE  IInv'
  <1> USE DEF Visits
  <1>1. /\ IsDocument(reply) /\ Walk /\ p \in todo /\ result = "walking" /\ TypeOK
        /\ p \in DOMAIN reply /\ p \in Kept(reply) /\ Translated(reply, p)
    BY TurnIsKept DEF IInv
  <1>2. Kept(reply) \subseteq DOMAIN reply /\ Below \subseteq DOMAIN reply
    BY DEF Kept, Children
  <1>3. TypeOK'
    <2>1. todo' \cup DOMAIN trans_res' \subseteq DOMAIN reply'
      BY <1>1, <1>2 DEF TypeOK
    <2>2. \A q \in DOMAIN trans_res' : DOMAIN trans_res'[q] \in Labels
      BY <1>1 DEF TypeOK
    <2>3. (reply = NotJson \/ IsDocument(reply)) => (reply = NotJson \/ IsDocument(reply))'
      BY DEF IsDocument, NotJson
    <2> QED
      BY <1>1, <2>1, <2>2, <2>3 DEF TypeOK
  <1>4. WrittenRight'
    <2>1. ASSUME NEW q \in DOMAIN trans_res'
          PROVE  q \in Kept(reply) /\ trans_res'[q] = Translation(reply, q)
      BY <1>1 DEF Walk, WrittenRight
    <2> QED
      BY <2>1 DEF WrittenRight
  <1>5. LeftInWritten'
    <2> SUFFICES ASSUME NEW q \in todo'
                 PROVE  /\ q # <<>> /\ Translated(reply, q)
                        /\ \A a \in DOMAIN reply : Above(a, q) => a \in DOMAIN trans_res'
      BY DEF LeftInWritten
    <2>1. CASE q \in Rest
      BY <1>1, <2>1 DEF Walk, LeftInWritten
    <2>2. CASE q \in Below
      <3>1. q \in Children(reply, p) /\ Open(reply, p)
        BY <2>2
      <3>2. q # <<>>
        <4>1. p \in Seq(Steps) /\ Len(q) = Len(p) + 1
          BY <1>1, <3>1 DEF IsDocument, Children
        <4> QED
          BY <4>1, EmptySeq, LenProperties
      <3>3. Translated(reply, q)
        BY <1>1, <3>1, TranslatedGoesDown
      <3>4. \A a \in DOMAIN reply : Above(a, q) => a = p \/ Above(a, p)
        BY <1>1, <3>1, ChildrenAreBelow
      <3> QED
        BY <1>1, <3>2, <3>3, <3>4 DEF Walk, LeftInWritten
    <2> QED
      BY <2>1, <2>2
  <1>6. BackupsFirst'
    <2> SUFFICES ASSUME NEW q \in todo', NEW b \in DOMAIN reply,
                        FieldIn(b, {"Backups"}), Siblings(b, q), Before(b, q)
                 PROVE  b \in todo'
      BY DEF BackupsFirst
    <2>1. CASE q \in Rest
      BY <1>1, <2>1 DEF Walk, BackupsFirst
    <2>2. CASE q \in Below
      <3>1. q \in Children(reply, p) /\ Below = Children(reply, p)
        BY <2>2
      <3>2. /\ b \in Seq(Steps) /\ q \in Seq(Steps) /\ p \in Seq(Steps)
            /\ Len(b) = Len(q) /\ Len(q) = Len(p) + 1 /\ Above(p, q)
        BY <1>1, <3>1 DEF IsDocument, Children, Siblings
      <3>3. Above(p, b)
        <4>1. Siblings(q, b)
          BY <3>2, EmptySeq, LenProperties DEF Siblings
        <4> QED
          BY <3>2, <4>1, SiblingsShareWhatIsAbove
      <3> QED
        BY <3>1, <3>2, <3>3 DEF Children
    <2> QED
      BY <2>1, <2>2
  <1>7. NothingForgotten'
    <2> SUFFICES ASSUME NEW r \in Kept(reply)
                 PROVE  r \in DOMAIN trans_res' \/ \E q \in todo' : q = r \/ Above(q, r)
      BY DEF NothingForgotten
    <2>1. r \in DOMAIN trans_res \/ \E q \in todo : q = r \/ Above(q, r)
      BY <1>1 DEF Walk, NothingForgotten
    <2> QED
      BY <2>1
  <1>8. \A a \in DOMAIN reply : a \in Seq(Steps)
    BY <1>1 DEF IsDocument
  <1>9. WrittenOnce'
    <2>1. ASSUME NEW r \in DOMAIN trans_res', NEW q \in DOMAIN reply, Above(q, r)
          PROVE  q \in DOMAIN trans_res'
      <3>1. CASE r \in DOMAIN trans_res
        BY <1>1, <2>1, <3>1 DEF Walk, WrittenOnce
      <3>2. CASE r \in W
        <4>1. q = p \/ Above(q, p) \/ Above(p, q)
          BY <1>1, <1>2, <1>8, <2>1, <3>2, AboveIsLinear
        <4> QED
          BY <1>1, <2>1, <3>2, <4>1 DEF Walk, LeftInWritten
      <3> QED
        BY <3>1, <3>2
    <2>2. ASSUME NEW r \in todo', r \in DOMAIN trans_res'
          PROVE  FALSE
      <3>1. p \notin DOMAIN trans_res
        BY <1>1 DEF Walk, WrittenOnce
      <3>2. CASE r \in Rest
        BY <1>1, <2>2, <3>1, <3>2 DEF Walk, WrittenOnce, LeftInWritten
      <3>3. CASE r \in Below
        <4>1. W = {p} /\ Above(p, r) /\ r # p
          BY <3>3, NotAboveItself DEF Children
        <4> QED
          BY <1>1, <2>2, <3>1, <4>1 DEF Walk, WrittenOnce
      <3> QED
        BY <2>2, <3>2, <3>3
    <2> QED
      BY <2>1, <2>2 DEF WrittenOnce
  <1>10. Walk'
    BY <1>1, <1>4, <1>5, <1>6, <1>7, <1>9 DEF Walk, Parsed, IsDocument
  <1>11. trans_res' = [q \in DOMAIN trans_res' |-> trans_res'[q]]
    OBVIOUS
  <1> QED
    BY <1>1, <1>3, <1>10, <1>11 DEF IInv

LEMMA NumberKeepsIInv ==
  ASSUME IInv, NEW p, TranslateNumber(p)
  PROVE  IInv'
  <1> DEFINE v == NumberText(p[Len(p)].key, reply[p])
  <1>1. /\ Turn(p) /\ FieldIn(p, NumberFields) /\ UNCHANGED reply
        /\ IF Failed(v) THEN Goto(IF v = Panic THEN "panic" ELSE "error")
           ELSE Insert(p, v) /\ todo' = todo \ {p} /\ UNCHANGED result
    BY DEF TranslateNumber
  <1>2. /\ IsDocument(reply) /\ Walk /\ p \in todo /\ result = "walking"
        /\ p \in DOMAIN reply /\ p \in Kept(reply) /\ Translated(reply, p)
    BY <1>1, TurnIsKept
  <1>3. p[Len(p)].key \in NumberFields /\ ~ FieldIn(p, {"Backups"})
    BY <1>1, FieldNames
  <1>4. /\ v = Panic <=> ~ IsU64(reply[p])
        /\ Failed(v) \/ DOMAIN v \in {{"size"}, {"hex"}, {"text"}, {"error"}}
    BY <1>3, NumbersBecomeText
  <1> HIDE DEF v
  <1>5. CASE Failed(v)
    <2>1. /\ result' = IF v = Panic THEN "panic" ELSE "error"
          /\ UNCHANGED <<reply, todo, trans_res>>
      BY <1>1, <1>5 DEF Goto
    <2>2. result' = "panic" => ~ WellTyped(reply)
      BY <1>1, <1>2, <1>4, <2>1 DEF WellTyped
    <2>3. TypeOK'
      BY <2>1 DEF IInv, TypeOK, IsDocument, NotJson
    <2>4. trans_res' = [q \in DOMAIN trans_res' |-> trans_res'[q]]
      BY <2>1 DEF IInv
    <2>5. result' \in {"panic", "error"} /\ (WellTyped(reply))' <=> WellTyped(reply)
      BY <2>1 DEF WellTyped
    <2> QED
      BY <2>1, <2>2, <2>3, <2>4, <2>5 DEF IInv
  <1>6. CASE ~ Failed(v)
    <2>1. Insert(p, v) /\ todo' = todo \ {p} /\ UNCHANGED result
      BY <1>1, <1>6
    <2>2. v = Translation(reply, p)
      BY <1>1, <1>2, <1>3 DEF Translation, v
    <2>3. DOMAIN v \in Labels
      BY <1>4, <1>6 DEF Labels
    <2>4. ~ \E r \in DOMAIN reply : Above(p, r)
      <3>1. ~ IsObj(reply[p]) /\ ~ IsArr(reply[p])
        BY <1>4, <1>6 DEF IsU64, IsNum, IsObj, IsArr, Failed
      <3>2. p \in Seq(Steps)
        BY <1>2 DEF IsDocument
      <3> QED
        BY <1>2, <3>1, <3>2, WhatIsAboveIsThere
    <2> DEFINE W == {p}
               Rest == todo \ {p}
               Below == {}
    <2>5. \A q \in Rest, b \in todo :
              FieldIn(b, {"Backups"}) /\ Siblings(b, q) => b \in Rest
      BY <1>3
    <2>6. \A q \in todo \ Rest, r \in Kept(reply) : q = r \/ Above(q, r) =>
              r \in W \/ \E c \in Below : c = r \/ Above(c, r)
      BY <2>4 DEF Kept
    <2>7. /\ trans_res' = [q \in DOMAIN trans_res \cup W |-> trans_res'[q]]
          /\ \A q \in W : /\ trans_res'[q] = Translation(reply, q)
                          /\ DOMAIN trans_res'[q] \in Labels
          /\ \A q \in DOMAIN trans_res \ W : trans_res'[q] = trans_res[q]
      BY <2>1, <2>2, <2>3 DEF Insert
    <2>8. /\ p \in W /\ W \subseteq Kept(reply)
          /\ todo' = Rest \cup Below /\ Rest \subseteq todo \ {p}
          /\ \A r \in W : r = p
      BY <1>2, <2>1
    <2>9. Below = {}
      OBVIOUS
    <2> HIDE DEF W, Rest, Below
    <2>10. W = {p}
      BY <2>8
    <2>11. Visits(p, W, Rest, Below)
      BY <1>1, <2>1, <2>5, <2>6, <2>7, <2>8, <2>9, <2>10 DEF Visits
    <2> QED
      BY <2>11, VisitKeepsIInv
  <1> QED
    BY <1>5, <1>6

LEMMA ObjectKeepsIInv ==
  ASSUME IInv, NEW p, TranslateObject(p)
  PROVE  IInv'
  <1>1. /\ Turn(p) /\ Nested(p) /\ Insert(p, Object) /\ UNCHANGED <<reply, result>>
        /\ todo' = (todo \ {p}) \cup Children(reply, p)
    BY DEF TranslateObject
  <1>2. /\ IsDocument(reply) /\ Walk /\ p \in todo
        /\ p \in DOMAIN reply /\ p \in Kept(reply) /\ Translated(reply, p)
    BY <1>1, TurnIsKept
  <1>3. ~ FieldIn(p, NumberFields) /\ ~ FieldIn(p, {"Backups"}) /\ IsObj(reply[p])
    BY <1>1, FieldNames DEF Nested
  <1>4. Object = Translation(reply, p) /\ DOMAIN Object \in Labels
    <2>1. reply[p] = Object
      <3>1. reply[p] \in {Object, Array} \/ IsText(reply[p]) \/ IsNum(reply[p])
        BY <1>2 DEF IsDocument
      <3> QED
        BY <1>3, <3>1, OneObjectLabel
    <2> QED
      BY <1>2, <1>3, <2>1 DEF Translation, Object, Labels
  <1> DEFINE W == {p}
             Rest == todo \ {p}
             Below == Children(reply, p)
  <1>5. Open(reply, p)
    BY <1>3 DEF Open
  <1>6. \A q \in todo \ Rest, r \in Kept(reply) : q = r \/ Above(q, r) =>
            r \in W \/ \E c \in Below : c = r \/ Above(c, r)
    BY <1>2, WhatIsAboveIsThere DEF Kept, IsDocument
  <1>7. /\ trans_res' = [q \in DOMAIN trans_res \cup W |-> trans_res'[q]]
        /\ \A q \in W : /\ trans_res'[q] = Translation(reply, q)
                        /\ DOMAIN trans_res'[q] \in Labels
        /\ \A q \in DOMAIN trans_res \ W : trans_res'[q] = trans_res[q]
    BY <1>1, <1>4 DEF Insert
  <1>8. /\ p \in W /\ W \subseteq Kept(reply) /\ W = {p}
        /\ todo' = Rest \cup Below /\ Rest \subseteq todo \ {p}
        /\ \A q \in Rest, b \in todo : FieldIn(b, {"Backups"}) /\ Siblings(b, q) => b \in Rest
    BY <1>1, <1>2, <1>3
  <1> HIDE DEF W, Rest, Below
  <1>9. Visits(p, W, Rest, Below)
    BY <1>1, <1>5, <1>6, <1>7, <1>8 DEF Visits, Below
  <1> QED
    BY <1>9, VisitKeepsIInv

LEMMA BackupsKeepsIInv ==
  ASSUME IInv, NEW p, TranslateBackups(p)
  PROVE  IInv'
  <1>1. /\ Turn(p) /\ FieldIn(p, {"Backups"}) /\ Insert(p, Array) /\ UNCHANGED <<reply, result>>
        /\ todo' = Return(p) \cup Items(p)
    BY DEF TranslateBackups
  <1>2. /\ IsDocument(reply) /\ Walk /\ p \in todo /\ todo \subseteq DOMAIN reply
        /\ p \in DOMAIN reply /\ p \in Kept(reply) /\ Translated(reply, p)
    BY <1>1, TurnIsKept DEF IInv, TypeOK
  <1>3. \A a \in DOMAIN reply : a \in Seq(Steps)
    BY <1>2 DEF IsDocument
  <1>4. Array = Translation(reply, p) /\ DOMAIN Array \in Labels
    BY <1>1, <1>2, FieldNames DEF Translation, Array, Labels
  <1> DEFINE W == {p}
             Rest == Return(p)
             Below == Items(p)
  <1>5. Below = {} \/ (Below = Children(reply, p) /\ Open(reply, p))
    BY <1>1 DEF Items, Open
  <1>6. ASSUME NEW q \in todo \ Rest, NEW r \in Kept(reply), q = r \/ Above(q, r)
        PROVE  r \in W \/ \E c \in Below : c = r \/ Above(c, r)
    <2>1. q \in todo /\ Siblings(p, q) /\ r \in DOMAIN reply /\ ~ Lost(reply, r)
      BY DEF Return, Kept
    <2>2. CASE q = p
      <3>1. CASE IsArr(reply[p])
        BY <1>2, <1>3, <1>6, <2>1, <2>2, <3>1, WhatIsAboveIsThere DEF Items
      <3>2. CASE ~ IsArr(reply[p])
        BY <1>1, <1>2, <1>6, <2>1, <2>2, <3>2 DEF Lost, InNoList
      <3> QED
        BY <3>1, <3>2
    <2>3. CASE q # p
      <3>1. Before(p, q)
        BY <1>1, <2>1, <2>3 DEF Turn
      <3>2. Translated(reply, q)
        BY <1>2, <2>1 DEF Walk, LeftInWritten
      <3>3. AfterBackups(reply, q)
        BY <1>1, <1>2, <2>1, <3>1, <3>2 DEF AfterBackups
      <3> QED
        BY <1>2, <1>6, <2>1, <3>3 DEF Lost
    <2> QED
      BY <2>2, <2>3
  <1>7. /\ trans_res' = [q \in DOMAIN trans_res \cup W |-> trans_res'[q]]
        /\ \A q \in W : /\ trans_res'[q] = Translation(reply, q)
                        /\ DOMAIN trans_res'[q] \in Labels
        /\ \A q \in DOMAIN trans_res \ W : trans_res'[q] = trans_res[q]
    BY <1>1, <1>4 DEF Insert
  <1>8. /\ p \in W /\ W \subseteq Kept(reply) /\ W = {p}
        /\ todo' = Rest \cup Below /\ Rest \subseteq todo \ {p}
    <2>1. Siblings(p, p)
      BY <1>1 DEF Siblings, FieldIn
    <2> QED
      BY <1>1, <1>2, <2>1 DEF Return
  <1>9. \A q \in Rest, b \in todo : FieldIn(b, {"Backups"}) /\ Siblings(b, q) => b \in Rest
    <2> SUFFICES ASSUME NEW q \in todo, NEW b \in todo, Siblings(b, q), Siblings(p, b)
                 PROVE  Siblings(p, q)
      BY DEF Return
    <2>1. Len(p) \in Nat /\ Len(b) \in Nat /\ Len(q) \in Nat
      BY <1>2, <1>3, LenProperties
    <2> QED
      BY <2>1 DEF Siblings
  <1> HIDE DEF W, Rest, Below
  <1>10. Below = {} \/ (Below = Children(reply, p) /\ Open(reply, p) /\ W = {p})
    BY <1>5, <1>8
  <1>11. Visits(p, W, Rest, Below)
    BY <1>1, <1>6, <1>7, <1>8, <1>9, <1>10 DEF Visits
  <1> QED
    BY <1>11, VisitKeepsIInv

LEMMA CloneKeepsIInv ==
  ASSUME IInv, NEW p, Clone(p)
  PROVE  IInv'
  <1>1. /\ Turn(p) /\ Copy(p) /\ UNCHANGED <<reply, result>> /\ todo' = todo \ {p}
        /\ ~ Nested(p) /\ ~ FieldIn(p, NumberFields) /\ ~ FieldIn(p, {"Backups"})
    BY FieldNames DEF Clone
  <1>2. /\ IsDocument(reply) /\ Walk /\ p \in todo
        /\ p \in DOMAIN reply /\ p \in Kept(reply) /\ Translated(reply, p)
    BY <1>1, TurnIsKept
  <1>3. ~ Open(reply, p)
    BY <1>1, FieldNames DEF Open, Nested
  <1> DEFINE W == {c \in DOMAIN reply : c = p \/ Above(p, c)}
             Rest == todo \ {p}
             Below == {}
  <1>4. ASSUME NEW c \in W
        PROVE  c \in Kept(reply) /\ reply[c] = Translation(reply, c) /\ DOMAIN reply[c] \in Labels
    <2>1. c \in Kept(reply) /\ reply[c] = Translation(reply, c)
      <3>1. CASE c = p
        BY <1>1, <1>2, <3>1 DEF Translation
      <3>2. CASE Above(p, c)
        BY <1>1, <1>2, <1>3, <3>2, ClonedWithItsValue
      <3> QED
        BY <3>1, <3>2
    <2>2. DOMAIN reply[c] \in Labels
      <3>1. reply[c] \in {Object, Array} \/ IsText(reply[c]) \/ IsNum(reply[c])
        BY <1>2 DEF IsDocument
      <3> QED
        BY <3>1 DEF Object, Array, IsText, IsNum, Labels
    <2> QED
      BY <2>1, <2>2
  <1>5. /\ Below = {}
        /\ \A q \in todo \ Rest, r \in Kept(reply) : q = r \/ Above(q, r) =>
               r \in W \/ \E c \in Below : c = r \/ Above(c, r)
    BY DEF Kept
  <1>6. /\ trans_res' = [q \in DOMAIN trans_res \cup W |-> trans_res'[q]]
    BY <1>1 DEF Copy
  <1>7. \A q \in W : trans_res'[q] = reply[q]
    BY <1>1 DEF Copy
  <1>8. \A q \in DOMAIN trans_res \ W : trans_res'[q] = trans_res[q]
    BY <1>1, <1>2 DEF Copy, IInv, TypeOK
  <1>9. /\ p \in W /\ W \subseteq Kept(reply)
        /\ todo' = Rest \cup Below /\ Rest \subseteq todo \ {p}
        /\ \A r \in W : r = p \/ Above(p, r)
        /\ \A q \in DOMAIN reply : Above(p, q) => q \in W
        /\ \A q \in Rest, b \in todo : FieldIn(b, {"Backups"}) /\ Siblings(b, q) => b \in Rest
    BY <1>1, <1>2, <1>4
  <1> HIDE DEF W, Rest, Below
  <1>10. \A q \in W : trans_res'[q] = Translation(reply, q) /\ DOMAIN trans_res'[q] \in Labels
    BY <1>4, <1>7
  <1>11. Visits(p, W, Rest, Below)
    BY <1>1, <1>5, <1>6, <1>8, <1>9, <1>10 DEF Visits
  <1> QED
    BY <1>11, VisitKeepsIInv

LEMMA ParseKeepsIInv ==
  ASSUME IInv, ParseAndCheckResult
  PROVE  IInv'
  <1>1. UNCHANGED reply /\ TypeOK /\ result = "pending"
    BY DEF IInv, ParseAndCheckResult
  <1>2. CASE ~ Parsed
    <2>1. result' = "error" /\ UNCHANGED <<reply, todo, trans_res>>
      BY <1>1, <1>2 DEF ParseAndCheckResult, Goto
    <2>2. TypeOK'
      BY <1>1, <2>1 DEF TypeOK, IsDocument, NotJson
    <2> QED
      BY <2>1, <2>2 DEF IInv
  <1>3. CASE Parsed
    <2>1. /\ result' = "walking" /\ todo' = Children(reply, <<>>)
          /\ trans_res' = [p \in {<<>>} |-> Object]
      BY <1>3 DEF ParseAndCheckResult
    <2>2. IsDocument(reply) /\ <<>> \in DOMAIN reply
      BY <1>1, <1>3 DEF TypeOK, Parsed, NotJson, IsDocument
    <2>3. \A p \in DOMAIN reply : p \in Seq(Steps)
      BY <2>2 DEF IsDocument
    <2>4. /\ \A p \in DOMAIN reply : ~ Above(p, <<>>)
          /\ \A p \in DOMAIN reply : p = <<>> \/ Above(<<>>, p)
      <3>1. <<>> \in Seq(Steps) /\ Len(<<>>) = 0
        BY EmptySeq
      <3>2. \A p \in Seq(Steps) : Len(p) \in Nat /\ (Len(p) = 0 => p = <<>>)
        BY LenProperties, EmptySeq
      <3>3. \A p \in DOMAIN reply : Above(p, <<>>) <=> Len(p) < 0 /\ \A i \in 1..Len(p) : p[i] = <<>>[i]
        BY <2>3, <3>1, AbovePointwise
      <3>4. \A p \in DOMAIN reply : Above(<<>>, p) <=> 0 < Len(p) /\ \A i \in 1..0 : <<>>[i] = p[i]
        BY <2>3, <3>1, AbovePointwise
      <3> QED
        BY <2>3, <3>2, <3>3, <3>4
    <2>5. IsObj(reply[<<>>]) /\ reply[<<>>] = Object
      <3>1. IsObj(reply[<<>>])
        <4> DEFINE o == <<Key("Outcome")>>
        <4>1. o \in DOMAIN reply /\ o # <<>> /\ IsKey(o[1])
          BY <1>3 DEF Parsed, Key, IsKey
        <4> HIDE DEF o
        <4>2. Above(<<>>, o) /\ Len(<<>>) + 1 = 1
          BY <2>4, <4>1
        <4>3. <<>> \in Seq(Steps)
          BY EmptySeq
        <4> QED
          BY <2>2, <4>1, <4>2, <4>3, WhatIsAboveIsThere
      <3>2. \/ reply[<<>>] \in {Object, Array} \/ IsText(reply[<<>>]) \/ IsNum(reply[<<>>])
        BY <2>2 DEF IsDocument
      <3> QED
        BY <3>1, <3>2, OneObjectLabel
    <2>6. Translated(reply, <<>>) /\ Open(reply, <<>>)
      BY <2>4, <2>5 DEF Translated, Open, FieldIn
    <2>7. <<>> \in Kept(reply)
      <3>1. \A b \in DOMAIN reply : ~ Siblings(b, <<>>)
        BY <2>3, EmptySeq, LenProperties DEF Siblings
      <3> QED
        BY <2>2, <2>4, <3>1 DEF Kept, Lost, InNoList, AfterBackups
    <2>8. Translation(reply, <<>>) = Object
      BY <2>5, <2>6 DEF Translation, FieldIn
    <2>9. WrittenRight'
      BY <1>1, <2>1, <2>7, <2>8 DEF WrittenRight
    <2>10. LeftInWritten'
      <3> SUFFICES ASSUME NEW c \in Children(reply, <<>>)
                   PROVE  /\ c # <<>> /\ Translated(reply, c)
                          /\ \A q \in DOMAIN reply : Above(q, c) => q = <<>>
        BY <1>1, <2>1 DEF LeftInWritten
      <3>1. c # <<>>
        BY NotAboveItself DEF Children
      <3> QED
        BY <2>2, <2>4, <2>6, <3>1, TranslatedGoesDown, ChildrenAreBelow
    <2>11. BackupsFirst'
      <3> SUFFICES ASSUME NEW p \in Children(reply, <<>>), NEW b \in DOMAIN reply,
                          Siblings(b, p)
                   PROVE  b \in Children(reply, <<>>)
        BY <1>1, <2>1 DEF BackupsFirst
      <3> QED
        BY <2>4 DEF Children, Siblings
    <2>12. NothingForgotten'
      <3> SUFFICES ASSUME NEW p \in Kept(reply), p # <<>>
                   PROVE  \E q \in Children(reply, <<>>) : q = p \/ Above(q, p)
        BY <1>1, <2>1 DEF NothingForgotten
      <3>1. p \in DOMAIN reply /\ <<>> \in Seq(Steps)
        BY EmptySeq DEF Kept
      <3> QED
        BY <2>2, <2>4, <3>1, WhatIsAboveIsThere
    <2>13. WrittenOnce'
      <3>1. <<>> \notin Children(reply, <<>>)
        BY NotAboveItself DEF Children
      <3> QED
        BY <1>1, <2>1, <2>4, <3>1 DEF WrittenOnce
    <2>14. Walk'
      BY <1>1, <1>3, <2>2, <2>9, <2>10, <2>11, <2>12, <2>13 DEF Walk, Parsed, IsDocument
    <2>15. TypeOK'
      <3>1. DOMAIN Object \in Labels
        BY DEF Object, Labels
      <3> QED
        BY <1>1, <2>1, <2>2, <3>1 DEF TypeOK, IsDocument, NotJson, Children
    <2> QED
      BY <2>1, <2>14, <2>15 DEF IInv
  <1> QED
    BY <1>2, <1>3

LEMMA StepKeepsIInv == IInv /\ [Next]_vars => IInv'
  <1> SUFFICES ASSUME IInv, [Next]_vars PROVE IInv'
    OBVIOUS
  <1>1. CASE ParseAndCheckResult
    BY <1>1, ParseKeepsIInv
  <1>2. CASE Serialize
    <2>1. /\ result = "walking" /\ result' = "ok" /\ todo = {}
          /\ UNCHANGED <<reply, todo, trans_res>>
      BY <1>2 DEF Serialize, Goto
    <2>2. TypeOK'
      BY <2>1 DEF IInv, TypeOK, IsDocument, NotJson
    <2>3. Walk'
      <3>1. Walk
        BY <2>1 DEF IInv
      <3> QED
        BY <2>1, <3>1 DEF Walk, IsDocument, Parsed, WrittenRight, LeftInWritten,
                          BackupsFirst, NothingForgotten, WrittenOnce
    <2> QED
      BY <2>1, <2>2, <2>3 DEF IInv
  <1>3. CASE UNCHANGED vars
    BY <1>3 DEF vars, IInv, TypeOK, Walk, IsDocument, NotJson, Parsed, WrittenRight,
                LeftInWritten, BackupsFirst, NothingForgotten, WrittenOnce, WellTyped
  <1>4. ASSUME NEW p \in todo,
               TranslateNumber(p) \/ TranslateBackups(p) \/ TranslateObject(p) \/ Clone(p)
        PROVE  IInv'
    BY <1>4, NumberKeepsIInv, BackupsKeepsIInv, ObjectKeepsIInv, CloneKeepsIInv
  <1> QED
    BY <1>1, <1>2, <1>3, <1>4 DEF Next, Ended

THEOREM InvariantHolds == Spec => []IInv
  BY InitGivesIInv, StepKeepsIInv, PTL DEF Spec

------------------------------------------------------------------------------
(* The properties                                                            *)

LEMMA IInvGivesResult == IInv => ResultIsTranslation
  <1> SUFFICES ASSUME IInv, result = "ok"
               PROVE  Parsed /\ trans_res = [p \in Kept(reply) |-> Translation(reply, p)]
    BY DEF ResultIsTranslation
  <1>1. Walk /\ todo = {} /\ trans_res = [p \in DOMAIN trans_res |-> trans_res[p]]
    BY DEF IInv
  <1>2. DOMAIN trans_res = Kept(reply)
    BY <1>1 DEF Walk, WrittenRight, NothingForgotten
  <1>3. \A p \in DOMAIN trans_res : trans_res[p] = Translation(reply, p)
    BY <1>1 DEF Walk, WrittenRight
  <1> QED
    BY <1>1, <1>2, <1>3 DEF Walk

LEMMA IInvGivesReadable == IInv => ReadableResult
  <1> SUFFICES ASSUME IInv, result = "ok", NEW p \in DOMAIN trans_res,
                      Translated(trans_res, p), FieldIn(p, NumberFields)
               PROVE  ~ IsNum(trans_res[p])
    BY DEF ReadableResult
  <1>1. Walk /\ IsDocument(reply) /\ TypeOK
    BY DEF IInv, Walk
  <1>2. /\ DOMAIN trans_res = Kept(reply)
        /\ \A q \in Kept(reply) : trans_res[q] = Translation(reply, q)
    BY IInvGivesResult DEF ResultIsTranslation
  <1>3. p \in DOMAIN reply /\ ~ Lost(reply, p)
    BY <1>2 DEF Kept
  <1>4. Translated(reply, p)
    <2> SUFFICES ASSUME NEW q \in DOMAIN reply, Above(q, p)
                 PROVE  Open(reply, q)
      BY DEF Translated
    <2>1. q \in Kept(reply)
      BY <1>1, <1>2, KeptGoesUp
    <2>2. Open(trans_res, q) /\ trans_res[q] = Translation(reply, q)
      BY <1>2, <2>1 DEF Translated
    <2>3. CASE ~ Translated(reply, q)
      BY <2>2, <2>3 DEF Translation, Open
    <2>4. CASE Translated(reply, q) /\ FieldIn(q, {"Backups"})
      BY <1>3, <2>4 DEF Lost, InNoList, Open
    <2>5. CASE Translated(reply, q) /\ ~ FieldIn(q, {"Backups"}) /\ FieldIn(q, NumberFields)
      <3>1. trans_res[q] = NumberText(q[Len(q)].key, reply[q]) /\ q[Len(q)].key \in NumberFields
        BY <2>2, <2>5, FieldNames DEF Translation
      <3>2. DOMAIN trans_res[q] = {"obj"} /\ DOMAIN trans_res[q] \in Labels
        BY <1>1, <1>2, <2>1, <2>2, <2>5 DEF Open, IsObj, TypeOK
      <3>3. DOMAIN Panic = {"panic"} /\ DOMAIN Err = {"err"}
        BY DEF Panic, Err
      <3> QED
        BY <3>1, <3>2, <3>3, NumbersBecomeText DEF Failed
    <2>6. CASE /\ Translated(reply, q)
               /\ ~ FieldIn(q, {"Backups"}) /\ ~ FieldIn(q, NumberFields)
      BY <2>2, <2>6 DEF Translation, Open
    <2> QED
      BY <2>3, <2>4, <2>5, <2>6
  <1>5. trans_res[p] = NumberText(p[Len(p)].key, reply[p]) /\ p[Len(p)].key \in NumberFields
    BY <1>2, <1>4, FieldNames DEF Translation
  <1>6. DOMAIN trans_res[p] \in Labels
    BY <1>1 DEF TypeOK
  <1>7. DOMAIN Panic = {"panic"} /\ DOMAIN Err = {"err"}
    BY DEF Panic, Err
  <1>8. DOMAIN trans_res[p] \in {{"size"}, {"hex"}, {"text"}, {"error"}}
    BY <1>5, <1>6, <1>7, NumbersBecomeText DEF Failed, Labels
  <1> QED
    BY <1>8 DEF IsNum

\* What is in no Backups, and has none beside it or beside what it is in, is kept.
LEMMA KeptAwayFromBackups ==
  ASSUME NEW d, IsDocument(d), NEW p \in DOMAIN d,
         \A q \in DOMAIN d : Above(q, p) => ~ FieldIn(q, {"Backups"}),
         \A q, b \in DOMAIN d : (q = p \/ Above(q, p)) /\ Siblings(b, q)
                                    => ~ FieldIn(b, {"Backups"})
  PROVE  p \in Kept(d)
  BY DEF Kept, Lost, InNoList, AfterBackups

LEMMA IInvGivesOutcome == IInv => OutcomeReported
  <1> DEFINE outcome == <<Key("Outcome")>>
             error == Append(outcome, Key("Error"))
             beside == Append(outcome, Key("Backups"))
  <1> SUFFICES ASSUME IInv, result = "ok", <<Key("Backups")>> \notin DOMAIN reply
               PROVE  /\ \A p \in {<<Key("Header")>>, outcome} \cap DOMAIN reply :
                             p \in DOMAIN trans_res
                      /\ error \in DOMAIN reply /\ beside \notin DOMAIN reply
                            /\ reply[error].num \in ErrorCodes
                         => error \in DOMAIN trans_res
                                /\ trans_res[error] = [error |-> reply[error].num]
    BY DEF OutcomeReported
  <1>1. Walk /\ IsDocument(reply) /\ TypeOK
    BY DEF IInv, Walk
  <1>2. /\ DOMAIN trans_res = Kept(reply)
        /\ \A q \in Kept(reply) : trans_res[q] = Translation(reply, q)
    BY IInvGivesResult DEF ResultIsTranslation
  <1>3. \A p \in DOMAIN reply : /\ p \in Seq(Steps) /\ Len(p) \in Nat
                                /\ DOMAIN p = 1..Len(p)
                                /\ \A i \in 1..Len(p) : p[i] \in Steps
    BY <1>1, LenProperties, ElementOfSeq DEF IsDocument
  <1>4. \A b \in DOMAIN reply : FieldIn(b, {"Backups"}) =>
            b # <<>> /\ b[Len(b)] = Key("Backups")
    <2> SUFFICES ASSUME NEW b \in DOMAIN reply, FieldIn(b, {"Backups"})
                 PROVE  b # <<>> /\ b[Len(b)] = Key("Backups")
      OBVIOUS
    <2>1. b # <<>> /\ IsKey(b[Len(b)]) /\ b[Len(b)].key = "Backups"
      BY DEF FieldIn
    <2>2. b[Len(b)] \in Steps
      BY <1>3, <2>1, EmptySeq
    <2> QED
      BY <2>1, <2>2 DEF Steps, IsKey, Key
  <1>5. \A k, l : (Key(k) = Key(l) => k = l) /\ IsKey(Key(k)) /\ Key(k).key = k
    BY DEF Key, IsKey
  <1>6. \A k : Len(<<Key(k)>>) = 1 /\ <<Key(k)>>[1] = Key(k) /\ <<Key(k)>> # <<>>
    OBVIOUS
  \* The fields of the reply itself.
  <1>7. ASSUME NEW k, k # "Backups", <<Key(k)>> \in DOMAIN reply
        PROVE  /\ <<Key(k)>> \in Kept(reply)
               /\ \A q \in DOMAIN reply : Above(q, <<Key(k)>>) => q = <<>>
               /\ \A b \in DOMAIN reply : Siblings(b, <<Key(k)>>) => ~ FieldIn(b, {"Backups"})
    <2> DEFINE p == <<Key(k)>>
    <2>1. p \in DOMAIN reply /\ p \in Seq(Steps) /\ Len(p) = 1
      BY <1>3, <1>6, <1>7
    <2> HIDE DEF p
    <2>2. \A q \in DOMAIN reply : Above(q, p) => q = <<>>
      BY <1>3, <2>1, AbovePointwise, EmptySeq
    <2>3. ASSUME NEW b \in DOMAIN reply, Siblings(b, p), FieldIn(b, {"Backups"})
          PROVE  FALSE
      <3>1. Len(b) = 1 /\ b[1] = Key("Backups") /\ b \in Seq(Steps)
        BY <1>3, <1>4, <2>1, <2>3 DEF Siblings
      <3>2. b = <<Key("Backups")>>
        BY <3>1
      <3> QED
        BY <3>2
    <2>4. \A b \in DOMAIN reply : ~ Siblings(b, <<>>)
      BY <1>3, EmptySeq DEF Siblings
    <2>5. p \in Kept(reply)
      BY <1>1, <2>1, <2>2, <2>3, <2>4, KeptAwayFromBackups DEF FieldIn
    <2> QED
      BY <2>2, <2>3, <2>5 DEF p
  <1>8. \A p \in {<<Key("Header")>>, outcome} \cap DOMAIN reply : p \in DOMAIN trans_res
    <2>1. "Header" # "Backups" /\ "Outcome" # "Backups"
      OBVIOUS
    <2> QED
      BY <1>2, <1>7, <2>1
  \* The error of the Outcome.
  <1>9. ASSUME error \in DOMAIN reply, beside \notin DOMAIN reply,
               reply[error].num \in ErrorCodes
        PROVE  error \in DOMAIN trans_res /\ trans_res[error] = [error |-> reply[error].num]
    <2>1. outcome \in Seq(Steps) /\ outcome \in DOMAIN reply /\ Above(outcome, error)
      <3>1. Key("Outcome") \in Steps
        BY FieldsAreNames DEF Steps, Key
      <3>2. outcome \in Seq(Steps) /\ error \in Seq(Steps)
        <4>1. Key("Error") \in Steps
          BY FieldsAreNames DEF Steps, Key, NumberFields
        <4>2. outcome \in Seq(Steps)
          BY <3>1
        <4> HIDE DEF outcome
        <4> QED
          BY <4>1, <4>2, AppendProperties
      <3>3. /\ Len(error) = 2 /\ error[1] = Key("Outcome")
            /\ Len(outcome) = 1 /\ outcome[1] = Key("Outcome")
        BY <3>2
      <3> HIDE DEF outcome, error
      <3>4. Above(outcome, error)
        BY <3>2, <3>3, AbovePointwise
      <3> QED
        BY <1>1, <1>9, <3>2, <3>4, WhatIsAboveIsThere
    <2>2. /\ error \in Seq(Steps) /\ Len(error) = 2 /\ error # <<>>
          /\ error[1] = Key("Outcome") /\ error[2] = Key("Error")
          /\ Len(outcome) = 1 /\ outcome[1] = Key("Outcome") /\ outcome # <<>>
      <3>1. Len(outcome) = 1 /\ outcome[1] = Key("Outcome") /\ outcome # <<>>
        BY <1>6
      <3>2. Key("Error") \in Steps
        BY FieldsAreNames DEF Steps, Key, NumberFields
      <3> HIDE DEF outcome
      <3>3. /\ error \in Seq(Steps) /\ Len(error) = 2
            /\ error[1] = outcome[1] /\ error[2] = Key("Error")
        <4>1. /\ error \in Seq(Steps) /\ Len(error) = Len(outcome) + 1
              /\ error[Len(outcome) + 1] = Key("Error")
              /\ \A i \in 1..Len(outcome) : error[i] = outcome[i]
          BY <2>1, <3>2, AppendProperties
        <4> QED
          BY <3>1, <4>1
      <3>4. error # <<>>
        BY <3>3, EmptySeq
      <3> HIDE DEF error
      <3> QED
        BY <3>1, <3>3, <3>4
    <2>3. /\ \A q \in DOMAIN reply : Above(q, outcome) => q = <<>>
          /\ \A b \in DOMAIN reply : Siblings(b, outcome) => ~ FieldIn(b, {"Backups"})
      BY <1>7, <2>1
    <2>4. beside \in Seq(Steps) => \A b \in DOMAIN reply :
              Len(b) = 2 /\ b[1] = Key("Outcome") /\ b[2] = Key("Backups") => b = beside
      BY <1>3, <2>1
    <2>5. Key("Backups") \in Steps
      BY FieldsAreNames DEF Steps, Key
    <2>6. beside \in Seq(Steps)
      BY <2>1, <2>5
    <2> HIDE DEF error, outcome, beside
    <2>7. \A q \in DOMAIN reply : Above(q, error) => q = <<>> \/ q = outcome
      <3> SUFFICES ASSUME NEW q \in DOMAIN reply, Above(q, error), q # outcome
                   PROVE  q = <<>>
        OBVIOUS
      <3>1. Above(q, outcome) \/ Above(outcome, q)
        BY <1>3, <2>1, <2>2, AboveIsLinear
      <3>2. ~ Above(outcome, q)
        BY <1>3, <2>1, <2>2, AbovePointwise
      <3> QED
        BY <2>3, <3>1, <3>2
    <2>8. ASSUME NEW b \in DOMAIN reply, Siblings(b, error), FieldIn(b, {"Backups"})
          PROVE  FALSE
      <3>1. Len(b) = 2 /\ b[1] = Key("Outcome") /\ b[2] = Key("Backups")
        BY <1>4, <2>2, <2>8 DEF Siblings
      <3> QED
        BY <1>9, <2>4, <2>6, <3>1
    <2>9. ~ FieldIn(<<>>, {"Backups"}) /\ ~ FieldIn(outcome, {"Backups"})
      <3>1. "Outcome" # "Backups"
        OBVIOUS
      <3> QED
        BY <1>5, <2>2, <3>1 DEF FieldIn
    <2>10. \A b \in DOMAIN reply : ~ Siblings(b, <<>>)
      BY <1>3, EmptySeq DEF Siblings
    <2>11. error \in Kept(reply)
      BY <1>1, <1>9, <2>3, <2>7, <2>8, <2>9, <2>10, KeptAwayFromBackups
    <2>12. FieldIn(error, NumberFields) /\ error[Len(error)].key = "Error"
      BY <1>5, <2>2 DEF FieldIn, NumberFields
    <2>13. Translated(reply, error)
      <3>1. ASSUME NEW q \in Seq(Steps), Above(q, error)
            PROVE  IsObj(reply[q])
        <4>1. Len(q) + 1 \in {1, 2}
          BY <2>2, <3>1, AbovePointwise, LenProperties
        <4>2. IsKey(error[Len(q) + 1])
          BY <1>5, <2>2, <4>1
        <4> QED
          BY <1>1, <1>9, <3>1, <4>2, WhatIsAboveIsThere
      <3> QED
        BY <1>3, <2>7, <2>9, <3>1 DEF Translated, Open
    <2>14. trans_res[error] = NumberText("Error", reply[error])
      BY <1>2, <2>11, <2>12, <2>13, FieldNames DEF Translation
    <2>15. IsU64(reply[error])
      <3>1. DOMAIN trans_res[error] \in Labels
        BY <1>1, <1>2, <2>11 DEF TypeOK
      <3>2. DOMAIN Panic = {"panic"}
        BY DEF Panic
      <3>3. "Error" \in NumberFields
        BY DEF NumberFields
      <3> QED
        BY <2>14, <3>1, <3>2, <3>3, NumbersBecomeText DEF Labels
    <2>16. NumberText("Error", reply[error]) = ErrorText(reply[error].num)
      BY <2>15 DEF NumberText, FileSizeFields, HexStringFields
    <2>17. reply[error].num % Word = reply[error].num
      <3>1. reply[error].num \in Nat /\ reply[error].num < Word /\ Word \in Nat
        <4>1. reply[error].num \in Int /\ reply[error].num >= 0
          BY <1>1, <1>9, <2>15 DEF IsDocument, IsU64, IsNum, IsText, Object, Array
        <4> QED
          BY <1>9, <4>1, WordExceedsCodes
      <3> QED
        BY <3>1
    <2> QED
      BY <1>2, <1>9, <2>11, <2>14, <2>16, <2>17 DEF ErrorText
  <1> QED
    BY <1>8, <1>9

(* The walk stays within the reply and writes JSON.                          *)
THEOREM TypeCorrect == Spec => []TypeOK
  <1>1. IInv => TypeOK
    BY DEF IInv
  <1> QED
    BY <1>1, InvariantHolds, PTL

(* A success of generate_call_tool_result_string is exactly the translation  *)
(* of the reply, whatever its size, its depth and its fields.                *)
THEOREM ResultExact == Spec => []ResultIsTranslation
  BY IInvGivesResult, InvariantHolds, PTL

(* In a success, every size, LSN and code is text, at any depth that the     *)
(* loops of _translate_result reach.                                         *)
THEOREM ResultReadable == Spec => []ReadableResult
  BY IInvGivesReadable, InvariantHolds, PTL

(* A reply whose sizes, LSNs and codes are numbers of u64 never panics       *)
(* _translate_result, whatever codes they are.                               *)
THEOREM WellTypedAnswered == Spec => []WellTypedIsAnswered
  <1>1. IInv => WellTypedIsAnswered
    BY DEF IInv, WellTypedIsAnswered
  <1> QED
    BY <1>1, InvariantHolds, PTL

(* A success has the Outcome and the Header of the reply, and the error code *)
(* of the Outcome, unless a Backups is beside them.                          *)
THEOREM OutcomeIsReported == Spec => []OutcomeReported
  BY IInvGivesOutcome, InvariantHolds, PTL

------------------------------------------------------------------------------
(* The walk comes to an end                                                  *)

\* What the walk may still write.
Unwritten == DOMAIN reply \ DOMAIN trans_res

\* Nothing that is written is written again or lost, and each step of the loops
\* writes something of the reply that was not, or ends the call.
WritesMore == /\ \A p \in DOMAIN trans_res : p \in DOMAIN trans_res' /\ trans_res'[p] = trans_res[p]
              /\ result' = "walking" => Cardinality(Unwritten') < Cardinality(Unwritten)

WalkAdvances == [][WritesMore]_vars

LEMMA WritingAdvances ==
  ASSUME IsDocument(reply), UNCHANGED reply, NEW p \in DOMAIN reply,
         p \notin DOMAIN trans_res, p \in DOMAIN trans_res',
         DOMAIN trans_res \subseteq DOMAIN trans_res'
  PROVE  Cardinality(Unwritten') < Cardinality(Unwritten)
  <1>1. IsFiniteSet(Unwritten) /\ p \in Unwritten
    BY FS_Subset DEF Unwritten, IsDocument
  <1>2. Unwritten' \subseteq Unwritten \ {p}
    BY DEF Unwritten
  <1>3. /\ IsFiniteSet(Unwritten \ {p})
        /\ Cardinality(Unwritten \ {p}) = Cardinality(Unwritten) - 1
        /\ Cardinality(Unwritten) \in Nat
    BY <1>1, FS_RemoveElement, FS_CardinalityType
  <1>4. Cardinality(Unwritten') <= Cardinality(Unwritten \ {p})
    BY <1>2, <1>3, FS_Subset
  <1>5. Cardinality(Unwritten') \in Nat
    BY <1>2, <1>3, FS_Subset, FS_CardinalityType
  <1> QED
    BY <1>3, <1>4, <1>5

LEMMA StepWritesMore == IInv /\ Next => WritesMore
  <1> SUFFICES ASSUME IInv, Next PROVE WritesMore
    OBVIOUS
  <1>1. CASE ParseAndCheckResult
    <2>1. UNCHANGED reply /\ TypeOK /\ DOMAIN trans_res = {}
      BY <1>1 DEF IInv, ParseAndCheckResult
    <2>2. CASE ~ Parsed
      BY <1>1, <2>1, <2>2 DEF ParseAndCheckResult, Goto, WritesMore
    <2>3. CASE Parsed
      <3>1. IsDocument(reply) /\ <<>> \in DOMAIN reply /\ DOMAIN trans_res' = {<<>>}
        BY <1>1, <2>1, <2>3 DEF TypeOK, Parsed, NotJson, IsDocument, ParseAndCheckResult
      <3> QED
        BY <2>1, <3>1, WritingAdvances DEF WritesMore
    <2> QED
      BY <2>2, <2>3
  <1>2. CASE Serialize \/ Ended
    BY <1>2 DEF Serialize, Ended, Goto, WritesMore, vars
  <1>3. ASSUME NEW p \in todo,
               TranslateNumber(p) \/ TranslateBackups(p) \/ TranslateObject(p) \/ Clone(p)
        PROVE  WritesMore
    <2>1. Turn(p) /\ UNCHANGED reply
      BY <1>3 DEF TranslateNumber, TranslateBackups, TranslateObject, Clone
    <2>2. IsDocument(reply) /\ Walk /\ p \in DOMAIN reply /\ p \notin DOMAIN trans_res
      BY <2>1, TurnIsKept DEF Walk, WrittenOnce
    <2>3. CASE \E v : Insert(p, v)
      BY <2>1, <2>2, <2>3, WritingAdvances DEF Insert, WritesMore
    <2>4. CASE Copy(p)
      <3>1. \A q \in DOMAIN trans_res : q # p /\ ~ Above(p, q)
        BY <2>2 DEF Walk, WrittenOnce
      <3> QED
        BY <2>1, <2>2, <2>4, <3>1, WritingAdvances DEF Copy, WritesMore
    <2>5. CASE UNCHANGED trans_res /\ result' # "walking"
      BY <2>5 DEF WritesMore
    <2>6. \/ \E v : Insert(p, v)
          \/ Copy(p)
          \/ UNCHANGED trans_res /\ result' # "walking"
      BY <1>3 DEF TranslateNumber, TranslateBackups, TranslateObject, Clone, Goto
    <2> QED
      BY <2>3, <2>4, <2>5, <2>6
  <1> QED
    BY <1>1, <1>2, <1>3 DEF Next

(* The loops of _translate_result, and its calls to itself, come to an end:  *)
(* each round writes a part of the reply for good, and there are as many     *)
(* rounds at most as there are values.                                       *)
THEOREM WalkComesToAnEnd == Spec => WalkAdvances
  <1>1. IInv /\ [Next]_vars => [WritesMore]_vars
    BY StepWritesMore
  <1> QED
    BY <1>1, InvariantHolds, PTL DEF Spec, WalkAdvances

=============================================================================
