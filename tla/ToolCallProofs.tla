---------------------------- MODULE ToolCallProofs ---------------------------
(***************************************************************************)
(* The safety of tool calls for any number of calls, users, keys, settings,*)
(* changes of master.key and starts of the server.                         *)
(***************************************************************************)
EXTENDS ToolCall, SequenceTheorems, TLAPS

------------------------------------------------------------------------------
(* Layers *)

LEMMA WrapFacts ==
  ASSUME NEW p \in Payloads, NEW l \in Layers
  PROVE  /\ Wrap(p, l) \in Payloads /\ Wrap(p, l) # None
         /\ Wrap(p, l).text = p.text
         /\ Wrap(p, l).layers # <<>> /\ Head(Wrap(p, l).layers) = l
         /\ Unwrap(Wrap(p, l), l) = p
         /\ Sealed(p) \/ l.kind \in Modes => Sealed(Wrap(p, l))
  <1> DEFINE s == p.layers
             w == <<l>> \o s
  <1>1. p = [text |-> p.text, layers |-> s] /\ p.text \in Texts /\ s \in Seq(Layers)
    BY DEF Payloads
  <1>2. Wrap(p, l) = [text |-> p.text, layers |-> w]
    BY <1>1, NoneIsNothing DEF Wrap
  <1>3. w \in Seq(Layers) /\ Len(w) = Len(s) + 1 /\ w[1] = l
        /\ \A i \in 1..Len(s) : w[i + 1] = s[i]
    BY <1>1
  <1>4. w # <<>> /\ Head(w) = l /\ Tail(w) = s
    <2>1. w # <<>> /\ Head(w) = l
      BY <1>1, <1>3
    <2>2. Tail(w) \in Seq(Layers) /\ Len(Tail(w)) = Len(s)
          /\ \A i \in 1..Len(s) : Tail(w)[i] = s[i]
      BY <1>1, <1>3
    <2> QED
      BY <1>1, <2>1, <2>2, SeqEqual
  <1> HIDE DEF w
  <1>5. Wrap(p, l) \in Payloads /\ Wrap(p, l) # None
    <2>1. Wrap(p, l) \in Payloads
      BY <1>1, <1>2, <1>3 DEF Payloads
    <2> QED
      BY <2>1, NoneIsNothing
  <1>6. Unwrap(Wrap(p, l), l) = p
    BY <1>1, <1>2, <1>4, <1>5 DEF Unwrap
  <1>7. ASSUME Sealed(p) \/ l.kind \in Modes PROVE Sealed(Wrap(p, l))
    <2>1. CASE l.kind \in Modes
      <3>1. 1 \in DOMAIN w
        BY <1>3, <1>1
      <3> QED
        BY <1>2, <1>3, <2>1, <3>1 DEF Sealed
    <2>2. CASE Sealed(p)
      <3>1. PICK i \in 1..Len(s) : s[i].kind \in Modes
        BY <1>1, <2>2 DEF Sealed
      <3>2. i + 1 \in DOMAIN w /\ w[i + 1].kind \in Modes
        BY <1>1, <1>3, <3>1
      <3> QED
        BY <1>2, <3>2 DEF Sealed
    <2> QED
      BY <1>7, <2>1, <2>2
  <1> QED
    BY <1>2, <1>4, <1>5, <1>6, <1>7

LEMMA UnwrapFacts ==
  ASSUME NEW p \in Payloads, NEW l \in Layers, Unwrap(p, l) # None
  PROVE  /\ Unwrap(p, l) \in Payloads
         /\ Unwrap(p, l).text = p.text
         /\ Sealed(Unwrap(p, l)) \/ l.kind \in Modes => Sealed(p)
  <1> DEFINE s == p.layers
  <1>1. p = [text |-> p.text, layers |-> s] /\ p.text \in Texts /\ s \in Seq(Layers)
    BY DEF Payloads
  <1>2. s # <<>> /\ Head(s) = l /\ Unwrap(p, l) = [text |-> p.text, layers |-> Tail(s)]
    BY <1>1, NoneIsNothing DEF Unwrap
  <1>3. Tail(s) \in Seq(Layers) /\ s[1] = l /\ 1 \in DOMAIN s
        /\ \A i \in DOMAIN Tail(s) : Tail(s)[i] = s[i + 1] /\ i + 1 \in DOMAIN s
    BY <1>1, <1>2
  <1> QED
    BY <1>1, <1>2, <1>3 DEF Payloads, Sealed

------------------------------------------------------------------------------
(* Encoding and decoding *)

Compressions == {"none"} \cup Algorithms

LEMMA LayersOfCodec ==
  /\ Base64 \in Layers
  /\ \A alg \in Algorithms : Layer(alg, None) \in Layers
  /\ \A m \in Modes, key \in MasterKeys :
         Layer(m, key) \in Layers /\ Layer(m, key).kind = m
  BY DEF Base64, Layer, Layers

\* A request or a reply that is encoded and decoded under the same settings and
\* the same key is what it was.
THEOREM RoundTrip ==
  ASSUME NEW t \in Texts, NEW comp \in Compressions, NEW enc \in KnownEncryptions,
         NEW key \in MasterKeys
  PROVE  /\ Encode(Plain(t), comp, enc, key) \in Payloads
         /\ Encode(Plain(t), comp, enc, key).text = t
         /\ enc # "none" => Sealed(Encode(Plain(t), comp, enc, key))
         /\ Decode(Encode(Plain(t), comp, enc, key), comp, enc, key) = Plain(t)
  <1> DEFINE p == Plain(t)
             c == Compress(p, comp)
             e == EncryptIfOn(c, enc, key)
             b == Wrap(e, Base64)
  <1>1. p \in Payloads /\ p.text = t /\ p.layers = <<>> /\ p # None
    <2>1. p.text = t /\ p.layers = <<>> /\ p \in Payloads
      BY DEF Plain, Payloads
    <2> QED
      BY <2>1, NoneIsNothing
  <1> HIDE DEF p
  <1>2. c \in Payloads /\ c.text = t /\ Decompress(c, comp) = p
    <2>1. CASE comp = "none"
      BY <1>1, <2>1 DEF Compress, Decompress, Algorithms
    <2>2. CASE comp \in Algorithms
      <3>1. c = Wrap(p, Layer(comp, None)) /\ Decompress(c, comp) = Unwrap(c, Layer(comp, None))
        BY <2>2 DEF Compress, Decompress, Algorithms
      <3> QED
        BY <1>1, <2>2, <3>1, WrapFacts, LayersOfCodec
    <2> QED
      BY <2>1, <2>2 DEF Compressions
  <1>3. e \in Payloads /\ e.text = t /\ DecryptIfOn(e, enc, key) = c
        /\ (enc # "none" => Sealed(e))
    <2>1. CASE enc = "none"
      BY <1>2, <2>1 DEF EncryptIfOn, DecryptIfOn
    <2>2. CASE enc \in Modes
      <3>1. e = Wrap(c, Layer(enc, key)) /\ DecryptIfOn(e, enc, key) = Unwrap(e, Layer(enc, key))
        BY <2>2, NoneIsNothing DEF EncryptIfOn, DecryptIfOn, Encrypt, Decrypt, Modes
      <3>2. Layer(enc, key) \in Layers /\ Layer(enc, key).kind \in Modes
        BY <2>2, LayersOfCodec
      <3> HIDE DEF c, e
      <3> QED
        BY <1>2, <3>1, <3>2, WrapFacts
    <2> QED
      BY <2>1, <2>2 DEF KnownEncryptions
  <1>4. b \in Payloads /\ b.text = t /\ Unwrap(b, Base64) = e /\ (enc # "none" => Sealed(b))
    BY <1>3, WrapFacts, LayersOfCodec
  <1>5. Utf8(p) = p
    BY <1>1 DEF Utf8
  <1>6. CASE Bare(comp, enc)
    BY <1>1, <1>5, <1>6 DEF p, Bare, Encode, Decode
  <1>7. CASE ~Bare(comp, enc)
    <2>1. Encode(p, comp, enc, key) = b
      BY <1>7 DEF Encode
    <2>2. Decode(b, comp, enc, key) = Utf8(Decompress(DecryptIfOn(Unwrap(b, Base64), enc, key), comp))
      BY <1>7 DEF Decode
    <2> QED
      BY <1>2, <1>3, <1>4, <1>5, <2>1, <2>2 DEF p
  <1> QED
    BY <1>6, <1>7

\* What is sent, with a key or with none.
LEMMA EncodeFacts ==
  ASSUME NEW t \in Texts, NEW comp \in Compressions, NEW enc \in KnownEncryptions,
         NEW key \in MasterKeys \cup {None}, Encode(Plain(t), comp, enc, key) # None
  PROVE  /\ Encode(Plain(t), comp, enc, key) \in Payloads
         /\ Encode(Plain(t), comp, enc, key).text = t
         /\ enc # "none" => Sealed(Encode(Plain(t), comp, enc, key))
  <1>1. CASE key \in MasterKeys
    BY <1>1, RoundTrip
  <1>2. CASE key = None /\ enc = "none"
    <2>1. Encode(Plain(t), comp, enc, key) = Encode(Plain(t), comp, enc, ServerKey)
      BY <1>2 DEF Encode, EncryptIfOn
    <2> QED
      BY <1>2, <2>1, RoundTrip, ServerHasKey
  <1>3. CASE key = None /\ enc # "none"
    BY <1>3 DEF Encode, EncryptIfOn, Encrypt, Bare, Wrap
  <1> QED
    BY <1>1, <1>2, <1>3

\* What decodes has the text it was given, and was sealed if it was to be.
LEMMA DecodeFacts ==
  ASSUME NEW p \in Payloads, NEW comp, NEW enc, NEW key \in MasterKeys \cup {None},
         Decode(p, comp, enc, key) # None
  PROVE  /\ Decode(p, comp, enc, key).text = p.text
         /\ enc # "none" => Sealed(p)
  <1> DEFINE b == Unwrap(p, Base64)
             d == DecryptIfOn(b, enc, key)
             t == Decompress(d, comp)
  <1>1. CASE Bare(comp, enc)
    BY <1>1 DEF Decode, Utf8, Bare
  <1>2. CASE ~Bare(comp, enc)
    <2>1. Decode(p, comp, enc, key) = t /\ t # None
      BY <1>2 DEF Decode, Utf8
    <2>2. d # None /\ (t = d \/ (comp \in Algorithms /\ t = Unwrap(d, Layer(comp, None))))
      <3>1. \A l : Unwrap(None, l) = None
        BY DEF Unwrap
      <3>2. t = IF comp = "none" THEN d ELSE IF comp \in Algorithms
                THEN Unwrap(d, Layer(comp, None)) ELSE None
        BY DEF Decompress, Algorithms
      <3> HIDE DEF d, t
      <3> QED
        BY <2>1, <3>1, <3>2
    <2>3. CASE enc = "none"
      <3>1. d = b /\ b # None
        BY <2>2, <2>3 DEF DecryptIfOn
      <3>2. b \in Payloads /\ b.text = p.text
        BY <3>1, UnwrapFacts, LayersOfCodec
      <3> HIDE DEF b, d, t
      <3> QED
        BY <2>1, <2>2, <2>3, <3>1, <3>2, UnwrapFacts, LayersOfCodec
    <2>4. CASE enc # "none"
      <3>1. enc \in Modes /\ key # None /\ d = Unwrap(b, Layer(enc, key)) /\ b # None
        BY <2>2, <2>4 DEF DecryptIfOn, Decrypt, Unwrap
      <3>2. Layer(enc, key) \in Layers /\ Layer(enc, key).kind \in Modes
        BY <3>1, LayersOfCodec
      <3> HIDE DEF b, d, t
      <3>3. b \in Payloads /\ b.text = p.text /\ (Sealed(b) => Sealed(p))
        BY <3>1, UnwrapFacts, LayersOfCodec DEF b
      <3>4. d \in Payloads /\ d.text = p.text /\ Sealed(b)
        BY <2>2, <3>1, <3>2, <3>3, UnwrapFacts
      <3> QED
        BY <2>1, <2>2, <3>3, <3>4, UnwrapFacts, LayersOfCodec
    <2> QED
      BY <2>3, <2>4
  <1> QED
    BY <1>1, <1>2

------------------------------------------------------------------------------
(* The inductive invariant *)

Requests == [comp : Compressions, enc : KnownEncryptions, payload : Payloads]
Replies == {r \in [comp : KnownCompressions \cup {"text"}, enc : KnownEncryptions,
                   payload : Payloads] : r.comp = "text" => r.enc = "none"}

Types == /\ TypeOK
         /\ request \in [Calls -> Requests \cup {None}]
         /\ reply \in [Calls -> Replies \cup NoReply]
         /\ ran \in [Calls -> Seq(Texts)]

\* A request is out once, after it was written and before it ran.
Once(c) ==
    /\ call[c].pc \in {"idle", "login", "write", "greeted"} => request[c] = None /\ ran[c] = <<>>
    /\ request[c] # None => /\ call[c].pc \in {"read", "failed", "lost"}
                            /\ ran[c] = <<>>
                            /\ request[c].payload.text = Text("request", c)
                            /\ reply[c] \in {None, HangUp}
    /\ Len(ran[c]) \in {0, 1}

\* A reply is waited for, and tells what pgmoneta did; so does the report.
Says(c, how) == /\ how = "done" => Len(ran[c]) = 1
                /\ how = "refused" => Len(ran[c]) = 0
Truthful(c) ==
    /\ reply[c] \notin NoReply =>
           /\ call[c].pc = "read"
           /\ \E how \in {"done", "refused"} :
                  reply[c].payload.text = Text(how, c) /\ Says(c, how)
    /\ reply[c] = HangUp => call[c].pc \in {"write", "read"}
    /\ reply[c] = Endless => call[c].pc = "read"
    /\ call[c].pc \in {"done", "refused"} => request[c] = None /\ Says(c, call[c].pc)

\* What the configuration wants encrypted is.
Secret(c) == Working(c) /\ conf.encryption \notin Disabled =>
                 /\ call[c].enc \in Modes
                 /\ request[c] # None => Sealed(request[c].payload)

\* While nothing is wrong outside the server, everything on the stream is what
\* the other end expects.
As(c, text) == Frame(call[c].comp, call[c].enc,
                     Encode(Plain(text), call[c].comp, call[c].enc, ServerKey))
Smooth(c) ==
    Working(c) /\ ~troubled[c] =>
        /\ call[c].enc # "none" => master = ServerKey
        /\ request[c] # None => request[c] = As(c, Text("request", c))
        /\ reply[c] # None => reply[c] = As(c, Text("done", c))

Blameless(c) == call[c].pc \in {"failed", "refused"} => troubled[c]

Proper(c) == Once(c) /\ Truthful(c) /\ Secret(c) /\ Smooth(c) /\ Blameless(c)

Down == mode = "down" => \A c \in Calls : ~Working(c)

IInv == Types /\ Down /\ \A c \in Calls : Proper(c)

LEMMA Settings ==
  ASSUME NEW s
  PROVE  /\ ParseCompression(s) \in Compressions
         /\ ParseEncryption(s) # None =>
                /\ ParseEncryption(s) \in KnownEncryptions
                /\ s \notin Disabled => ParseEncryption(s) \in Modes
  <1>1. ParseCompression(s) \in Compressions
    BY DEF ParseCompression, Compressions
  <1>2. ParseEncryption(s) \in Modes \cup {"none", None}
    BY DEF ParseEncryption, Modes
  <1>3. s \notin Disabled => ParseEncryption(s) \in Modes \cup {None}
    BY DEF ParseEncryption, Modes
  <1> QED
    BY <1>1, <1>2, <1>3 DEF KnownEncryptions

USE DEF NoReply

\* What comes instead of a reply is not one.
LEMMA NoReplies == Endless # HangUp /\ \A f \in Replies : f \notin {HangUp, Endless}
  <1>1. DOMAIN HangUp = {"hangUp"} /\ DOMAIN Endless = {"endless"}
    BY DEF HangUp, Endless
  <1>2. \A f \in Replies : DOMAIN f = {"comp", "enc", "payload"}
    BY DEF Replies
  <1> QED
    BY <1>1, <1>2

LEMMA InitIInv == Init => IInv
  <1> SUFFICES ASSUME Init PROVE IInv
    OBVIOUS
  <1> USE DEF Init, Idle
  <1>1. TypeOK
    BY BoundsAreNats DEF TypeOK, Algorithms, KnownEncryptions
  <1>2. ran \in [Calls -> Seq(Texts)]
    OBVIOUS
  <1>3. \A c \in Calls : Proper(c)
    BY NoneIsNothing DEF Proper, Once, Truthful, Secret, Smooth, Blameless, Working
  <1>4. Down
    BY DEF Down
  <1> QED
    BY <1>1, <1>2, <1>3, <1>4 DEF IInv, Types

\* A step of one call leaves the others as they were.
Only(c) == /\ UNCHANGED <<master, conf, mode>>
           /\ \A d \in Calls \ {c} :
                  /\ call'[d] = call[d]
                  /\ request'[d] = request[d] /\ reply'[d] = reply[d]
                  /\ ran'[d] = ran[d] /\ troubled'[d] = troubled[d]

LEMMA Local ==
  ASSUME IInv, NEW c \in Calls, Only(c), Types', Proper(c)',
         mode = "down" => ~Working(c)'
  PROVE  IInv'
  <1>1. ASSUME NEW d \in Calls \ {c} PROVE Proper(d)' /\ Working(d)' = Working(d)
    <2>1. Proper(d)
      BY DEF IInv
    <2>2. Once(d)' /\ Truthful(d)' /\ Blameless(d)' /\ Working(d)' = Working(d)
      BY <2>1 DEF Only, Proper, Once, Truthful, Blameless, Working, Says
    <2>3. Secret(d)' /\ Smooth(d)'
      BY <2>1 DEF Only, Proper, Secret, Smooth, Working, As, Sealed
    <2> QED
      BY <2>2, <2>3 DEF Proper
  <1>2. Down'
    BY <1>1 DEF Down, IInv, Only
  <1> QED
    BY <1>1, <1>2 DEF IInv

\* A call that stops working keeps no reply, and must be blamed if it failed.
LEMMA Stops ==
  ASSUME IInv, NEW c \in Calls, Working(c) \/ call[c].pc = "idle",
         NEW how \in Reports \ {"greeted", "done", "refused"},
         UNCHANGED <<keyFile, process, request, ran>>,
         Return(c, how), Drop(c), troubled' \in [Calls -> BOOLEAN],
         \A d \in Calls \ {c} : troubled'[d] = troubled[d],
         how = "failed" => troubled'[c]
  PROVE  IInv'
  <1> USE DEF keyFile, process, Return, Drop, Idle, Reports
  <1>1. /\ call'[c] = [pc |-> how, comp |-> "none", enc |-> "none"]
        /\ reply'[c] = None /\ request'[c] = request[c] /\ ran'[c] = ran[c]
    BY DEF IInv, Types, TypeOK
  <1>2. Only(c)
    BY DEF Only, IInv, Types, TypeOK
  <1>3. Types'
    BY DEF IInv, Types, TypeOK, Algorithms, KnownEncryptions
  <1>4. ~Working(c)'
    BY <1>1 DEF Working
  <1>5. Proper(c)'
    <2>1. Once(c) /\ Truthful(c)
      BY DEF IInv, Proper
    <2>2. Once(c)' /\ Blameless(c)'
      BY <1>1, <2>1 DEF Once, Blameless
    <2>3. Truthful(c)'
      BY <1>1, NoneIsNothing DEF Truthful
    <2>4. Secret(c)' /\ Smooth(c)'
      BY <1>4 DEF Secret, Smooth
    <2> QED
      BY <2>2, <2>3, <2>4 DEF Proper
  <1> QED
    BY <1>2, <1>3, <1>4, <1>5, Local

\* A call before its request has nothing on the stream.
LEMMA Early ==
  ASSUME IInv, NEW c \in Calls, call[c].pc \in {"idle", "login"}
  PROVE  request[c] = None /\ reply[c] = None /\ ran[c] = <<>>
  BY DEF IInv, Proper, Once, Truthful

LEMMA SayHelloIInv == ASSUME IInv, NEW c \in Calls, SayHello(c) PROVE IInv'
  <1> USE DEF SayHello, Return, Idle, keyFile, process, stream
  <1>1. /\ call'[c] = [pc |-> "greeted", comp |-> "none", enc |-> "none"]
        /\ reply[c] = None /\ request[c] = None /\ ran[c] = <<>>
    BY Early DEF IInv, Types, TypeOK
  <1>2. Only(c)
    BY DEF Only, IInv, Types, TypeOK
  <1>3. Types'
    BY DEF IInv, Types, TypeOK, Algorithms, KnownEncryptions, Reports
  <1>4. ~Working(c)'
    BY <1>1 DEF Working
  <1>5. Proper(c)'
    BY <1>1, <1>4, NoneIsNothing DEF Proper, Once, Truthful, Secret, Smooth, Blameless
  <1> QED
    BY <1>2, <1>3, <1>4, <1>5, Local

LEMMA InvokeIInv == ASSUME IInv, NEW c \in Calls, Invoke(c) PROVE IInv'
  <1> USE DEF Invoke, Idle, keyFile, process, stream
  <1>0. reply[c] = None /\ request[c] = None /\ ran[c] = <<>>
    BY Early
  <1> DEFINE comp == ParseCompression(conf.compression)
             enc == ParseEncryption(conf.encryption)
  <1>1. PICK user \in Users :
            /\ call' = [call EXCEPT ![c] =
                      IF enc # None /\ Decrypts(user)
                      THEN [pc |-> "login", enc |-> enc, comp |-> comp]
                      ELSE [Idle EXCEPT !.pc = "failed"]]
            /\ troubled' = [troubled EXCEPT ![c] = ~Healthy(user, enc)]
    OBVIOUS
  <1>2. troubled' \in [Calls -> BOOLEAN] /\ troubled'[c] = ~Healthy(user, enc)
        /\ \A d \in Calls \ {c} : troubled'[d] = troubled[d]
    BY <1>1 DEF IInv, Types, TypeOK, Healthy
  <1>3. CASE enc # None /\ Decrypts(user)
    <2>1. call'[c] = [pc |-> "login", enc |-> enc, comp |-> comp]
      BY <1>1, <1>3 DEF IInv, Types, TypeOK
    <2>2. comp \in Compressions /\ enc \in KnownEncryptions
          /\ (conf.encryption \notin Disabled => enc \in Modes)
      BY <1>3, Settings
    <2> HIDE DEF comp, enc
    <2>3. Only(c)
      BY <1>1, <1>2 DEF Only, IInv, Types, TypeOK
    <2>4. Types'
      BY <1>1, <1>2, <1>3, <2>2 DEF IInv, Types, TypeOK, Compressions
    <2>5. Once(c)' /\ Truthful(c)' /\ Blameless(c)'
      BY <1>0, <2>1, NoneIsNothing DEF Once, Truthful, Blameless
    <2>6. /\ call'[c].enc = enc /\ request'[c] = None /\ reply'[c] = None
          /\ UNCHANGED <<master, conf>>
      BY <1>0, <2>1
    <2>7. Secret(c)'
      BY <2>2, <2>6 DEF Secret
    <2>8. ~troubled'[c] => (enc # "none" => master = ServerKey)
      BY <1>2 DEF Healthy
    <2>9. Smooth(c)'
      BY <2>6, <2>8 DEF Smooth
    <2> QED
      BY <2>3, <2>4, <2>5, <2>7, <2>9, Local DEF Proper
  <1>4. CASE ~(enc # None /\ Decrypts(user))
    <2>1. Return(c, "failed")
      BY <1>1, <1>4 DEF Return
    <2>2. Drop(c)
      BY <1>0 DEF Drop, IInv, Types
    <2>3. troubled'[c]
      BY <1>2, <1>4 DEF Healthy
    <2> QED
      BY <1>2, <2>1, <2>2, <2>3, Stops DEF Reports
  <1> QED
    BY <1>3, <1>4

LEMMA LoginIInv == ASSUME IInv, NEW c \in Calls, Login(c) PROVE IInv'
  <1> USE DEF Login, keyFile, process, stream
  <1>0. reply[c] = None /\ request[c] = None /\ ran[c] = <<>>
    BY Early
  <1>1. CASE Goto(c, "write") /\ UNCHANGED troubled
    <2>1. call'[c] = [call[c] EXCEPT !.pc = "write"] /\ Only(c)
      BY <1>1 DEF Goto, Only, IInv, Types, TypeOK
    <2>2. call'[c].pc = "write" /\ call'[c].comp = call[c].comp /\ call'[c].enc = call[c].enc
      BY <2>1 DEF IInv, Types, TypeOK
    <2>3. Types'
      BY <1>1 DEF Goto, IInv, Types, TypeOK
    <2>4. Proper(c) /\ Working(c) /\ mode # "down"
      BY DEF IInv, Working, Down
    <2>5. Once(c)' /\ Truthful(c)' /\ Blameless(c)'
      BY <1>0, <2>2, NoneIsNothing DEF Once, Truthful, Blameless
    <2>6. Secret(c)' /\ Smooth(c)'
      BY <1>0, <1>1, <2>2, <2>4 DEF Proper, Secret, Smooth
    <2> QED
      BY <2>1, <2>3, <2>4, <2>5, <2>6, Local DEF Proper
  <1>2. CASE Return(c, "failed") /\ Blame(c)
    BY <1>0, <1>2, Stops DEF Drop, Blame, Working, Reports, IInv, Types, TypeOK
  <1> QED
    BY <1>1, <1>2

LEMMA TextsAre == \A c \in Calls : \A how \in {"request", "done", "refused"} :
                      Text(how, c) \in Texts /\ Text(how, c).kind = how
  BY DEF Text, Texts

LEMMA FramesAre == \A comp, enc, p : Frame(comp, enc, p) \notin {HangUp, Endless}
  <1>1. \A comp, enc, p : DOMAIN Frame(comp, enc, p) = {"comp", "enc", "payload"}
    BY DEF Frame
  <1>2. DOMAIN HangUp = {"hangUp"} /\ DOMAIN Endless = {"endless"}
    BY DEF HangUp, Endless
  <1> QED
    BY <1>1, <1>2

LEMMA SettingsOf ==
  ASSUME IInv, NEW c \in Calls
  PROVE  /\ call[c].comp \in Compressions /\ call[c].enc \in KnownEncryptions
         /\ call[c] = [pc |-> call[c].pc, comp |-> call[c].comp, enc |-> call[c].enc]
         /\ master \in MasterKeys \cup {None}
  BY DEF IInv, Types, TypeOK, Compressions

LEMMA WriteRequestIInv == ASSUME IInv, NEW c \in Calls, WriteRequest(c) PROVE IInv'
  <1> USE DEF WriteRequest, keyFile, process
  <1> DEFINE comp == call[c].comp
             enc == call[c].enc
             p == Encode(Plain(Text("request", c)), comp, enc, master)
  <1>0. Proper(c) /\ Working(c) /\ mode # "down" /\ reply[c] \in {None, HangUp}
        /\ request[c] = None /\ ran[c] = <<>>
    BY DEF IInv, Working, Down, Proper, Once, Truthful
  <1>s. /\ comp \in Compressions /\ enc \in KnownEncryptions
        /\ master \in MasterKeys \cup {None} /\ Text("request", c) \in Texts
    BY SettingsOf, TextsAre
  <1> HIDE DEF comp, enc
  <1>1. p # None => p \in Payloads /\ p.text = Text("request", c) /\ (enc # "none" => Sealed(p))
    BY <1>s, EncodeFacts
  <1>2. ~troubled[c] => p = Encode(Plain(Text("request", c)), comp, enc, ServerKey) /\ p # None
    <2>1. ~troubled[c] => (enc # "none" => master = ServerKey)
      BY <1>0 DEF Proper, Smooth, enc
    <2>2. ~troubled[c] => p = Encode(Plain(Text("request", c)), comp, enc, ServerKey)
      BY <2>1 DEF Encode, EncryptIfOn
    <2> HIDE DEF p
    <2>3. Encode(Plain(Text("request", c)), comp, enc, ServerKey) # None
      BY <1>s, RoundTrip, ServerHasKey, NoneIsNothing
    <2> QED
      BY <2>2, <2>3
  <1> USE DEF comp, enc
  <1>3. CASE /\ p # None /\ request' = [request EXCEPT ![c] = Frame(comp, enc, p)]
             /\ Goto(c, "read") /\ UNCHANGED reply
    <2>1. /\ call'[c].pc = "read" /\ call'[c].comp = comp /\ call'[c].enc = enc
          /\ request'[c] = Frame(comp, enc, p) /\ reply'[c] = reply[c] /\ ran'[c] = <<>>
          /\ troubled'[c] = troubled[c]
      BY <1>0, <1>3, SettingsOf DEF Goto, IInv, Types, TypeOK
    <2>2. Frame(comp, enc, p) \in Requests /\ Frame(comp, enc, p).payload = p
      BY <1>1, <1>3, SettingsOf DEF Frame, Requests
    <2>3. Only(c)
      BY <1>3 DEF Goto, Only, IInv, Types, TypeOK
    <2> HIDE DEF p
    <2>4. Types'
      BY <1>3, <2>2 DEF Goto, IInv, Types, TypeOK
    <2>5. Once(c)' /\ Truthful(c)' /\ Blameless(c)'
      BY <1>0, <1>1, <1>3, <2>1, <2>2 DEF Proper, Once, Truthful, Blameless
    <2>6. Secret(c)'
      BY <1>0, <1>1, <1>3, <2>1, <2>2 DEF Proper, Secret, Modes, Only
    <2>7. Smooth(c)'
      <3>1. request'[c] = As(c, Text("request", c))' \/ troubled[c]
        BY <1>2, <2>1 DEF As
      <3>2. troubled[c] \/ reply'[c] = None
        BY <1>0, <2>1, FramesAre DEF Proper, Smooth, As
      <3> QED
        BY <1>0, <2>1, <3>1, <3>2 DEF Proper, Smooth
    <2> QED
      BY <1>0, <2>3, <2>4, <2>5, <2>6, <2>7, Local DEF Proper
  <1>4. CASE /\ p = None \/ reply[c] = HangUp
             /\ Return(c, "failed") /\ Drop(c)
             /\ UNCHANGED request
    <2>1. troubled[c]
      BY <1>0, <1>2, <1>4, NoneIsNothing, FramesAre DEF Proper, Smooth, As
    <2> QED
      BY <1>0, <1>4, <2>1, Stops DEF Reports, IInv, Types, TypeOK
  <1> QED
    BY <1>3, <1>4

LEMMA ReadFailsIInv == ASSUME IInv, NEW c \in Calls, ReadFails(c) PROVE IInv'
  BY Stops DEF ReadFails, Blame, Working, Reports, keyFile, process, IInv, Types, TypeOK

LEMMA DisconnectIInv == ASSUME IInv, NEW c \in Calls, Disconnect(c) PROVE IInv'
  <1> USE DEF Disconnect, HangUpOn, Blame, keyFile, process
  <1>1. /\ call'[c] = call[c] /\ request'[c] = None /\ reply'[c] = HangUp
        /\ ran'[c] = ran[c] /\ troubled'[c] /\ UNCHANGED conf
    BY DEF IInv, Types, TypeOK
  <1>2. Only(c) /\ Types'
    BY DEF Only, IInv, Types, TypeOK
  <1>3. Proper(c) /\ Working(c) /\ mode # "down"
    BY DEF IInv, Working, Down
  <1>4. Proper(c)'
    <2>1. reply[c] \in {None, Endless} /\ HangUp # Endless
      BY NoReplies
    <2>2. Once(c)' /\ Truthful(c)' /\ Blameless(c)'
      BY <1>1, <1>3, <2>1 DEF Proper, Once, Truthful, Blameless, Says, Working
    <2>3. Secret(c)' /\ Smooth(c)'
      BY <1>1, <1>3 DEF Proper, Secret, Smooth, Working
    <2> QED
      BY <2>2, <2>3 DEF Proper
  <1> QED
    BY <1>2, <1>3, <1>4, Local

\* What read_response makes of a reply: its text or nothing, and nothing from a
\* reply that is clear under a header that says it is not.
LEMMA ReceivedFacts ==
  ASSUME NEW r \in Replies, Received(r) # None, master \in MasterKeys \cup {None}
  PROVE  Received(r).text = r.payload.text /\ (r.enc # "none" => Sealed(r.payload))
  <1>1. r.payload \in Payloads /\ (r.comp = "text" => r.enc = "none")
    BY DEF Replies
  <1>2. CASE r.comp = "text"
    BY <1>1, <1>2 DEF Received, Utf8
  <1>3. CASE r.comp # "text"
    BY <1>1, <1>3, DecodeFacts DEF Received
  <1> QED
    BY <1>2, <1>3

\* A reply that is what the call expects is a success.
LEMMA SmoothReply ==
  ASSUME IInv, NEW c \in Calls, Working(c), ~troubled[c], reply[c] # None
  PROVE  Received(reply[c]) = Plain(Text("done", c))
  <1> DEFINE comp == call[c].comp
             enc == call[c].enc
             p == Encode(Plain(Text("done", c)), comp, enc, ServerKey)
  <1>1. reply[c] = Frame(comp, enc, p) /\ (enc # "none" => master = ServerKey)
    BY DEF IInv, Proper, Smooth, As
  <1>2. comp \in Compressions /\ enc \in KnownEncryptions /\ Text("done", c) \in Texts
    BY SettingsOf, TextsAre
  <1> HIDE DEF comp, enc
  <1>3. Decode(p, comp, enc, ServerKey) = Plain(Text("done", c))
    BY <1>2, RoundTrip, ServerHasKey
  <1>4. Decode(p, comp, enc, master) = Decode(p, comp, enc, ServerKey)
    BY <1>1 DEF Decode, DecryptIfOn
  <1>5. comp # "text"
    BY <1>2 DEF Compressions, Algorithms
  <1> HIDE DEF p
  <1> QED
    BY <1>1, <1>3, <1>4, <1>5 DEF Received, Frame

\* What the handler parses is what pgmoneta did.
LEMMA Told ==
  ASSUME IInv, NEW c \in Calls, ReadResponse(c), Parses(Received(reply[c]))
  PROVE  LET how == Received(reply[c]).text.kind
         IN  how \in {"done", "refused"} /\ Says(c, how)
  <1>1. reply[c] \in Replies /\ reply[c] \notin NoReply /\ Proper(c)
    BY DEF ReadResponse, IInv, Types
  <1>2. Received(reply[c]).text = reply[c].payload.text
    BY <1>1, SettingsOf, ReceivedFacts DEF Parses
  <1> QED
    BY <1>1, <1>2, TextsAre DEF Proper, Truthful

LEMMA ReadResponseIInv == ASSUME IInv, NEW c \in Calls, ReadResponse(c) PROVE IInv'
  <1> USE DEF ReadResponse, keyFile, process
  <1> DEFINE p == Received(reply[c])
             how == IF Parses(p) THEN p.text.kind ELSE "failed"
  <1>0. Proper(c) /\ Working(c) /\ reply[c] \in Replies /\ request[c] = None
    BY DEF IInv, Types, Proper, Once, Working
  <1>1. Return(c, how) /\ Drop(c)
    OBVIOUS
  <1>2. Parses(p) => p.text.kind \in {"done", "refused"} /\ Says(c, p.text.kind)
    BY Told
  <1>3. how \in {"done", "refused", "failed"} /\ (how \in {"done", "refused"} => Says(c, how))
    BY <1>2
  <1>4. how # "done" => troubled[c]
    <2>1. ~troubled[c] => p = Plain(Text("done", c)) /\ p # None
      <3>1. Plain(Text("done", c)) \in Payloads
        BY TextsAre DEF Plain, Payloads
      <3> QED
        BY <1>0, <3>1, SmoothReply, NoneIsNothing
    <2> QED
      BY <2>1, TextsAre DEF Parses, Plain
  <1> HIDE DEF p, how
  <1>5. /\ call'[c] = [pc |-> how, comp |-> "none", enc |-> "none"]
        /\ reply'[c] = None /\ request'[c] = None /\ ran'[c] = ran[c] /\ troubled'[c] = troubled[c]
    BY <1>0, <1>1 DEF Return, Drop, Idle, IInv, Types, TypeOK
  <1>6. Only(c)
    BY <1>1 DEF Return, Drop, Only, IInv, Types, TypeOK
  <1>7. Types'
    BY <1>1, <1>3 DEF Return, Drop, Idle, Reports, IInv, Types, TypeOK, Algorithms,
                      KnownEncryptions
  <1>8. ~Working(c)'
    BY <1>3, <1>5 DEF Working
  <1>9. Proper(c)'
    <2>2. Once(c)'
      BY <1>0, <1>3, <1>5 DEF Proper, Once
    <2>3. Truthful(c)'
      BY <1>3, <1>5, NoneIsNothing DEF Truthful, Says
    <2>4. Blameless(c)' /\ Secret(c)' /\ Smooth(c)'
      BY <1>4, <1>5, <1>8 DEF Blameless, Secret, Smooth
    <2> QED
      BY <2>2, <2>3, <2>4 DEF Proper
  <1> QED
    BY <1>6, <1>7, <1>8, <1>9, Local

\* Whatever pgmoneta answers is a reply with the text it was given.
LEMMA AnswersAre ==
  ASSUME NEW r \in Requests, NEW t \in Texts,
         NEW f \in {Honest(r, Plain(t))} \cup Others(r, Plain(t))
  PROVE  f \in Replies /\ f.payload.text = t
  <1>1. r.comp \in Compressions /\ r.enc \in KnownEncryptions
    BY DEF Requests
  <1>2. Plain(t) \in Payloads /\ Plain(t).text = t
    BY DEF Plain, Payloads
  <1>3. Wrap(Plain(t), Base64) \in Payloads /\ Wrap(Plain(t), Base64).text = t
    BY <1>2, WrapFacts, LayersOfCodec
  <1>4. \A comp \in Compressions, enc \in KnownEncryptions :
            /\ Encode(Plain(t), comp, enc, ServerKey) \in Payloads
            /\ Encode(Plain(t), comp, enc, ServerKey).text = t
    BY RoundTrip, ServerHasKey
  <1>5. \A comp \in KnownCompressions \cup {"text"}, enc \in KnownEncryptions, p \in Payloads :
            (comp = "text" => enc = "none") =>
                Frame(comp, enc, p) \in Replies /\ Frame(comp, enc, p).payload = p
    BY DEF Frame, Replies
  <1>6. Compressions \subseteq KnownCompressions \cup {"text"} /\ "text" \notin Compressions
        /\ "none" \in Compressions /\ {"none", "aes_256_gcm"} \subseteq KnownEncryptions
        /\ "server_zstd" \in KnownCompressions
    BY DEF Compressions, KnownCompressions, Algorithms, ServerAlgorithms, KnownEncryptions,
           Modes
  <1> HIDE DEF Compressions
  <1>7. PICK comp \in KnownCompressions \cup {"text"}, enc \in KnownEncryptions, p \in Payloads :
            f = Frame(comp, enc, p) /\ p.text = t /\ (comp = "text" => enc = "none")
    <2>1. CASE f = Honest(r, Plain(t))
      BY <1>1, <1>4, <1>6, <2>1 DEF Honest
    <2>2. CASE f \in Others(r, Plain(t))
      BY <1>1, <1>2, <1>3, <1>4, <1>6, <2>2 DEF Others
    <2> QED
      BY <2>1, <2>2
  <1> QED
    BY <1>5, <1>7

LEMMA ServeIInv == ASSUME IInv, NEW c \in Calls, Serve(c) PROVE IInv'
  <1> USE DEF Serve, keyFile, process
  <1> DEFINE r == request[c]
             p == Decode(r.payload, r.comp, r.enc, ServerKey)
  <1>0. /\ Proper(c) /\ r \in Requests /\ request[c] # None /\ ran[c] = <<>> /\ reply[c] \in {None, HangUp}
        /\ call[c].pc \in {"read", "failed", "lost"}
        /\ r.payload \in Payloads /\ r.payload.text = Text("request", c)
    BY DEF IInv, Types, Proper, Once, Requests
  <1>1. Parses(p) => p.text = Text("request", c)
    BY <1>0, DecodeFacts, ServerHasKey DEF Parses
  <1>2. /\ ran' \in [Calls -> Seq(Texts)]
        /\ \A d \in Calls \ {c} : ran'[d] = ran[d]
        /\ Len(ran'[c]) = IF Parses(p) THEN 1 ELSE 0
    <2>1. CASE Parses(p)
      <3>1. ran' = [ran EXCEPT ![c] = Append(<<>>, Text("request", c))]
        BY <1>0, <1>1, <2>1
      <3>2. Append(<<>>, Text("request", c)) \in Seq(Texts)
            /\ Len(Append(<<>>, Text("request", c))) = 1
        BY TextsAre
      <3> QED
        BY <2>1, <3>1, <3>2 DEF IInv, Types
    <2>2. CASE ~Parses(p)
      <3>1. ran' = ran
        BY <2>2
      <3> QED
        BY <1>0, <2>2, <3>1 DEF IInv, Types
    <2> QED
      BY <2>1, <2>2
  <1> DEFINE Answer(how, f) == /\ call[c].pc = "read"
                               /\ reply' = [reply EXCEPT ![c] = f]
                               /\ \/ f = Honest(r, Plain(Text(how, c))) /\ UNCHANGED troubled
                                  \/ /\ f \in Others(r, Plain(Text(how, c))) \cup {HangUp, Endless}
                                     /\ Blame(c)
  <1>3. PICK how \in {"done", "refused"} :
            /\ how = "done" <=> Parses(p)
            /\ UNCHANGED <<reply, troubled>> \/ \E f : Answer(how, f)
    <2>1. CASE Parses(p)
      <3> WITNESS "done" \in {"done", "refused"}
      <3> QED
        BY <2>1
    <2>2. CASE ~Parses(p)
      <3> WITNESS "refused" \in {"done", "refused"}
      <3> QED
        BY <2>2
    <2> QED
      BY <2>1, <2>2
  <1>5. /\ call'[c] = call[c] /\ request'[c] = None
        /\ \A d \in Calls \ {c} : request'[d] = request[d]
        /\ request' \in [Calls -> Requests \cup {None}]
        /\ UNCHANGED <<keyFile, process, call>>
    BY DEF IInv, Types
  <1> HIDE DEF Serve
  <1>4. ~troubled[c] /\ Working(c) =>
            /\ how = "done" /\ Honest(r, Plain(Text("done", c))) = As(c, Text("done", c))
            /\ reply[c] = None
    <2> SUFFICES ASSUME ~troubled[c], Working(c)
                 PROVE  /\ Parses(p) /\ reply[c] = None
                        /\ Honest(r, Plain(Text("done", c))) = As(c, Text("done", c))
      BY <1>3
    <2>1. r = As(c, Text("request", c)) /\ reply[c] = None
      BY <1>0, FramesAre DEF Proper, Smooth, As
    <2>2. r.comp = call[c].comp /\ r.enc = call[c].enc
          /\ r.payload = Encode(Plain(Text("request", c)), r.comp, r.enc, ServerKey)
      BY <2>1 DEF As, Frame
    <2>3. p = Plain(Text("request", c)) /\ p # None
      <3>1. Plain(Text("request", c)) \in Payloads
        BY TextsAre DEF Plain, Payloads
      <3>2. /\ call[c].comp \in Compressions /\ call[c].enc \in KnownEncryptions
            /\ Text("request", c) \in Texts
        BY SettingsOf, TextsAre
      <3> HIDE DEF r
      <3>3. Decode(r.payload, r.comp, r.enc, ServerKey) = Plain(Text("request", c))
        BY <2>2, <3>2, RoundTrip, ServerHasKey
      <3> QED
        BY <3>1, <3>3, NoneIsNothing
    <2>4. Parses(p)
      BY <2>3 DEF Parses, Plain
    <2> HIDE DEF p, r
    <2> QED
      BY <2>1, <2>2, <2>4 DEF Honest, As
  <1> HIDE DEF p, r
  <1>6. CASE UNCHANGED <<reply, troubled>>
    <2>1. Only(c) /\ Types'
      BY <1>2, <1>5, <1>6 DEF Only, IInv, Types, TypeOK
    <2>2. Once(c)' /\ Truthful(c)' /\ Blameless(c)'
      BY <1>0, <1>2, <1>5, <1>6 DEF Proper, Once, Truthful, Blameless
    <2>3. Secret(c)' /\ Smooth(c)'
      BY <1>0, <1>4, <1>5, <1>6 DEF Proper, Secret, Smooth, Working
    <2> QED
      BY <1>5, <2>1, <2>2, <2>3, Local DEF Proper, IInv, Down, Working
  <1>7. ASSUME NEW f, Answer(how, f) PROVE IInv'
    <2>1. \/ f \in Replies /\ f.payload.text = Text(how, c)
          \/ f \in {HangUp, Endless} /\ troubled'[c]
      <3>1. Text(how, c) \in Texts
        BY TextsAre
      <3> QED
        BY <1>0, <1>7, <3>1, AnswersAre DEF Blame, IInv, Types, TypeOK
    <2>2. reply'[c] = f /\ (\A d \in Calls \ {c} : reply'[d] = reply[d] /\ troubled'[d] = troubled[d])
          /\ troubled' \in [Calls -> BOOLEAN] /\ (troubled[c] => troubled'[c])
      BY <1>7 DEF Blame, IInv, Types, TypeOK
    <2>3. Only(c) /\ Types'
      BY <1>2, <1>5, <1>7, <2>1, <2>2 DEF Only, IInv, Types, TypeOK
    <2>4. Once(c)' /\ Blameless(c)'
      BY <1>0, <1>2, <1>5, <1>7 DEF Proper, Once, Blameless
    <2>5. Truthful(c)'
      BY <1>0, <1>2, <1>3, <1>5, <1>7, <2>1, <2>2 DEF Truthful, Says
    <2>6. Secret(c)' /\ Smooth(c)'
      <3>1. ~troubled'[c] /\ Working(c) => f = As(c, Text("done", c))
        BY <1>4, <1>7, <2>2 DEF Blame, IInv, Types, TypeOK
      <3> QED
        BY <1>0, <1>5, <2>2, <3>1 DEF Proper, Secret, Smooth, Working, As
    <2> QED
      BY <1>5, <2>3, <2>4, <2>5, <2>6, Local DEF Proper, IInv, Down, Working
  <1> QED
    BY <1>3, <1>6, <1>7

\* What the administrator and the process itself do touches calls only to lose
\* them, or to blame what they meet.
LEMMA ProcessIInv ==
  ASSUME IInv, RewriteMaster \/ Shutdown \/ Exit \/ Kill \/ Start PROVE IInv'
  <1> USE DEF keyFile, process, stream
  <1>1. CASE RewriteMaster
    <2>1. Types'
      BY <1>1, BoundsAreNats DEF RewriteMaster, IInv, Types, TypeOK
    <2>2. ASSUME NEW c \in Calls PROVE Proper(c)'
      <3>1. Proper(c) /\ troubled'[c] = (troubled[c] \/ Working(c))
        BY <1>1 DEF RewriteMaster, IInv
      <3>2. Once(c)' /\ Truthful(c)' /\ Secret(c)'
        BY <1>1, <3>1 DEF RewriteMaster, Proper, Once, Truthful, Says, Secret, Working
      <3>3. Smooth(c)' /\ Blameless(c)'
        BY <1>1, <3>1 DEF RewriteMaster, Proper, Smooth, Blameless, Working
      <3> QED
        BY <3>2, <3>3 DEF Proper
    <2>3. Down'
      BY <1>1 DEF RewriteMaster, IInv, Down, Working
    <2> QED
      BY <2>1, <2>2, <2>3 DEF IInv
  <1>2. CASE Shutdown \/ Exit \/ Start
    <2>1. Types'
      BY <1>2, BoundsAreNats DEF Shutdown, Exit, Start, IInv, Types, TypeOK
    <2>2. UNCHANGED <<master, call, stream, troubled>>
      BY <1>2 DEF Shutdown, Exit, Start
    <2>3. UNCHANGED conf \/ \A c \in Calls : ~Working(c)
      BY <1>2 DEF Shutdown, Exit, Start, IInv, Down
    <2>4. ASSUME NEW c \in Calls PROVE Proper(c)'
      <3>1. Proper(c)
        BY DEF IInv
      <3>2. Once(c)' /\ Truthful(c)' /\ Smooth(c)' /\ Blameless(c)'
        BY <2>2, <3>1 DEF Proper, Once, Truthful, Says, Smooth, As, Blameless, Working
      <3>3. Secret(c)'
        BY <2>2, <2>3, <3>1 DEF Proper, Secret, Working
      <3> QED
        BY <3>2, <3>3 DEF Proper
    <2>5. Down'
      BY <1>2 DEF Shutdown, Exit, Start, Down, Working
    <2> QED
      BY <2>1, <2>4, <2>5 DEF IInv
  <1>3. CASE Kill
    <2> USE <1>3 DEF Kill, Idle
    <2>1. Types'
      BY DEF IInv, Types, TypeOK, Reports, Algorithms, KnownEncryptions
    <2>2. ASSUME NEW c \in Calls PROVE Proper(c)' /\ ~Working(c)'
      <3>1. Proper(c) /\ reply'[c] = None
        BY DEF IInv
      <3>2. call'[c] = IF Working(c) THEN [pc |-> "lost", comp |-> "none", enc |-> "none"]
                                     ELSE call[c]
        OBVIOUS
      <3>3. ~Working(c)'
        BY <3>2 DEF Working
      <3>4. Once(c)' /\ Truthful(c)' /\ Blameless(c)'
        BY <3>1, <3>2, NoneIsNothing DEF Proper, Once, Truthful, Says, Blameless, Working
      <3> QED
        BY <3>3, <3>4 DEF Proper, Secret, Smooth
    <2> QED
      BY <2>1, <2>2 DEF IInv, Down
  <1> QED
    BY <1>1, <1>2, <1>3

LEMMA NextIInv == IInv /\ [Next]_vars => IInv'
  <1> SUFFICES ASSUME IInv, [Next]_vars PROVE IInv'
    OBVIOUS
  <1>1. CASE UNCHANGED vars
    <2>1. Types' /\ Down'
      BY <1>1 DEF vars, keyFile, process, stream, IInv, Types, TypeOK, Down, Working
    <2>2. ASSUME NEW c \in Calls PROVE Proper(c)'
      BY <1>1 DEF vars, keyFile, process, stream, IInv, Proper, Once, Truthful, Says, Secret,
                  Smooth, As, Blameless, Working
    <2> QED
      BY <2>1, <2>2 DEF IInv
  <1> QED
    BY <1>1, SayHelloIInv, InvokeIInv, LoginIInv, WriteRequestIInv, ReadResponseIInv,
       ReadFailsIInv, ServeIInv, DisconnectIInv, ProcessIInv
    DEF Next, Server, Answered

LEMMA Inductive == Spec => []IInv
  BY InitIInv, NextIInv, PTL DEF Spec

\* Settings, files and calls are always of their kinds.
THEOREM TypeInvariant == Spec => []TypeOK
  BY Inductive, PTL DEF IInv, Types

\* Unless the setting turns encryption off, no request is on the wire without it,
\* for any settings, keys and changes of master.key.
THEOREM NoRequestInClear == Spec => []NothingInClear
  <1>1. IInv => NothingInClear
    BY DEF IInv, Proper, Secret, NothingInClear
  <1> QED
    BY Inductive, <1>1, PTL

\* A call fails, or is refused, only when something was wrong outside the server:
\* its own steps agree with each other and with pgmoneta.
THEOREM FailuresHaveCauses == Spec => []FailsOnlyInTrouble
  <1>1. IInv => FailsOnlyInTrouble
    BY DEF IInv, Proper, Blameless, FailsOnlyInTrouble
  <1> QED
    BY Inductive, <1>1, PTL

\* The client is never handed a clear reply under a header that says it is
\* encrypted.
THEOREM NoReplyInClear == Spec => NoClearFallback
  <1> DEFINE Step == \A c \in Calls :
                         ReadResponse(c) /\ call'[c].pc # "failed" /\ reply[c].enc # "none"
                              => Sealed(reply[c].payload)
  <1>1. IInv => Step
    <2> SUFFICES ASSUME IInv, NEW c \in Calls, ReadResponse(c), call'[c].pc # "failed",
                        reply[c].enc # "none"
                 PROVE  Sealed(reply[c].payload)
      OBVIOUS
    <2>1. reply[c] \in Replies /\ master \in MasterKeys \cup {None}
      BY DEF ReadResponse, IInv, Types, TypeOK
    <2>2. Received(reply[c]) # None
      BY DEF ReadResponse, Return, Parses, IInv, Types, TypeOK, Idle
    <2> QED
      BY <2>1, <2>2, ReceivedFacts
  <1> QED
    BY Inductive, <1>1, PTL DEF NoClearFallback

\* A tool call, with its three looks at master.key, its stream and a server that
\* may die, implements a service that is asked and answers once.
THEOREM ImplementsToolService == Spec => ImplementsService
  <1> DEFINE State == [c \in Calls |-> IF Working(c) THEN "asked" ELSE call[c].pc]
             Runs == [c \in Calls |-> Len(ran[c])]
  <1>1. Init => Service!Init
    BY DEF Init, Idle, Working, Service!Init
  <1>2. IInv /\ IInv' /\ [Next]_vars => [Service!Next]_<<State, Runs>>
    <2> SUFFICES ASSUME IInv, IInv', [Next]_vars
                 PROVE  Service!Next \/ UNCHANGED <<State, Runs>>
      OBVIOUS
    <2> USE DEF IInv, Types, TypeOK, Working
    <2>1. ASSUME NEW c \in Calls, NEW how \in Reports, call[c].pc \in {"idle"} \/ Working(c),
                 Return(c, how), UNCHANGED ran
          PROVE  Service!Next
      <3>0. State[c] = IF Working(c) THEN "asked" ELSE call[c].pc
        OBVIOUS
      <3>1. State[c] \in {"idle", "asked"} /\ State' = [State EXCEPT ![c] = how]
        <4>1. State[c] \in {"idle", "asked"}
          <5> HIDE DEF State, Working
          <5> QED
            BY <2>1, <3>0
        <4>2. State' = [State EXCEPT ![c] = how]
          BY <2>1 DEF Return, Idle, Reports
        <4> HIDE DEF State
        <4> QED
          BY <4>1, <4>2
      <3>2. Runs' = Runs /\ Runs[c] = Len(ran[c])
        BY <2>1
      <3>3. call'[c].pc = how
        BY <2>1 DEF Return, Idle
      <3>4. Says(c, how)'
        BY <3>3 DEF Proper, Truthful, Says
      <3> QED
        BY <2>1, <3>1, <3>2, <3>4 DEF Service!Next, Service!Report, Service!Reports, Reports,
                                     Says
    <2>2. ASSUME NEW c \in Calls, SayHello(c) \/ ReadResponse(c) \/ ReadFails(c)
          PROVE  Service!Next
      <3>1. PICK how \in Reports : Return(c, how)
        <4>1. \A how \in {"done", "refused", "failed", "greeted"} : how \in Reports
          BY DEF Reports
        <4>2. CASE SayHello(c) \/ ReadFails(c)
          BY <4>1, <4>2 DEF SayHello, ReadFails
        <4>3. CASE ReadResponse(c)
          BY <4>1, <4>3, Told DEF ReadResponse
        <4> QED
          BY <2>2, <4>2, <4>3
      <3> QED
        BY <2>1, <2>2, <3>1 DEF SayHello, ReadResponse, ReadFails, stream
    <2>3. ASSUME NEW c \in Calls, Invoke(c) PROVE Service!Next
      <3>1. State[c] = "idle" /\ Runs' = Runs
        BY <2>3 DEF Invoke, stream
      <3>2. CASE call'[c].pc = "login"
        <4>1. State' = [State EXCEPT ![c] = "asked"]
          BY <2>3, <3>2 DEF Invoke, Idle
        <4> QED
          BY <3>1, <4>1 DEF Service!Next, Service!Ask
      <3>3. CASE call'[c].pc # "login"
        <4>1. Return(c, "failed") /\ UNCHANGED ran
          <5>1. PICK user \in Users :
                    LET enc == ParseEncryption(conf.encryption)
                        login == [pc |-> "login", enc |-> enc,
                                  comp |-> ParseCompression(conf.compression)]
                    IN  call' = [call EXCEPT ![c] = IF enc # None /\ Decrypts(user)
                                                    THEN login
                                                    ELSE [Idle EXCEPT !.pc = "failed"]]
            BY <2>3 DEF Invoke
          <5> QED
            BY <2>3, <3>3, <5>1 DEF Invoke, Return, stream
        <4> QED
          BY <2>1, <2>3, <4>1 DEF Invoke, Reports
      <3> QED
        BY <3>2, <3>3
    <2>4. ASSUME NEW c \in Calls, Login(c) \/ WriteRequest(c)
          PROVE  Service!Next \/ UNCHANGED <<State, Runs>>
      <3>1. CASE Return(c, "failed")
        BY <2>1, <2>4, <3>1 DEF Login, WriteRequest, stream, Reports
      <3>2. CASE Goto(c, "write") \/ Goto(c, "read")
        <4>1. State' = State
          BY <2>4, <3>2 DEF Login, WriteRequest, Goto
        <4> QED
          BY <2>4, <4>1 DEF Login, WriteRequest, stream
      <3> QED
        BY <2>4, <3>1, <3>2 DEF Login, WriteRequest
    <2>5. ASSUME NEW c \in Calls, Serve(c) PROVE Service!Next \/ UNCHANGED <<State, Runs>>
      <3>1. State' = State
        BY <2>5 DEF Serve
      <3>2. CASE UNCHANGED ran
        BY <3>1, <3>2
      <3>3. CASE ran' # ran
        <4>1. PICK t : ran' = [ran EXCEPT ![c] = Append(@, t)]
          BY <2>5, <3>3 DEF Serve
        <4>2. ran[c] = <<>> /\ State[c] \in {"asked", "failed", "lost"} /\ Runs[c] = 0
          BY <2>5 DEF Serve, Proper, Once
        <4>3. Len(Append(<<>>, t)) = 1
          OBVIOUS
        <4>4. Runs' = [Runs EXCEPT ![c] = 1]
          BY <4>1, <4>2, <4>3
        <4> QED
          BY <3>1, <4>2, <4>4 DEF Service!Next, Service!Run
      <3> QED
        BY <3>2, <3>3
    <2>6. CASE Kill
      <3>1. State' = [c \in Calls |-> IF State[c] = "asked" THEN "lost" ELSE State[c]]
        BY <2>6 DEF Kill, Idle, Reports
      <3> QED
        BY <2>6, <3>1 DEF Kill, Service!Next, Service!Lose
    <2>7. CASE \/ \E c \in Calls : Disconnect(c)
               \/ RewriteMaster \/ Shutdown \/ Exit \/ Start \/ UNCHANGED vars
      BY <2>7 DEF Disconnect, RewriteMaster, Shutdown, Exit, Start, vars, stream, keyFile,
                  process
    <2> QED
      BY <2>2, <2>3, <2>4, <2>5, <2>6, <2>7 DEF Next, Server, Answered
  <1> QED
    BY <1>1, <1>2, Inductive, PTL DEF Spec, ImplementsService, Service!Spec

------------------------------------------------------------------------------
(* Liveness of a shutdown, as far as it is a matter of steps.                *)

\* The awaits that a call has still to come through.
AwaitsLeft(c) == CASE call[c].pc = "login" -> 3 [] call[c].pc = "write" -> 2
                   [] call[c].pc = "read" -> 1  [] OTHER -> 0

\* A server that stops has ever less to wait for: no call begins or begins
\* again, whatever clients, pgmoneta and the administrator do, and each step of a
\* call brings it nearer to its end.
Drains == mode = "stopping" =>
    \A c \in Calls : /\ AwaitsLeft(c)' <= AwaitsLeft(c)
                     /\ Server(c) => AwaitsLeft(c)' < AwaitsLeft(c)
ShutdownAdvances == [][Drains]_vars

LEMMA StepDrains == IInv /\ Next => Drains
  <1> SUFFICES ASSUME IInv, Next, mode = "stopping", NEW c \in Calls
               PROVE  /\ AwaitsLeft(c)' <= AwaitsLeft(c)
                      /\ Server(c) => AwaitsLeft(c)' < AwaitsLeft(c)
    BY DEF Drains
  <1> USE DEF AwaitsLeft
  <1>1. call \in [Calls -> [pc : {"idle", "login", "write", "read"} \cup Reports,
                            comp : {"none"} \cup Algorithms, enc : KnownEncryptions]]
    BY DEF IInv, Types, TypeOK
  <1>2. ASSUME NEW d \in Calls, Server(d)
        PROVE  AwaitsLeft(d)' < AwaitsLeft(d) /\ \A e \in Calls \ {d} : call'[e] = call[e]
    <2>1. Login(d) \/ WriteRequest(d) \/ Answered(d)
      BY <1>2 DEF Server, SayHello, Invoke
    <2>2. CASE Login(d)
      BY <1>1, <2>2 DEF Login, Goto, Return, Idle
    <2>3. CASE WriteRequest(d)
      BY <1>1, <2>3 DEF WriteRequest, Goto, Return, Idle
    <2>4. CASE ReadFails(d)
      BY <1>1, <2>4 DEF ReadFails, Return, Idle
    <2>5. CASE ReadResponse(d)
      <3>1. PICK how \in Reports : Return(d, how)
        <4>1. /\ Parses(Received(reply[d])) => Received(reply[d]).text.kind \in Reports
              /\ "failed" \in Reports
          BY <2>5, Told DEF Reports
        <4>2. Return(d, IF Parses(Received(reply[d])) THEN Received(reply[d]).text.kind
                                                      ELSE "failed")
          BY <2>5 DEF ReadResponse
        <4> QED
          BY <4>1, <4>2
      <3> QED
        BY <1>1, <2>5, <3>1 DEF ReadResponse, Return, Idle, Reports
    <2> QED
      BY <2>1, <2>2, <2>3, <2>4, <2>5 DEF Answered
  <1>3. ASSUME NEW d \in Calls, Serve(d) \/ Disconnect(d)
        PROVE  call' = call
    BY <1>3 DEF Serve, Disconnect
  <1>4. ASSUME RewriteMaster \/ Shutdown \/ Exit \/ Start
        PROVE  call' = call
    BY <1>4 DEF RewriteMaster, Shutdown, Exit, Start
  <1>5. ASSUME Kill
        PROVE  AwaitsLeft(c)' <= AwaitsLeft(c)
    BY <1>1, <1>5 DEF Kill, Working, Idle
  <1>6. AwaitsLeft(c)' <= AwaitsLeft(c)
    BY <1>2, <1>3, <1>4, <1>5 DEF Next
  <1> QED
    BY <1>2, <1>6

\* The calls that a shutdown waits for do not become more, and have ever less
\* to do.
THEOREM ShutdownComesToAnEnd == Spec => ShutdownAdvances
  <1>1. IInv /\ [Next]_vars => [Drains]_vars
    BY StepDrains
  <1> QED
    BY <1>1, Inductive, PTL DEF Spec, ShutdownAdvances
==============================================================================
