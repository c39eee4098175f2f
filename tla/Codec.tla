-------------------------------- MODULE Codec --------------------------------
(***************************************************************************)
(* What write_request wraps round a request and read_response takes off a  *)
(* reply (src/src/client.rs): compression (src/src/compression.rs),        *)
(* AES-GCM under a key derived from master.key (src/src/security.rs) and   *)
(* base64.  A payload is a text inside layers, the outermost first.        *)
(*                                                                         *)
(* The libraries are taken at their word: a decoder undoes its own encoder *)
(* and refuses anything else; AES-GCM opens only with the key and the mode *)
(* it was sealed with.  Deriving a key is a function of the contents of    *)
(* master.key (MasterKeyCache implements KeyDerivation), so a master key   *)
(* stands for the key derived from it.                                     *)
(***************************************************************************)
EXTENDS Sequences

CONSTANTS MasterKeys,   \* contents of master.key that load_master_key accepts
          Texts,        \* requests and replies
          None          \* an error; no key: master.key does not load

Algorithms == {"gzip", "zstd", "lz4", "bzip2"}
ServerAlgorithms == {"server_gzip", "server_zstd", "server_lz4"}
KnownCompressions == {"none"} \cup Algorithms \cup ServerAlgorithms

Modes == {"aes_256_gcm", "aes_192_gcm", "aes_128_gcm"}
KnownEncryptions == {"none"} \cup Modes

Layer(kind, key) == [kind |-> kind, key |-> key]

Layers == [kind : Algorithms \cup Modes \cup {"base64"}, key : MasterKeys \cup {None}]

Payloads == [text : Texts, layers : Seq(Layers)]

Plain(t) == [text |-> t, layers |-> <<>>]

\* Errors pass through (`?`).
Wrap(p, l) == IF p = None THEN None ELSE [p EXCEPT !.layers = <<l>> \o @]

Unwrap(p, l) == IF p = None \/ p.layers = <<>> THEN None
                ELSE IF Head(p.layers) = l THEN [p EXCEPT !.layers = Tail(@)] ELSE None

Compress(p, alg) == CASE alg = "none" -> p
                      [] alg \in Algorithms -> Wrap(p, Layer(alg, None))
                      [] OTHER -> None

Decompress(p, alg) == CASE alg = "none" -> p
                        [] alg \in Algorithms -> Unwrap(p, Layer(alg, None))
                        [] OTHER -> None

\* The bundles load master.key themselves; `key` is what is in it by then.
Encrypt(p, mode, key) ==
    IF mode \in Modes /\ key # None THEN Wrap(p, Layer(mode, key)) ELSE None

Decrypt(p, mode, key) ==
    IF mode \in Modes /\ key # None THEN Unwrap(p, Layer(mode, key)) ELSE None

Base64 == Layer("base64", None)

EncryptIfOn(p, enc, key) == IF enc = "none" THEN p ELSE Encrypt(p, enc, key)
DecryptIfOn(p, enc, key) == IF enc = "none" THEN p ELSE Decrypt(p, enc, key)

\* Nothing is encoded when neither is asked for.
Bare(comp, enc) == comp = "none" /\ enc = "none"

\* Encrypts first.
MutantEncode(p, comp, enc, key) ==
    IF Bare(comp, enc) THEN p
    ELSE Wrap(Compress(EncryptIfOn(p, enc, key), comp), Base64)

\* write_request: compressed, then encrypted, then base64.
Encode(p, comp, enc, key) ==
    IF Bare(comp, enc) THEN p
    ELSE Wrap(EncryptIfOn(Compress(p, comp), enc, key), Base64)

\* What String::from_utf8 accepts: a text, and base64, which is text itself.
Utf8(p) == IF p = None THEN None
           ELSE IF p.layers = <<>> \/ Head(p.layers) = Base64 THEN p ELSE None

\* Falls back to the text it was sent when that does not decode.
MutantDecode(p, comp, enc, key) ==
    LET text == Utf8(Decompress(DecryptIfOn(Unwrap(p, Base64), enc, key), comp))
    IN  IF Bare(comp, enc) \/ text = None THEN Utf8(p) ELSE text

\* read_response: base64, then decryption, then decompression; no fallback.
Decode(p, comp, enc, key) ==
    IF Bare(comp, enc) THEN Utf8(p)
    ELSE Utf8(Decompress(DecryptIfOn(Unwrap(p, Base64), enc, key), comp))
==============================================================================
