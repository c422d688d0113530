--------------------------- MODULE BlsStego_proofs ---------------------------
(***************************************************************************)
(* The BLS backend of the unified API and the BLS wrapper keep the promise *)
(* of the channel, stay inside the payloads they are given, read the       *)
(* payloads they write, and read them alike.                               *)
(*                                                                         *)
(* Authenticity: every byte of a signature that is on the wire belongs to  *)
(* a signature that was issued, because the channel only removes, repeats  *)
(* or spoils bytes.  A verification that succeeds has read a byte of the   *)
(* signature of its whole input, so some pHash and salt were signed whose  *)
(* concatenation is that input; salts having one length, that pHash is the *)
(* one recovered.                                                          *)
(*                                                                         *)
(* Round trip: what was sent is one of the layouts of stego_sign, and the  *)
(* reader's test of the length tells which one, or cuts an ambiguous one   *)
(* alike.                                                                  *)
(***************************************************************************)
EXTENDS BlsStego, StegoBytes_proofs

(* The bytes that can be on the wire when the signatures in I were issued. *)
Known(I) ==
  DataBytes \cup {Noise}
    \cup {Byte("pk", k, <<>>, i) : k \in Keys, i \in Nat}
    \cup {Byte("sig", s.key, s.phash \o s.salt, i) : s \in I, i \in Nat}

Issued == [key : Keys, phash : PHashes, salt : Salt]

(* What was sent is a payload of stego_sign.                               *)
SentRight ==
  sent # <<>> =>
    /\ sent.key \in Keys /\ sent.phash \in PHashes
    /\ sent.embed \in BOOLEAN /\ sent.append \in BOOLEAN
    /\ sent.pk \in Keys \cup {NoKey}
    /\ sent.rc = OK =>
         \E salt \in Salt :
           sent.payload = AssemblePayload(sent.phash, salt,
                                          SigBytes(sent.key, sent.phash \o salt),
                                          sent.embed, sent.append, sent.pk)

Fits(phash) == Len(phash) + BLS_SALT_BYTE <= INPUT_MAX
SentFits == sent # <<>> /\ sent.rc = OK => Fits(sent.phash)

IInv ==
  /\ keys \subseteq Keys
  /\ issued \subseteq Issued
  /\ wire \in Seq(Known(issued))
  /\ SentRight
  /\ LifecycleAgrees
  /\ Authentic
  /\ ReadsInBounds
  /\ RoundTrip

(* The invariant of the unified API alone, and the one of both libraries.  *)
UnifiedInv == IInv /\ SentFits

(* The caller holds what bls_sign made.                                    *)
HeldRight ==
  held # <<>> /\ held.rc = OK =>
    /\ held.key \in Keys /\ held.phash \in PHashes /\ held.salt \in Salt
    /\ held.sig = SigBytes(held.key, held.phash \o held.salt)
    /\ [key |-> held.key, phash |-> held.phash, salt |-> held.salt] \in issued
    /\ BLS_SALT_BYTE > 0 => Fits(held.phash)

(* The pieces are those of the wire as it is now.                          *)
CutRight ==
  cut # <<>> =>
    /\ cut.phash_len \in Lengths
    /\ cut.rc = OK <=> Len(wire) >= min_len(cut.phash_len)
    /\ cut.rc = OK =>
         /\ cut.phash = Slice(wire, 0, cut.phash_len)
         /\ cut.salt = Slice(wire, cut.phash_len, BLS_SALT_BYTE)
         /\ cut.sig = Slice(wire, cut.phash_len + BLS_SALT_BYTE, SIG_BYTE)
         /\ LET pk_at == cut.phash_len + BLS_SALT_BYTE + SIG_BYTE
            IN  cut.pk = Slice(wire, pk_at, Len(wire) - pk_at)

BothInv ==
  /\ IInv
  /\ lib \in {"unified", "wrapper"}
  /\ lib = "unified" => SentFits /\ held = <<>> /\ cut = <<>>
  /\ BLS_SALT_BYTE > 0 => SentFits
  /\ HeldRight
  /\ CutRight
  /\ BLS_SALT_BYTE > 0 => ReadersAgree

-----------------------------------------------------------------------------
(* The bytes on the wire.                                                  *)

LEMMA KnownBasics ==
  ASSUME NEW I
  PROVE  /\ DataBytes \subseteq Known(I)
         /\ Noise \in Known(I)
         /\ \A k \in Keys, i \in Nat : Byte("pk", k, <<>>, i) \in Known(I)
         /\ \A s \in I, i \in Nat : Byte("sig", s.key, s.phash \o s.salt, i) \in Known(I)
BY DEF Known

LEMMA KnownMonotonic ==
  ASSUME NEW I, NEW J, I \subseteq J
  PROVE  Known(I) \subseteq Known(J)
BY DEF Known

(* A byte of a signature is a byte of an issued signature.                 *)
LEMMA SignatureByteIsIssued ==
  ASSUME NEW I, NEW b \in Known(I), b.kind = "sig"
  PROVE  \E s \in I : s.key = b.key /\ s.phash \o s.salt = b.data
<1>1. b.kind = "sig"
  OBVIOUS
<1>2. b \notin DataBytes /\ b # Noise
  BY <1>1 DEF DataBytes, DataByte, Noise, Byte
<1>3. \A q \in Keys, n \in Nat : b # Byte("pk", q, <<>>, n)
  BY <1>1 DEF Byte
<1>4. PICK s \in I, n \in Nat : b = Byte("sig", s.key, s.phash \o s.salt, n)
  BY <1>2, <1>3 DEF Known
<1>5. b.key = s.key /\ b.data = s.phash \o s.salt
  BY <1>4 DEF Byte
<1>6. QED
  BY <1>4, <1>5

(* What stego_sign puts on the wire is known once its signature is issued. *)
LEMMA PayloadIsKnown ==
  ASSUME NEW I, NEW key \in Keys, NEW phash \in PHashes, NEW salt \in Salt,
         [key |-> key, phash |-> phash, salt |-> salt] \in I,
         NEW embed \in BOOLEAN, NEW append \in BOOLEAN, NEW pk \in Keys \cup {NoKey}
  PROVE  AssemblePayload(phash, salt, SigBytes(key, phash \o salt), embed, append, pk)
           \in Seq(Known(I))
<1> DEFINE sig  == SigBytes(key, phash \o salt)
           head == IF embed THEN phash ELSE <<>>
           tail == IF append /\ pk # NoKey THEN PkBytes(pk) ELSE <<>>
<1>1. phash \in Seq(DataBytes) /\ BLS_SALT_BYTE \in Nat /\ SIG_BYTE \in Nat /\ PK_BYTE \in Nat
  BY BlsAssumption
<1>2. phash \in Seq(Known(I))
  BY <1>1, KnownBasics, SeqMonotonic
<1>3. salt \in Seq(Known(I))
  <2>1. salt \in [1 .. BLS_SALT_BYTE -> Known(I)]
    BY KnownBasics DEF Salt
  <2>2. QED
    BY <1>1, <2>1, FunctionIsSeq
<1>4. sig \in Seq(Known(I))
  <2>1. \A i \in 1 .. SIG_BYTE : Byte("sig", key, phash \o salt, i) \in Known(I)
    <3> DEFINE s == [key |-> key, phash |-> phash, salt |-> salt]
    <3>1. s.key = key /\ s.phash = phash /\ s.salt = salt /\ s \in I
      OBVIOUS
    <3> HIDE DEF s
    <3>2. \A i \in Nat : Byte("sig", s.key, s.phash \o s.salt, i) \in Known(I)
      BY <3>1, KnownBasics
    <3>3. QED
      BY <1>1, <3>1, <3>2
  <2>2. sig \in [1 .. SIG_BYTE -> Known(I)]
    BY <2>1 DEF SigBytes
  <2>3. QED
    BY <1>1, <2>2, FunctionIsSeq
<1>5. pk # NoKey => PkBytes(pk) \in Seq(Known(I))
  <2>1. SUFFICES ASSUME pk # NoKey PROVE PkBytes(pk) \in Seq(Known(I))
    OBVIOUS
  <2>2. \A i \in 1 .. PK_BYTE : Byte("pk", pk, <<>>, i) \in Known(I)
    BY <1>1, <2>1, KnownBasics
  <2>3. PkBytes(pk) \in [1 .. PK_BYTE -> Known(I)]
    BY <2>2 DEF PkBytes
  <2>4. QED
    BY <1>1, <2>3, FunctionIsSeq
<1>6. head \in Seq(Known(I)) /\ tail \in Seq(Known(I))
  BY <1>2, <1>5, EmptySeq
<1>7. AssemblePayload(phash, salt, sig, embed, append, pk) = head \o salt \o sig \o tail
  BY DEF AssemblePayload
<1> HIDE DEF sig, head, tail
<1>8. head \o salt \o sig \o tail \in Seq(Known(I))
  BY <1>3, <1>4, <1>6, ConcatProperties
<1>9. QED
  BY <1>7, <1>8 DEF sig

-----------------------------------------------------------------------------
(* The payloads of stego_sign.                                             *)

(* The parts of a payload, at the places that their lengths say.           *)
LEMMA PayloadParts ==
  ASSUME NEW key \in Keys, NEW phash \in PHashes, NEW salt \in Salt,
         NEW embed \in BOOLEAN, NEW append \in BOOLEAN, NEW pk \in Keys \cup {NoKey},
         NEW payload,
         payload = AssemblePayload(phash, salt, SigBytes(key, phash \o salt), embed, append, pk)
  PROVE  LET at   == IF embed THEN Len(phash) ELSE 0
             more == IF append /\ pk # NoKey THEN PK_BYTE ELSE 0
         IN  /\ Len(phash) \in Nat /\ (Len(phash) = 0 => phash = <<>>)
             /\ Len(payload) = at + BLS_SALT_BYTE + SIG_BYTE + more
             /\ embed => Slice(payload, 0, at) = phash
             /\ Slice(payload, 0, 0) = <<>>
             /\ Slice(payload, at, BLS_SALT_BYTE) = salt
             /\ Slice(payload, at + BLS_SALT_BYTE, SIG_BYTE) = SigBytes(key, phash \o salt)
             /\ append /\ pk # NoKey =>
                  Slice(payload, at + BLS_SALT_BYTE + SIG_BYTE, PK_BYTE) = PkBytes(pk)
<1> DEFINE sig  == SigBytes(key, phash \o salt)
           head == IF embed THEN phash ELSE <<>>
           tail == IF append /\ pk # NoKey THEN PkBytes(pk) ELSE <<>>
           S    == DataBytes \cup {sig[i] : i \in 1 .. SIG_BYTE} \cup {PkBytes(pk)[i] : i \in 1 .. PK_BYTE}
<1>1. phash \in Seq(DataBytes) /\ BLS_SALT_BYTE \in Nat /\ SIG_BYTE \in Nat /\ PK_BYTE \in Nat
  BY BlsAssumption
<1>2. DataBytes \subseteq S
  OBVIOUS
<1>3. sig \in [1 .. SIG_BYTE -> S] /\ PkBytes(pk) \in [1 .. PK_BYTE -> S]
  BY DEF SigBytes, PkBytes
<1>4. payload = head \o salt \o sig \o tail
  BY DEF AssemblePayload
<1>5. phash = <<>> \/ phash # <<>>
  OBVIOUS
<1> HIDE DEF S, sig
<1>6. salt \in Seq(S) /\ Len(salt) = BLS_SALT_BYTE
  BY <1>1, <1>2, FunctionIsSeq, SeqMonotonic DEF Salt
<1>7. sig \in Seq(S) /\ Len(sig) = SIG_BYTE /\ PkBytes(pk) \in Seq(S) /\ Len(PkBytes(pk)) = PK_BYTE
  BY <1>1, <1>3, FunctionIsSeq
<1>8. /\ phash \in Seq(S) /\ <<>> \in Seq(S) /\ Len(<<>>) = 0
      /\ Len(phash) \in Nat /\ (Len(phash) = 0 => phash = <<>>)
  BY <1>1, <1>2, SeqMonotonic, EmptySeq, LenProperties
<1>9. head \in Seq(S) /\ tail \in Seq(S)
  BY <1>7, <1>8
<1>10. /\ Len(head) = IF embed THEN Len(phash) ELSE 0
       /\ Len(tail) = IF append /\ pk # NoKey THEN PK_BYTE ELSE 0
  BY <1>7, <1>8
<1>11. /\ Len(payload) = Len(head) + Len(salt) + Len(sig) + Len(tail)
       /\ Slice(payload, 0, Len(head)) = head
       /\ Slice(payload, Len(head), Len(salt)) = salt
       /\ Slice(payload, Len(head) + Len(salt), Len(sig)) = sig
       /\ Slice(payload, Len(head) + Len(salt) + Len(sig), Len(tail)) = tail
  <2>1. head \in Seq(S) /\ salt \in Seq(S) /\ sig \in Seq(S) /\ tail \in Seq(S)
    BY <1>6, <1>7, <1>9
  <2> HIDE DEF head, tail
  <2>2. payload = head \o salt \o sig \o tail
    BY ONLY <1>4
  <2>3. QED
    BY <2>1, <2>2, SlicesOfPayload
<1>12. Slice(payload, 0, 0) = <<>>
  <2>1. Slice(payload, 0, 0) = [i \in 1 .. 0 |-> IF 0 + i <= Len(payload) THEN payload[0 + i] ELSE Noise]
    BY DEF Slice
  <2>2. 1 .. 0 = {}
    OBVIOUS
  <2>3. Slice(payload, 0, 0) \in [1 .. 0 -> S]
    BY <2>1, <2>2
  <2>4. Slice(payload, 0, 0) \in Seq(S) /\ Len(Slice(payload, 0, 0)) = 0
    BY <2>3, FunctionIsSeq
  <2>5. QED
    BY <2>4, EmptySeq
<1> HIDE DEF head, tail
<1>13. embed => head = phash
  BY DEF head
<1>14. append /\ pk # NoKey => tail = PkBytes(pk)
  BY DEF tail
<1>15. QED
  BY <1>6, <1>7, <1>8, <1>10, <1>11, <1>12, <1>13, <1>14 DEF sig

(* A payload has the size that was announced for it.                       *)
LEMMA SentIsSized == ASSUME SentRight PROVE PayloadSized
<1> SUFFICES ASSUME sent # <<>>, sent.rc = OK, sent.append => sent.pk # NoKey
             PROVE  Len(sent.payload) = stego_payload_bytes(Len(sent.phash), sent.embed, sent.append)
  BY DEF PayloadSized
<1>1. PICK salt \in Salt :
        sent.payload = AssemblePayload(sent.phash, salt, SigBytes(sent.key, sent.phash \o salt),
                                       sent.embed, sent.append, sent.pk)
  BY DEF SentRight
<1>2. /\ Len(sent.phash) \in Nat
      /\ Len(sent.payload) = (IF sent.embed THEN Len(sent.phash) ELSE 0) + BLS_SALT_BYTE + SIG_BYTE
                               + (IF sent.append /\ sent.pk # NoKey THEN PK_BYTE ELSE 0)
  BY <1>1, PayloadParts DEF SentRight
<1>3. (sent.append /\ sent.pk # NoKey) <=> sent.append
  OBVIOUS
<1>4. Len(sent.payload) = (IF sent.embed THEN Len(sent.phash) ELSE 0) + BLS_SALT_BYTE + SIG_BYTE
                           + (IF sent.append THEN PK_BYTE ELSE 0)
  BY <1>2, <1>3, Zenon
<1> DEFINE x == IF sent.embed THEN Len(sent.phash) ELSE 0
           z == IF sent.append THEN PK_BYTE ELSE 0
<1>5. x \in Nat /\ z \in Nat /\ BLS_SALT_BYTE \in Nat /\ SIG_BYTE \in Nat
  BY <1>2, BlsAssumption
<1>6. /\ Len(sent.payload) = x + BLS_SALT_BYTE + SIG_BYTE + z
      /\ stego_payload_bytes(Len(sent.phash), sent.embed, sent.append) = BLS_SALT_BYTE + SIG_BYTE + x + z
  BY <1>4 DEF stego_payload_bytes, stego_sig_bytes, stego_pk_bytes
<1> HIDE DEF x, z
<1>7. x + BLS_SALT_BYTE + SIG_BYTE + z = BLS_SALT_BYTE + SIG_BYTE + x + z
  BY ONLY <1>5
<1>8. QED
  BY <1>6, <1>7

(* What Parse makes of an undamaged payload when it is told the length of  *)
(* the pHash: the parts that were signed.                                  *)
LEMMA ParseUndamaged ==
  ASSUME SentRight, Undamaged, ~Ambiguous,
         NEW phash_len, phash_len = Len(sent.phash),
         NEW expected, ~sent.embed => expected = sent.phash,
         NEW parsed, parsed = Parse(wire, phash_len)
  PROVE  /\ Len(wire) >= min_no_phash
         /\ parsed.embedded \/ expected # <<>>
         /\ (IF parsed.embedded THEN parsed.phash ELSE expected) = sent.phash
         /\ \E salt : /\ parsed.salt = salt
                      /\ parsed.sig = SigBytes(sent.key, sent.phash \o salt)
         /\ parsed.remaining \in Nat
         /\ sent.append /\ sent.pk # NoKey =>
              parsed.remaining = PK_BYTE /\ Slice(wire, parsed.end, PK_BYTE) = PkBytes(sent.pk)
<1> DEFINE at   == IF sent.embed THEN phash_len ELSE 0
           more == IF sent.append /\ sent.pk # NoKey THEN PK_BYTE ELSE 0
<1>1. PICK salt \in Salt :
        sent.payload = AssemblePayload(sent.phash, salt, SigBytes(sent.key, sent.phash \o salt),
                                       sent.embed, sent.append, sent.pk)
  BY DEF SentRight, Undamaged
<1>2. wire = sent.payload
  BY DEF Undamaged
<1>3. /\ phash_len \in Nat /\ (phash_len = 0 => sent.phash = <<>>)
      /\ Len(wire) = at + BLS_SALT_BYTE + SIG_BYTE + more
      /\ sent.embed => Slice(wire, 0, at) = sent.phash
      /\ Slice(wire, 0, 0) = <<>>
      /\ Slice(wire, at, BLS_SALT_BYTE) = salt
      /\ Slice(wire, at + BLS_SALT_BYTE, SIG_BYTE) = SigBytes(sent.key, sent.phash \o salt)
      /\ sent.append /\ sent.pk # NoKey =>
           Slice(wire, at + BLS_SALT_BYTE + SIG_BYTE, PK_BYTE) = PkBytes(sent.pk)
  BY <1>1, <1>2, PayloadParts DEF SentRight, Undamaged
<1>4. BLS_SALT_BYTE \in Nat /\ SIG_BYTE \in Nat /\ PK_BYTE \in Nat /\ sent.embed \in BOOLEAN
  BY BlsAssumption DEF SentRight, Undamaged
<1>5. sent.phash = <<>> => phash_len = 0
  OBVIOUS
<1>a. /\ sent.embed => at = phash_len
      /\ ~sent.embed => at = 0
      /\ (more = PK_BYTE /\ sent.append /\ sent.pk # NoKey) \/ more = 0
  OBVIOUS
<1>b. /\ min_no_phash = BLS_SALT_BYTE + SIG_BYTE
      /\ min_with_phash(phash_len) = phash_len + (BLS_SALT_BYTE + SIG_BYTE)
  BY DEF min_with_phash, min_no_phash, stego_sig_bytes
<1>c. at \in Nat /\ more \in Nat
  BY <1>3, <1>4
<1>d. ~sent.embed /\ more # 0 => ~(phash_len <= PK_BYTE)
  BY <1>a DEF Ambiguous
<1>e. Len(wire) = at + BLS_SALT_BYTE + SIG_BYTE + more /\ phash_len \in Nat
  BY <1>3
<1> DEFINE n == Len(wire)
           enough == min_with_phash(phash_len)
           from == min_no_phash
<1> HIDE DEF at, more, n, enough, from
<1>f. /\ n = at + BLS_SALT_BYTE + SIG_BYTE + more /\ phash_len \in Nat
      /\ enough = phash_len + (BLS_SALT_BYTE + SIG_BYTE)
      /\ from = BLS_SALT_BYTE + SIG_BYTE
      /\ BLS_SALT_BYTE \in Nat /\ SIG_BYTE \in Nat /\ PK_BYTE \in Nat
  BY <1>b, <1>e, <1>4 DEF n, enough, from
<1>g. /\ at = phash_len => n >= enough
      /\ at = 0 /\ more = 0 => (n >= enough <=> phash_len = 0)
      /\ at = 0 /\ more = PK_BYTE /\ ~(phash_len <= PK_BYTE) => ~(n >= enough)
      /\ n >= from /\ n - (at + from) = more /\ at + from = at + BLS_SALT_BYTE + SIG_BYTE
  BY ONLY <1>c, <1>f
<1>h. /\ sent.embed => n >= enough
      /\ ~sent.embed => (n >= enough <=> phash_len = 0)
  <2>1. CASE sent.embed
    BY <1>a, <1>g, <2>1, Zenon
  <2>2. CASE ~sent.embed /\ more = 0
    BY <1>a, <1>g, <2>2, Zenon
  <2>3. CASE ~sent.embed /\ more # 0
    <3>1. at = 0 /\ more = PK_BYTE /\ ~(phash_len <= PK_BYTE)
      BY <1>a, <1>d, <2>3, Zenon
    <3>2. ~(n >= enough)
      BY <1>g, <3>1, Zenon
    <3>3. phash_len # 0
      BY ONLY <3>1, <1>f
    <3>4. QED
      BY <2>3, <3>2, <3>3, Zenon
  <2>4. QED
    BY <2>1, <2>2, <2>3, Zenon
<1>6. /\ at = IF Len(wire) >= min_with_phash(phash_len) THEN phash_len ELSE 0
      /\ Len(wire) >= min_with_phash(phash_len) \/ (~sent.embed /\ phash_len # 0)
      /\ Len(wire) >= min_with_phash(phash_len) => sent.embed \/ phash_len = 0
  <2>1. CASE sent.embed
    BY <1>a, <1>h, <2>1 DEF n, enough
  <2>2. CASE ~sent.embed
    BY <1>a, <1>h, <2>2 DEF n, enough
  <2>3. QED
    BY <2>1, <2>2
<1>7. /\ parsed.embedded = (Len(wire) >= min_with_phash(phash_len))
      /\ parsed.phash = Slice(wire, 0, at)
      /\ parsed.salt = Slice(wire, at, BLS_SALT_BYTE)
      /\ parsed.sig = Slice(wire, at + BLS_SALT_BYTE, SIG_BYTE)
      /\ parsed.end = at + min_no_phash
      /\ parsed.remaining = Len(wire) - (at + min_no_phash)
  BY <1>6 DEF Parse, stego_sig_bytes
<1>8. at + min_no_phash = at + BLS_SALT_BYTE + SIG_BYTE
  BY <1>g DEF from
<1>9. Len(wire) >= min_no_phash /\ parsed.remaining = more /\ more \in Nat
  BY <1>c, <1>g, <1>7 DEF n, from
<1>10. (IF parsed.embedded THEN parsed.phash ELSE expected) = sent.phash
  BY <1>3, <1>6, <1>7
<1>11. parsed.embedded \/ expected # <<>>
  BY <1>5, <1>6, <1>7
<1>12. parsed.remaining \in Nat
  BY <1>9
<1>13. ASSUME sent.append, sent.pk # NoKey
       PROVE  parsed.remaining = PK_BYTE /\ Slice(wire, parsed.end, PK_BYTE) = PkBytes(sent.pk)
  BY <1>3, <1>7, <1>8, <1>9, <1>13 DEF more
<1>14. QED
  BY <1>3, <1>7, <1>9, <1>10, <1>11, <1>12, <1>13, Zenon

-----------------------------------------------------------------------------
(* The readers.                                                            *)

LEMMA LengthIsNat == ASSUME NEW phash_len \in Lengths PROVE phash_len \in Nat
<1>1. PICK p \in PHashes : phash_len = Len(p)
  BY DEF Lengths
<1>2. p \in Seq(DataBytes)
  BY BlsAssumption
<1>3. QED
  BY <1>1, <1>2, LenProperties

(* A signature that verifies, of bytes that were on the wire, is one of    *)
(* those issued, and its pHash the one it is verified for.                 *)
LEMMA AcceptedIsIssued ==
  ASSUME NEW I, I \subseteq Issued, NEW sig, sig[1] \in Known(I), NEW pk,
         NEW phash \in Seq(Known(I)), NEW salt \in Seq(Known(I)), Len(salt) = BLS_SALT_BYTE,
         cp_bls_ver(sig, phash \o salt, pk)
  PROVE  \E s \in I : pk = PkBytes(s.key) /\ s.phash = phash
<1> DEFINE input == phash \o salt
           b     == sig[1]
<1>1. SIG_BYTE \in Nat /\ 1 \in 1 .. SIG_BYTE
  BY BlsAssumption
<1>2. b \in Known(I)
  OBVIOUS
<1>3. PICK k \in Keys : pk = PkBytes(k) /\ sig = SigBytes(k, input)
  BY DEF cp_bls_ver
<1> HIDE DEF input
<1>4. b = SigBytes(k, input)[1]
  BY <1>3
<1>5. b.kind = "sig" /\ b.key = k /\ b.data = input
  BY <1>1, <1>4 DEF SigBytes, Byte
<1> HIDE DEF b
<1>6. PICK s \in I : s.key = k /\ s.phash \o s.salt = input
  BY <1>2, <1>5, SignatureByteIsIssued
<1>7. s.phash \in Seq(Known(I)) /\ s.salt \in Seq(Known(I)) /\ Len(s.salt) = BLS_SALT_BYTE
  <2>1. s.phash \in PHashes /\ s.salt \in Salt
    BY DEF Issued
  <2>2. s.phash \in Seq(DataBytes) /\ BLS_SALT_BYTE \in Nat
    BY <2>1, BlsAssumption
  <2>3. s.salt \in Seq(DataBytes) /\ Len(s.salt) = BLS_SALT_BYTE
    BY <2>1, <2>2, FunctionIsSeq DEF Salt
  <2>4. QED
    BY <2>2, <2>3, KnownBasics, SeqMonotonic
<1>8. s.phash = phash
  BY <1>6, <1>7, SameTailLength DEF input
<1>9. QED
  BY <1>3, <1>6, <1>8

(* The pieces that a reader cuts out of a wire of known bytes.             *)
LEMMA PiecesAreKnown ==
  ASSUME NEW I, NEW w \in Seq(Known(I)), NEW at \in Nat
  PROVE  /\ Slice(w, 0, at) \in Seq(Known(I)) /\ Len(Slice(w, 0, at)) = at
         /\ Slice(w, at, BLS_SALT_BYTE) \in Seq(Known(I))
         /\ Len(Slice(w, at, BLS_SALT_BYTE)) = BLS_SALT_BYTE
         /\ Slice(w, at + BLS_SALT_BYTE, SIG_BYTE)[1] \in Known(I)
<1>1. /\ BLS_SALT_BYTE \in Nat /\ at + BLS_SALT_BYTE \in Nat
      /\ SIG_BYTE \in Nat /\ 1 \in 1 .. SIG_BYTE
  BY BlsAssumption
<1>2. Noise \in Known(I)
  BY KnownBasics
<1> DEFINE from == at + BLS_SALT_BYTE
<1>3. Slice(w, from, SIG_BYTE)[1] \in Known(I)
  <2>1. from \in Nat
    BY <1>1
  <2> HIDE DEF from
  <2>2. \A i \in 1 .. SIG_BYTE : Slice(w, from, SIG_BYTE)[i] \in Known(I)
    BY <1>1, <1>2, <2>1, SliceIsSeq
  <2>3. QED
    BY <1>1, <2>2
<1>4. /\ Slice(w, at, BLS_SALT_BYTE) \in Seq(Known(I))
      /\ Len(Slice(w, at, BLS_SALT_BYTE)) = BLS_SALT_BYTE
  BY <1>1, <1>2, SliceIsSeq
<1>5. Slice(w, 0, at) \in Seq(Known(I)) /\ Len(Slice(w, 0, at)) = at
  BY <1>2, SliceIsSeq
<1>6. QED
  BY <1>3, <1>4, <1>5

(* What stego_verify leaves: a refusal that has read nothing, for a reason *)
(* that the wire or the arguments give, or the verdict of the library on   *)
(* what Parse made of the wire.                                            *)
VerifyPhash(parsed, expected) == IF parsed.embedded THEN parsed.phash ELSE expected

Refused(parsed, ext_pk, expected) ==
  /\ verdict'.rc # OK /\ verdict'.read = 0
  /\ \/ Len(wire) < min_no_phash
     \/ ~(parsed.embedded \/ expected # <<>>)
     \/ ext_pk = NoKey /\ parsed.remaining < stego_pk_bytes
     \/ Len(VerifyPhash(parsed, expected)) + BLS_SALT_BYTE > INPUT_MAX

Judged(parsed, ext_pk, expected) ==
  /\ Len(wire) >= min_no_phash
  /\ ext_pk # NoKey \/ parsed.remaining >= stego_pk_bytes
  /\ verdict'.recovered = VerifyPhash(parsed, expected)
  /\ verdict'.pk = PkData(wire, parsed, ext_pk)
  /\ verdict'.read = LastRead(parsed, ext_pk)
  /\ verdict'.rc = OK <=> cp_bls_ver(parsed.sig, VerifyPhash(parsed, expected) \o parsed.salt,
                                     PkData(wire, parsed, ext_pk))

LEMMA VerifyOutcome ==
  ASSUME NEW phash_len, NEW ext_pk, NEW expected, stego_verify(phash_len, ext_pk, expected)
  PROVE  /\ verdict'.phash_len = phash_len /\ verdict'.ext_pk = ext_pk
         /\ verdict'.expected = expected
         /\ \/ Refused(Parse(wire, phash_len), ext_pk, expected)
            \/ Judged(Parse(wire, phash_len), ext_pk, expected)
<1> DEFINE parsed == Parse(wire, phash_len)
           accepted == cp_bls_ver(parsed.sig, VerifyPhash(parsed, expected) \o parsed.salt,
                                  PkData(wire, parsed, ext_pk))
           Return(rc, recovered, pk, read) ==
             verdict' = VerifyCall(phash_len, ext_pk, expected, rc, recovered, pk, read)
<1>1. \/ /\ Len(wire) < min_no_phash
         /\ Return(ERR, <<>>, <<>>, 0)
      \/ /\ ~parsed.embedded /\ expected = <<>>
         /\ Return(ERR_NO_PHASH, <<>>, <<>>, 0)
      \/ /\ ext_pk = NoKey /\ parsed.remaining < stego_pk_bytes
         /\ Return(ERR, VerifyPhash(parsed, expected), <<>>, 0)
      \/ /\ Len(VerifyPhash(parsed, expected)) + BLS_SALT_BYTE > INPUT_MAX
         /\ Return(ERR, VerifyPhash(parsed, expected), <<>>, 0)
      \/ /\ Len(wire) >= min_no_phash
         /\ ext_pk # NoKey \/ parsed.remaining >= stego_pk_bytes
         /\ \E rc \in IF accepted THEN {OK} ELSE {ERR_VERIFY, ERR} :
              Return(rc, VerifyPhash(parsed, expected), PkData(wire, parsed, ext_pk),
                     LastRead(parsed, ext_pk))
  BY DEF stego_verify, VerifyPhash
<1>2. OK # ERR /\ OK # ERR_VERIFY /\ OK # ERR_NO_PHASH
  BY DEF OK, ERR, ERR_VERIFY, ERR_NO_PHASH
<1>3. \A rc, recovered, pk, read :
        Return(rc, recovered, pk, read) =>
          /\ verdict'.phash_len = phash_len /\ verdict'.ext_pk = ext_pk
          /\ verdict'.expected = expected /\ verdict'.rc = rc /\ verdict'.recovered = recovered
          /\ verdict'.pk = pk /\ verdict'.read = read
  BY DEF VerifyCall
<1> HIDE DEF parsed, accepted, Return
<1>4. CASE \/ /\ Len(wire) < min_no_phash
              /\ Return(ERR, <<>>, <<>>, 0)
           \/ /\ ~parsed.embedded /\ expected = <<>>
              /\ Return(ERR_NO_PHASH, <<>>, <<>>, 0)
           \/ /\ ext_pk = NoKey /\ parsed.remaining < stego_pk_bytes
              /\ Return(ERR, VerifyPhash(parsed, expected), <<>>, 0)
           \/ /\ Len(VerifyPhash(parsed, expected)) + BLS_SALT_BYTE > INPUT_MAX
              /\ Return(ERR, VerifyPhash(parsed, expected), <<>>, 0)
  BY <1>2, <1>3, <1>4, Zenon DEF Refused, parsed
<1>5. CASE /\ Len(wire) >= min_no_phash
           /\ ext_pk # NoKey \/ parsed.remaining >= stego_pk_bytes
           /\ \E rc \in IF accepted THEN {OK} ELSE {ERR_VERIFY, ERR} :
                Return(rc, VerifyPhash(parsed, expected), PkData(wire, parsed, ext_pk),
                       LastRead(parsed, ext_pk))
  <2>1. PICK rc \in IF accepted THEN {OK} ELSE {ERR_VERIFY, ERR} :
          Return(rc, VerifyPhash(parsed, expected), PkData(wire, parsed, ext_pk),
                 LastRead(parsed, ext_pk))
    BY <1>5, Zenon
  <2>2. rc = OK <=> accepted
    <3>1. CASE accepted
      BY <3>1
    <3>2. CASE ~accepted
      BY <1>2, <3>2
    <3>3. QED
      BY <3>1, <3>2
  <2>3. /\ verdict'.phash_len = phash_len /\ verdict'.ext_pk = ext_pk
        /\ verdict'.expected = expected
        /\ verdict'.rc = rc /\ verdict'.recovered = VerifyPhash(parsed, expected)
        /\ verdict'.pk = PkData(wire, parsed, ext_pk) /\ verdict'.read = LastRead(parsed, ext_pk)
    BY <1>3, <2>1, Zenon
  <2>4. QED
    BY <1>5, <2>2, <2>3, Zenon DEF Judged, parsed, accepted
<1>6. QED
  BY <1>1, <1>4, <1>5, Zenon

(* What Parse cuts out, with the pHash of the wire or the verifier's.      *)
LEMMA ParsedIsKnown ==
  ASSUME NEW I, NEW w \in Seq(Known(I)), NEW phash_len \in Nat,
         NEW expected \in PHashes \cup {<<>>},
         NEW parsed, parsed = Parse(w, phash_len)
  PROVE  /\ VerifyPhash(parsed, expected) \in Seq(Known(I))
         /\ parsed.salt \in Seq(Known(I)) /\ Len(parsed.salt) = BLS_SALT_BYTE
         /\ parsed.sig[1] \in Known(I)
<1> DEFINE at == IF parsed.embedded THEN phash_len ELSE 0
<1>1. at \in Nat
  OBVIOUS
<1>2. /\ parsed.phash = Slice(w, 0, at)
      /\ parsed.salt = Slice(w, at, BLS_SALT_BYTE)
      /\ parsed.sig = Slice(w, at + BLS_SALT_BYTE, SIG_BYTE)
  BY DEF Parse, stego_sig_bytes
<1>3. expected \in Seq(Known(I))
  <2>1. expected \in Seq(DataBytes)
    BY BlsAssumption, EmptySeq
  <2>2. QED
    BY <2>1, KnownBasics, SeqMonotonic
<1> HIDE DEF at
<1>4. /\ Slice(w, 0, at) \in Seq(Known(I))
      /\ Slice(w, at, BLS_SALT_BYTE) \in Seq(Known(I))
      /\ Len(Slice(w, at, BLS_SALT_BYTE)) = BLS_SALT_BYTE
      /\ Slice(w, at + BLS_SALT_BYTE, SIG_BYTE)[1] \in Known(I)
  BY <1>1, PiecesAreKnown
<1>5. VerifyPhash(parsed, expected) \in Seq(Known(I))
  BY <1>2, <1>3, <1>4 DEF VerifyPhash
<1>6. QED
  BY <1>2, <1>4, <1>5

(* A payload that verifies was signed.                                     *)
LEMMA VerdictIsAuthentic ==
  ASSUME IInv, NEW phash_len \in Lengths, NEW ext_pk, NEW expected \in PHashes \cup {<<>>},
         stego_verify(phash_len, ext_pk, expected)
  PROVE  Authentic'
<1> SUFFICES ASSUME verdict'.rc = OK
             PROVE  \E s \in issued : verdict'.pk = PkBytes(s.key) /\ verdict'.recovered = s.phash
  <2>1. UNCHANGED issued
    BY DEF stego_verify
  <2>2. QED
    BY <2>1 DEF Authentic, Accepted
<1> DEFINE parsed == Parse(wire, phash_len)
<1>1. Judged(parsed, ext_pk, expected)
  BY VerifyOutcome DEF Refused
<1>2. /\ VerifyPhash(parsed, expected) \in Seq(Known(issued))
      /\ parsed.salt \in Seq(Known(issued)) /\ Len(parsed.salt) = BLS_SALT_BYTE
      /\ parsed.sig[1] \in Known(issued)
  BY LengthIsNat, ParsedIsKnown DEF IInv
<1>3. issued \subseteq Issued
  BY DEF IInv
<1> HIDE DEF parsed
<1>4. cp_bls_ver(parsed.sig, VerifyPhash(parsed, expected) \o parsed.salt, verdict'.pk)
  BY <1>1 DEF Judged
<1>5. \E s \in issued : verdict'.pk = PkBytes(s.key) /\ s.phash = VerifyPhash(parsed, expected)
  BY <1>2, <1>3, <1>4, AcceptedIsIssued
<1>6. QED
  BY <1>1, <1>5 DEF Judged

(* stego_verify reads no further than the payload goes.                    *)
LEMMA VerdictReadsInBounds ==
  ASSUME IInv, NEW phash_len \in Lengths, NEW ext_pk, NEW expected,
         stego_verify(phash_len, ext_pk, expected)
  PROVE  ReadsInBounds'
<1> SUFFICES verdict'.read <= Len(wire)
  <2>1. UNCHANGED wire
    BY DEF stego_verify
  <2>2. QED
    BY <2>1 DEF ReadsInBounds
<1> DEFINE parsed == Parse(wire, phash_len)
           n == Len(wire)
<1>1. n \in Nat
  BY LenProperties DEF IInv
<1>2. CASE Refused(parsed, ext_pk, expected)
  <2>1. verdict'.read = 0
    BY <1>2 DEF Refused
  <2>2. QED
    BY <1>1, <2>1
<1>3. CASE Judged(parsed, ext_pk, expected)
  <2>1. phash_len \in Nat /\ BLS_SALT_BYTE \in Nat /\ SIG_BYTE \in Nat /\ PK_BYTE \in Nat
    BY LengthIsNat, BlsAssumption
  <2>2. min_no_phash = BLS_SALT_BYTE + SIG_BYTE
    BY DEF min_no_phash, stego_sig_bytes
  <2>3. /\ parsed.end = (IF n >= phash_len + min_no_phash THEN phash_len ELSE 0) + min_no_phash
        /\ parsed.remaining = n - parsed.end
    BY DEF Parse, min_with_phash
  <2>4. n >= min_no_phash
    BY <1>3 DEF Judged
  <2> DEFINE end == parsed.end
             rem == parsed.remaining
  <2> HIDE DEF parsed, n, end, rem
  <2>5. end \in Nat /\ rem = n - end /\ end <= n
    <3>1. /\ end = (IF n >= phash_len + min_no_phash THEN phash_len ELSE 0) + min_no_phash
          /\ rem = n - end
      BY <2>3 DEF end, rem
    <3>2. QED
      BY ONLY <1>1, <2>1, <2>2, <2>4, <3>1
  <2>6. CASE ext_pk # NoKey
    <3>1. verdict'.read = end + 0
      BY <1>3, <2>6 DEF Judged, LastRead, end
    <3>2. QED
      BY <1>1, <2>5, <3>1 DEF n
  <2>7. CASE ext_pk = NoKey
    <3>1. verdict'.read = end + PK_BYTE /\ rem >= PK_BYTE
      BY <1>3, <2>7 DEF Judged, LastRead, end, rem, stego_pk_bytes
    <3>2. end + PK_BYTE <= n
      BY ONLY <1>1, <2>1, <2>5, <3>1
    <3>3. QED
      BY <3>1, <3>2 DEF n
  <2>8. QED
    BY <2>6, <2>7
<1>4. QED
  BY <1>2, <1>3, VerifyOutcome

(* What was sent in a layout that is not ambiguous, and fits the signing   *)
(* input, verifies as it was sent.                                         *)
LEMMA VerdictRoundTrip ==
  ASSUME IInv, SentFits, NEW phash_len \in Lengths, NEW ext_pk,
         NEW expected \in PHashes \cup {<<>>},
         stego_verify(phash_len, ext_pk, expected)
  PROVE  RoundTrip'
<1>1. UNCHANGED <<sent, wire>>
  BY DEF stego_verify
<1>2. /\ verdict'.phash_len = phash_len /\ verdict'.ext_pk = ext_pk
      /\ verdict'.expected = expected
      /\ \/ Refused(Parse(wire, phash_len), ext_pk, expected)
         \/ Judged(Parse(wire, phash_len), ext_pk, expected)
  BY VerifyOutcome
<1> SUFFICES ASSUME Undamaged, ~Ambiguous, phash_len = Len(sent.phash),
                    ext_pk = sent.key \/ (ext_pk = NoKey /\ sent.append /\ sent.pk = sent.key),
                    ~sent.embed => expected = sent.phash
             PROVE  verdict'.rc = OK /\ verdict'.recovered = sent.phash
  BY <1>1, <1>2, Zenon DEF RoundTrip, Undamaged, Ambiguous, WellInformed
<1> DEFINE parsed == Parse(wire, phash_len)
<1>3. /\ Len(wire) >= min_no_phash
      /\ parsed.embedded \/ expected # <<>>
      /\ VerifyPhash(parsed, expected) = sent.phash
      /\ \E salt : parsed.salt = salt /\ parsed.sig = SigBytes(sent.key, sent.phash \o salt)
      /\ parsed.remaining \in Nat
      /\ sent.append /\ sent.pk # NoKey =>
           parsed.remaining = PK_BYTE /\ Slice(wire, parsed.end, PK_BYTE) = PkBytes(sent.pk)
  BY ParseUndamaged DEF IInv, VerifyPhash
<1> HIDE DEF parsed
<1>4. sent.key \in Keys /\ sent.key # NoKey /\ Fits(sent.phash) /\ PK_BYTE \in Nat
  BY BlsAssumption DEF IInv, SentRight, SentFits, Undamaged
<1>5. /\ ext_pk # NoKey \/ parsed.remaining = PK_BYTE
      /\ PkData(wire, parsed, ext_pk) = PkBytes(sent.key)
  BY <1>3, <1>4 DEF PkData, stego_pk_bytes
<1>6. ~Refused(parsed, ext_pk, expected)
  <2>1. ~(Len(sent.phash) + BLS_SALT_BYTE > INPUT_MAX)
    <3>1. Len(sent.phash) \in Nat /\ BLS_SALT_BYTE \in Nat /\ INPUT_MAX \in Nat
      BY LengthIsNat, BlsAssumption
    <3>2. Len(sent.phash) + BLS_SALT_BYTE <= INPUT_MAX
      BY <1>4 DEF Fits
    <3>3. QED
      BY <3>1, <3>2
  <2>2. ~(Len(wire) < min_no_phash)
    <3>1. Len(wire) \in Nat /\ min_no_phash \in Nat
      BY LenProperties, BlsAssumption DEF IInv, min_no_phash, stego_sig_bytes
    <3>2. QED
      BY <1>3, <3>1
  <2>3. ~(ext_pk = NoKey /\ parsed.remaining < stego_pk_bytes)
    <3>1. PK_BYTE \in Nat /\ (parsed.remaining = PK_BYTE => ~(parsed.remaining < PK_BYTE))
      BY <1>4
    <3>2. QED
      BY <1>5, <3>1 DEF stego_pk_bytes
  <2>4. QED
    BY <1>3, <2>1, <2>2, <2>3, Zenon DEF Refused
<1>7. Judged(parsed, ext_pk, expected)
  BY <1>2, <1>6 DEF parsed
<1>8. cp_bls_ver(parsed.sig, sent.phash \o parsed.salt, PkBytes(sent.key))
  BY <1>3, <1>4 DEF cp_bls_ver
<1>9. QED
  BY <1>3, <1>5, <1>7, <1>8 DEF Judged

-----------------------------------------------------------------------------
(* The unified API.                                                        *)

LEMMA InitInv == Init => UnifiedInv
<1> SUFFICES ASSUME Init PROVE UnifiedInv
  OBVIOUS
<1>1. keys \subseteq Keys /\ issued \subseteq Issued /\ wire \in Seq(Known(issued))
  BY EmptySeq DEF Init
<1>2. SentRight /\ SentFits
  BY DEF Init, SentRight, SentFits
<1>3. LifecycleAgrees
  BY DEF Init, LifecycleAgrees
<1>4. Authentic /\ ReadsInBounds /\ RoundTrip
  BY DEF Init, Authentic, ReadsInBounds, RoundTrip
<1>5. QED
  BY <1>1, <1>2, <1>3, <1>4 DEF UnifiedInv, IInv

(* Nothing is claimed of a verification when there is none.                *)
LEMMA NoVerdict ==
  ASSUME verdict' = <<>>
  PROVE  Authentic' /\ ReadsInBounds' /\ RoundTrip'
BY DEF Authentic, ReadsInBounds, RoundTrip

(* A step that leaves signatures, wire and verdict alone.                  *)
LEMMA Unaffected ==
  ASSUME IInv, UNCHANGED <<issued, sent, wire>>, verdict' = <<>> \/ verdict' = verdict,
         keys' \subseteq Keys, LifecycleAgrees'
  PROVE  IInv'
<1>1. issued' \subseteq Issued /\ wire' \in Seq(Known(issued')) /\ SentRight'
  BY DEF IInv, SentRight
<1>2. CASE verdict' = <<>>
  BY <1>1, <1>2, NoVerdict DEF IInv
<1>3. CASE verdict' = verdict
  <2>1. Authentic' /\ ReadsInBounds'
    BY <1>3 DEF IInv, Authentic, Accepted, ReadsInBounds
  <2>2. RoundTrip'
    BY <1>3 DEF IInv, RoundTrip, Undamaged, Ambiguous, WellInformed
  <2>3. QED
    BY <1>1, <2>1, <2>2 DEF IInv
<1>4. QED
  BY <1>2, <1>3

LEMMA SaltIsSalt ==
  ASSUME NEW user_salt \in UserSalts \cup {NoSalt}, NEW salt \in derive_salt(user_salt)
  PROVE  salt \in Salt
BY BlsAssumption DEF derive_salt

(* A payload of a signature just issued goes on the wire.                  *)
LEMMA SendStep ==
  ASSUME IInv, NEW key \in Keys, NEW phash \in PHashes, NEW salt \in Salt,
         NEW embed \in BOOLEAN, NEW append \in BOOLEAN, NEW pk \in Keys \cup {NoKey},
         [key |-> key, phash |-> phash, salt |-> salt] \in issued',
         issued' \subseteq Issued,
         wire' = AssemblePayload(phash, salt, SigBytes(key, phash \o salt), embed, append, pk),
         sent' = SignCall(key, phash, embed, append, pk, OK, wire'),
         verdict' = <<>>, UNCHANGED <<keys, core, s_initialized>>
  PROVE  IInv'
<1>1. wire' \in Seq(Known(issued'))
  BY PayloadIsKnown
<1>2. SentRight'
  BY DEF SentRight, SignCall
<1>3. QED
  BY <1>1, <1>2, NoVerdict DEF IInv, LifecycleAgrees

LEMMA SignStep ==
  ASSUME UnifiedInv, NEW key \in keys, NEW phash \in PHashes,
         NEW user_salt \in UserSalts \cup {NoSalt},
         NEW embed \in BOOLEAN, NEW append \in BOOLEAN, NEW pk \in keys \cup {NoKey},
         stego_sign(key, phash, user_salt, embed, append, pk)
  PROVE  UnifiedInv'
<1>1. PICK salt \in derive_salt(user_salt) :
        \/ /\ UNCHANGED <<issued, wire>>
           /\ sent' = SignCall(key, phash, embed, append, pk, ERR, <<>>)
        \/ /\ Fits(phash)
           /\ issued' = issued \cup {[key |-> key, phash |-> phash, salt |-> salt]}
           /\ wire' = AssemblePayload(phash, salt, SigBytes(key, phash \o salt), embed, append, pk)
           /\ sent' = SignCall(key, phash, embed, append, pk, OK, wire')
  BY DEF stego_sign, derive_salt, Fits
<1>2. salt \in Salt
  BY SaltIsSalt
<1>3. /\ UNCHANGED <<keys, core, s_initialized>> /\ verdict' = <<>>
      /\ key \in Keys /\ pk \in Keys \cup {NoKey}
  BY DEF stego_sign, UnifiedInv, IInv
<1>4. CASE /\ UNCHANGED <<issued, wire>>
           /\ sent' = SignCall(key, phash, embed, append, pk, ERR, <<>>)
  <2>1. SentRight' /\ SentFits'
    BY <1>3, <1>4 DEF SentRight, SentFits, SignCall, OK, ERR
  <2>2. QED
    BY <1>3, <1>4, <2>1, NoVerdict DEF UnifiedInv, IInv, LifecycleAgrees
<1>5. CASE /\ Fits(phash)
           /\ issued' = issued \cup {[key |-> key, phash |-> phash, salt |-> salt]}
           /\ wire' = AssemblePayload(phash, salt, SigBytes(key, phash \o salt), embed, append, pk)
           /\ sent' = SignCall(key, phash, embed, append, pk, OK, wire')
  <2>1. issued' \subseteq Issued
    BY <1>2, <1>3, <1>5 DEF UnifiedInv, IInv, Issued
  <2>2. [key |-> key, phash |-> phash, salt |-> salt] \in issued'
    BY <1>5
  <2>3. IInv'
    BY <1>2, <1>3, <1>5, <2>1, <2>2, SendStep DEF UnifiedInv
  <2>4. SentFits'
    BY <1>5 DEF SentFits, SignCall, Fits
  <2>5. QED
    BY <2>3, <2>4 DEF UnifiedInv
<1>6. QED
  BY <1>1, <1>4, <1>5

LEMMA FaultStep == ASSUME IInv, Fault PROVE IInv'
<1>1. PK_BYTE + 1 \in Nat
  BY BlsAssumption
<1>2. wire' \in Seq(Known(issued))
  BY <1>1, KnownBasics, DamagedIsSeq DEF IInv, Fault
<1>3. SentRight' /\ LifecycleAgrees' /\ issued' = issued /\ keys' = keys
  BY DEF IInv, Fault, SentRight, LifecycleAgrees
<1>4. verdict' = <<>>
  BY DEF Fault
<1>5. QED
  BY <1>2, <1>3, <1>4, NoVerdict DEF IInv

LEMMA VerifyStep ==
  ASSUME UnifiedInv, NEW phash_len \in Lengths, NEW ext_pk,
         NEW expected \in PHashes \cup {<<>>},
         stego_verify(phash_len, ext_pk, expected)
  PROVE  UnifiedInv'
<1>1. UNCHANGED <<core, s_initialized, keys, issued, sent, wire>>
  BY DEF stego_verify
<1>2. Authentic' /\ ReadsInBounds' /\ RoundTrip'
  BY VerdictIsAuthentic, VerdictReadsInBounds, VerdictRoundTrip DEF UnifiedInv
<1>3. SentRight' /\ SentFits' /\ LifecycleAgrees'
  BY <1>1 DEF UnifiedInv, IInv, SentRight, SentFits, LifecycleAgrees
<1>4. QED
  BY <1>1, <1>2, <1>3 DEF UnifiedInv, IInv

LEMMA UnifiedStep == UnifiedInv /\ [Next]_vars => UnifiedInv'
<1> SUFFICES ASSUME UnifiedInv, [Next]_vars PROVE UnifiedInv'
  OBVIOUS
<1>1. CASE stego_init \/ stego_cleanup
  <2>1. /\ UNCHANGED <<keys, issued, sent, wire>> /\ verdict' = <<>> /\ LifecycleAgrees'
    BY <1>1 DEF stego_init, stego_cleanup, core_init, core_clean, UnifiedInv, IInv, LifecycleAgrees
  <2>2. QED
    BY <2>1, Unaffected DEF UnifiedInv, IInv, SentFits
<1>2. CASE stego_keygen
  <2>1. /\ UNCHANGED <<issued, sent, wire>> /\ verdict' = <<>> /\ keys' \subseteq Keys
        /\ LifecycleAgrees'
    BY <1>2 DEF stego_keygen, UnifiedInv, IInv, LifecycleAgrees
  <2>2. QED
    BY <2>1, Unaffected DEF UnifiedInv, IInv, SentFits
<1>3. CASE Sign
  BY <1>3, SignStep DEF Sign
<1>4. CASE Fault
  BY <1>4, FaultStep DEF UnifiedInv, SentFits, Fault
<1>5. CASE Verify
  BY <1>5, VerifyStep DEF Verify
<1>6. CASE UNCHANGED vars
  <2>1. LifecycleAgrees' /\ SentFits'
    BY <1>6 DEF vars, UnifiedInv, IInv, LifecycleAgrees, SentFits
  <2>2. QED
    BY <1>6, <2>1, Unaffected DEF vars, UnifiedInv, IInv
<1>7. QED
  BY <1>1, <1>2, <1>3, <1>4, <1>5, <1>6 DEF Next

-----------------------------------------------------------------------------
(* The wrapper.                                                            *)

(* It cuts a payload where Parse does.                                     *)
LEMMA CutIsParsed ==
  ASSUME IInv, CutRight, cut # <<>>, NEW parsed, parsed = Parse(wire, cut.phash_len)
  PROVE  /\ cut.phash_len \in Lengths /\ cut.phash_len \in Nat
         /\ cut.rc = OK <=> parsed.embedded
         /\ cut.rc = OK =>
              /\ parsed.phash = cut.phash /\ parsed.salt = cut.salt /\ parsed.sig = cut.sig
              /\ parsed.end = cut.phash_len + BLS_SALT_BYTE + SIG_BYTE
              /\ parsed.end \in Nat /\ parsed.remaining \in Nat
              /\ Len(wire) = parsed.end + parsed.remaining
              /\ cut.pk = Slice(wire, parsed.end, parsed.remaining)
              /\ Len(cut.phash) = cut.phash_len /\ Len(cut.pk) = parsed.remaining
<1> DEFINE n == Len(wire)
           phash_len == cut.phash_len
           end == phash_len + BLS_SALT_BYTE + SIG_BYTE
<1>1. /\ n \in Nat /\ phash_len \in Lengths /\ phash_len \in Nat
      /\ BLS_SALT_BYTE \in Nat /\ SIG_BYTE \in Nat
  BY LengthIsNat, LenProperties, BlsAssumption DEF IInv, CutRight
<1>2. cut.rc = OK <=> n >= end
  BY DEF CutRight, min_len, stego_sig_bytes
<1>3. /\ min_with_phash(phash_len) = phash_len + (BLS_SALT_BYTE + SIG_BYTE)
      /\ min_no_phash = BLS_SALT_BYTE + SIG_BYTE
  BY DEF min_with_phash, min_no_phash, stego_sig_bytes
<1>4. parsed.embedded <=> n >= min_with_phash(phash_len)
  BY DEF Parse
<1>5. ASSUME cut.rc = OK
      PROVE  /\ cut.phash = Slice(wire, 0, phash_len)
             /\ cut.salt = Slice(wire, phash_len, BLS_SALT_BYTE)
             /\ cut.sig = Slice(wire, phash_len + BLS_SALT_BYTE, SIG_BYTE)
             /\ cut.pk = Slice(wire, end, n - end)
  BY <1>5 DEF CutRight
<1>6. ASSUME n >= min_with_phash(phash_len)
      PROVE  /\ parsed.phash = Slice(wire, 0, phash_len)
             /\ parsed.salt = Slice(wire, phash_len, BLS_SALT_BYTE)
             /\ parsed.sig = Slice(wire, phash_len + BLS_SALT_BYTE, SIG_BYTE)
             /\ parsed.end = phash_len + min_no_phash
             /\ parsed.remaining = n - (phash_len + min_no_phash)
  BY <1>6 DEF Parse, stego_sig_bytes
<1> HIDE DEF n, phash_len, end
<1>7. /\ min_with_phash(phash_len) = end /\ phash_len + min_no_phash = end /\ end \in Nat
      /\ n >= end => n - end \in Nat /\ n = end + (n - end)
  BY ONLY <1>1, <1>3 DEF end
<1>8. cut.rc = OK <=> parsed.embedded
  BY <1>2, <1>4, <1>7
<1>9. ASSUME cut.rc = OK
      PROVE  /\ parsed.phash = cut.phash /\ parsed.salt = cut.salt /\ parsed.sig = cut.sig
             /\ parsed.end = end
             /\ parsed.end \in Nat /\ parsed.remaining \in Nat
             /\ n = parsed.end + parsed.remaining
             /\ cut.pk = Slice(wire, parsed.end, parsed.remaining)
             /\ Len(cut.phash) = phash_len /\ Len(cut.pk) = parsed.remaining
  <2>1. n >= end /\ n >= min_with_phash(phash_len)
    BY <1>2, <1>7, <1>9
  <2>2. /\ parsed.phash = cut.phash /\ parsed.salt = cut.salt /\ parsed.sig = cut.sig
        /\ parsed.end = end /\ parsed.remaining = n - end
        /\ cut.pk = Slice(wire, end, n - end) /\ cut.phash = Slice(wire, 0, phash_len)
    BY <1>5, <1>6, <1>7, <1>9, <2>1
  <2>3. end \in Nat /\ n - end \in Nat /\ n = end + (n - end)
    BY <1>7, <2>1
  <2>4. Noise \in Known(issued) /\ wire \in Seq(Known(issued))
    BY KnownBasics DEF IInv
  <2> DEFINE rest == n - end
  <2> HIDE DEF rest
  <2>5. rest \in Nat
    BY <2>3 DEF rest
  <2>6. Len(Slice(wire, 0, phash_len)) = phash_len
    BY <1>1, <2>4, SliceIsSeq
  <2>7. Len(Slice(wire, end, rest)) = rest
    BY <1>7, <2>4, <2>5, SliceIsSeq
  <2>8. QED
    BY <2>2, <2>3, <2>6, <2>7 DEF rest
<1>10. QED
  BY <1>1, <1>8, <1>9, Zenon DEF n, phash_len, end

LEMMA PkBytesLength ==
  ASSUME NEW k PROVE Len(PkBytes(k)) = PK_BYTE /\ PkBytes(k) # <<>>
<1>1. PK_BYTE \in Nat /\ PK_BYTE # 0
  BY BlsAssumption
<1>2. PkBytes(k) \in [1 .. PK_BYTE -> {PkBytes(k)[i] : i \in 1 .. PK_BYTE}]
  BY DEF PkBytes
<1>3. Len(PkBytes(k)) = PK_BYTE
  BY <1>1, <1>2, FunctionIsSeq
<1>4. QED
  BY <1>1, <1>3, EmptySeq

(* What bls_verify says of the pieces: the verdict on them as Parse cuts   *)
(* them, under the caller's key or all that follows the signature.         *)
LEMMA WrapperOutcome ==
  ASSUME IInv, CutRight, NEW ext_pk, bls_verify(ext_pk),
         NEW parsed, parsed = Parse(wire, cut.phash_len),
         NEW pk, pk = IF ext_pk # NoKey THEN PkBytes(ext_pk)
                      ELSE Slice(wire, parsed.end, parsed.remaining)
  PROVE  /\ cut # <<>> /\ cut.rc = OK
         /\ verdict'.phash_len = cut.phash_len /\ verdict'.ext_pk = ext_pk
         /\ verdict'.recovered = parsed.phash /\ verdict'.pk = pk
         /\ verdict'.read = parsed.end + IF ext_pk # NoKey THEN 0 ELSE Len(pk)
         /\ verdict'.rc = OK <=> /\ pk # <<>> /\ (BLS_SALT_BYTE > 0 => Fits(parsed.phash))
                                /\ cp_bls_ver(parsed.sig, parsed.phash \o parsed.salt, pk)
<1>1. cut # <<>> /\ cut.rc = OK
  BY DEF bls_verify
<1>2. /\ cut.phash_len \in Nat /\ cut.phash_len = Len(parsed.phash)
      /\ parsed.phash = cut.phash /\ parsed.salt = cut.salt /\ parsed.sig = cut.sig
      /\ parsed.end = cut.phash_len + BLS_SALT_BYTE + SIG_BYTE
      /\ cut.pk = Slice(wire, parsed.end, parsed.remaining)
  BY <1>1, CutIsParsed
<1>3. pk = IF ext_pk # NoKey THEN PkBytes(ext_pk) ELSE cut.pk
  BY <1>2
<1> DEFINE read == cut.phash_len + BLS_SALT_BYTE + stego_sig_bytes
                     + IF ext_pk # NoKey THEN 0 ELSE Len(pk)
           fits == BLS_SALT_BYTE > 0 => Fits(parsed.phash)
           accepted == cp_bls_ver(cut.sig, cut.phash \o cut.salt, pk)
           Return(rc) == verdict' = VerifyCall(cut.phash_len, ext_pk, <<>>, rc, cut.phash, pk, read)
<1>4. \A rc : Return(rc) => /\ verdict'.phash_len = cut.phash_len /\ verdict'.ext_pk = ext_pk
                            /\ verdict'.recovered = cut.phash /\ verdict'.pk = pk
                            /\ verdict'.read = read /\ verdict'.rc = rc
  BY DEF VerifyCall
<1>5. OK # ERR /\ OK # ERR_VERIFY
  BY DEF OK, ERR, ERR_VERIFY
<1>6. fits <=> (BLS_SALT_BYTE > 0 => cut.phash_len + BLS_SALT_BYTE <= INPUT_MAX)
  BY <1>2 DEF Fits
<1>7. ~fits <=> BLS_SALT_BYTE > 0 /\ cut.phash_len + BLS_SALT_BYTE > INPUT_MAX
  BY <1>2, <1>6, BlsAssumption
<1>8. \/ (pk = <<>> \/ ~fits) /\ Return(ERR)
      \/ pk # <<>> /\ fits /\ Return(IF accepted THEN OK ELSE ERR_VERIFY)
  <2>1. \/ /\ pk = <<>> \/ (BLS_SALT_BYTE > 0 /\ cut.phash_len + BLS_SALT_BYTE > INPUT_MAX)
           /\ Return(ERR)
        \/ /\ pk # <<>>
           /\ BLS_SALT_BYTE > 0 => cut.phash_len + BLS_SALT_BYTE <= INPUT_MAX
           /\ Return(IF accepted THEN OK ELSE ERR_VERIFY)
    BY <1>3 DEF bls_verify
  <2> HIDE DEF fits, Return, accepted
  <2>2. QED
    BY <1>6, <1>7, <2>1, Zenon
<1>9. read = parsed.end + IF ext_pk # NoKey THEN 0 ELSE Len(pk)
  BY <1>2 DEF stego_sig_bytes
<1> HIDE DEF read, fits, accepted, Return
<1>10. verdict'.rc = OK <=> pk # <<>> /\ fits /\ accepted
  BY <1>4, <1>5, <1>8
<1>11. /\ verdict'.phash_len = cut.phash_len /\ verdict'.ext_pk = ext_pk
       /\ verdict'.recovered = cut.phash /\ verdict'.pk = pk /\ verdict'.read = read
  BY <1>4, <1>8, Zenon
<1>12. QED
  BY <1>1, <1>2, <1>9, <1>10, <1>11 DEF fits, accepted

LEMMA WireSliceLength ==
  ASSUME IInv, NEW at \in Nat, NEW n \in Nat
  PROVE  Len(Slice(wire, at, n)) = n
<1>1. Noise \in Known(issued) /\ wire \in Seq(Known(issued))
  BY KnownBasics DEF IInv
<1>2. QED
  BY <1>1, SliceIsSeq

LEMMA WrapperAuthentic ==
  ASSUME IInv, CutRight, NEW ext_pk, bls_verify(ext_pk)
  PROVE  Authentic' /\ ReadsInBounds'
<1> DEFINE parsed == Parse(wire, cut.phash_len)
           pk == IF ext_pk # NoKey THEN PkBytes(ext_pk)
                 ELSE Slice(wire, parsed.end, parsed.remaining)
<1>1. UNCHANGED <<issued, wire>>
  BY DEF bls_verify
<1>2. /\ cut # <<>> /\ cut.rc = OK
      /\ verdict'.recovered = parsed.phash /\ verdict'.pk = pk
      /\ verdict'.read = parsed.end + IF ext_pk # NoKey THEN 0 ELSE Len(pk)
      /\ verdict'.rc = OK => cp_bls_ver(parsed.sig, parsed.phash \o parsed.salt, pk)
  BY WrapperOutcome
<1>3. /\ cut.phash_len \in Nat /\ parsed.embedded
      /\ parsed.end \in Nat /\ parsed.remaining \in Nat
      /\ Len(wire) = parsed.end + parsed.remaining
  BY <1>2, CutIsParsed
<1>4. Authentic'
  <2>1. /\ VerifyPhash(parsed, <<>>) \in Seq(Known(issued))
        /\ parsed.salt \in Seq(Known(issued)) /\ Len(parsed.salt) = BLS_SALT_BYTE
        /\ parsed.sig[1] \in Known(issued)
    BY <1>3, ParsedIsKnown DEF IInv
  <2>2. VerifyPhash(parsed, <<>>) = parsed.phash
    BY <1>3 DEF VerifyPhash
  <2>3. issued \subseteq Issued
    BY DEF IInv
  <2> HIDE DEF parsed, pk
  <2>4. ASSUME verdict'.rc = OK
        PROVE  \E s \in issued : pk = PkBytes(s.key) /\ s.phash = parsed.phash
    BY <1>2, <2>1, <2>2, <2>3, <2>4, AcceptedIsIssued
  <2>5. QED
    BY <1>1, <1>2, <2>4 DEF Authentic, Accepted
<1>5. ReadsInBounds'
  <2>1. ext_pk = NoKey => Len(pk) = parsed.remaining
    <3>1. parsed.end \in Nat /\ parsed.remaining \in Nat
      BY <1>3
    <3> HIDE DEF parsed
    <3>2. Len(Slice(wire, parsed.end, parsed.remaining)) = parsed.remaining
      BY <3>1, WireSliceLength
    <3>3. QED
      BY <3>2
  <2> DEFINE end == parsed.end
             rem == parsed.remaining
             n == Len(wire)
             len == IF ext_pk # NoKey THEN 0 ELSE Len(pk)
  <2>2. end \in Nat /\ rem \in Nat /\ n = end + rem /\ len \in {0, rem}
    BY <1>3, <2>1
  <2>3. verdict'.read = end + len
    BY <1>2
  <2> HIDE DEF end, rem, n, len
  <2>4. end + len <= n
    BY ONLY <2>2
  <2>5. QED
    BY <1>1, <2>3, <2>4 DEF ReadsInBounds, n
<1>6. QED
  BY <1>4, <1>5

LEMMA WrapperRoundTrip ==
  ASSUME IInv, CutRight, BLS_SALT_BYTE > 0 => SentFits, NEW ext_pk, bls_verify(ext_pk)
  PROVE  RoundTrip'
<1> DEFINE parsed == Parse(wire, cut.phash_len)
           pk == IF ext_pk # NoKey THEN PkBytes(ext_pk)
                 ELSE Slice(wire, parsed.end, parsed.remaining)
<1>1. UNCHANGED <<sent, wire>>
  BY DEF bls_verify
<1>2. /\ cut # <<>> /\ cut.rc = OK
      /\ verdict'.phash_len = cut.phash_len /\ verdict'.ext_pk = ext_pk
      /\ verdict'.recovered = parsed.phash
      /\ verdict'.rc = OK <=> /\ pk # <<>> /\ (BLS_SALT_BYTE > 0 => Fits(parsed.phash))
                             /\ cp_bls_ver(parsed.sig, parsed.phash \o parsed.salt, pk)
  BY WrapperOutcome
<1>3. parsed.embedded
  BY <1>2, CutIsParsed
<1> SUFFICES ASSUME Undamaged, ~Ambiguous, cut.phash_len = Len(sent.phash),
                    ext_pk = sent.key \/ (ext_pk = NoKey /\ sent.append /\ sent.pk = sent.key)
             PROVE  verdict'.rc = OK /\ verdict'.recovered = sent.phash
  BY <1>1, <1>2, Zenon DEF RoundTrip, Undamaged, Ambiguous, WellInformed
<1>4. /\ (IF parsed.embedded THEN parsed.phash ELSE sent.phash) = sent.phash
      /\ \E salt : parsed.salt = salt /\ parsed.sig = SigBytes(sent.key, sent.phash \o salt)
      /\ sent.append /\ sent.pk # NoKey =>
           parsed.remaining = PK_BYTE /\ Slice(wire, parsed.end, PK_BYTE) = PkBytes(sent.pk)
  <2>1. SentRight /\ parsed = Parse(wire, cut.phash_len)
    BY DEF IInv
  <2> HIDE DEF parsed
  <2>2. QED
    BY <2>1, ParseUndamaged
<1>5. sent.key \in Keys /\ sent.key # NoKey /\ (BLS_SALT_BYTE > 0 => Fits(sent.phash))
  BY BlsAssumption DEF IInv, SentRight, SentFits, Undamaged
<1>6. pk = PkBytes(sent.key) /\ pk # <<>>
  BY <1>4, <1>5, PkBytesLength
<1>7. parsed.phash = sent.phash
  BY <1>3, <1>4
<1> HIDE DEF parsed, pk
<1>8. cp_bls_ver(parsed.sig, parsed.phash \o parsed.salt, pk)
  BY <1>4, <1>5, <1>6, <1>7 DEF cp_bls_ver
<1>9. QED
  BY <1>2, <1>5, <1>6, <1>7, <1>8

(* The wrapper accepts what the unified API would, but for what is behind  *)
(* an embedded key.                                                        *)
LEMMA WrapperAgrees ==
  ASSUME IInv, CutRight, BLS_SALT_BYTE > 0, NEW ext_pk, bls_verify(ext_pk)
  PROVE  ReadersAgree'
<1> DEFINE parsed == Parse(wire, cut.phash_len)
           pk == IF ext_pk # NoKey THEN PkBytes(ext_pk)
                 ELSE Slice(wire, parsed.end, parsed.remaining)
           accepts(k) == cp_bls_ver(parsed.sig, parsed.phash \o parsed.salt, k)
<1>1. UNCHANGED <<wire, cut>>
  BY DEF bls_verify, wrapper_vars
<1>2. /\ cut # <<>> /\ cut.rc = OK
      /\ verdict'.ext_pk = ext_pk /\ verdict'.recovered = parsed.phash
      /\ verdict'.rc = OK <=> pk # <<>> /\ Fits(parsed.phash) /\ accepts(pk)
  BY WrapperOutcome
<1>3. /\ cut.rc = OK <=> parsed.embedded
      /\ parsed.end \in Nat /\ parsed.remaining \in Nat
  BY <1>2, CutIsParsed
<1>4. PK_BYTE \in Nat /\ PK_BYTE # 0
  BY BlsAssumption
<1>5. PkData(wire, parsed, ext_pk) = IF ext_pk # NoKey THEN PkBytes(ext_pk)
                                     ELSE Slice(wire, parsed.end, PK_BYTE)
  BY DEF PkData, stego_pk_bytes
<1>6. UnifiedAccepts(parsed, ext_pk) <=>
        /\ ext_pk # NoKey \/ parsed.remaining >= PK_BYTE
        /\ Fits(parsed.phash)
        /\ accepts(PkData(wire, parsed, ext_pk))
  BY DEF UnifiedAccepts, stego_pk_bytes, Fits
<1>7. pk # <<>> /\ Fits(parsed.phash) /\ accepts(pk)
        <=> /\ UnifiedAccepts(parsed, ext_pk)
            /\ ext_pk = NoKey => parsed.remaining = PK_BYTE
  <2>1. CASE ext_pk # NoKey
    <3>1. pk = PkBytes(ext_pk) /\ pk # <<>> /\ PkData(wire, parsed, ext_pk) = pk
      BY <1>5, <2>1, PkBytesLength
    <3> HIDE DEF parsed, pk, accepts
    <3>2. QED
      BY <1>6, <2>1, <3>1, Zenon
  <2>2. CASE ext_pk = NoKey /\ parsed.remaining = PK_BYTE
    <3>1. pk = Slice(wire, parsed.end, PK_BYTE) /\ PkData(wire, parsed, ext_pk) = pk
      BY <1>5, <2>2
    <3>2. Len(pk) = PK_BYTE /\ pk # <<>>
      <4>1. parsed.end \in Nat
        BY <1>3
      <4> HIDE DEF parsed
      <4>2. Len(Slice(wire, parsed.end, PK_BYTE)) = PK_BYTE
        BY <1>4, <4>1, WireSliceLength
      <4>3. QED
        BY <1>4, <3>1, <4>2, EmptySeq
    <3>3. parsed.remaining >= PK_BYTE
      BY <1>3, <1>4, <2>2
    <3> HIDE DEF parsed, pk, accepts
    <3>4. QED
      BY <1>6, <2>2, <3>1, <3>2, <3>3, Zenon
  <2>3. CASE ext_pk = NoKey /\ parsed.remaining # PK_BYTE
    <3>1. Len(pk) = parsed.remaining
      <4>1. parsed.end \in Nat /\ parsed.remaining \in Nat
        BY <1>3
      <4> HIDE DEF parsed
      <4>2. Len(Slice(wire, parsed.end, parsed.remaining)) = parsed.remaining
        BY <4>1, WireSliceLength
      <4>3. QED
        BY <2>3, <4>2
    <3>2. ~accepts(pk)
      BY <2>3, <3>1, PkBytesLength DEF cp_bls_ver
    <3> HIDE DEF parsed, pk, accepts
    <3>3. QED
      BY <2>3, <3>2, Zenon
  <2>4. QED
    BY <2>1, <2>2, <2>3
<1>8. UnifiedAccepts(parsed, ext_pk)' <=> UnifiedAccepts(parsed, ext_pk)
  BY <1>1, <1>2 DEF UnifiedAccepts
<1> HIDE DEF parsed, pk, accepts
<1>9. QED
  BY <1>1, <1>2, <1>3, <1>7, <1>8 DEF ReadersAgree, parsed, stego_pk_bytes

-----------------------------------------------------------------------------
(* Both libraries.                                                         *)

(* A step that leaves wire and pieces alone and verifies nothing new.      *)
LEMMA PiecesUnaffected ==
  ASSUME BothInv, UNCHANGED <<wire, cut>>, verdict' = <<>> \/ verdict' = verdict
  PROVE  CutRight' /\ (BLS_SALT_BYTE > 0 => ReadersAgree')
<1>1. CutRight'
  BY DEF BothInv, CutRight
<1>2. ASSUME BLS_SALT_BYTE > 0 PROVE ReadersAgree'
  <2>1. ReadersAgree
    BY <1>2 DEF BothInv
  <2>2. CASE verdict' = <<>>
    BY <2>1, <2>2 DEF ReadersAgree
  <2>3. CASE verdict' = verdict
    <3>1. \A parsed, ext_pk : UnifiedAccepts(parsed, ext_pk)' <=> UnifiedAccepts(parsed, ext_pk)
      BY DEF UnifiedAccepts
    <3>2. QED
      BY <2>1, <2>3 DEF ReadersAgree, UnifiedAccepts
  <2>4. QED
    BY <2>2, <2>3
<1>3. QED
  BY <1>1, <1>2

(* A step that leaves the pieces dangling, and so takes them back.         *)
LEMMA PiecesGone == ASSUME cut' = <<>> PROVE CutRight' /\ ReadersAgree'
BY DEF CutRight, ReadersAgree

LEMMA InitBoth == BothInit => BothInv
<1> SUFFICES ASSUME BothInit PROVE BothInv
  OBVIOUS
<1>1. UnifiedInv
  BY InitInv DEF BothInit
<1>2. HeldRight /\ CutRight /\ ReadersAgree
  BY DEF BothInit, HeldRight, CutRight, ReadersAgree
<1>3. QED
  BY <1>1, <1>2 DEF BothInit, BothInv, UnifiedInv

LEMMA UnifiedBothStep ==
  ASSUME BothInv, lib = "unified", Next, UNCHANGED wrapper_vars
  PROVE  BothInv'
<1>1. UnifiedInv'
  BY UnifiedStep DEF BothInv, UnifiedInv
<1>2. lib' = "unified" /\ held' = <<>> /\ cut' = <<>>
  BY DEF BothInv, wrapper_vars
<1>3. HeldRight' /\ CutRight' /\ ReadersAgree'
  BY <1>2, PiecesGone DEF HeldRight
<1>4. QED
  BY <1>1, <1>2, <1>3 DEF BothInv, UnifiedInv

(* Steps of the wrapper that neither sign, send nor verify.                *)
LEMMA WrapperLifecycleStep ==
  ASSUME BothInv, lib = "wrapper", lib' = lib,
         UNCHANGED <<core, s_initialized, issued, sent, wire, held, cut>>,
         verdict' = <<>> \/ verdict' = verdict, keys' \subseteq Keys
  PROVE  BothInv'
<1>1. LifecycleAgrees'
  BY DEF BothInv, IInv, LifecycleAgrees
<1>2. IInv'
  BY <1>1, Unaffected DEF BothInv
<1>3. HeldRight' /\ (BLS_SALT_BYTE > 0 => SentFits')
  BY DEF BothInv, HeldRight, SentFits
<1>4. CutRight' /\ (BLS_SALT_BYTE > 0 => ReadersAgree')
  BY PiecesUnaffected
<1>5. QED
  BY <1>2, <1>3, <1>4 DEF BothInv

LEMMA WrapperSignStep ==
  ASSUME BothInv, lib = "wrapper", NEW key \in keys, NEW phash \in PHashes,
         NEW user_salt \in UserSalts \cup {NoSalt}, bls_sign(key, phash, user_salt)
  PROVE  BothInv'
<1> DEFINE fits == BLS_SALT_BYTE > 0 => Fits(phash)
<1>1. PICK salt \in derive_salt(user_salt) :
        \/ /\ held' = [key |-> key, phash |-> phash, salt |-> salt, sig |-> <<>>, rc |-> ERR]
           /\ UNCHANGED issued
        \/ /\ fits
           /\ held' = [key |-> key, phash |-> phash, salt |-> salt,
                       sig |-> SigBytes(key, phash \o salt), rc |-> OK]
           /\ issued' = issued \cup {[key |-> key, phash |-> phash, salt |-> salt]}
  BY DEF bls_sign, Fits
<1>2. salt \in Salt
  BY SaltIsSalt
<1>3. /\ UNCHANGED <<lib, cut, core, s_initialized, keys, sent, wire>> /\ verdict' = <<>>
      /\ key \in Keys
  BY DEF bls_sign, BothInv, IInv
<1>4. issued \subseteq issued' /\ issued' \subseteq Issued
  BY <1>1, <1>2, <1>3 DEF BothInv, IInv, Issued
<1>5. wire' \in Seq(Known(issued'))
  <2>1. Known(issued) \subseteq Known(issued')
    BY <1>4, KnownMonotonic
  <2>2. wire \in Seq(Known(issued))
    BY DEF BothInv, IInv
  <2>3. QED
    BY <1>3, <2>1, <2>2, SeqMonotonic
<1>6. SentRight' /\ LifecycleAgrees' /\ (BLS_SALT_BYTE > 0 => SentFits')
  BY <1>3 DEF BothInv, IInv, SentRight, LifecycleAgrees, SentFits
<1>7. IInv'
  BY <1>3, <1>4, <1>5, <1>6, NoVerdict DEF BothInv, IInv
<1>8. HeldRight'
  BY <1>1, <1>2, <1>3 DEF HeldRight, OK, ERR
<1>9. CutRight' /\ (BLS_SALT_BYTE > 0 => ReadersAgree')
  BY <1>3, PiecesUnaffected
<1>10. QED
  BY <1>3, <1>6, <1>7, <1>8, <1>9 DEF BothInv

LEMMA AssembleStep ==
  ASSUME BothInv, lib = "wrapper", NEW pk \in keys \cup {NoKey}, bls_payload_assemble(pk)
  PROVE  BothInv'
<1>1. /\ held # <<>> /\ held.rc = OK
      /\ UNCHANGED <<lib, held, core, s_initialized, keys, issued>>
      /\ verdict' = <<>> /\ cut' = <<>>
      /\ sent' = SignCall(held.key, held.phash, TRUE, pk # NoKey, pk, OK, wire')
      /\ wire' = held.phash \o held.salt \o held.sig \o (IF pk # NoKey THEN PkBytes(pk) ELSE <<>>)
  BY DEF bls_payload_assemble
<1>2. /\ held.key \in Keys /\ held.phash \in PHashes /\ held.salt \in Salt
      /\ held.sig = SigBytes(held.key, held.phash \o held.salt)
      /\ [key |-> held.key, phash |-> held.phash, salt |-> held.salt] \in issued
      /\ BLS_SALT_BYTE > 0 => Fits(held.phash)
  BY <1>1 DEF BothInv, HeldRight
<1>3. /\ pk \in Keys \cup {NoKey} /\ issued' \subseteq Issued
      /\ [key |-> held.key, phash |-> held.phash, salt |-> held.salt] \in issued'
  BY <1>1, <1>2 DEF BothInv, IInv
<1>4. PICK append \in BOOLEAN : append = (pk # NoKey)
  BY Zenon
<1>5. wire' = AssemblePayload(held.phash, held.salt, SigBytes(held.key, held.phash \o held.salt),
                              TRUE, append, pk)
  <2>1. CASE pk # NoKey
    BY <1>1, <1>2, <1>4, <2>1 DEF AssemblePayload
  <2>2. CASE pk = NoKey
    BY <1>1, <1>2, <1>4, <2>2 DEF AssemblePayload
  <2>3. QED
    BY <2>1, <2>2
<1>6. sent' = SignCall(held.key, held.phash, TRUE, append, pk, OK, wire')
  BY <1>1, <1>4, Zenon
<1>7. IInv'
  BY <1>1, <1>2, <1>3, <1>5, <1>6, SendStep DEF BothInv
<1>8. BLS_SALT_BYTE > 0 => SentFits'
  BY <1>1, <1>2 DEF SentFits, SignCall, Fits
<1>9. HeldRight'
  BY <1>1 DEF BothInv, HeldRight
<1>10. QED
  BY <1>1, <1>7, <1>8, <1>9, PiecesGone DEF BothInv

LEMMA WrapperFaultStep ==
  ASSUME BothInv, lib = "wrapper", Fault, cut' = <<>>, UNCHANGED <<lib, held>>
  PROVE  BothInv'
<1>1. IInv'
  BY FaultStep DEF BothInv
<1>2. HeldRight' /\ (BLS_SALT_BYTE > 0 => SentFits')
  BY DEF BothInv, HeldRight, SentFits, Fault
<1>3. QED
  BY <1>1, <1>2, PiecesGone DEF BothInv

LEMMA DisassembleStep ==
  ASSUME BothInv, lib = "wrapper", NEW phash_len \in Lengths, bls_payload_disassemble(phash_len)
  PROVE  BothInv'
<1>1. /\ verdict' = <<>>
      /\ UNCHANGED <<lib, held, core, s_initialized, keys, issued, sent, wire>>
  BY DEF bls_payload_disassemble
<1>2. LifecycleAgrees' /\ HeldRight' /\ (BLS_SALT_BYTE > 0 => SentFits')
  BY <1>1 DEF BothInv, IInv, LifecycleAgrees, HeldRight, SentFits
<1>3. IInv'
  BY <1>1, <1>2, Unaffected DEF BothInv, IInv
<1> DEFINE pk_at == phash_len + BLS_SALT_BYTE + SIG_BYTE
           pieces == [rc |-> OK, phash_len |-> phash_len,
                      phash |-> Slice(wire, 0, phash_len),
                      salt  |-> Slice(wire, phash_len, BLS_SALT_BYTE),
                      sig   |-> Slice(wire, phash_len + BLS_SALT_BYTE, SIG_BYTE),
                      pk    |-> Slice(wire, pk_at, Len(wire) - pk_at)]
<1>4. \/ /\ Len(wire) < min_len(phash_len)
         /\ cut' = [rc |-> ERR, phash_len |-> phash_len]
      \/ /\ ~(Len(wire) < min_len(phash_len))
         /\ cut' = pieces
  BY DEF bls_payload_disassemble, stego_sig_bytes
<1>5. Len(wire) < min_len(phash_len) <=> ~(Len(wire) >= min_len(phash_len))
  <2>1. Len(wire) \in Nat /\ min_len(phash_len) \in Nat
    BY LengthIsNat, LenProperties, BlsAssumption DEF BothInv, IInv, min_len, stego_sig_bytes
  <2>2. QED
    BY <2>1
<1>6. CutRight'
  <2>1. CASE Len(wire) < min_len(phash_len) /\ cut' = [rc |-> ERR, phash_len |-> phash_len]
    BY <1>1, <1>5, <2>1 DEF CutRight, OK, ERR
  <2>2. CASE ~(Len(wire) < min_len(phash_len)) /\ cut' = pieces
    BY <1>1, <1>5, <2>2 DEF CutRight
  <2>3. QED
    BY <1>4, <2>1, <2>2
<1>7. ReadersAgree'
  <2>1. IInv' /\ CutRight'
    BY <1>3, <1>6
  <2>2. cut' # <<>> => (cut'.rc = OK <=> Parse(wire, cut'.phash_len).embedded)
    <3>1. /\ cut'.phash_len = phash_len
          /\ cut'.rc = OK <=> Len(wire) >= min_len(phash_len)
      BY <1>4, <1>5 DEF OK, ERR
    <3>2. min_len(phash_len) = min_with_phash(phash_len)
      <4>1. phash_len \in Nat /\ BLS_SALT_BYTE \in Nat /\ SIG_BYTE \in Nat
        BY LengthIsNat, BlsAssumption
      <4>2. QED
        BY <4>1 DEF min_len, min_with_phash, min_no_phash, stego_sig_bytes
    <3>3. QED
      BY <3>1, <3>2 DEF Parse
  <2>3. QED
    BY <1>1, <2>2 DEF ReadersAgree
<1>8. QED
  BY <1>1, <1>2, <1>3, <1>6, <1>7 DEF BothInv

LEMMA WrapperVerifyStep ==
  ASSUME BothInv, lib = "wrapper", NEW ext_pk, bls_verify(ext_pk)
  PROVE  BothInv'
<1>1. UNCHANGED <<wrapper_vars, core, s_initialized, keys, issued, sent, wire>>
  BY DEF bls_verify
<1>2. IInv /\ CutRight /\ (BLS_SALT_BYTE > 0 => SentFits)
  BY DEF BothInv
<1>3. Authentic' /\ ReadsInBounds'
  BY <1>2, WrapperAuthentic
<1>4. RoundTrip'
  BY <1>2, WrapperRoundTrip
<1>5. BLS_SALT_BYTE > 0 => ReadersAgree'
  BY <1>2, WrapperAgrees
<1>6. /\ SentRight' /\ LifecycleAgrees' /\ HeldRight' /\ CutRight'
      /\ BLS_SALT_BYTE > 0 => SentFits'
  BY <1>1 DEF BothInv, IInv, SentRight, LifecycleAgrees, HeldRight, CutRight, SentFits, wrapper_vars
<1>7. QED
  BY <1>1, <1>2, <1>3, <1>4, <1>5, <1>6 DEF BothInv, IInv, wrapper_vars

LEMMA BothStep == BothInv /\ [BothNext]_both_vars => BothInv'
<1> SUFFICES ASSUME BothInv, [BothNext]_both_vars PROVE BothInv'
  OBVIOUS
<1>1. CASE lib = "unified" /\ Next /\ UNCHANGED wrapper_vars
  BY <1>1, UnifiedBothStep
<1>2. CASE lib = "wrapper" /\ (bls_stego_init \/ bls_stego_cleanup)
  <2>1. UNCHANGED <<vars, lib, held, cut>>
    BY <1>2 DEF bls_stego_init, bls_stego_cleanup
  <2>2. QED
    BY <1>2, <2>1, WrapperLifecycleStep DEF vars, BothInv, IInv
<1>3. CASE lib = "wrapper" /\ bls_keypair_gen
  BY <1>3, WrapperLifecycleStep DEF bls_keypair_gen, wrapper_vars, BothInv, IInv
<1>4. CASE lib = "wrapper" /\ WrapperSign
  BY <1>4, WrapperSignStep DEF WrapperSign
<1>5. CASE lib = "wrapper" /\ \E pk \in keys \cup {NoKey} : bls_payload_assemble(pk)
  BY <1>5, AssembleStep
<1>6. CASE lib = "wrapper" /\ Fault /\ cut' = <<>> /\ UNCHANGED <<lib, wcore, held>>
  BY <1>6, WrapperFaultStep
<1>7. CASE lib = "wrapper" /\ \E phash_len \in Lengths : bls_payload_disassemble(phash_len)
  BY <1>7, DisassembleStep
<1>8. CASE lib = "wrapper" /\ \E ext_pk \in keys \cup {NoKey} : bls_verify(ext_pk)
  BY <1>8, WrapperVerifyStep
<1>9. CASE UNCHANGED both_vars
  <2>1. UNCHANGED <<vars, wrapper_vars>>
    BY <1>9 DEF both_vars
  <2>2. IInv'
    BY <2>1, Unaffected DEF vars, BothInv, IInv, LifecycleAgrees
  <2>3. HeldRight' /\ (SentFits <=> SentFits')
    BY <2>1 DEF vars, wrapper_vars, BothInv, HeldRight, SentFits
  <2>4. CutRight' /\ (BLS_SALT_BYTE > 0 => ReadersAgree')
    BY <2>1, PiecesUnaffected DEF vars, wrapper_vars
  <2>5. QED
    BY <2>1, <2>2, <2>3, <2>4 DEF BothInv, wrapper_vars
<1>10. QED
  BY <1>1, <1>2, <1>3, <1>4, <1>5, <1>6, <1>7, <1>8, <1>9 DEF BothNext, WrapperNext

-----------------------------------------------------------------------------
(* The refinement of AuthChannel.                                          *)

(* A signature that is made authorises the pair it signs.                  *)
LEMMA SignRefines ==
  ASSUME NEW key \in Keys, NEW phash \in PHashes, NEW salt,
         issued' = issued \cup {[key |-> key, phash |-> phash, salt |-> salt]},
         verdict' = <<>>
  PROVE  Channel!ANext
<1> DEFINE s == [key |-> key, phash |-> phash, salt |-> salt]
<1>1. s.key = key /\ s.phash = phash /\ issued' = issued \cup {s}
  OBVIOUS
<1> HIDE DEF s
<1>2. {<<PkBytes(r.key), r.phash>> : r \in issued'}
        = {<<PkBytes(r.key), r.phash>> : r \in issued} \cup {<<PkBytes(key), phash>>}
  BY <1>1
<1>3. Channel!ASign(PkBytes(key), phash)
  BY <1>2 DEF Channel!ASign
<1>4. QED
  BY <1>3 DEF Channel!ANext

(* What any verification vouches for was authorised.                       *)
LEMMA VerdictRefines ==
  ASSUME issued \subseteq Issued, UNCHANGED issued, Authentic'
  PROVE  Channel!ANext
<1>1. CASE verdict' # <<>> /\ verdict'.rc = OK
  <2>1. PICK s \in issued : verdict'.pk = PkBytes(s.key) /\ verdict'.recovered = s.phash
    BY <1>1 DEF Authentic, Accepted
  <2>2. s.key \in Keys /\ s.phash \in PHashes
    BY DEF Issued
  <2>3. Channel!AAccept(PkBytes(s.key), s.phash)
    BY <1>1, <2>1 DEF Channel!AAccept
  <2>4. QED
    BY <2>2, <2>3 DEF Channel!ANext
<1>2. CASE ~(verdict' # <<>> /\ verdict'.rc = OK)
  BY <1>2 DEF Channel!ANext, Channel!ARefuse
<1>3. QED
  BY <1>1, <1>2

LEMMA UnifiedRefines ==
  UnifiedInv /\ UnifiedInv' /\ [Next]_vars => [Channel!ANext]_(Channel!avars)
<1> SUFFICES ASSUME UnifiedInv, UnifiedInv', [Next]_vars
             PROVE  [Channel!ANext]_(Channel!avars)
  OBVIOUS
<1>1. issued \subseteq Issued /\ keys \subseteq Keys /\ Authentic'
  BY DEF UnifiedInv, IInv
<1>2. CASE UNCHANGED issued
  BY <1>1, <1>2, VerdictRefines
<1>3. CASE Sign
  <2>1. PICK key \in keys, phash \in PHashes, user_salt \in UserSalts \cup {NoSalt},
              embed \in BOOLEAN, append \in BOOLEAN, pk \in keys \cup {NoKey} :
          stego_sign(key, phash, user_salt, embed, append, pk)
    BY <1>3 DEF Sign
  <2>2. PICK salt : \/ UNCHANGED issued
                    \/ /\ issued' = issued \cup {[key |-> key, phash |-> phash, salt |-> salt]}
                       /\ verdict' = <<>>
    BY <2>1 DEF stego_sign
  <2>3. QED
    BY <1>1, <1>2, <2>2, SignRefines
<1>4. CASE stego_init \/ stego_cleanup \/ stego_keygen \/ Fault \/ Verify \/ UNCHANGED vars
  BY <1>2, <1>4 DEF stego_init, stego_cleanup, stego_keygen, Fault, Verify, stego_verify, vars
<1>5. QED
  BY <1>3, <1>4 DEF Next

LEMMA BothRefines ==
  BothInv /\ BothInv' /\ [BothNext]_both_vars => [Channel!ANext]_(Channel!avars)
<1> SUFFICES ASSUME BothInv, BothInv', [BothNext]_both_vars
             PROVE  [Channel!ANext]_(Channel!avars)
  OBVIOUS
<1>1. issued \subseteq Issued /\ keys \subseteq Keys /\ Authentic'
  BY DEF BothInv, IInv
<1>2. CASE UNCHANGED issued
  BY <1>1, <1>2, VerdictRefines
<1>3. CASE lib = "unified" /\ Next /\ UNCHANGED wrapper_vars
  <2>1. UnifiedInv /\ UnifiedInv'
    BY <1>3 DEF BothInv, UnifiedInv, wrapper_vars
  <2>2. QED
    BY <1>3, <2>1, UnifiedRefines
<1>4. CASE WrapperSign
  <2>1. PICK key \in keys, phash \in PHashes, user_salt \in UserSalts \cup {NoSalt} :
          bls_sign(key, phash, user_salt)
    BY <1>4 DEF WrapperSign
  <2>2. PICK salt : \/ UNCHANGED issued
                    \/ /\ issued' = issued \cup {[key |-> key, phash |-> phash, salt |-> salt]}
                       /\ verdict' = <<>>
    BY <2>1 DEF bls_sign
  <2>3. QED
    BY <1>1, <1>2, <2>2, SignRefines
<1>5. CASE \/ bls_stego_init \/ bls_stego_cleanup \/ bls_keypair_gen
           \/ \E pk \in keys \cup {NoKey} : bls_payload_assemble(pk)
           \/ Fault
           \/ \E phash_len \in Lengths : bls_payload_disassemble(phash_len)
           \/ \E ext_pk \in keys \cup {NoKey} : bls_verify(ext_pk)
           \/ UNCHANGED both_vars
  BY <1>2, <1>5 DEF bls_stego_init, bls_stego_cleanup, bls_keypair_gen, bls_payload_assemble, Fault,
                    bls_payload_disassemble, bls_verify, vars, both_vars
<1>6. QED
  BY <1>3, <1>4, <1>5 DEF BothNext, WrapperNext

-----------------------------------------------------------------------------
(* The theorems, for any sizes of keys, salts, signatures and pHashes, any *)
(* number of keys and signatures, and any fault of the channel.            *)

(* What stego_verify accepts was signed by the holder of the verifying     *)
(* key.                                                                    *)
THEOREM BlsAuthentic == Spec => []Authentic
<1>1. UnifiedInv => Authentic
  BY DEF UnifiedInv, IInv
<1>2. QED
  BY <1>1, InitInv, UnifiedStep, PTL DEF Spec

(* The two ends of the unified API, with the channel between them,         *)
(* implement AuthChannel.                                                  *)
THEOREM BlsImplementsChannel == Spec => ChannelSpec
<1>1. Init => Channel!AInit
  BY DEF Init, Channel!AInit
<1>2. QED
  BY <1>1, InitInv, UnifiedStep, UnifiedRefines, PTL DEF Spec, ChannelSpec, Channel!ASpec

(* The invariant of the processes that use one library or the other.       *)
LEMMA BothInvariant == BothSpec => []BothInv
BY InitBoth, BothStep, PTL DEF BothSpec

(* What either library accepts was signed: stego_verify's STEGO_OK and     *)
(* bls_verify's 1.                                                         *)
THEOREM BothAuthentic == BothSpec => []Authentic
<1>1. BothInv => Authentic
  BY DEF BothInv, IInv
<1>2. QED
  BY <1>1, BothInvariant, PTL

(* A process with either library implements AuthChannel.                   *)
THEOREM BothImplementChannel == BothSpec => ChannelSpec
<1>1. BothInit => Channel!AInit
  BY DEF BothInit, Init, Channel!AInit
<1>2. QED
  BY <1>1, InitBoth, BothStep, BothRefines, PTL DEF BothSpec, ChannelSpec, Channel!ASpec

(* The flag of stego_init and the context of the curve library agree.      *)
THEOREM BothLifecycle == BothSpec => []LifecycleAgrees
<1>1. BothInv => LifecycleAgrees
  BY DEF BothInv, IInv
<1>2. QED
  BY <1>1, BothInvariant, PTL

(* Neither reader looks past the payload it was given, whatever the        *)
(* channel left of it and whatever length of pHash it is told.             *)
THEOREM BothReadInBounds == BothSpec => []ReadsInBounds
<1>1. BothInv => ReadsInBounds
  BY DEF BothInv, IInv
<1>2. QED
  BY <1>1, BothInvariant, PTL

(* A payload has the size that stego_payload_bytes announces.              *)
THEOREM BothPayloadSized == BothSpec => []PayloadSized
<1>1. BothInv => PayloadSized
  BY SentIsSized DEF BothInv, IInv
<1>2. QED
  BY <1>1, BothInvariant, PTL

(* An undamaged payload of any layout but the ambiguous one verifies, and  *)
(* yields the pHash that was signed.                                       *)
THEOREM BothRoundTrip == BothSpec => []RoundTrip
<1>1. BothInv => RoundTrip
  BY DEF BothInv, IInv
<1>2. QED
  BY <1>1, BothInvariant, PTL

(* The two libraries read one format, in every build with a salt: without  *)
(* one bls_verify has no limit on the pHash, and stego_verify has.         *)
THEOREM SaltedReadersAgree ==
  ASSUME BLS_SALT_BYTE > 0
  PROVE  BothSpec => []ReadersAgree
<1>1. BothInv => ReadersAgree
  BY DEF BothInv
<1>2. QED
  BY <1>1, BothInvariant, PTL
=============================================================================
