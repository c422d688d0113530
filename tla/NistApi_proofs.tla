--------------------------- MODULE NistApi_proofs ----------------------------
(***************************************************************************)
(* The UOV backend of the unified API stays inside the payloads it is      *)
(* given, writes payloads of the announced size, gives back the hash that  *)
(* was signed, and, to a caller who compares, keeps the promise of the     *)
(* channel.                                                                *)
(*                                                                         *)
(* As for BLS, every byte of a signature on the wire belongs to an issued  *)
(* signature.  The public map yields either the target of the signature it *)
(* is given, or noise, which no hash that a caller expects is made of.     *)
(***************************************************************************)
EXTENDS NistApi, StegoBytes_proofs, WellFoundedInduction

(* The bytes that can be on the wire when the signatures in I were issued. *)
Target(s) == DigestHash(s.phash) \o s.salt
Known(I) ==
  DataBytes \cup {Noise}
    \cup {Byte("pk", k, <<>>, i) : k \in Keys, i \in Nat}
    \cup {Byte("sig", s.key, Target(s), i) : s \in I, i \in Nat}

Issued == [key : Keys, phash : PHashes, salt : Salt]

Payload(key, phash, salt, append, pk) ==
  SigBytes(key, DigestHash(phash) \o salt)
    \o (IF append /\ pk # NoKey THEN PkBytes(pk) ELSE <<>>)

(* What was sent is a payload of stego_sign.                               *)
SentRight ==
  sent # <<>> =>
    /\ sent.key \in Keys /\ sent.phash \in PHashes
    /\ sent.append \in BOOLEAN /\ sent.pk \in Keys \cup {NoKey}
    /\ sent.rc = OK =>
         /\ Len(sent.phash) <= HASH_EFFECTIVE_BYTE
         /\ \E salt \in Salt :
              sent.payload = Payload(sent.key, sent.phash, salt, sent.append, sent.pk)

(* What a caller who compares accepts was signed.                          *)
ComparedRight ==
  verdict # <<>> /\ Compared =>
    \E s \in issued : verdict.pk = PkBytes(s.key) /\ verdict.recovered = DigestHash(s.phash)

IInv ==
  /\ keys \subseteq Keys
  /\ issued \subseteq Issued
  /\ wire \in Seq(Known(issued))
  /\ SentRight
  /\ ReadsInBounds
  /\ DigestVerified
  /\ ComparedRight

-----------------------------------------------------------------------------
(* The bytes on the wire.                                                  *)

LEMMA KnownBasics ==
  ASSUME NEW I
  PROVE  /\ DataBytes \subseteq Known(I)
         /\ Noise \in Known(I)
         /\ \A k \in Keys, i \in Nat : Byte("pk", k, <<>>, i) \in Known(I)
         /\ \A s \in I, i \in Nat : Byte("sig", s.key, Target(s), i) \in Known(I)
BY DEF Known

(* A byte of a signature is a byte of an issued signature.                 *)
LEMMA SignatureByteIsIssued ==
  ASSUME NEW I, NEW b \in Known(I), b.kind = "sig"
  PROVE  \E s \in I : s.key = b.key /\ Target(s) = b.data
<1>1. b.kind = "sig"
  OBVIOUS
<1>2. b \notin DataBytes /\ b # Noise
  BY <1>1 DEF DataBytes, DataByte, Noise, Byte
<1>3. \A q \in Keys, n \in Nat : b # Byte("pk", q, <<>>, n)
  BY <1>1 DEF Byte
<1>4. PICK s \in I, n \in Nat : b = Byte("sig", s.key, Target(s), n)
  BY <1>2, <1>3 DEF Known
<1>5. b.key = s.key /\ b.data = Target(s)
  BY <1>4 DEF Byte
<1>6. QED
  BY <1>4, <1>5

(* Noise is no byte of data.                                               *)
LEMMA NoiseIsNoData == Noise \notin DataBytes
BY DEF Noise, DataBytes, DataByte, Byte

(* The digest of a pHash: as many bytes of data as the scheme hashes to.   *)
LEMMA DigestIsHashVec ==
  ASSUME NEW phash \in PHashes
  PROVE  /\ DigestHash(phash) \in HashVec
         /\ DigestHash(phash) \in Seq(DataBytes) /\ Len(DigestHash(phash)) = HASH_EFFECTIVE_BYTE
<1>1. phash \in Seq(DataBytes) /\ Hash(phash) \in HashVec /\ HASH_EFFECTIVE_BYTE \in Nat
  BY UovApiAssumption
<1>2. DigestHash(phash) \in HashVec
  <2>1. CASE Len(phash) = HASH_EFFECTIVE_BYTE
    <3>1. phash \in [1 .. Len(phash) -> DataBytes]
      BY <1>1, LenProperties
    <3>2. QED
      BY <2>1, <3>1 DEF DigestHash, HashVec
  <2>2. CASE Len(phash) # HASH_EFFECTIVE_BYTE
    BY <1>1, <2>2 DEF DigestHash
  <2>3. QED
    BY <2>1, <2>2
<1>3. QED
  BY <1>1, <1>2, FunctionIsSeq DEF HashVec

LEMMA SaltIsSeq ==
  ASSUME NEW salt \in Salt
  PROVE  salt \in Seq(DataBytes) /\ Len(salt) = SALT_BYTE
BY FunctionIsSeq, UovApiAssumption DEF Salt

(* A target begins with the digest that is in it.                          *)
LEMMA DigestOfTarget ==
  ASSUME NEW hash \in Seq(DataBytes), Len(hash) = HASH_EFFECTIVE_BYTE, NEW salt \in Seq(DataBytes)
  PROVE  SubSeq(hash \o salt, 1, HASH_EFFECTIVE_BYTE) = hash
<1> DEFINE n == HASH_EFFECTIVE_BYTE
           target == hash \o salt
<1>1. n \in Nat /\ Len(salt) \in Nat
  BY UovApiAssumption, LenProperties
<1>2. /\ target \in Seq(DataBytes) /\ Len(target) = n + Len(salt)
      /\ \A i \in 1 .. n + Len(salt) : target[i] = IF i <= n THEN hash[i] ELSE salt[i - n]
  BY ConcatProperties
<1> HIDE DEF target, n
<1>3. \A i \in 1 .. n : i \in 1 .. n + Len(salt) /\ i <= n
  BY ONLY <1>1
<1>4. \A i \in 1 .. n : target[i] = hash[i]
  BY <1>2, <1>3
<1>5. \A i \in 1 .. n : target[i] \in DataBytes
  BY <1>4, ElementOfSeq DEF n
<1>6. /\ SubSeq(target, 1, n) \in Seq(DataBytes)
      /\ Len(SubSeq(target, 1, n)) = n
      /\ \A i \in 1 .. n : SubSeq(target, 1, n)[i] = target[i]
  <2>1. 1 \in Int /\ n \in Int /\ (IF 1 <= n THEN n - 1 + 1 ELSE 0) = n
    BY <1>1
  <2>2. /\ SubSeq(target, 1, n) \in Seq(DataBytes)
        /\ Len(SubSeq(target, 1, n)) = IF 1 <= n THEN n - 1 + 1 ELSE 0
        /\ \A i \in 1 .. n - 1 + 1 : SubSeq(target, 1, n)[i] = target[1 + i - 1]
    BY <1>2, <1>5, <2>1, SubSeqProperties
  <2>3. \A i \in 1 .. n : 1 + i - 1 = i /\ i \in 1 .. n - 1 + 1
    BY <1>1
  <2>4. QED
    BY <2>1, <2>2, <2>3
<1>7. SubSeq(target, 1, n) = hash
  BY <1>4, <1>6, SeqEqual DEF n
<1>8. QED
  BY <1>7 DEF target, n

-----------------------------------------------------------------------------
(* The payloads of stego_sign.                                             *)

LEMMA SizesAreNat ==
  /\ SIG_BYTE \in Nat /\ SIG_BYTE # 0 /\ 1 \in 1 .. SIG_BYTE
  /\ PK_BYTE \in Nat /\ SALT_BYTE \in Nat
  /\ HASH_EFFECTIVE_BYTE \in Nat /\ HASH_EFFECTIVE_BYTE # 0
BY UovApiAssumption

(* The parts of a payload, at the places that their lengths say.           *)
LEMMA PayloadParts ==
  ASSUME NEW I, NEW key \in Keys, NEW phash \in PHashes, NEW salt \in Salt,
         [key |-> key, phash |-> phash, salt |-> salt] \in I,
         NEW append \in BOOLEAN, NEW pk \in Keys \cup {NoKey},
         NEW payload, payload = Payload(key, phash, salt, append, pk)
  PROVE  /\ payload \in Seq(Known(I))
         /\ Len(payload) = SIG_BYTE + IF append /\ pk # NoKey THEN PK_BYTE ELSE 0
         /\ Slice(payload, 0, SIG_BYTE) = SigBytes(key, DigestHash(phash) \o salt)
         /\ append /\ pk # NoKey => Slice(payload, SIG_BYTE, PK_BYTE) = PkBytes(pk)
<1> DEFINE S    == Known(I)
           sig  == SigBytes(key, DigestHash(phash) \o salt)
           tail == IF append /\ pk # NoKey THEN PkBytes(pk) ELSE <<>>
<1>1. sig \in Seq(S) /\ Len(sig) = SIG_BYTE
  <2> DEFINE s == [key |-> key, phash |-> phash, salt |-> salt]
             t == DigestHash(phash) \o salt
  <2>1. s.key = key /\ Target(s) = t /\ s \in I
    BY DEF Target
  <2> HIDE DEF s, t
  <2>2. \A i \in 1 .. SIG_BYTE : Byte("sig", key, t, i) \in S
    <3>1. \A i \in Nat : Byte("sig", s.key, Target(s), i) \in S
      BY <2>1, KnownBasics
    <3>2. QED
      BY <2>1, <3>1, SizesAreNat
  <2> HIDE DEF S
  <2>3. SigBytes(key, t) \in [1 .. SIG_BYTE -> S]
    BY <2>2 DEF SigBytes
  <2>4. QED
    BY <2>3, SizesAreNat, FunctionIsSeq DEF t
<1>2. pk # NoKey => PkBytes(pk) \in Seq(S) /\ Len(PkBytes(pk)) = PK_BYTE
  <2>1. SUFFICES ASSUME pk # NoKey PROVE PkBytes(pk) \in Seq(S) /\ Len(PkBytes(pk)) = PK_BYTE
    OBVIOUS
  <2>2. \A i \in 1 .. PK_BYTE : Byte("pk", pk, <<>>, i) \in S
    BY <2>1, KnownBasics, SizesAreNat
  <2> HIDE DEF S
  <2>3. PkBytes(pk) \in [1 .. PK_BYTE -> S]
    BY <2>2 DEF PkBytes
  <2>4. QED
    BY <2>3, SizesAreNat, FunctionIsSeq
<1>3. <<>> \in Seq(S) /\ Len(<<>>) = 0
  BY EmptySeq
<1>4. tail \in Seq(S) /\ Len(tail) = IF append /\ pk # NoKey THEN PK_BYTE ELSE 0
  BY <1>2, <1>3
<1>5. payload = sig \o tail
  BY DEF Payload
<1>6. append /\ pk # NoKey => tail = PkBytes(pk) /\ Len(tail) = PK_BYTE
  BY <1>4
<1> HIDE DEF S, sig, tail
<1>7. sig \o tail \in Seq(S) /\ Len(sig \o tail) = Len(sig) + Len(tail)
  BY <1>1, <1>4, ConcatProperties
<1>8. Slice(sig \o tail, 0, SIG_BYTE) = sig
  <2>1. Slice(<<>> \o sig \o tail, Len(<<>>), Len(sig)) = sig
    BY <1>1, <1>3, <1>4, SliceOfConcat
  <2>2. <<>> \o sig = sig
    BY <1>1, ConcatEmptySeq
  <2>3. QED
    BY <1>1, <1>3, <2>1, <2>2
<1>9. Slice(sig \o tail, SIG_BYTE, Len(tail)) = tail
  <2>1. Slice(sig \o tail \o <<>>, Len(sig), Len(tail)) = tail
    BY <1>1, <1>3, <1>4, SliceOfConcat
  <2>2. sig \o tail \o <<>> = sig \o tail
    BY <1>7, ConcatEmptySeq
  <2>3. QED
    BY <1>1, <2>1, <2>2
<1>10. QED
  BY <1>1, <1>4, <1>5, <1>6, <1>7, <1>8, <1>9 DEF S, sig

LEMMA PayloadShape ==
  ASSUME NEW key \in Keys, NEW phash \in PHashes, NEW salt \in Salt,
         NEW append \in BOOLEAN, NEW pk \in Keys \cup {NoKey},
         NEW payload, payload = Payload(key, phash, salt, append, pk)
  PROVE  /\ Len(payload) = SIG_BYTE + IF append /\ pk # NoKey THEN PK_BYTE ELSE 0
         /\ Slice(payload, 0, SIG_BYTE) = SigBytes(key, DigestHash(phash) \o salt)
         /\ append /\ pk # NoKey => Slice(payload, SIG_BYTE, PK_BYTE) = PkBytes(pk)
<1>1. PICK I : [key |-> key, phash |-> phash, salt |-> salt] \in I
  OBVIOUS
<1>2. QED
  BY <1>1, PayloadParts

(* The first byte of a signature says whose it is, and of what.            *)
LEMMA FirstSignatureByte ==
  ASSUME NEW k, NEW t
  PROVE  /\ SigBytes(k, t)[1].kind = "sig"
         /\ SigBytes(k, t)[1].key = k /\ SigBytes(k, t)[1].data = t
BY SizesAreNat DEF SigBytes, Byte

(* A payload has the size that was announced for it.                       *)
LEMMA SentIsSized == ASSUME SentRight PROVE PayloadSized
<1> SUFFICES ASSUME sent # <<>>, sent.rc = OK, sent.append => sent.pk # NoKey
             PROVE  Len(sent.payload) = stego_payload_bytes(sent.append)
  BY DEF PayloadSized
<1>1. PICK salt \in Salt :
        sent.payload = Payload(sent.key, sent.phash, salt, sent.append, sent.pk)
  BY DEF SentRight
<1>2. Len(sent.payload) = SIG_BYTE + IF sent.append /\ sent.pk # NoKey THEN PK_BYTE ELSE 0
  BY <1>1, PayloadShape DEF SentRight
<1>3. (sent.append /\ sent.pk # NoKey) <=> sent.append
  OBVIOUS
<1>4. QED
  BY <1>2, <1>3, Zenon DEF stego_payload_bytes

-----------------------------------------------------------------------------
(* The reader.                                                             *)

(* stego_verify refuses, having read nothing, a payload that is too short, *)
(* or gives back what the public map makes of its signature.               *)
Recovers(ext_pk, expected) ==
  LET pk == IF ext_pk # NoKey THEN PkBytes(ext_pk) ELSE Slice(wire, SIG_BYTE, PK_BYTE) IN
  /\ Len(wire) >= SIG_BYTE
  /\ ext_pk # NoKey \/ Len(wire) - SIG_BYTE >= PK_BYTE
  /\ verdict' = VerifyCall(ext_pk, expected, OK,
                           SubSeq(ov_publicmap(pk, Slice(wire, 0, SIG_BYTE)), 1, HASH_EFFECTIVE_BYTE),
                           pk, SIG_BYTE + IF ext_pk # NoKey THEN 0 ELSE PK_BYTE)

Refuses(ext_pk, expected) ==
  /\ Len(wire) < SIG_BYTE \/ (ext_pk = NoKey /\ ~(Len(wire) - SIG_BYTE >= PK_BYTE))
  /\ verdict' = VerifyCall(ext_pk, expected, ERR, <<>>, <<>>, 0)

LEMMA VerifyOutcome ==
  ASSUME NEW ext_pk, NEW expected, stego_verify(ext_pk, expected)
  PROVE  Refuses(ext_pk, expected) \/ Recovers(ext_pk, expected)
<1>1. SIG_BYTE + 0 = SIG_BYTE
  BY SizesAreNat
<1>2. CASE ext_pk # NoKey
  BY <1>1, <1>2 DEF stego_verify, Refuses, Recovers, stego_sig_bytes, stego_pk_bytes, KeyFollows
<1>3. CASE ext_pk = NoKey
  BY <1>3 DEF stego_verify, Refuses, Recovers, stego_sig_bytes, stego_pk_bytes, KeyFollows
<1>4. QED
  BY <1>2, <1>3

LEMMA VerdictReadsInBounds ==
  ASSUME IInv, NEW ext_pk, NEW expected, stego_verify(ext_pk, expected)
  PROVE  ReadsInBounds'
<1> DEFINE n == Len(wire)
<1>1. n \in Nat /\ UNCHANGED wire
  BY LenProperties DEF IInv, stego_verify
<1>2. CASE Refuses(ext_pk, expected)
  <2>1. verdict'.read = 0
    BY <1>2 DEF Refuses, VerifyCall
  <2>2. QED
    BY <1>1, <2>1 DEF ReadsInBounds
<1>3. CASE Recovers(ext_pk, expected)
  <2> DEFINE more == IF ext_pk # NoKey THEN 0 ELSE PK_BYTE
  <2>1. verdict'.read = SIG_BYTE + more
    BY <1>3 DEF Recovers, VerifyCall
  <2>2. n >= SIG_BYTE /\ (more = 0 \/ (more = PK_BYTE /\ n - SIG_BYTE >= PK_BYTE))
    BY <1>3 DEF Recovers
  <2> HIDE DEF n, more
  <2>3. SIG_BYTE + more <= n
    BY <1>1, <2>2, SizesAreNat
  <2>4. QED
    BY <1>1, <2>1, <2>3 DEF ReadsInBounds, n
<1>4. QED
  BY <1>2, <1>3, VerifyOutcome

(* The public map at a signature of this key, and anywhere else.           *)
LEMMA PublicMapAtSignature ==
  ASSUME NEW key \in Keys, NEW phash \in PHashes, NEW salt \in Salt,
         NEW pk, pk = PkBytes(key), NEW w, w = SigBytes(key, DigestHash(phash) \o salt)
  PROVE  ov_publicmap(pk, w) = DigestHash(phash) \o salt
<1> DEFINE t == DigestHash(phash) \o salt
<1>1. t \in Targets
  BY DigestIsHashVec DEF Targets
<1> HIDE DEF t
<1>2. w[1].data = t
  BY FirstSignatureByte DEF t
<1>3. ov_publicmap(pk, w) = w[1].data
  BY <1>1 DEF ov_publicmap, t
<1>4. QED
  BY <1>2, <1>3 DEF t

(* A hash that the public map yields and a caller expects was signed.      *)
RecoveredHash(pk, w) == SubSeq(ov_publicmap(pk, w), 1, HASH_EFFECTIVE_BYTE)

LEMMA ExpectedHashIsSigned ==
  ASSUME NEW I \in SUBSET Issued, NEW w, NEW b \in Known(I), b = w[1], NEW pk,
         NEW expected \in PHashes,
         RecoveredHash(pk, w) = DigestHash(expected)
  PROVE  \E s \in I : pk = PkBytes(s.key) /\ DigestHash(s.phash) = DigestHash(expected)
<1> DEFINE noise == [i \in 1 .. HASH_EFFECTIVE_BYTE + SALT_BYTE |-> Noise]
<1>1. CASE \E k \in Keys, t \in Targets : pk = PkBytes(k) /\ w = SigBytes(k, t)
  <2>1. PICK k \in Keys, t \in Targets : pk = PkBytes(k) /\ w = SigBytes(k, t)
    BY <1>1
  <2>2. b = SigBytes(k, t)[1] /\ b \in Known(I) /\ ov_publicmap(pk, w) = b.data
    BY <1>1, <2>1 DEF ov_publicmap
  <2>3. b.kind = "sig" /\ b.key = k /\ b.data = t
    BY <2>2, FirstSignatureByte
  <2>4. PICK s \in I : s.key = k /\ Target(s) = t
    BY <2>2, <2>3, SignatureByteIsIssued
  <2>5. s.phash \in PHashes /\ s.salt \in Salt
    BY DEF Issued
  <2>6. SubSeq(t, 1, HASH_EFFECTIVE_BYTE) = DigestHash(s.phash)
    <3>1. /\ DigestHash(s.phash) \in Seq(DataBytes)
          /\ Len(DigestHash(s.phash)) = HASH_EFFECTIVE_BYTE
          /\ s.salt \in Seq(DataBytes)
      BY <2>5, DigestIsHashVec, SaltIsSeq
    <3>2. SubSeq(DigestHash(s.phash) \o s.salt, 1, HASH_EFFECTIVE_BYTE) = DigestHash(s.phash)
      BY <3>1, DigestOfTarget
    <3>3. QED
      BY <2>4, <3>2 DEF Target
  <2>7. QED
    BY <2>1, <2>2, <2>3, <2>4, <2>6 DEF RecoveredHash
<1>2. CASE ~\E k \in Keys, t \in Targets : pk = PkBytes(k) /\ w = SigBytes(k, t)
  <2> DEFINE n == HASH_EFFECTIVE_BYTE
             N == n + SALT_BYTE
  <2>1. ov_publicmap(pk, w) = noise
    BY <1>2 DEF ov_publicmap
  <2>2. n \in Nat /\ 1 \in Int /\ 1 <= n /\ n <= N /\ 1 \in 1 .. n - 1 + 1
    BY SizesAreNat
  <2>a. \A i \in 1 .. n : i \in 1 .. N
    BY SizesAreNat
  <2>b. \A i \in 1 .. N : noise[i] = Noise
    OBVIOUS
  <2> HIDE DEF noise, n, N
  <2>3. \A i \in 1 .. n : noise[i] = Noise /\ noise[i] \in {Noise}
    BY <2>a, <2>b
  <2>4. SubSeq(noise, 1, n)[1] = noise[1 + 1 - 1]
    BY ONLY <2>2, <2>3, SubSeqProperties
  <2>5. SubSeq(noise, 1, n)[1] = Noise
    BY <2>2, <2>3, <2>4
  <2>6. DigestHash(expected)[1] \in DataBytes
    BY <2>2, DigestIsHashVec DEF HashVec, n
  <2>7. QED
    BY <2>1, <2>5, <2>6, NoiseIsNoData DEF n, RecoveredHash
<1>3. QED
  BY <1>1, <1>2

LEMMA VerdictIsCompared ==
  ASSUME IInv, NEW ext_pk, NEW expected \in PHashes, stego_verify(ext_pk, expected)
  PROVE  ComparedRight'
<1>1. UNCHANGED issued
  BY DEF stego_verify
<1>2. CASE Refuses(ext_pk, expected)
  BY <1>2 DEF Refuses, VerifyCall, ComparedRight, Compared, OK, ERR
<1>3. CASE Recovers(ext_pk, expected)
  <2> DEFINE pk == IF ext_pk # NoKey THEN PkBytes(ext_pk) ELSE Slice(wire, SIG_BYTE, PK_BYTE)
             w  == Slice(wire, 0, SIG_BYTE)
  <2>1. /\ verdict'.expected = expected /\ verdict'.pk = pk
        /\ verdict'.recovered = SubSeq(ov_publicmap(pk, w), 1, HASH_EFFECTIVE_BYTE)
    BY <1>3 DEF Recovers, VerifyCall
  <2>2. w[1] \in Known(issued)
    <3>1. Noise \in Known(issued) /\ wire \in Seq(Known(issued))
      BY KnownBasics DEF IInv
    <3>2. QED
      BY <3>1, SizesAreNat, SliceIsSeq
  <2>3. issued \subseteq Issued
    BY DEF IInv
  <2> HIDE DEF pk, w
  <2>4. ASSUME verdict'.recovered = DigestHash(expected)
        PROVE  \E s \in issued : pk = PkBytes(s.key) /\ DigestHash(s.phash) = DigestHash(expected)
    <3>1. RecoveredHash(pk, w) = DigestHash(expected)
      BY <2>1, <2>4 DEF RecoveredHash
    <3>2. expected \in PHashes /\ issued \in SUBSET Issued
      BY <2>3
    <3>3. PICK b \in Known(issued) : b = w[1]
      BY <2>2
    <3>4. QED
      BY ONLY <3>1, <3>2, <3>3, ExpectedHashIsSigned
  <2>5. QED
    BY <1>1, <2>1, <2>4 DEF ComparedRight, Compared
<1>4. QED
  BY <1>2, <1>3, VerifyOutcome

(* The signer and the verifier of a digest mean the same hash: they differ *)
(* on the digests that a signer refuses only.                              *)
LEMMA SameHash ==
  ASSUME NEW phash \in PHashes, Len(phash) <= HASH_EFFECTIVE_BYTE
  PROVE  expected_hash(phash) = DigestHash(phash)
<1>1. phash \in Seq(DataBytes) /\ Len(phash) \in Nat /\ HASH_EFFECTIVE_BYTE \in Nat
  BY UovApiAssumption, LenProperties
<1>2. CASE Len(phash) = HASH_EFFECTIVE_BYTE
  <2>1. SubSeq(phash, 1, HASH_EFFECTIVE_BYTE) = phash
    BY <1>1, <1>2, SubSeqFull
  <2>2. QED
    BY <1>1, <1>2, <2>1 DEF expected_hash, DigestHash
<1>3. CASE Len(phash) < HASH_EFFECTIVE_BYTE
  BY <1>1, <1>3 DEF expected_hash, DigestHash
<1>4. QED
  BY <1>1, <1>2, <1>3

(* What was sent is accepted as the digest that was signed, and gives it   *)
(* back, under the right key.                                              *)
LEMMA VerdictRecovers ==
  ASSUME IInv, NEW ext_pk, NEW expected, stego_verify(ext_pk, expected)
  PROVE  DigestVerified'
<1>1. UNCHANGED <<sent, wire>>
  BY DEF stego_verify
<1>2. verdict'.ext_pk = ext_pk
  BY VerifyOutcome DEF Refuses, Recovers, VerifyCall
<1> SUFFICES ASSUME sent # <<>>, sent.rc = OK, wire = sent.payload,
                    ext_pk = sent.key \/ (ext_pk = NoKey /\ sent.append /\ sent.pk = sent.key)
             PROVE  /\ verdict'.rc = OK
                    /\ ov_verify_digest(sent.phash, Slice(wire, 0, SIG_BYTE), verdict'.pk)
                    /\ verdict'.recovered = expected_hash(sent.phash)
  BY <1>1, <1>2, Zenon DEF DigestVerified, Undamaged, RightKey, stego_sig_bytes
<1>3. PICK salt \in Salt :
        sent.payload = Payload(sent.key, sent.phash, salt, sent.append, sent.pk)
  BY DEF IInv, SentRight
<1>4. /\ sent.key \in Keys /\ sent.key # NoKey /\ sent.phash \in PHashes
      /\ sent.append \in BOOLEAN /\ sent.pk \in Keys \cup {NoKey}
      /\ Len(sent.phash) <= HASH_EFFECTIVE_BYTE
  BY UovApiAssumption DEF IInv, SentRight
<1> DEFINE pk == IF ext_pk # NoKey THEN PkBytes(ext_pk) ELSE Slice(wire, SIG_BYTE, PK_BYTE)
           w  == Slice(wire, 0, SIG_BYTE)
           t  == DigestHash(sent.phash) \o salt
<1>5. /\ Len(wire) = SIG_BYTE + IF sent.append /\ sent.pk # NoKey THEN PK_BYTE ELSE 0
      /\ w = SigBytes(sent.key, t)
      /\ sent.append /\ sent.pk # NoKey => Slice(wire, SIG_BYTE, PK_BYTE) = PkBytes(sent.pk)
  BY <1>3, <1>4, PayloadShape
<1>6. pk = PkBytes(sent.key)
  BY <1>4, <1>5
<1>7. ~Refuses(ext_pk, expected)
  <2>1. ~(Len(wire) < SIG_BYTE)
    BY <1>5, SizesAreNat
  <2>2. ext_pk = NoKey => Len(wire) - SIG_BYTE >= PK_BYTE
    BY <1>4, <1>5, SizesAreNat
  <2>3. QED
    BY <2>1, <2>2 DEF Refuses
<1>8. /\ verdict'.rc = OK /\ verdict'.pk = pk
      /\ verdict'.recovered = SubSeq(ov_publicmap(pk, w), 1, HASH_EFFECTIVE_BYTE)
  BY <1>7, VerifyOutcome DEF Recovers, VerifyCall
<1>9. ov_publicmap(pk, w) = t
  <2> HIDE DEF pk, w
  <2>1. QED
    BY <1>4, <1>5, <1>6, PublicMapAtSignature DEF t
<1>10. SubSeq(t, 1, HASH_EFFECTIVE_BYTE) = DigestHash(sent.phash)
  <2>1. /\ DigestHash(sent.phash) \in Seq(DataBytes)
        /\ Len(DigestHash(sent.phash)) = HASH_EFFECTIVE_BYTE
        /\ salt \in Seq(DataBytes)
    BY <1>4, DigestIsHashVec, SaltIsSeq
  <2>2. QED
    BY <2>1, DigestOfTarget
<1>11. expected_hash(sent.phash) = DigestHash(sent.phash)
  BY <1>4, SameHash
<1> HIDE DEF pk, t
<1>12. ov_verify_digest(sent.phash, w, pk)
  BY <1>9, <1>10, <1>11 DEF ov_verify_digest
<1>13. QED
  BY <1>8, <1>9, <1>10, <1>11, <1>12

-----------------------------------------------------------------------------
(* The invariant of the unified API.                                       *)

LEMMA InitIInv == Init => IInv
<1> SUFFICES ASSUME Init PROVE IInv
  OBVIOUS
<1>1. keys \subseteq Keys /\ issued \subseteq Issued /\ wire \in Seq(Known(issued))
  BY EmptySeq DEF Init
<1>2. SentRight /\ ReadsInBounds /\ DigestVerified /\ ComparedRight
  BY DEF Init, SentRight, ReadsInBounds, DigestVerified, Undamaged, ComparedRight
<1>3. QED
  BY <1>1, <1>2 DEF IInv

(* A step that touches keys only.                                          *)
LEMMA Unaffected ==
  ASSUME IInv, UNCHANGED <<issued, sent, wire, verdict>>, keys' \subseteq Keys
  PROVE  IInv'
<1>1. SentRight' /\ ReadsInBounds'
  BY DEF IInv, SentRight, ReadsInBounds
<1>2. DigestVerified' /\ ComparedRight'
  BY DEF IInv, DigestVerified, Undamaged, RightKey, ComparedRight, Compared
<1>3. QED
  BY <1>1, <1>2 DEF IInv

LEMMA SignStep ==
  ASSUME IInv, NEW key \in keys, NEW phash \in PHashes,
         NEW user_salt \in UserSalts \cup {NoSalt},
         NEW append \in BOOLEAN, NEW pk \in keys \cup {NoKey},
         stego_sign(key, phash, user_salt, append, pk)
  PROVE  IInv'
<1>1. UNCHANGED keys /\ key \in Keys /\ pk \in Keys \cup {NoKey}
  BY DEF stego_sign, IInv
<1>2. CASE SignFails(key, phash, append, pk)
  <2>1. UNCHANGED <<issued, wire, verdict>> /\ sent' = SignCall(key, phash, append, pk, ERR, <<>>)
    BY <1>2 DEF SignFails
  <2>2. SentRight' /\ DigestVerified'
    BY <1>1, <2>1 DEF SentRight, DigestVerified, Undamaged, SignCall, OK, ERR
  <2>3. ReadsInBounds' /\ ComparedRight'
    BY <2>1 DEF IInv, ReadsInBounds, ComparedRight, Compared
  <2>4. QED
    BY <1>1, <2>1, <2>2, <2>3 DEF IInv
<1>3. ASSUME NEW salt \in IF user_salt = NoSalt THEN Salt ELSE {HashSalt(user_salt)},
             SignSucceeds(key, phash, salt, append, pk)
      PROVE  IInv'
  <2>1. salt \in Salt
    BY <1>3, UovApiAssumption
  <2> DEFINE payload == Payload(key, phash, salt, append, pk)
  <2>2. /\ sent' = SignCall(key, phash, append, pk, OK, payload)
        /\ issued' = issued \cup {[key |-> key, phash |-> phash, salt |-> salt]}
        /\ wire' = payload /\ verdict' = <<>>
        /\ Len(phash) <= HASH_EFFECTIVE_BYTE
    BY <1>3 DEF SignSucceeds, Payload, stego_max_phash_bytes
  <2>3. issued' \subseteq Issued
    BY <1>1, <2>1, <2>2 DEF IInv, Issued
  <2>4. [key |-> key, phash |-> phash, salt |-> salt] \in issued'
    BY <2>2
  <2>5. payload \in Seq(Known(issued'))
    BY <1>1, <2>1, <2>4, PayloadParts
  <2>6. SentRight'
    BY <1>1, <2>1, <2>2 DEF SentRight, SignCall
  <2>7. ReadsInBounds' /\ DigestVerified' /\ ComparedRight'
    BY <2>2 DEF ReadsInBounds, DigestVerified, Undamaged, ComparedRight
  <2>8. QED
    BY <1>1, <2>2, <2>3, <2>5, <2>6, <2>7 DEF IInv
<1>4. QED
  BY <1>2, <1>3 DEF stego_sign

LEMMA FaultStep == ASSUME IInv, Fault PROVE IInv'
<1>1. PK_BYTE + 1 \in Nat
  BY UovApiAssumption
<1>2. wire' \in Seq(Known(issued))
  BY <1>1, KnownBasics, DamagedIsSeq DEF IInv, Fault
<1>3. SentRight' /\ issued' = issued /\ keys' = keys
  BY DEF IInv, Fault, SentRight
<1>4. ReadsInBounds' /\ DigestVerified' /\ ComparedRight'
  BY DEF Fault, ReadsInBounds, DigestVerified, Undamaged, ComparedRight
<1>5. QED
  BY <1>2, <1>3, <1>4 DEF IInv

LEMMA VerifyStep ==
  ASSUME IInv, NEW ext_pk, NEW expected \in PHashes, stego_verify(ext_pk, expected)
  PROVE  IInv'
<1>1. UNCHANGED <<keys, issued, sent, wire>>
  BY DEF stego_verify
<1>2. ReadsInBounds' /\ DigestVerified' /\ ComparedRight'
  BY VerdictReadsInBounds, VerdictRecovers, VerdictIsCompared
<1>3. SentRight'
  BY <1>1 DEF IInv, SentRight
<1>4. QED
  BY <1>1, <1>2, <1>3 DEF IInv

LEMMA StepIInv == IInv /\ [Next]_vars => IInv'
<1> SUFFICES ASSUME IInv, [Next]_vars PROVE IInv'
  OBVIOUS
<1>1. CASE stego_keygen
  BY <1>1, Unaffected DEF stego_keygen, IInv
<1>2. CASE Sign
  BY <1>2, SignStep DEF Sign
<1>3. CASE Fault
  BY <1>3, FaultStep
<1>4. CASE Verify
  BY <1>4, VerifyStep DEF Verify
<1>5. CASE UNCHANGED vars
  BY <1>5, Unaffected DEF vars, IInv
<1>6. QED
  BY <1>1, <1>2, <1>3, <1>4, <1>5 DEF Next

(* A process that uses the library's own interface signs no pHashes.       *)
LEMMA BothStep == IInv /\ [BothNext]_uov_vars => IInv'
<1> SUFFICES ASSUME IInv, [BothNext]_uov_vars PROVE IInv'
  OBVIOUS
<1>1. CASE [Next]_vars
  BY <1>1, StepIInv
<1>2. CASE crypto_sign_keypair
  BY <1>2, Unaffected DEF crypto_sign_keypair, IInv
<1>3. CASE UNCHANGED vars
  BY <1>3, StepIInv
<1>4. CASE NistNext
  BY <1>2, <1>3, <1>4 DEF NistNext, CallSign, SmFault, crypto_sign_open
<1>5. QED
  BY <1>1, <1>3, <1>4 DEF BothNext, uov_vars

-----------------------------------------------------------------------------
(* The refinement of AuthChannel by callers who compare.                   *)

LEMMA SignRefines ==
  ASSUME NEW key \in Keys, NEW phash \in PHashes, NEW salt,
         issued' = issued \cup {[key |-> key, phash |-> phash, salt |-> salt]},
         verdict' = <<>>
  PROVE  Compare!ANext
<1> DEFINE s == [key |-> key, phash |-> phash, salt |-> salt]
<1>1. s.key = key /\ s.phash = phash /\ issued' = issued \cup {s}
  OBVIOUS
<1> HIDE DEF s
<1>2. Signed(issued)' = Signed(issued) \cup {<<PkBytes(key), DigestHash(phash)>>}
  BY <1>1 DEF Signed
<1>3. DigestHash(phash) \in HashVec
  BY DigestIsHashVec
<1>4. Compare!ASign(PkBytes(key), DigestHash(phash))
  BY <1>2 DEF Compare!ASign
<1>5. QED
  BY <1>3, <1>4 DEF Compare!ANext

LEMMA VerdictRefines ==
  ASSUME issued \subseteq Issued, UNCHANGED issued, ComparedRight'
  PROVE  Compare!ANext
<1>1. Signed(issued)' = Signed(issued)
  BY DEF Signed
<1>2. CASE verdict' # <<>> /\ Compared'
  <2>1. PICK s \in issued :
          verdict'.pk = PkBytes(s.key) /\ verdict'.recovered = DigestHash(s.phash)
    BY <1>2 DEF ComparedRight
  <2>2. s.key \in Keys /\ DigestHash(s.phash) \in HashVec
    BY DigestIsHashVec DEF Issued
  <2>3. <<PkBytes(s.key), DigestHash(s.phash)>> \in Signed(issued)
    BY DEF Signed
  <2>4. Compare!AAccept(PkBytes(s.key), DigestHash(s.phash))
    BY <1>1, <1>2, <2>1, <2>3 DEF Compare!AAccept
  <2>5. QED
    BY <2>2, <2>4 DEF Compare!ANext
<1>3. CASE ~(verdict' # <<>> /\ Compared')
  BY <1>1, <1>3 DEF Compare!ANext, Compare!ARefuse
<1>4. QED
  BY <1>2, <1>3

LEMMA BothRefines == IInv /\ IInv' /\ [BothNext]_uov_vars => [Compare!ANext]_(Compare!avars)
<1> SUFFICES ASSUME IInv, IInv', [BothNext]_uov_vars
             PROVE  [Compare!ANext]_(Compare!avars)
  OBVIOUS
<1>1. issued \subseteq Issued /\ keys \subseteq Keys /\ ComparedRight'
  BY DEF IInv
<1>2. CASE UNCHANGED issued
  BY <1>1, <1>2, VerdictRefines
<1>3. CASE Sign
  <2>1. PICK key \in keys, phash \in PHashes, user_salt \in UserSalts \cup {NoSalt},
              append \in BOOLEAN, pk \in keys \cup {NoKey} :
          stego_sign(key, phash, user_salt, append, pk)
    BY <1>3 DEF Sign
  <2>2. PICK salt : \/ UNCHANGED issued
                    \/ /\ issued' = issued \cup {[key |-> key, phash |-> phash, salt |-> salt]}
                       /\ verdict' = <<>>
    BY <2>1 DEF stego_sign, SignFails, SignSucceeds
  <2>3. QED
    BY <1>1, <1>2, <2>2, SignRefines
<1>4. CASE stego_keygen \/ Fault \/ Verify \/ NistNext \/ UNCHANGED uov_vars
  BY <1>2, <1>4 DEF stego_keygen, Fault, Verify, stego_verify, NistNext, crypto_sign_keypair, CallSign,
                    SmFault, crypto_sign_open, vars, uov_vars
<1>5. QED
  BY <1>3, <1>4 DEF BothNext, Next

-----------------------------------------------------------------------------
(* The theorems, for any sizes of keys, salts, digests and signatures, any *)
(* number of keys and signatures, and any fault of the channel.            *)

LEMMA UovInvariant == BothSpec => []IInv
<1>1. BothInit => IInv
  BY InitIInv DEF BothInit
<1>2. QED
  BY <1>1, BothStep, PTL DEF BothSpec

(* stego_verify never looks past the payload it was given.                 *)
THEOREM UovReadsInBounds == BothSpec => []ReadsInBounds
<1>1. IInv => ReadsInBounds
  BY DEF IInv
<1>2. QED
  BY <1>1, UovInvariant, PTL

(* A payload has the size that stego_payload_bytes announces.              *)
THEOREM UovPayloadSized == BothSpec => []PayloadSized
<1>1. IInv => PayloadSized
  BY SentIsSized DEF IInv
<1>2. QED
  BY <1>1, UovInvariant, PTL

(* An undamaged payload, read with the signer's key, is accepted by the    *)
(* verifier of digests for the pHash that was signed, and gives back the   *)
(* hash which that verifier compares with.                                 *)
THEOREM UovDigestVerified == BothSpec => []DigestVerified
<1>1. IInv => DigestVerified
  BY DEF IInv
<1>2. QED
  BY <1>1, UovInvariant, PTL

(* A caller who compares the recovered hash with the expected one has an   *)
(* authentic channel.                                                      *)
THEOREM UovImplementsChannel == BothSpec => ComparedSpec
<1>1. BothInit => Compare!AInit
  BY DEF BothInit, Init, Compare!AInit, Signed
<1>2. BothInit => IInv
  BY InitIInv DEF BothInit
<1>3. QED
  BY <1>1, <1>2, BothStep, BothRefines, PTL DEF BothSpec, ComparedSpec, Compare!ASpec

-----------------------------------------------------------------------------
(* Induction over the natural numbers, for the byte-wise copy.             *)

(* A set of numbers that has 0 and the successor of each of its members    *)
(* has them all.                                                           *)
LEMMA NatSetInduction ==
  ASSUME NEW T, 0 \in T, \A n \in Nat : n \in T => n + 1 \in T
  PROVE  Nat \subseteq T
<1> DEFINE D == Nat \ T
           R == OpToRel(<, Nat)
<1> SUFFICES ASSUME D # {} PROVE FALSE
  OBVIOUS
<1>1. IsWellFoundedOn(R, Nat)
  BY NatLessThanWellFounded
<1>2. D \subseteq Nat
  OBVIOUS
<1>a. \A x \in Nat, y \in Nat : y < x => <<y, x>> \in R
  BY DEF OpToRel
<1> HIDE DEF D, R
<1>3. PICK x \in D : \A y \in D : ~(<<y, x>> \in R)
  BY <1>1, <1>2, WFMin
<1>4. \A y \in D : ~(y < x)
  BY <1>2, <1>3, <1>a
<1>5. x \in Nat /\ x # 0 /\ x \notin T
  BY <1>2 DEF D
<1>6. x - 1 \in Nat /\ x - 1 < x /\ (x - 1) + 1 = x
  BY <1>5
<1>7. x - 1 \in T
  BY <1>4, <1>6 DEF D
<1>8. QED
  BY <1>5, <1>6, <1>7

-----------------------------------------------------------------------------
(* The byte-wise copy.                                                     *)

IsCopy(f, m, to, from, n) ==
  f = [i \in 0 .. n |-> IF i = 0 THEN m ELSE [f[i-1] EXCEPT ![to + i] = f[i-1][from + i]]]

LEMMA CopyExists ==
  ASSUME NEW m, NEW to, NEW from
  PROVE  \A n \in Nat : \E f : IsCopy(f, m, to, from, n)
<1> DEFINE T == {n \in Nat : \E f : IsCopy(f, m, to, from, n)}
<1>1. 0 \in T
  <2> DEFINE f == [i \in 0 .. 0 |-> m]
  <2>1. f = [i \in 0 .. 0 |-> IF i = 0 THEN m ELSE [f[i-1] EXCEPT ![to + i] = f[i-1][from + i]]]
    OBVIOUS
  <2> HIDE DEF f
  <2>2. QED
    BY <2>1 DEF IsCopy
<1>2. ASSUME NEW n \in Nat, n \in T
      PROVE  n + 1 \in T
  <2>1. PICK f : IsCopy(f, m, to, from, n)
    BY <1>2
  <2> DEFINE g == [i \in 0 .. n + 1 |-> IF i <= n THEN f[i]
                                        ELSE [f[n] EXCEPT ![to + (n + 1)] = f[n][from + (n + 1)]]]
             h == [i \in 0 .. n + 1 |-> IF i = 0 THEN m
                                        ELSE [g[i-1] EXCEPT ![to + i] = g[i-1][from + i]]]
  <2>2. \A i \in 0 .. n : f[i] = IF i = 0 THEN m ELSE [f[i-1] EXCEPT ![to + i] = f[i-1][from + i]]
    BY <2>1 DEF IsCopy
  <2>3. \A i \in 0 .. n : g[i] = f[i]
    BY <1>2
  <2>4. g[n + 1] = [f[n] EXCEPT ![to + (n + 1)] = f[n][from + (n + 1)]]
    BY <1>2
  <2>5. DOMAIN g = 0 .. n + 1 /\ g = [i \in 0 .. n + 1 |-> g[i]]
    OBVIOUS
  <2> HIDE DEF g
  <2>6. ASSUME NEW i \in 0 .. n + 1
        PROVE  g[i] = IF i = 0 THEN m ELSE [g[i-1] EXCEPT ![to + i] = g[i-1][from + i]]
    <3>1. CASE i = 0
      <4>1. 0 \in 0 .. n
        BY <1>2
      <4>2. g[0] = f[0]
        BY <2>3, <4>1
      <4>3. f[0] = m
        BY <2>2, <4>1
      <4>4. QED
        BY <3>1, <4>2, <4>3
    <3>2. CASE i # 0 /\ i <= n
      <4>1. i \in 0 .. n /\ i - 1 \in 0 .. n
        BY <1>2, <3>2
      <4>2. g[i] = f[i] /\ g[i-1] = f[i-1]
        BY <2>3, <4>1
      <4>3. f[i] = [f[i-1] EXCEPT ![to + i] = f[i-1][from + i]]
        BY <2>2, <3>2, <4>1
      <4>4. QED
        BY <3>2, <4>2, <4>3
    <3>3. CASE i = n + 1
      <4>1. i - 1 = n /\ i # 0 /\ n \in 0 .. n
        BY <1>2, <3>3
      <4>2. QED
        BY <2>3, <2>4, <3>3, <4>1
    <3>4. QED
      BY <1>2, <3>1, <3>2, <3>3
  <2>7. IsCopy(g, m, to, from, n + 1)
    BY <2>5, <2>6 DEF IsCopy
  <2>8. QED
    BY <1>2, <2>7
<1> HIDE DEF T
<1>3. Nat \subseteq T
  BY <1>1, <1>2, NatSetInduction
<1>4. QED
  BY <1>3 DEF T

(* The copy goes through f[0], f[1] and so on, up to f[n].                 *)
Copying(f, m, to, from, n) ==
  /\ f[0] = m
  /\ \A i \in 1 .. n : f[i] = [f[i-1] EXCEPT ![to + i] = f[i-1][from + i]]
  /\ CopyForward(m, to, from, n) = f[n]

LEMMA CopyForwardSteps ==
  ASSUME NEW m, NEW to, NEW from, NEW n \in Nat
  PROVE  \E f : Copying(f, m, to, from, n)
<1> DEFINE f == CHOOSE f : IsCopy(f, m, to, from, n)
<1>1. IsCopy(f, m, to, from, n)
  BY CopyExists
<1>2. CopyForward(m, to, from, n) = f[n]
  BY DEF CopyForward, IsCopy
<1> HIDE DEF f
<1>3. \A i \in 0 .. n : f[i] = IF i = 0 THEN m ELSE [f[i-1] EXCEPT ![to + i] = f[i-1][from + i]]
  BY <1>1 DEF IsCopy
<1>4. 0 \in 0 .. n /\ \A i \in 1 .. n : i \in 0 .. n /\ i # 0
  OBVIOUS
<1>5. QED
  BY <1>2, <1>3, <1>4 DEF Copying

(* A byte that is copied from where the copy has written before.           *)
Again(to, from, j) == from < to /\ to < from + j

IsCopied(after, S, m, to, from, n) ==
  /\ after \in [1 .. Cells -> S]
  /\ \A j \in 1 .. n :
       after[to + j] = IF Again(to, from, j) THEN after[from + j] ELSE m[from + j]

(* Copying within the memory puts no other bytes there; the source arrives,*)
(* with what lies in front of the destination repeated where the           *)
(* destination starts inside of the source.                                *)
LEMMA CopyCarries ==
  ASSUME NEW S, NEW m \in [1 .. Cells -> S], NEW to \in Nat, NEW from \in Nat, NEW n \in Nat,
         from + n <= Cells, to + n <= Cells, Cells \in Nat
  PROVE  IsCopied(CopyForward(m, to, from, n), S, m, to, from, n)
<1>0. PICK f : Copying(f, m, to, from, n)
  BY CopyForwardSteps
<1>1. /\ f[0] = m
      /\ \A i \in 1 .. n : f[i] = [f[i-1] EXCEPT ![to + i] = f[i-1][from + i]]
      /\ CopyForward(m, to, from, n) = f[n]
  BY <1>0 DEF Copying
<1> DEFINE Kept(i) == \A c \in 1 .. Cells : c <= to \/ c > to + i => f[i][c] = m[c]
           Moved(i) == \A j \in 1 .. i :
             f[i][to + j] = IF Again(to, from, j) THEN f[i][from + j] ELSE m[from + j]
           T == {i \in Nat : i <= n => f[i] \in [1 .. Cells -> S] /\ Kept(i) /\ Moved(i)}
<1>2. 0 \in T
  BY <1>1
<1>3. ASSUME NEW i \in Nat, i \in T
      PROVE  i + 1 \in T
  <2>1. SUFFICES ASSUME i + 1 <= n
                 PROVE  f[i + 1] \in [1 .. Cells -> S] /\ Kept(i + 1) /\ Moved(i + 1)
    OBVIOUS
  <2>2. f[i] \in [1 .. Cells -> S] /\ Kept(i) /\ Moved(i)
    BY <1>3, <2>1
  <2> DEFINE g == f[i]
             h == f[i + 1]
             last == to + (i + 1)
  <2>3. h = [g EXCEPT ![last] = g[from + (i + 1)]]
    <3>1. i + 1 \in 1 .. n /\ (i + 1) - 1 = i
      BY <2>1
    <3>2. QED
      BY <1>1, <3>1
  <2>4. from + (i + 1) \in 1 .. Cells /\ last \in 1 .. Cells
    BY <2>1
  <2>5. /\ h \in [1 .. Cells -> S] /\ h[last] = g[from + (i + 1)]
        /\ \A c \in 1 .. Cells : c # last => h[c] = g[c]
    BY <2>2, <2>3, <2>4
  <2>6. \A c \in 1 .. Cells : c <= to \/ c > to + i => g[c] = m[c]
    BY <2>2
  <2>7. \A j \in 1 .. i : g[to + j] = IF Again(to, from, j) THEN g[from + j] ELSE m[from + j]
    BY <2>2
  <2> HIDE DEF g, h
  <2>8. \A c \in 1 .. Cells : c <= to \/ c > to + (i + 1) => h[c] = m[c]
    BY <2>5, <2>6
  <2>9. ASSUME NEW j \in 1 .. i + 1
        PROVE  h[to + j] = IF Again(to, from, j) THEN h[from + j] ELSE m[from + j]
    <3>1. CASE j = i + 1 /\ Again(to, from, j)
      <4>1. from + (i + 1) # last
        BY <3>1 DEF Again
      <4>2. QED
        BY <2>4, <2>5, <3>1, <4>1
    <3>2. CASE j = i + 1 /\ ~Again(to, from, j)
      <4>1. from + (i + 1) <= to \/ from + (i + 1) > to + i
        BY <3>2 DEF Again
      <4>2. g[from + (i + 1)] = m[from + (i + 1)]
        BY <2>4, <2>6, <4>1
      <4>3. QED
        BY <2>5, <3>2, <4>2
    <3>3. CASE j \in 1 .. i
      <4>1. to + j \in 1 .. Cells /\ to + j # last
        BY <2>1, <3>3
      <4>2. h[to + j] = g[to + j]
        BY <2>5, <4>1
      <4>3. from + j \in 1 .. Cells
        BY <2>1, <3>3
      <4>4. Again(to, from, j) => from + j # last
        BY <3>3 DEF Again
      <4>5. Again(to, from, j) => h[from + j] = g[from + j]
        BY <2>5, <4>3, <4>4
      <4>6. QED
        BY <2>7, <3>3, <4>2, <4>5
    <3>4. j = i + 1 \/ j \in 1 .. i
      OBVIOUS
    <3>5. QED
      BY <3>1, <3>2, <3>3, <3>4
  <2>10. QED
    BY <2>5, <2>8, <2>9 DEF h
<1> HIDE DEF T
<1>4. n \in T
  BY <1>2, <1>3, NatSetInduction
<1>5. f[n] \in [1 .. Cells -> S] /\ Moved(n)
  BY <1>4 DEF T
<1>6. QED
  BY <1>1, <1>5 DEF IsCopied

-----------------------------------------------------------------------------
(* Buffers in the memory.                                                  *)

LEMMA InIsSeq ==
  ASSUME NEW S, NEW m \in [1 .. Cells -> S], NEW at \in Nat, NEW n \in Nat,
         at + n <= Cells, Cells \in Nat
  PROVE  In(m, at, n) \in Seq(S) /\ Len(In(m, at, n)) = n
<1>1. \A i \in 1 .. n : at + i \in 1 .. Cells
  OBVIOUS
<1>2. In(m, at, n) \in [1 .. n -> S]
  BY <1>1 DEF In
<1>3. QED
  BY <1>2, FunctionIsSeq

(* What is put in the memory is there, and the rest is as it was.          *)
IsPut(after, S, m, at, bytes) ==
  /\ after \in [1 .. Cells -> S]
  /\ \A i \in 1 .. Len(bytes) : after[at + i] = bytes[i]
  /\ \A c \in 1 .. Cells : c <= at \/ c > at + Len(bytes) => after[c] = m[c]
  /\ In(after, at, Len(bytes)) = bytes

LEMMA PutProperties ==
  ASSUME NEW S, NEW m \in [1 .. Cells -> S], NEW at \in Nat, NEW bytes \in Seq(S),
         at + Len(bytes) <= Cells, Cells \in Nat
  PROVE  IsPut(Put(m, at, bytes), S, m, at, bytes)
<1> DEFINE n == Len(bytes)
<1>1. /\ n \in Nat /\ DOMAIN bytes = 1 .. n /\ bytes = [i \in 1 .. n |-> bytes[i]]
      /\ \A i \in 1 .. n : bytes[i] \in S
  BY ElementOfSeq
<1> HIDE DEF n
<1>2. \A c \in 1 .. Cells :
        Put(m, at, bytes)[c] = IF c - at \in 1 .. n THEN bytes[c - at] ELSE m[c]
  BY <1>1 DEF Put
<1>3. Put(m, at, bytes) \in [1 .. Cells -> S]
  BY <1>1 DEF Put
<1>4. \A i \in 1 .. n : Put(m, at, bytes)[at + i] = bytes[i]
  <2>1. ASSUME NEW i \in 1 .. n PROVE Put(m, at, bytes)[at + i] = bytes[i]
    <3>1. at + i \in 1 .. Cells /\ (at + i) - at = i
      BY <1>1 DEF n
    <3>2. QED
      BY <1>2, <3>1
  <2>2. QED
    BY <2>1
<1>5. \A c \in 1 .. Cells : c <= at \/ c > at + n => Put(m, at, bytes)[c] = m[c]
  BY <1>1, <1>2
<1>6. In(Put(m, at, bytes), at, n) = bytes
  BY <1>1, <1>4 DEF In
<1>7. QED
  BY <1>3, <1>4, <1>5, <1>6 DEF n, IsPut

LEMMA NSigProperties ==
  ASSUME NEW key, NEW msg
  PROVE  /\ SIG_BYTE \in Nat /\ SIG_BYTE > 0
         /\ NSig(key, msg) = [i \in 1 .. SIG_BYTE |-> Byte("sig", key, msg, i)]
         /\ Len(NSig(key, msg)) = SIG_BYTE
         /\ \A S : (\A i \in 1 .. SIG_BYTE : Byte("sig", key, msg, i) \in S) =>
                     NSig(key, msg) \in Seq(S)
<1>1. SIG_BYTE \in Nat /\ SIG_BYTE > 0
  BY UovApiAssumption
<1>2. NSig(key, msg) = [i \in 1 .. SIG_BYTE |-> Byte("sig", key, msg, i)]
  BY DEF NSig, OV_SIGNATUREBYTES
<1>3. ASSUME NEW S, \A i \in 1 .. SIG_BYTE : Byte("sig", key, msg, i) \in S
      PROVE  NSig(key, msg) \in Seq(S)
  <2>1. NSig(key, msg) \in [1 .. SIG_BYTE -> S]
    BY <1>2, <1>3
  <2>2. QED
    BY <1>1, <2>1, FunctionIsSeq
<1>4. Len(NSig(key, msg)) = SIG_BYTE
  <2>1. NSig(key, msg) \in [1 .. SIG_BYTE -> {Byte("sig", key, msg, i) : i \in 1 .. SIG_BYTE}]
    BY <1>2
  <2>2. QED
    BY <1>1, <2>1, FunctionIsSeq
<1>5. QED
  BY <1>1, <1>2, <1>3, <1>4

(* The two parts of a buffer, and the whole.                               *)
IsJoined(m, at, n, k) == In(m, at, n + k) = In(m, at, n) \o In(m, at + n, k)

LEMMA InParts ==
  ASSUME NEW S, NEW m \in [1 .. Cells -> S], NEW at \in Nat, NEW n \in Nat, NEW k \in Nat,
         at + n + k <= Cells, Cells \in Nat
  PROVE  IsJoined(m, at, n, k)
<1> DEFINE a == In(m, at, n)
           b == In(m, at + n, k)
           w == In(m, at, n + k)
<1>1. a \in Seq(S) /\ Len(a) = n /\ b \in Seq(S) /\ Len(b) = k /\ w \in Seq(S) /\ Len(w) = n + k
  <2>1. /\ at + n <= Cells /\ at + n \in Nat /\ (at + n) + k <= Cells
        /\ n + k \in Nat /\ at + (n + k) <= Cells
    OBVIOUS
  <2>2. a \in Seq(S) /\ Len(a) = n
    BY <2>1, InIsSeq
  <2>3. b \in Seq(S) /\ Len(b) = k
    BY <2>1, InIsSeq
  <2>4. w \in Seq(S) /\ Len(w) = n + k
    BY <2>1, InIsSeq
  <2>5. QED
    BY <2>2, <2>3, <2>4
<1>2. /\ \A i \in 1 .. n : a[i] = m[at + i]
      /\ \A i \in 1 .. k : b[i] = m[at + n + i]
      /\ \A i \in 1 .. n + k : w[i] = m[at + i]
  BY DEF In
<1> HIDE DEF a, b, w
<1>3. /\ a \o b \in Seq(S) /\ Len(a \o b) = n + k
      /\ \A i \in 1 .. n + k : (a \o b)[i] = IF i <= n THEN a[i] ELSE b[i - n]
  BY <1>1, ConcatProperties
<1>4. ASSUME NEW i \in 1 .. n + k
      PROVE  w[i] = (a \o b)[i]
  <2>1. CASE i <= n
    BY <1>2, <1>3, <2>1
  <2>2. CASE i > n
    <3>1. i - n \in 1 .. k /\ at + n + (i - n) = at + i
      BY <2>2
    <3>2. b[i - n] = m[at + i]
      BY <1>2, <3>1
    <3>3. QED
      BY <1>2, <1>3, <2>2, <3>2
  <2>3. i \in Int
    OBVIOUS
  <2>4. i <= n \/ i > n
    BY <2>3
  <2>5. QED
    BY <2>1, <2>2, <2>4
<1>5. w = a \o b
  BY <1>1, <1>3, <1>4, SeqEqual
<1>6. QED
  BY <1>5 DEF a, b, w, IsJoined

(* The message lies in the place of its signature.                         *)
Reaches(sm_at, at, n) == \E i \in 1 .. n : at + i \in sm_at + n + 1 .. sm_at + n + SIG_BYTE

(* What crypto_sign leaves in the memory.                                  *)
IsSigned(after, S, sm_at, at, msg, key, r) ==
  /\ after \in [1 .. Cells -> S]
  /\ r = 0 =>
       /\ In(after, sm_at + Len(msg), SIG_BYTE) = NSig(key, msg)
       /\ In(after, sm_at, Len(msg)) = msg <=> ~Reaches(sm_at, at, Len(msg))

LEMMA SignCarries ==
  ASSUME NEW S, NEW m \in [1 .. Cells -> S], NEW at \in Nat, NEW sm_at \in Nat,
         NEW msg \in Seq(S), msg \in Seq(DataBytes), NEW key, NEW r, Cells \in Nat,
         at + Len(msg) <= Cells, sm_at + Len(msg) + SIG_BYTE <= Cells,
         r = 0 => NSig(key, msg) \in Seq(S),
         NEW after, after = crypto_sign(Put(m, at, msg), sm_at, at, Len(msg), key, r)
  PROVE  IsSigned(after, S, sm_at, at, msg, key, r)
<1> DEFINE n == Len(msg)
           before == Put(m, at, msg)
           signed == IF r = 0 THEN Put(before, sm_at + n, NSig(key, msg)) ELSE before
<1>1. n \in Nat /\ SIG_BYTE \in Nat /\ Len(NSig(key, msg)) = SIG_BYTE
  BY NSigProperties
<1>2. /\ before \in [1 .. Cells -> S] /\ In(before, at, n) = msg
      /\ \A i \in 1 .. n : before[at + i] = msg[i]
  BY PutProperties DEF IsPut
<1>3. after = Put(signed, sm_at, In(signed, at, n))
  BY <1>2 DEF crypto_sign, crypto_sign_signature, ov_sign
<1> HIDE DEF n, before
<1>4. /\ signed \in [1 .. Cells -> S]
      /\ r = 0 => /\ \A i \in 1 .. SIG_BYTE : signed[sm_at + n + i] = NSig(key, msg)[i]
                  /\ \A c \in 1 .. Cells :
                       c <= sm_at + n \/ c > sm_at + n + SIG_BYTE => signed[c] = before[c]
                  /\ In(signed, sm_at + n, SIG_BYTE) = NSig(key, msg)
  <2>1. CASE r = 0
    <3>1. sm_at + n \in Nat /\ (sm_at + n) + SIG_BYTE <= Cells /\ NSig(key, msg) \in Seq(S)
      BY <1>1, <2>1 DEF n
    <3>2. signed = Put(before, sm_at + n, NSig(key, msg))
      BY <2>1
    <3> HIDE DEF signed
    <3> DEFINE p == sm_at + n
               sig == NSig(key, msg)
    <3>3. /\ p \in Nat /\ p + Len(sig) <= Cells /\ sig \in Seq(S) /\ Len(sig) = SIG_BYTE
          /\ signed = Put(before, p, sig)
      BY <1>1, <3>1, <3>2
    <3> HIDE DEF p, sig
    <3>4. IsPut(signed, S, before, p, sig)
      BY <1>2, <3>3, PutProperties
    <3>5. QED
      BY <3>3, <3>4 DEF p, sig, IsPut
  <2>2. CASE r # 0
    BY <1>2, <2>2
  <2>3. QED
    BY <2>1, <2>2
<1> HIDE DEF signed
<1>6. at + n <= Cells /\ sm_at + n <= Cells
  BY <1>1 DEF n
<1>5. In(signed, at, n) \in Seq(S) /\ Len(In(signed, at, n)) = n
  <2>1. signed \in [1 .. Cells -> S] /\ n \in Nat /\ at + n <= Cells
    BY <1>1, <1>4, <1>6
  <2>2. QED
    BY <2>1, InIsSeq, Zenon
<1> DEFINE moved == In(signed, at, n)
<1> HIDE DEF moved
<1>7. /\ after \in [1 .. Cells -> S]
      /\ In(after, sm_at, n) = moved
      /\ \A c \in 1 .. Cells : c <= sm_at \/ c > sm_at + n => after[c] = signed[c]
  <2>1. after = Put(signed, sm_at, moved) /\ moved \in Seq(S) /\ Len(moved) = n
    BY <1>3, <1>5 DEF moved
  <2>2. signed \in [1 .. Cells -> S] /\ sm_at + Len(moved) <= Cells
    BY <1>4, <1>6, <2>1
  <2>3. IsPut(after, S, signed, sm_at, moved)
    BY <2>1, <2>2, PutProperties
  <2>4. QED
    BY <2>1, <2>3 DEF IsPut
<1>8. ASSUME r = 0
      PROVE  In(after, sm_at + n, SIG_BYTE) = NSig(key, msg)
  <2>1. \A i \in 1 .. SIG_BYTE : after[sm_at + n + i] = signed[sm_at + n + i]
    BY <1>1, <1>7 DEF n
  <2>2. In(after, sm_at + n, SIG_BYTE) = In(signed, sm_at + n, SIG_BYTE)
    BY <2>1 DEF In
  <2>3. QED
    BY <1>4, <1>8, <2>2
<1>9. ASSUME r = 0, ~Reaches(sm_at, at, n)
      PROVE  moved = msg
  <2>1. \A i \in 1 .. n : signed[at + i] = msg[i]
    <3>1. ASSUME NEW i \in 1 .. n PROVE signed[at + i] = msg[i]
      <4>1. /\ at + i \in 1 .. Cells
            /\ at + i <= sm_at + n \/ at + i > sm_at + n + SIG_BYTE
        BY <1>1, <1>9 DEF n, Reaches
      <4>2. QED
        BY <1>2, <1>4, <1>9, <4>1
    <3>2. QED
      BY <3>1
  <2>2. moved = [i \in 1 .. n |-> msg[i]]
    BY <2>1 DEF moved, In
  <2>3. QED
    BY <2>2 DEF n
<1>10. ASSUME r = 0, Reaches(sm_at, at, n)
       PROVE  moved # msg
  <2>1. PICK i \in 1 .. n : at + i \in sm_at + n + 1 .. sm_at + n + SIG_BYTE
    BY <1>10 DEF Reaches
  <2> DEFINE j == at + i - (sm_at + n)
  <2>2. j \in 1 .. SIG_BYTE /\ sm_at + n + j = at + i
    BY <1>1, <2>1 DEF n
  <2> HIDE DEF j
  <2>3. signed[sm_at + n + j] = NSig(key, msg)[j]
    BY <1>4, <1>10, <2>2
  <2>4. NSig(key, msg)[j] = Byte("sig", key, msg, j)
    BY <2>2 DEF NSig, OV_SIGNATUREBYTES
  <2>5. moved[i] = Byte("sig", key, msg, j)
    BY <2>2, <2>3, <2>4 DEF moved, In
  <2>6. msg[i] \in DataBytes
    BY ElementOfSeq DEF n
  <2>7. Byte("sig", key, msg, j) \notin DataBytes
    BY DEF DataBytes, DataByte, Byte
  <2>8. QED
    BY <2>5, <2>6, <2>7
<1>11. QED
  BY <1>7, <1>8, <1>9, <1>10 DEF n, IsSigned

-----------------------------------------------------------------------------
(* Signing and opening.  A byte of a signature is in the memory only when  *)
(* that message was signed with that key.                                  *)

MemBytes(O) ==
  DataBytes \cup {Zero, Noise} \cup {Byte("sig", s[1], s[2], i) : s \in O, i \in Nat}

MInv ==
  /\ keys \subseteq Keys
  /\ opens \subseteq Keys \X NistMsgs
  /\ mem \in [1 .. Cells -> MemBytes(opens)]
  /\ sm # <<>> =>
       /\ sm \in [at : SmPlaces, len : Nat]
       /\ \E msg \in NistMsgs : sm.len <= Len(msg) + SIG_BYTE
  /\ MessageCarried

LEMMA MemBasics ==
  ASSUME NEW O
  PROVE  /\ DataBytes \subseteq MemBytes(O) /\ Zero \in MemBytes(O) /\ Noise \in MemBytes(O)
         /\ \A s \in O, i \in Nat : Byte("sig", s[1], s[2], i) \in MemBytes(O)
         /\ \A P : O \subseteq P => MemBytes(O) \subseteq MemBytes(P)
BY DEF MemBytes

LEMMA SignatureByteIsOfSigned ==
  ASSUME NEW O, O \subseteq Keys \X NistMsgs, NEW key, NEW msg,
         Byte("sig", key, msg, 1) \in MemBytes(O)
  PROVE  <<key, msg>> \in O
<1>1. /\ Byte("sig", key, msg, 1) \notin DataBytes
      /\ Byte("sig", key, msg, 1) # Zero /\ Byte("sig", key, msg, 1) # Noise
  BY DEF DataBytes, DataByte, Byte, Zero, Noise
<1>2. PICK s \in O, i \in Nat : Byte("sig", key, msg, 1) = Byte("sig", s[1], s[2], i)
  BY <1>1 DEF MemBytes
<1>3. key = s[1] /\ msg = s[2]
  BY <1>2 DEF Byte
<1>4. s = <<s[1], s[2]>>
  OBVIOUS
<1>5. QED
  BY <1>3, <1>4

(* Where messages are kept there is room for them, signed or not.          *)
LEMMA PlacesFit ==
  ASSUME NEW msg \in NistMsgs, NEW at \in MsgPlaces \cup SmPlaces
  PROVE  /\ Cells \in Nat /\ at \in Nat /\ SIG_BYTE \in Nat /\ SIG_BYTE > 0
         /\ msg \in Seq(DataBytes) /\ Len(msg) \in Nat
         /\ at + Len(msg) <= Cells /\ at + Len(msg) + SIG_BYTE <= Cells
<1>1. Cells \in Nat /\ at \in Nat /\ msg \in Seq(DataBytes) /\ at + Len(msg) + SIG_BYTE <= Cells
  BY NistAssumption
<1>2. SIG_BYTE \in Nat /\ SIG_BYTE > 0 /\ Len(msg) \in Nat
  BY <1>1, NSigProperties, LenProperties
<1>3. QED
  BY <1>1, <1>2

LEMMA MInitInv == BothInit => MInv
<1> SUFFICES ASSUME BothInit PROVE MInv
  OBVIOUS
<1>1. mem \in [1 .. Cells -> MemBytes(opens)]
  BY MemBasics DEF BothInit
<1>2. QED
  BY <1>1 DEF BothInit, Init, MInv, MessageCarried

LEMMA CallSignStep == ASSUME MInv, CallSign PROVE MInv'
<1>1. PICK key \in keys, msg \in NistMsgs, at \in MsgPlaces, sm_at \in SmPlaces, r \in {0, -1} :
        LET before == Put(mem, at, msg)
            signed == In(before, at, Len(msg))
        IN  /\ mem' = crypto_sign(before, sm_at, at, Len(msg), key, r)
            /\ sm' = [at |-> sm_at, len |-> Len(msg) + OV_SIGNATUREBYTES]
            /\ opens' = IF r = 0 THEN opens \cup {<<key, signed>>} ELSE opens
            /\ ncall' = [op |-> "sign", key |-> key, msg |-> msg, at |-> at, r |-> r]
  BY DEF CallSign
<1> DEFINE S == MemBytes(opens')
           n == Len(msg)
<1>2. /\ Cells \in Nat /\ at \in Nat /\ sm_at \in Nat /\ SIG_BYTE \in Nat
      /\ msg \in Seq(DataBytes) /\ n \in Nat
      /\ at + n <= Cells /\ sm_at + n + SIG_BYTE <= Cells
  BY PlacesFit
<1>3. mem \in [1 .. Cells -> MemBytes(opens)] /\ key \in Keys /\ opens \subseteq Keys \X NistMsgs
  BY DEF MInv
<1>4. In(Put(mem, at, msg), at, n) = msg
  <2>1. msg \in Seq(MemBytes(opens))
    <3>1. \A i \in 1 .. n : msg[i] \in DataBytes
      BY <1>2, ElementOfSeq
    <3>2. msg \in [1 .. n -> MemBytes(opens)]
      BY <1>2, <3>1, MemBasics, LenProperties
    <3>3. QED
      BY <1>2, <3>2, FunctionIsSeq
  <2>2. IsPut(Put(mem, at, msg), MemBytes(opens), mem, at, msg)
    BY <1>2, <1>3, <2>1, PutProperties
  <2>3. QED
    BY <2>2 DEF IsPut
<1>5. opens' = IF r = 0 THEN opens \cup {<<key, msg>>} ELSE opens
  BY <1>1, <1>4
<1>6. opens' \subseteq Keys \X NistMsgs /\ opens \subseteq opens'
  BY <1>3, <1>5
<1>7. mem \in [1 .. Cells -> S] /\ msg \in Seq(S)
  <2>1. MemBytes(opens) \subseteq S
    BY <1>6, MemBasics
  <2>2. \A i \in 1 .. n : msg[i] \in DataBytes
    BY <1>2, ElementOfSeq
  <2>3. msg \in [1 .. n -> S]
    BY <1>2, <2>2, MemBasics, LenProperties
  <2>4. QED
    BY <1>2, <1>3, <2>1, <2>3, FunctionIsSeq
<1>8. r = 0 => NSig(key, msg) \in Seq(S)
  <2>1. SUFFICES ASSUME r = 0 PROVE NSig(key, msg) \in Seq(S)
    OBVIOUS
  <2>2. <<key, msg>> \in opens'
    BY <1>5, <2>1
  <2> DEFINE s == <<key, msg>>
  <2>3. s[1] = key /\ s[2] = msg
    OBVIOUS
  <2>4. \A i \in Nat : Byte("sig", s[1], s[2], i) \in S
    BY <2>2, MemBasics
  <2>5. \A i \in 1 .. SIG_BYTE : Byte("sig", key, msg, i) \in S
    BY <1>2, <2>3, <2>4
  <2> HIDE DEF S
  <2>6. QED
    BY <2>5, NSigProperties
<1>9. /\ mem' \in [1 .. Cells -> S]
      /\ r = 0 => /\ In(mem', sm_at + n, SIG_BYTE) = NSig(key, msg)
                  /\ In(mem', sm_at, n) = msg <=> ~Reaches(sm_at, at, n)
  <2>1. mem' = crypto_sign(Put(mem, at, msg), sm_at, at, Len(msg), key, r)
    BY <1>1
  <2> HIDE DEF S
  <2>2. IsSigned(mem', S, sm_at, at, msg, key, r)
    BY <1>2, <1>7, <1>8, <2>1, SignCarries
  <2>3. QED
    BY <2>2 DEF IsSigned
<1>10. /\ sm' = [at |-> sm_at, len |-> n + SIG_BYTE]
       /\ ncall' = [op |-> "sign", key |-> key, msg |-> msg, at |-> at, r |-> r]
  BY <1>1 DEF OV_SIGNATUREBYTES
<1>11. /\ sm'.at = sm_at /\ sm'.len = n + SIG_BYTE
       /\ ncall'.op = "sign" /\ ncall'.key = key /\ ncall'.msg = msg
       /\ ncall'.at = at /\ ncall'.r = r
  BY <1>10
<1>12. SignedInPlace'
  BY <1>9, <1>11 DEF SignedInPlace, Reaches, OV_SIGNATUREBYTES
<1>13. MessageCarried'
  BY <1>11, <1>12 DEF MessageCarried, OpenedRight
<1>14. keys' \subseteq Keys
  BY DEF MInv, CallSign, vars
<1>15. sm' \in [at : SmPlaces, len : Nat] /\ \E m \in NistMsgs : sm'.len <= Len(m) + SIG_BYTE
  BY <1>2, <1>10
<1>16. QED
  BY <1>6, <1>9, <1>13, <1>14, <1>15 DEF MInv

LEMMA SmFaultStep == ASSUME MInv, SmFault PROVE MInv'
<1>1. /\ sm # <<>> /\ ncall' = [op |-> "fault"] /\ UNCHANGED <<keys, opens>>
      /\ \/ \E c \in sm.at + 1 .. sm.at + sm.len : mem' = [mem EXCEPT ![c] = Noise] /\ UNCHANGED sm
         \/ \E n \in 0 .. sm.len - 1 : sm' = [sm EXCEPT !.len = n] /\ UNCHANGED mem
  BY DEF SmFault, vars
<1>2. /\ mem \in [1 .. Cells -> MemBytes(opens)]
      /\ sm \in [at : SmPlaces, len : Nat]
      /\ \E msg \in NistMsgs : sm.len <= Len(msg) + SIG_BYTE
  BY <1>1 DEF MInv
<1>3. MessageCarried'
  BY <1>1 DEF MessageCarried, SignedInPlace, OpenedRight
<1>4. mem' \in [1 .. Cells -> MemBytes(opens)]
  BY <1>1, <1>2, MemBasics
<1>5. sm' \in [at : SmPlaces, len : Nat] /\ sm'.len <= sm.len
  BY <1>1, <1>2
<1>6. \E msg \in NistMsgs : sm'.len <= Len(msg) + SIG_BYTE
  <2>1. PICK msg \in NistMsgs : sm.len <= Len(msg) + SIG_BYTE
    BY <1>2
  <2>2. Len(msg) \in Nat /\ SIG_BYTE \in Nat
    BY NistAssumption, UovApiAssumption, LenProperties
  <2>3. sm'.len <= Len(msg) + SIG_BYTE
    BY <1>2, <1>5, <2>1, <2>2
  <2>4. QED
    BY <2>3
<1>7. QED
  BY <1>1, <1>3, <1>4, <1>5, <1>6 DEF MInv

(* What an open call of a signed message of n bytes in front of its        *)
(* signature finds: of a valid one, that it was signed, and of a refused   *)
(* one, that it is not what was signed.                                    *)
LEMMA ValidIsSigned ==
  ASSUME NEW O, O \subseteq Keys \X NistMsgs, NEW m \in [1 .. Cells -> MemBytes(O)],
         NEW at \in Nat, NEW n \in Nat, at + n + SIG_BYTE <= Cells, Cells \in Nat,
         NEW key, In(m, at + n, SIG_BYTE) = NSig(key, In(m, at, n))
  PROVE  <<key, In(m, at, n)>> \in O
<1>1. SIG_BYTE \in Nat /\ SIG_BYTE > 0
  BY NSigProperties
<1>2. NSig(key, In(m, at, n))[1] = Byte("sig", key, In(m, at, n), 1)
  BY <1>1 DEF NSig, OV_SIGNATUREBYTES
<1>3. In(m, at + n, SIG_BYTE)[1] = m[at + n + 1]
  BY <1>1 DEF In
<1>4. at + n + 1 \in 1 .. Cells
  BY <1>1
<1>5. Byte("sig", key, In(m, at, n), 1) \in MemBytes(O)
  BY <1>2, <1>3, <1>4
<1>6. QED
  BY <1>5, SignatureByteIsOfSigned

IsSplit(m, at, len, S) ==
  /\ len - SIG_BYTE \in Nat
  /\ In(m, at, len) = In(m, at, len - SIG_BYTE) \o In(m, at + (len - SIG_BYTE), SIG_BYTE)
  /\ In(m, at, len - SIG_BYTE) \in Seq(S)
  /\ Len(In(m, at, len - SIG_BYTE)) = len - SIG_BYTE
  /\ In(m, at + (len - SIG_BYTE), SIG_BYTE) \in Seq(S)
  /\ Len(In(m, at + (len - SIG_BYTE), SIG_BYTE)) = SIG_BYTE

LEMMA WholeIsParts ==
  ASSUME NEW S, NEW m \in [1 .. Cells -> S], NEW at \in Nat, NEW len \in Nat,
         len >= SIG_BYTE, at + len <= Cells, Cells \in Nat
  PROVE  IsSplit(m, at, len, S)
<1> DEFINE n == len - SIG_BYTE
<1>1. /\ SIG_BYTE \in Nat /\ n \in Nat /\ n + SIG_BYTE = len /\ at + n \in Nat
      /\ at + n + SIG_BYTE <= Cells /\ at + n <= Cells
  BY NSigProperties
<1> HIDE DEF n
<1>2. IsJoined(m, at, n, SIG_BYTE)
  BY <1>1, InParts
<1>3. In(m, at, n) \in Seq(S) /\ Len(In(m, at, n)) = n
  BY <1>1, InIsSeq
<1>4. In(m, at + n, SIG_BYTE) \in Seq(S) /\ Len(In(m, at + n, SIG_BYTE)) = SIG_BYTE
  BY <1>1, InIsSeq
<1>5. In(m, at, len) = In(m, at, n) \o In(m, at + n, SIG_BYTE)
  BY <1>1, <1>2 DEF IsJoined
<1>6. QED
  BY <1>1, <1>3, <1>4, <1>5 DEF n, IsSplit

(* A signed message, in the memory as it was made, is valid.               *)
IsValid(m, at, len, key, msg) ==
  /\ len >= SIG_BYTE
  /\ In(m, at, len - SIG_BYTE) = msg
  /\ In(m, at + (len - SIG_BYTE), SIG_BYTE) = NSig(key, msg)

LEMMA SignedIsValid ==
  ASSUME NEW S, DataBytes \subseteq S, NEW m \in [1 .. Cells -> S], NEW at \in Nat, NEW len \in Nat,
         at + len <= Cells, Cells \in Nat,
         NEW key, NEW msg \in Seq(DataBytes), \A i \in 1 .. SIG_BYTE : Byte("sig", key, msg, i) \in S,
         In(m, at, len) = msg \o NSig(key, msg)
  PROVE  IsValid(m, at, len, key, msg)
<1>1. SIG_BYTE \in Nat /\ Len(NSig(key, msg)) = SIG_BYTE /\ NSig(key, msg) \in Seq(S)
  BY NSigProperties
<1>2. Len(msg) \in Nat /\ msg \in Seq(S)
  <2>1. \A i \in 1 .. Len(msg) : msg[i] \in DataBytes
    BY ElementOfSeq
  <2>2. Len(msg) \in Nat /\ msg \in [1 .. Len(msg) -> S]
    BY <2>1, LenProperties
  <2>3. QED
    BY <2>2, FunctionIsSeq
<1>3. Len(In(m, at, len)) = len
  BY InIsSeq
<1>4. Len(msg \o NSig(key, msg)) = Len(msg) + SIG_BYTE
  BY <1>1, <1>2, ConcatProperties
<1>5. len = Len(msg) + SIG_BYTE
  BY <1>3, <1>4
<1>6. len >= SIG_BYTE
  BY <1>1, <1>2, <1>5
<1> DEFINE a == In(m, at, len - SIG_BYTE)
           b == In(m, at + (len - SIG_BYTE), SIG_BYTE)
           sig == NSig(key, msg)
<1>7. a \o b = msg \o sig /\ a \in Seq(S) /\ b \in Seq(S) /\ Len(b) = SIG_BYTE /\ sig \in Seq(S)
      /\ Len(sig) = SIG_BYTE
  <2>1. IsSplit(m, at, len, S)
    BY <1>6, WholeIsParts
  <2>2. QED
    BY <1>1, <2>1 DEF IsSplit
<1> HIDE DEF a, b, sig
<1>8. a = msg
  BY <1>2, <1>7, SameTailLength
<1>9. b = sig
  BY <1>2, <1>7, <1>8, ConcatSimplifications
<1>10. QED
  BY <1>6, <1>8, <1>9 DEF a, b, sig, IsValid

LEMMA PrefixOfConcat ==
  ASSUME NEW S, NEW a \in Seq(S), NEW b \in Seq(S)
  PROVE  SubSeq(a \o b, 1, Len(a)) = a
<1>1. /\ a \o b \in Seq(S) /\ Len(a \o b) = Len(a) + Len(b)
      /\ \A i \in 1 .. Len(a) + Len(b) : (a \o b)[i] = IF i <= Len(a) THEN a[i] ELSE b[i - Len(a)]
  BY ConcatProperties
<1>2. Len(a) \in Nat /\ Len(b) \in Nat
  BY LenProperties
<1> DEFINE w == a \o b
           p == SubSeq(w, 1, Len(a))
<1>3. \A i \in 1 .. Len(a) : w[i] = a[i] /\ w[i] \in S
  BY <1>1, <1>2, ElementOfSeq
<1> HIDE DEF w
<1>4. p \in Seq(S) /\ Len(p) = Len(a) /\ \A i \in 1 .. Len(a) : p[i] = w[i]
  BY <1>2, <1>3, SubSeqProperties
<1>5. QED
  BY <1>3, <1>4, SeqEqual DEF w

(* A valid signed message comes out.                                       *)
LEMMA OpenAccepts ==
  ASSUME MInv, NEW key \in keys, NEW to \in MsgPlaces, sm # <<>>,
         sm.len >= SIG_BYTE,
         In(mem, sm.at + (sm.len - SIG_BYTE), SIG_BYTE)
           = NSig(key, In(mem, sm.at, sm.len - SIG_BYTE)),
         mem' = CopyForward(mem, to, sm.at, sm.len - SIG_BYTE),
         UNCHANGED <<keys, opens, sm>>,
         ncall' = [op |-> "open", key |-> key, at |-> to, r |-> 0, len |-> sm.len - SIG_BYTE,
                   signed |-> In(mem, sm.at, sm.len)]
  PROVE  MInv'
<1> DEFINE S == MemBytes(opens)
           at == sm.at
           len == sm.len
           n == len - SIG_BYTE
           msg == In(mem, at, n)
<1>1. PICK m \in NistMsgs : len <= Len(m) + SIG_BYTE
  BY DEF MInv
<1>2. at \in SmPlaces /\ len \in Nat /\ mem \in [1 .. Cells -> S] /\ opens \subseteq Keys \X NistMsgs
  BY DEF MInv
<1>3. /\ Cells \in Nat /\ at \in Nat /\ to \in Nat /\ SIG_BYTE \in Nat /\ Len(m) \in Nat
      /\ at + Len(m) + SIG_BYTE <= Cells /\ to + Len(m) <= Cells
  BY <1>2, PlacesFit
<1>5. len >= SIG_BYTE /\ In(mem, at + n, SIG_BYTE) = NSig(key, msg)
  OBVIOUS
<1>6. mem' = CopyForward(mem, to, at, n)
  OBVIOUS
<1>7. /\ ncall'.op = "open" /\ ncall'.key = key /\ ncall'.at = to /\ ncall'.r = 0
      /\ ncall'.len = n /\ ncall'.signed = In(mem, at, len)
  OBVIOUS
<1>a. sm' = sm /\ opens' = opens
  OBVIOUS
<1> HIDE DEF S, at, len, msg
<1>4. n \in Nat /\ at + len <= Cells /\ at + n <= Cells /\ to + n <= Cells /\ n + SIG_BYTE = len
      /\ at + n + SIG_BYTE <= Cells
  BY <1>1, <1>2, <1>3, <1>5
<1> HIDE DEF n
<1>8. /\ mem' \in [1 .. Cells -> S]
      /\ \A i \in 1 .. n : mem'[to + i] = IF Again(to, at, i) THEN mem'[at + i] ELSE msg[i]
  <2>1. IsCopied(CopyForward(mem, to, at, n), S, mem, to, at, n)
    BY <1>2, <1>3, <1>4, CopyCarries
  <2>2. \A i \in 1 .. n : msg[i] = mem[at + i]
    BY DEF msg, In
  <2>3. QED
    BY <1>6, <2>1, <2>2 DEF IsCopied
<1>9. In(mem, at, len) = msg \o NSig(key, msg) /\ msg \in Seq(S) /\ Len(msg) = n
  <2>1. IsSplit(mem, at, len, S)
    BY <1>2, <1>3, <1>4, <1>5, WholeIsParts
  <2>2. QED
    BY <1>5, <2>1 DEF IsSplit, msg, n
<1>10. <<key, msg>> \in opens
  <2>1. In(mem, at + n, SIG_BYTE) = NSig(key, In(mem, at, n))
    BY <1>5 DEF msg
  <2>2. <<key, In(mem, at, n)>> \in opens
    BY <1>2, <1>3, <1>4, <2>1, ValidIsSigned DEF S
  <2>3. QED
    BY <2>2 DEF msg
<1>11. SubSeq(In(mem, at, len), 1, n) = msg
  <2>1. NSig(key, msg) \in Seq(S)
    <3>1. \A s \in opens, i \in Nat : Byte("sig", s[1], s[2], i) \in S
      BY MemBasics DEF S
    <3>2. \A i \in Nat : Byte("sig", key, msg, i) \in S
      BY <1>10, <3>1
    <3>3. QED
      BY <3>2, NSigProperties
  <2>2. QED
    BY <1>9, <2>1, PrefixOfConcat
<1>12. OpenedRight'
  <2>1. SubSeq(ncall'.signed, 1, ncall'.len) = msg
    BY <1>7, <1>11
  <2>2. ncall'.signed = msg \o NSig(key, msg)
    BY <1>7, <1>9
  <2>3. \A i \in 1 .. n :
          mem'[to + i] = IF sm'.at < to /\ to < sm'.at + i THEN mem'[sm'.at + i] ELSE msg[i]
    BY <1>8, <1>a DEF at, Again
  <2>4. QED
    BY <1>7, <1>10, <1>a, <2>1, <2>2, <2>3 DEF OpenedRight
<1>13. MessageCarried'
  BY <1>7, <1>12 DEF MessageCarried, SignedInPlace
<1>14. QED
  BY <1>8, <1>13, <1>a DEF MInv, S

(* Of a refused one nothing comes out, and it was not signed.              *)
LEMMA OpenRefuses ==
  ASSUME MInv, NEW key \in keys, NEW to \in MsgPlaces, sm # <<>>,
         ~(/\ sm.len >= SIG_BYTE
           /\ In(mem, sm.at + (sm.len - SIG_BYTE), SIG_BYTE)
                = NSig(key, In(mem, sm.at, sm.len - SIG_BYTE))),
         mem' = Put(mem, to, [i \in 1 .. sm.len |-> Zero]),
         UNCHANGED <<keys, opens, sm>>,
         ncall' = [op |-> "open", key |-> key, at |-> to, r |-> -1, len |-> 0,
                   signed |-> In(mem, sm.at, sm.len)]
  PROVE  MInv'
<1> DEFINE S == MemBytes(opens)
           at == sm.at
           len == sm.len
           zeros == [i \in 1 .. len |-> Zero]
<1>1. PICK m \in NistMsgs : len <= Len(m) + SIG_BYTE
  BY DEF MInv
<1>2. at \in SmPlaces /\ len \in Nat /\ mem \in [1 .. Cells -> S] /\ opens \subseteq Keys \X NistMsgs
  BY DEF MInv
<1>3. /\ Cells \in Nat /\ at \in Nat /\ to \in Nat /\ SIG_BYTE \in Nat /\ Len(m) \in Nat
      /\ at + Len(m) + SIG_BYTE <= Cells /\ to + Len(m) + SIG_BYTE <= Cells
  BY <1>2, PlacesFit
<1>4. ~(/\ len >= SIG_BYTE
        /\ In(mem, at + (len - SIG_BYTE), SIG_BYTE) = NSig(key, In(mem, at, len - SIG_BYTE)))
  OBVIOUS
<1>5. mem' = Put(mem, to, zeros)
  OBVIOUS
<1>6. /\ ncall'.op = "open" /\ ncall'.key = key /\ ncall'.at = to /\ ncall'.r = -1
      /\ ncall'.len = 0 /\ ncall'.signed = In(mem, at, len)
  OBVIOUS
<1>a. sm' = sm /\ opens' = opens
  OBVIOUS
<1> HIDE DEF S, at, len
<1>7. at + len <= Cells /\ to + len <= Cells
  BY <1>1, <1>2, <1>3
<1>8. zeros \in Seq(S) /\ Len(zeros) = len /\ \A i \in 1 .. len : zeros[i] = Zero
  <2>1. zeros \in [1 .. len -> S]
    BY MemBasics DEF S
  <2>2. QED
    BY <1>2, <2>1, FunctionIsSeq
<1> HIDE DEF zeros
<1>9. mem' \in [1 .. Cells -> S] /\ \A i \in 1 .. len : mem'[to + i] = Zero
  <2>1. IsPut(mem', S, mem, to, zeros)
    BY <1>2, <1>3, <1>5, <1>7, <1>8, PutProperties
  <2>2. QED
    BY <1>8, <2>1 DEF IsPut
<1>10. Len(In(mem, at, len)) = len
  BY <1>2, <1>3, <1>7, InIsSeq
<1>11. ASSUME NEW s \in opens, key = s[1]
       PROVE  In(mem, at, len) # s[2] \o NSig(s[1], s[2])
  <2>1. SUFFICES ASSUME In(mem, at, len) = s[2] \o NSig(s[1], s[2])
                 PROVE  FALSE
    OBVIOUS
  <2>2. s[2] \in NistMsgs /\ s[2] \in Seq(DataBytes)
    BY <1>2, NistAssumption
  <2>3. DataBytes \subseteq S /\ \A i \in Nat : Byte("sig", s[1], s[2], i) \in S
    BY MemBasics DEF S
  <2>4. \A i \in 1 .. SIG_BYTE : Byte("sig", s[1], s[2], i) \in S
    BY <1>3, <2>3
  <2>5. IsValid(mem, at, len, s[1], s[2])
    BY <1>2, <1>3, <1>7, <2>1, <2>2, <2>3, <2>4, SignedIsValid
  <2>6. QED
    BY <1>4, <1>11, <2>5 DEF IsValid
<1>12. OpenedRight'
  <2>1. \A s \in opens' : ncall'.key = s[1] => ncall'.signed # s[2] \o NSig(s[1], s[2])
    BY <1>6, <1>11, <1>a
  <2>2. \A i \in 1 .. Len(ncall'.signed) : mem'[ncall'.at + i] = Zero
    BY <1>6, <1>9, <1>10
  <2>3. ncall'.r # 0 /\ ncall'.len = 0
    BY <1>6
  <2>4. QED
    BY <2>1, <2>2, <2>3 DEF OpenedRight
<1>13. MessageCarried'
  BY <1>6, <1>12 DEF MessageCarried, SignedInPlace
<1>14. QED
  BY <1>9, <1>13, <1>a DEF MInv, S

LEMMA OpenStep ==
  ASSUME MInv, NEW key \in keys, NEW to \in MsgPlaces, crypto_sign_open(key, to)
  PROVE  MInv'
<1> DEFINE Verified == /\ sm.len >= SIG_BYTE
                       /\ In(mem, sm.at + (sm.len - SIG_BYTE), SIG_BYTE)
                            = NSig(key, In(mem, sm.at, sm.len - SIG_BYTE))
           Return(r, len) ==
             ncall' = [op |-> "open", key |-> key, at |-> to, r |-> r, len |-> len,
                       signed |-> In(mem, sm.at, sm.len)]
<1>1. sm # <<>> /\ UNCHANGED <<keys, opens, sm>>
  BY DEF crypto_sign_open, vars
<1>2. SIG_BYTE = OV_SIGNATUREBYTES
  BY DEF OV_SIGNATUREBYTES
<1>3. crypto_sign_verify(In(mem, sm.at + (sm.len - SIG_BYTE), SIG_BYTE),
                         In(mem, sm.at, sm.len - SIG_BYTE), key)
        <=> In(mem, sm.at + (sm.len - SIG_BYTE), SIG_BYTE)
              = NSig(key, In(mem, sm.at, sm.len - SIG_BYTE))
  <2> DEFINE sig == In(mem, sm.at + (sm.len - SIG_BYTE), SIG_BYTE)
             msg == In(mem, sm.at, sm.len - SIG_BYTE)
  <2>1. Len(NSig(key, msg)) = SIG_BYTE
    BY NSigProperties
  <2> HIDE DEF sig, msg
  <2>2. crypto_sign_verify(sig, msg, key) <=> sig = NSig(key, msg)
    BY <1>2, <2>1 DEF crypto_sign_verify
  <2>3. QED
    BY <2>2 DEF sig, msg
<1>4. \/ /\ Verified
         /\ mem' = CopyForward(mem, to, sm.at, sm.len - SIG_BYTE)
         /\ Return(0, sm.len - SIG_BYTE)
      \/ /\ ~Verified
         /\ mem' = Put(mem, to, [i \in 1 .. sm.len |-> Zero])
         /\ Return(-1, 0)
  BY <1>2, <1>3 DEF crypto_sign_open
<1>5. CASE /\ Verified
           /\ mem' = CopyForward(mem, to, sm.at, sm.len - SIG_BYTE)
           /\ Return(0, sm.len - SIG_BYTE)
  BY <1>1, <1>5, OpenAccepts
<1>6. CASE /\ ~Verified
           /\ mem' = Put(mem, to, [i \in 1 .. sm.len |-> Zero])
           /\ Return(-1, 0)
  BY <1>1, <1>6, OpenRefuses
<1>7. QED
  BY <1>4, <1>5, <1>6

LEMMA MUnaffected == ASSUME MInv, UNCHANGED nist_vars, keys' \subseteq Keys PROVE MInv'
BY DEF MInv, MessageCarried, SignedInPlace, OpenedRight, nist_vars

LEMMA MessageStep == IInv /\ IInv' /\ MInv /\ [BothNext]_uov_vars => MInv'
<1> SUFFICES ASSUME IInv, IInv', MInv, [BothNext]_uov_vars
             PROVE  MInv'
  OBVIOUS
<1>1. keys' \subseteq Keys
  BY DEF IInv
<1>2. CASE UNCHANGED nist_vars
  BY <1>1, <1>2, MUnaffected
<1>3. CASE CallSign
  BY <1>3, CallSignStep
<1>4. CASE SmFault
  BY <1>4, SmFaultStep
<1>5. CASE \E key \in keys, to \in MsgPlaces : crypto_sign_open(key, to)
  BY <1>5, OpenStep
<1>6. QED
  BY <1>2, <1>3, <1>4, <1>5 DEF BothNext, NistNext, uov_vars, crypto_sign_keypair

(* crypto_sign puts the message and its signature in place, also when they *)
(* lie in each other's way, and crypto_sign_open gives back the message of *)
(* a signature that was made for it and refuses anything else.             *)
THEOREM UovMessageCarried == BothSpec => []MessageCarried
<1>1. BothInit => IInv /\ MInv
  BY InitIInv, MInitInv DEF BothInit
<1>2. IInv /\ MInv /\ [BothNext]_uov_vars => IInv' /\ MInv'
  BY BothStep, MessageStep
<1>3. MInv => MessageCarried
  BY DEF MInv
<1>4. QED
  BY <1>1, <1>2, <1>3, PTL DEF BothSpec
=============================================================================
