---------------------------- MODULE StegoSigUov ----------------------------
(***************************************************************************)
(* The UOV backend of the unified signature API                            *)
(* (unified-api/stego_sig_uov.c).  A signature carries its digest, hash    *)
(* and salt, which the public map gives back: nothing but the signature is *)
(* sent, and verification is recovery.                                     *)
(*                                                                         *)
(* Signing and the public map are those of OvSign, taken as ideal: the     *)
(* public map of a key yields the target at the signature of that target   *)
(* under that key, and noise at any other vector.                          *)
(***************************************************************************)
EXTENDS StegoBytes

CONSTANTS
  Keys,                  \* key pairs
  PHashes,               \* pHashes handed to stego_sign
  UserSalts,             \* salts the caller may give
  NoSalt,                \* salt == NULL
  HashSalt(_),           \* SHAKE to _SALT_BYTE bytes
  Hash(_),               \* SHAKE to _HASH_EFFECTIVE_BYTE bytes
  SALT_BYTE,             \* _SALT_BYTE
  HASH_EFFECTIVE_BYTE,   \* _HASH_EFFECTIVE_BYTE
  SIG_BYTE,              \* OV_SIGNATUREBYTES
  PK_BYTE,               \* CRYPTO_PUBLICKEYBYTES
  MaxSigned              \* bound on the number of signatures (for TLC)

Salt == [1 .. SALT_BYTE -> DataBytes]
HashVec == [1 .. HASH_EFFECTIVE_BYTE -> DataBytes]

ASSUME UovApiAssumption ==
  /\ NoKey \notin Keys
  /\ NoSalt \notin UserSalts
  /\ PHashes \subseteq Seq(DataBytes)
  /\ \A u \in UserSalts : HashSalt(u) \in Salt
  /\ \A p \in PHashes : Hash(p) \in HashVec
  /\ SALT_BYTE \in Nat /\ HASH_EFFECTIVE_BYTE \in Nat \ {0}
  /\ SIG_BYTE \in Nat \ {0} /\ PK_BYTE \in Nat \ {0} /\ MaxSigned \in Nat

OK == "STEGO_OK"
ERR == "STEGO_ERR"

PkBytes(k) == [i \in 1 .. PK_BYTE |-> Byte("pk", k, <<>>, i)]
SigBytes(k, target) == [i \in 1 .. SIG_BYTE |-> Byte("sig", k, target, i)]

VARIABLES
  keys,      \* key pairs generated so far
  issued,    \* history: the signatures made, [key, phash, salt]
  sent,      \* the last call of stego_sign: arguments, return code, payload
  wire,      \* the payload as it arrives
  verdict    \* the last call of stego_verify: arguments, return code, outputs

vars == <<keys, issued, sent, wire, verdict>>

stego_sig_bytes == SIG_BYTE
stego_pk_bytes == PK_BYTE
stego_max_phash_bytes == HASH_EFFECTIVE_BYTE
(* Mutant: the size without the key.                                       *)
stego_payload_bytes_keyless(append_pk) == SIG_BYTE

stego_payload_bytes(append_pk) == SIG_BYTE + IF append_pk THEN PK_BYTE ELSE 0

(* What ov_sign_digest puts in the target for a pHash.                     *)
DigestHash(phash) == IF Len(phash) = HASH_EFFECTIVE_BYTE THEN phash ELSE Hash(phash)

-----------------------------------------------------------------------------
Init ==
  /\ keys = {}
  /\ issued = {}
  /\ sent = <<>>
  /\ wire = <<>>
  /\ verdict = <<>>

stego_keygen ==
  /\ \E k \in Keys \ keys : keys' = keys \cup {k}
  /\ UNCHANGED <<issued, sent, wire, verdict>>

SignCall(key, phash, append, pk, rc, payload) ==
  [key |-> key, phash |-> phash, append |-> append, pk |-> pk, rc |-> rc, payload |-> payload]

(* A pHash longer than the digest is refused; ov_sign_digest may run out   *)
(* of attempts.                                                            *)
SignFails(key, phash, append_pk, pk) ==
  /\ sent' = SignCall(key, phash, append_pk, pk, ERR, <<>>)
  /\ UNCHANGED <<issued, wire, verdict>>

SignSucceeds(key, phash, salt, append_pk, pk) ==
  LET sig     == SigBytes(key, DigestHash(phash) \o salt)
      payload == sig \o (IF append_pk /\ pk # NoKey THEN PkBytes(pk) ELSE <<>>)
  IN  /\ Len(phash) <= stego_max_phash_bytes
      /\ sent' = SignCall(key, phash, append_pk, pk, OK, payload)
      /\ issued' = issued \cup {[key |-> key, phash |-> phash, salt |-> salt]}
      /\ wire' = payload
      /\ verdict' = <<>>

stego_sign(key, phash, user_salt, append_pk, pk) ==
  /\ \/ SignFails(key, phash, append_pk, pk)
     \/ \E salt \in IF user_salt = NoSalt THEN Salt ELSE {HashSalt(user_salt)} :
          SignSucceeds(key, phash, salt, append_pk, pk)
  /\ UNCHANGED keys

(* The covert channel: one fault per payload.                              *)
Fault ==
  /\ sent # <<>>
  /\ sent.rc = OK
  /\ wire = sent.payload
  /\ wire' \in Damaged(wire, PK_BYTE + 1)
  /\ verdict' = <<>>
  /\ UNCHANGED <<keys, issued, sent>>

-----------------------------------------------------------------------------
Targets == {h \o s : h \in HashVec, s \in Salt}

(* Mutants: salt then hash; the same digest under every key.               *)
ov_publicmap_salt_first(pk, w) ==
  IF \E k \in Keys, t \in Targets : pk = PkBytes(k) /\ w = SigBytes(k, t)
    THEN SubSeq(w[1].data, HASH_EFFECTIVE_BYTE + 1, HASH_EFFECTIVE_BYTE + SALT_BYTE)
           \o SubSeq(w[1].data, 1, HASH_EFFECTIVE_BYTE)
    ELSE [i \in 1 .. HASH_EFFECTIVE_BYTE + SALT_BYTE |-> Noise]

ov_publicmap_keyless(pk, w) ==
  IF \E k \in Keys, t \in Targets : w = SigBytes(k, t)
    THEN w[1].data
    ELSE [i \in 1 .. HASH_EFFECTIVE_BYTE + SALT_BYTE |-> Noise]

(* ov_publicmap: the digest, hash then salt.                               *)
ov_publicmap(pk, w) ==
  IF \E k \in Keys, t \in Targets : pk = PkBytes(k) /\ w = SigBytes(k, t)
    THEN w[1].data
    ELSE [i \in 1 .. HASH_EFFECTIVE_BYTE + SALT_BYTE |-> Noise]

(* Mutant: the line is drawn one too high.                                 *)
expected_hash_strict(digest) ==
  IF Len(digest) > HASH_EFFECTIVE_BYTE THEN SubSeq(digest, 1, HASH_EFFECTIVE_BYTE) ELSE Hash(digest)

(* What ov_verify_digest expects a signature of this digest to hold: the   *)
(* digest cut to the hash's place, or the hash of a shorter one.           *)
expected_hash(digest) ==
  IF Len(digest) >= HASH_EFFECTIVE_BYTE THEN SubSeq(digest, 1, HASH_EFFECTIVE_BYTE) ELSE Hash(digest)

(* The verifier of the library itself, which does not look at the salt.    *)
ov_verify_digest(digest, sig, pk) ==
  SubSeq(ov_publicmap(pk, sig), 1, HASH_EFFECTIVE_BYTE) = expected_hash(digest)

VerifyCall(ext_pk, expected, rc, recovered, pk, read) ==
  [ext_pk |-> ext_pk, expected |-> expected, rc |-> rc, recovered |-> recovered,
   pk |-> pk, read |-> read]

(* Mutant: anything behind the signature is taken for a key.               *)
KeyFollowsAnyhow(payload_len) == payload_len > stego_sig_bytes

(* There is room for a key behind the signature.                           *)
KeyFollows(payload_len) == payload_len - stego_sig_bytes >= stego_pk_bytes

(* phash_len and expected_phash are ignored by the code; the model keeps   *)
(* the pHash the caller expects to state what a caller can conclude.       *)
stego_verify(ext_pk, expected) ==
  LET sig == Slice(wire, 0, stego_sig_bytes)
      Recover(pk, read) ==
        verdict' = VerifyCall(ext_pk, expected, OK,
                              SubSeq(ov_publicmap(pk, sig), 1, HASH_EFFECTIVE_BYTE), pk, read)
      Refuse == verdict' = VerifyCall(ext_pk, expected, ERR, <<>>, <<>>, 0)
  IN  /\ \/ Len(wire) < stego_sig_bytes /\ Refuse
         \/ /\ Len(wire) >= stego_sig_bytes
            /\ \/ ext_pk # NoKey /\ Recover(PkBytes(ext_pk), stego_sig_bytes)
               \/ ext_pk = NoKey /\ ~KeyFollows(Len(wire)) /\ Refuse
               \/ /\ ext_pk = NoKey /\ KeyFollows(Len(wire))
                  /\ Recover(Slice(wire, stego_sig_bytes, stego_pk_bytes),
                             stego_sig_bytes + stego_pk_bytes)
      /\ UNCHANGED <<keys, issued, sent, wire>>

Sign ==
  /\ Cardinality(issued) < MaxSigned
  /\ \E key \in keys, phash \in PHashes, user_salt \in UserSalts \cup {NoSalt},
        append_pk \in BOOLEAN, pk \in keys \cup {NoKey} :
       stego_sign(key, phash, user_salt, append_pk, pk)

Verify ==
  /\ sent # <<>>
  /\ \E ext_pk \in keys \cup {NoKey}, expected \in PHashes : stego_verify(ext_pk, expected)

Next == stego_keygen \/ Sign \/ Fault \/ Verify

Spec == Init /\ [][Next]_vars

-----------------------------------------------------------------------------
(* The reading end never looks past the payload it was given.              *)
ReadsInBounds == verdict # <<>> => verdict.read <= Len(wire)

(* A payload has the size stego_payload_bytes announces, when a key is     *)
(* given whenever one is asked for.                                        *)
PayloadSized ==
  sent # <<>> /\ sent.rc = OK /\ (sent.append => sent.pk # NoKey) =>
    Len(sent.payload) = stego_payload_bytes(sent.append)

(* An undamaged payload, read with the signer's key, is one the library's  *)
(* own verifier of digests accepts for the pHash that was signed, and what *)
(* stego_verify gives back is the hash that verifier compares with: the    *)
(* signer and the verifier draw the line between a pHash that is embedded  *)
(* and one that is hashed first at the same length.                        *)
RightKey == verdict.ext_pk = sent.key \/ (verdict.ext_pk = NoKey /\ sent.append /\ sent.pk = sent.key)
Undamaged == sent # <<>> /\ sent.rc = OK /\ wire = sent.payload /\ verdict # <<>> /\ RightKey

DigestVerified ==
  Undamaged =>
    /\ verdict.rc = OK
    /\ ov_verify_digest(sent.phash, Slice(wire, 0, stego_sig_bytes), verdict.pk)
    /\ verdict.recovered = expected_hash(sent.phash)

(* unified-api/README.md: the bytes recovered from such a payload are the  *)
(* hash of the pHash, and the caller compares them with its own.           *)
RecoversHash == Undamaged => verdict.recovered = Hash(sent.phash)

(* stego_verify refuses nothing that is long enough, so that it is the     *)
(* comparison of the recovered hash with the one expected that makes a     *)
(* verification: a caller who compares has an authentic channel.           *)
Compared == verdict.rc = OK /\ verdict.recovered = DigestHash(verdict.expected)
Signed(pk_of_code) == {<<PkBytes(s.key), DigestHash(s.phash)>> : s \in pk_of_code}

Compare == INSTANCE AuthChannel WITH
  PublicKeys <- {PkBytes(k) : k \in Keys},
  PHashes    <- HashVec,
  authorised <- Signed(issued),
  accepted   <- IF verdict # <<>> /\ Compared THEN {<<verdict.pk, verdict.recovered>>} ELSE {}

ComparedSpec == Compare!ASpec

(* stego_sig.h: STEGO_OK means that the signature is valid.                *)
OkMeansSigned ==
  verdict # <<>> /\ verdict.rc = OK =>
    \E s \in issued : verdict.pk = PkBytes(s.key) /\ verdict.recovered = DigestHash(s.phash)
=============================================================================
