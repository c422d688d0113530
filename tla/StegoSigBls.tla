---------------------------- MODULE StegoSigBls ----------------------------
(***************************************************************************)
(* The BLS backend of the unified signature API                            *)
(* (unified-api/stego_sig_bls.c): its lifecycle, key generation, the       *)
(* payload that stego_sign lays out, and the parsing and verification of   *)
(* stego_verify, with the covert channel in between, which can cut, pad or *)
(* damage a payload.                                                       *)
(*                                                                         *)
(* BLS is ideal: cp_bls_ver accepts the bytes of the one signature of this *)
(* input under this key, nothing else.                                     *)
(***************************************************************************)
EXTENDS StegoBytes

CONSTANTS
  Keys,            \* key pairs
  PHashes,         \* pHashes handed to stego_sign, sequences of data bytes
  UserSalts,       \* salts the caller may give
  NoSalt,          \* salt == NULL
  HashSalt(_),     \* the first BLS_SALT_BYTE bytes of md_map(salt)
  BLS_SALT_BYTE,   \* 2
  SIG_BYTE,        \* g1_size_bin: a compressed point of G1
  PK_BYTE,         \* g2_size_bin
  INPUT_MAX,       \* 1024: sizeof(sign_input), and stego_max_phash_bytes()
  MaxSigned        \* bound on the number of signatures (for TLC)

PkBytes(k) == [i \in 1 .. PK_BYTE |-> Byte("pk", k, <<>>, i)]
SigBytes(k, input) == [i \in 1 .. SIG_BYTE |-> Byte("sig", k, input, i)]

Salt == [1 .. BLS_SALT_BYTE -> DataBytes]

ASSUME BlsAssumption ==
  /\ NoKey \notin Keys
  /\ PHashes \subseteq Seq(DataBytes)
  /\ NoSalt \notin UserSalts
  /\ \A u \in UserSalts : HashSalt(u) \in Salt
  /\ BLS_SALT_BYTE \in Nat /\ SIG_BYTE \in Nat \ {0} /\ PK_BYTE \in Nat \ {0}
  /\ INPUT_MAX \in Nat /\ MaxSigned \in Nat

OK == "STEGO_OK"
ERR == "STEGO_ERR"
ERR_VERIFY == "STEGO_ERR_VERIFY"
ERR_NO_PHASH == "STEGO_ERR_NO_PHASH"

VARIABLES
  core,           \* RELIC's context: "down", "up" (core_init), "ready" (curve
                  \* set), "broken" (made or freed twice)
  s_initialized,
  keys,           \* key pairs generated so far
  issued,         \* history: the signatures made, [key, phash, salt]
  sent,           \* the last call of stego_sign: arguments, return code
                  \* and payload, <<>> before the first
  wire,           \* the payload as it arrives
  verdict         \* arguments, return code and outputs of the last call, if
                  \* it was one of stego_verify, else <<>>

vars == <<core, s_initialized, keys, issued, sent, wire, verdict>>

stego_sig_bytes == SIG_BYTE
stego_pk_bytes == PK_BYTE
stego_max_phash_bytes == INPUT_MAX

stego_payload_bytes(phash_len, embed_phash, append_pk) ==
    BLS_SALT_BYTE + stego_sig_bytes
  + (IF embed_phash THEN phash_len ELSE 0)
  + (IF append_pk THEN stego_pk_bytes ELSE 0)

-----------------------------------------------------------------------------
Init ==
  /\ core = "down"
  /\ s_initialized = FALSE
  /\ keys = {}
  /\ issued = {}
  /\ sent = <<>>
  /\ wire = <<>>
  /\ verdict = <<>>

(* RELIC's context is made once, which may fail, and freed once.           *)
core_init(c) == IF c = "down" THEN {"up", "down"} ELSE {"broken"}
core_clean(c) == IF c \in {"up", "ready"} THEN "down" ELSE "broken"

(* stego_init: nothing when initialized; else core_init, which may fail,   *)
(* then pc_param_set_any, which may fail and is then undone.               *)
stego_init ==
  /\ \/ s_initialized /\ UNCHANGED <<core, s_initialized>>
     \/ /\ ~s_initialized
        /\ \E c \in core_init(core) :
             \/ c # "up" /\ core' = c /\ UNCHANGED s_initialized
             \/ c = "up" /\ core' = core_clean(c) /\ UNCHANGED s_initialized
             \/ c = "up" /\ core' = "ready" /\ s_initialized' = TRUE
  /\ verdict' = <<>>
  /\ UNCHANGED <<keys, issued, sent, wire>>

(* Mutant: the flag is not asked.                                          *)
stego_cleanup_unasked ==
  /\ core' = core_clean(core)
  /\ s_initialized' = FALSE
  /\ verdict' = <<>>
  /\ UNCHANGED <<keys, issued, sent, wire>>

stego_cleanup ==
  /\ \/ s_initialized /\ core' = core_clean(core) /\ s_initialized' = FALSE
     \/ ~s_initialized /\ UNCHANGED <<core, s_initialized>>
  /\ verdict' = <<>>
  /\ UNCHANGED <<keys, issued, sent, wire>>

stego_keygen ==
  /\ core = "ready"
  /\ \E k \in Keys \ keys : keys' = keys \cup {k}
  /\ verdict' = <<>>
  /\ UNCHANGED <<core, s_initialized, issued, sent, wire>>

(* Mutants: the key appended whenever there is one; the salt in front.     *)
AssemblePayloadWithKey(phash, salt, sig, embed_phash, append_pk, pk) ==
     (IF embed_phash THEN phash ELSE <<>>)
  \o salt \o sig
  \o (IF pk # NoKey THEN PkBytes(pk) ELSE <<>>)

AssemblePayloadSaltFirst(phash, salt, sig, embed_phash, append_pk, pk) ==
     salt \o (IF embed_phash THEN phash ELSE <<>>)
  \o sig
  \o (IF append_pk /\ pk # NoKey THEN PkBytes(pk) ELSE <<>>)

(* The layout: [pHash] || salt || signature || [PK].                       *)
AssemblePayload(phash, salt, sig, embed_phash, append_pk, pk) ==
     (IF embed_phash THEN phash ELSE <<>>)
  \o salt \o sig
  \o (IF append_pk /\ pk # NoKey THEN PkBytes(pk) ELSE <<>>)

SignCall(key, phash, embed, append, pk, rc, payload) ==
  [key |-> key, phash |-> phash, embed |-> embed, append |-> append, pk |-> pk,
   rc |-> rc, payload |-> payload]

(* With keys of stego_keygen, the library's calls do not fail.             *)
stego_sign(key, phash, user_salt, embed_phash, append_pk, pk) ==
  /\ core = "ready"
  /\ key \in keys
  /\ \E salt \in IF user_salt = NoSalt THEN Salt ELSE {HashSalt(user_salt)} :
       LET input   == phash \o salt
           payload == AssemblePayload(phash, salt, SigBytes(key, input),
                                      embed_phash, append_pk, pk)
       IN  \/ /\ Len(phash) + BLS_SALT_BYTE > INPUT_MAX
              /\ sent' = SignCall(key, phash, embed_phash, append_pk, pk, ERR, <<>>)
              /\ UNCHANGED <<issued, wire>>
           \/ /\ Len(phash) + BLS_SALT_BYTE <= INPUT_MAX
              /\ sent' = SignCall(key, phash, embed_phash, append_pk, pk, OK, payload)
              /\ issued' = issued \cup {[key |-> key, phash |-> phash, salt |-> salt]}
              /\ wire' = payload
  /\ verdict' = <<>>
  /\ UNCHANGED <<core, s_initialized, keys>>

-----------------------------------------------------------------------------
(* The covert channel: one fault per payload.                              *)
Fault ==
  /\ sent # <<>>
  /\ sent.rc = OK
  /\ wire = sent.payload
  /\ wire' \in Damaged(wire, PK_BYTE + 1)
  /\ verdict' = <<>>
  /\ UNCHANGED <<core, s_initialized, keys, issued, sent>>

-----------------------------------------------------------------------------
min_no_phash == BLS_SALT_BYTE + stego_sig_bytes
min_with_phash(phash_len) == phash_len + min_no_phash

(* Mutants: the salt is all there is up to a signature at the end; a       *)
(* payload longer than the pHash is taken to hold it.                      *)
ParseFromEnd(payload, phash_len) ==
  LET embedded == Len(payload) >= min_with_phash(phash_len)
      at       == IF embedded THEN phash_len ELSE 0
      sig_at   == Len(payload) - stego_sig_bytes
  IN  [embedded  |-> embedded,
       phash     |-> Slice(payload, 0, at),
       salt      |-> Slice(payload, at, sig_at - at),
       sig       |-> Slice(payload, sig_at, stego_sig_bytes),
       end       |-> Len(payload),
       remaining |-> 0]

ParseLoosely(payload, phash_len) ==
  LET embedded == Len(payload) > phash_len
      at       == IF embedded THEN phash_len ELSE 0
      end      == at + min_no_phash
  IN  [embedded  |-> embedded,
       phash     |-> Slice(payload, 0, at),
       salt      |-> Slice(payload, at, BLS_SALT_BYTE),
       sig       |-> Slice(payload, at + BLS_SALT_BYTE, stego_sig_bytes),
       end       |-> end,
       remaining |-> Len(payload) - end]

(* The pHash is taken to be in the payload when the payload is long enough *)
(* to hold it.                                                             *)
Parse(payload, phash_len) ==
  LET embedded == Len(payload) >= min_with_phash(phash_len)
      at       == IF embedded THEN phash_len ELSE 0
      end      == at + min_no_phash
  IN  [embedded  |-> embedded,
       phash     |-> Slice(payload, 0, at),
       salt      |-> Slice(payload, at, BLS_SALT_BYTE),
       sig       |-> Slice(payload, at + BLS_SALT_BYTE, stego_sig_bytes),
       end       |-> end,
       remaining |-> Len(payload) - end]

(* Mutant: a signature under any key is accepted.                          *)
cp_bls_ver_any(sig, input, pk) == \E k \in Keys : sig = SigBytes(k, input)

cp_bls_ver(sig, input, pk) == \E k \in Keys : pk = PkBytes(k) /\ sig = SigBytes(k, input)

(* The embedded key is read when no external one is given.                 *)
PkData(payload, parsed, ext_pk) ==
  IF ext_pk # NoKey THEN PkBytes(ext_pk) ELSE Slice(payload, parsed.end, stego_pk_bytes)

LastRead(parsed, ext_pk) == parsed.end + IF ext_pk # NoKey THEN 0 ELSE stego_pk_bytes

VerifyCall(phash_len, ext_pk, expected, rc, recovered, pk, read) ==
  [phash_len |-> phash_len, ext_pk |-> ext_pk, expected |-> expected,
   rc |-> rc, recovered |-> recovered, pk |-> pk, read |-> read]

(* expected = <<>> is expected_phash NULL or of length 0.  Bytes that no   *)
(* signature or no key has may encode a point of the curve, and then fail  *)
(* the verification, or none, which the library reports as an error.       *)
stego_verify(phash_len, ext_pk, expected) ==
  LET parsed       == Parse(wire, phash_len)
      verify_phash == IF parsed.embedded THEN parsed.phash ELSE expected
      pk_data      == PkData(wire, parsed, ext_pk)
      input_len    == Len(verify_phash) + BLS_SALT_BYTE
      Return(rc, recovered, pk, read) ==
        verdict' = VerifyCall(phash_len, ext_pk, expected, rc, recovered, pk, read)
  IN  /\ core = "ready"
      /\ \/ /\ Len(wire) < min_no_phash
            /\ Return(ERR, <<>>, <<>>, 0)
         \/ /\ Len(wire) >= min_no_phash
            /\ ~parsed.embedded /\ expected = <<>>
            /\ Return(ERR_NO_PHASH, <<>>, <<>>, 0)
         \/ /\ Len(wire) >= min_no_phash
            /\ parsed.embedded \/ expected # <<>>
            /\ \/ /\ ext_pk = NoKey /\ parsed.remaining < stego_pk_bytes
                  /\ Return(ERR, verify_phash, <<>>, 0)
               \/ /\ ext_pk # NoKey \/ parsed.remaining >= stego_pk_bytes
                  /\ \/ /\ input_len > INPUT_MAX
                        /\ Return(ERR, verify_phash, <<>>, 0)
                     \/ /\ input_len <= INPUT_MAX
                        /\ \E rc \in IF cp_bls_ver(parsed.sig, verify_phash \o parsed.salt, pk_data)
                                    THEN {OK} ELSE {ERR_VERIFY, ERR} :
                             Return(rc, verify_phash, pk_data, LastRead(parsed, ext_pk))
      /\ UNCHANGED <<core, s_initialized, keys, issued, sent, wire>>

Lengths == {Len(p) : p \in PHashes}

Sign ==
  /\ Cardinality(issued) < MaxSigned
  /\ \E key \in keys, phash \in PHashes, user_salt \in UserSalts \cup {NoSalt},
        embed_phash, append_pk \in BOOLEAN, pk \in keys \cup {NoKey} :
       stego_sign(key, phash, user_salt, embed_phash, append_pk, pk)

(* One verification after another adds nothing: stego_verify keeps no      *)
(* state.                                                                  *)
Verify ==
  /\ sent # <<>>
  /\ verdict = <<>>
  /\ \E phash_len \in Lengths, ext_pk \in keys \cup {NoKey}, expected \in PHashes \cup {<<>>} :
       stego_verify(phash_len, ext_pk, expected)

Next == stego_init \/ stego_cleanup \/ stego_keygen \/ Sign \/ Fault \/ Verify

Spec == Init /\ [][Next]_vars

-----------------------------------------------------------------------------
(* The context of the curve library is up exactly when the API believes    *)
(* so, and is made and freed in turn: an initialization that fails half    *)
(* way leaves nothing behind, and a second call of either kind, or a       *)
(* cleanup before any initialization, does nothing.                        *)
LifecycleAgrees ==
  /\ s_initialized <=> core = "ready"
  /\ ~s_initialized => core = "down"

(* A payload that verifies carries, or is checked against, a pHash that    *)
(* the verifying key's owner signed, whatever the channel did to it and    *)
(* however the verifier's idea of the pHash length cuts it.  The signed    *)
(* bytes are pHash || salt without a length: that one input is never read  *)
(* back as another pHash with another salt is what has to hold.            *)
Accepted(s) == verdict.pk = PkBytes(s.key) /\ verdict.recovered = s.phash
Authentic == verdict # <<>> /\ verdict.rc = OK => \E s \in issued : Accepted(s)

(* The reading end never looks past the payload it was given.              *)
ReadsInBounds == verdict # <<>> => verdict.read <= Len(wire)

(* A payload has the size stego_payload_bytes announces, so that the       *)
(* caller's buffer holds it, when a key is given whenever one is asked for.*)
PayloadSized ==
  sent # <<>> /\ sent.rc = OK /\ (sent.append => sent.pk # NoKey) =>
    Len(sent.payload) = stego_payload_bytes(Len(sent.phash), sent.embed, sent.append)

(* The verifier was told what the signer did: the length of the pHash, the *)
(* key when it is not in the payload, the pHash when it is not.            *)
WellInformed ==
  /\ verdict.phash_len = Len(sent.phash)
  /\ verdict.ext_pk = sent.key \/ (verdict.ext_pk = NoKey /\ sent.append /\ sent.pk = sent.key)
  /\ ~sent.embed => verdict.expected = sent.phash

Undamaged == sent # <<>> /\ sent.rc = OK /\ wire = sent.payload

(* The only layout whose length says the wrong thing: no pHash, and an     *)
(* embedded key long enough to pass for one.                               *)
Ambiguous ==
  ~sent.embed /\ sent.append /\ sent.pk # NoKey /\ Len(sent.phash) <= PK_BYTE

(* An undamaged payload in any other layout verifies, and yields its       *)
(* pHash.                                                                  *)
RoundTrip ==
  Undamaged /\ verdict # <<>> /\ WellInformed /\ ~Ambiguous =>
    verdict.rc = OK /\ verdict.recovered = sent.phash

(* The end points use the channel as its specification says.               *)
Channel == INSTANCE AuthChannel WITH
  PublicKeys <- {PkBytes(k) : k \in Keys},
  PHashes    <- PHashes,
  authorised <- {<<PkBytes(s.key), s.phash>> : s \in issued},
  accepted   <- IF verdict # <<>> /\ verdict.rc = OK
                THEN {<<verdict.pk, verdict.recovered>>} ELSE {}

ChannelSpec == Channel!ASpec

(* stego_sig.h: the layout is recognised by the payload's length, with or  *)
(* without a public key behind the signature.                              *)
LayoutRecognised ==
  Undamaged /\ verdict # <<>> /\ WellInformed =>
    verdict.rc = OK /\ verdict.recovered = sent.phash
=============================================================================
