------------------------------ MODULE BlsStego ------------------------------
(***************************************************************************)
(* The other library around the same curve, BLS/bls_stego.c.  What         *)
(* stego_sign and stego_verify of the unified API do in one call takes two *)
(* here: bls_sign and bls_payload_assemble, bls_payload_disassemble and    *)
(* bls_verify, with the caller holding the pieces in between.              *)
(*                                                                         *)
(* A process has one of the two libraries linked in; both use the channel, *)
(* and the histories, of StegoSigBls, so that what is promised of one is   *)
(* checked of the other.  bls_verify's 1, 0 and BLS_ERR are written OK,    *)
(* ERR_VERIFY and ERR.                                                     *)
(***************************************************************************)
EXTENDS StegoSigBls

VARIABLES
  lib,     \* the library of this process: "unified" or "wrapper"
  wcore,   \* RELIC's context under the wrapper
  held,    \* what the last bls_sign left in the caller's buffers, <<>> if nothing
  cut      \* the pieces bls_payload_disassemble pointed out last, <<>> if none

wrapper_vars == <<lib, wcore, held, cut>>
both_vars == <<vars, wrapper_vars>>

-----------------------------------------------------------------------------
(* There is no flag: the caller has to initialize once.                    *)
bls_stego_init ==
  /\ wcore = "down"
  /\ wcore' \in {"down", "ready"}
  /\ UNCHANGED <<vars, lib, held, cut>>

bls_stego_cleanup ==
  /\ wcore # "down"
  /\ wcore' = "down"
  /\ UNCHANGED <<vars, lib, held, cut>>

bls_keypair_gen ==
  /\ wcore = "ready"
  /\ \E k \in Keys \ keys : keys' = keys \cup {k}
  /\ UNCHANGED <<wrapper_vars, core, s_initialized, issued, sent, wire, verdict>>

(* The salt goes to the caller before the length of the pHash is looked    *)
(* at; without a salt there is no buffer and no limit.                     *)
derive_salt(user_salt) == IF user_salt = NoSalt THEN Salt ELSE {HashSalt(user_salt)}

bls_sign(key, phash, user_salt) ==
  LET fits == BLS_SALT_BYTE > 0 => Len(phash) + BLS_SALT_BYTE <= INPUT_MAX IN
  /\ wcore = "ready"
  /\ key \in keys
  /\ \E salt \in derive_salt(user_salt) :
       \/ /\ ~fits
          /\ held' = [key |-> key, phash |-> phash, salt |-> salt, sig |-> <<>>, rc |-> ERR]
          /\ UNCHANGED issued
       \/ /\ fits
          /\ held' = [key |-> key, phash |-> phash, salt |-> salt,
                      sig |-> SigBytes(key, phash \o salt), rc |-> OK]
          /\ issued' = issued \cup {[key |-> key, phash |-> phash, salt |-> salt]}
  /\ verdict' = <<>>
  /\ UNCHANGED <<lib, wcore, cut, core, s_initialized, keys, sent, wire>>

(* Of what bls_sign gave, into the buffer that is sent: what pointed into  *)
(* it is lost.                                                             *)
bls_payload_assemble(pk) ==
  LET payload == held.phash \o held.salt \o held.sig
                   \o (IF pk # NoKey THEN PkBytes(pk) ELSE <<>>)
  IN  /\ held # <<>>
      /\ held.rc = OK
      /\ sent' = SignCall(held.key, held.phash, TRUE, pk # NoKey, pk, OK, payload)
      /\ wire' = payload
      /\ cut' = <<>>
      /\ verdict' = <<>>
      /\ UNCHANGED <<lib, wcore, held, core, s_initialized, keys, issued>>

-----------------------------------------------------------------------------
(* Mutant: the salt is not counted.                                        *)
min_len_saltless(phash_len) == phash_len + stego_sig_bytes

min_len(phash_len) == phash_len + BLS_SALT_BYTE + stego_sig_bytes

(* The pHash is always there; all that follows the signature is the key.   *)
bls_payload_disassemble(phash_len) ==
  LET sig_at == phash_len + BLS_SALT_BYTE
      pk_at  == sig_at + stego_sig_bytes
  IN  /\ sent # <<>>
      /\ cut' = IF Len(wire) < min_len(phash_len)
                THEN [rc |-> ERR, phash_len |-> phash_len]
                ELSE [rc |-> OK, phash_len |-> phash_len,
                      phash |-> Slice(wire, 0, phash_len),
                      salt  |-> Slice(wire, phash_len, BLS_SALT_BYTE),
                      sig   |-> Slice(wire, sig_at, stego_sig_bytes),
                      pk    |-> Slice(wire, pk_at, Len(wire) - pk_at)]
      /\ verdict' = <<>>
      /\ UNCHANGED <<lib, wcore, held, core, s_initialized, keys, issued, sent, wire>>

(* Of the pieces, under a key of the caller's or the piece behind the      *)
(* signature, which is NULL when nothing is there.  What does not decode   *)
(* to a point is invalid, not an error.                                    *)
bls_verify(ext_pk) ==
  LET pk   == IF ext_pk # NoKey THEN PkBytes(ext_pk) ELSE cut.pk
      read == cut.phash_len + BLS_SALT_BYTE + stego_sig_bytes
                + IF ext_pk # NoKey THEN 0 ELSE Len(pk)
      Return(rc) ==
        verdict' = VerifyCall(cut.phash_len, ext_pk, <<>>, rc, cut.phash, pk, read)
  IN  /\ wcore = "ready"
      /\ cut # <<>>
      /\ cut.rc = OK
      /\ \/ /\ pk = <<>> \/ (BLS_SALT_BYTE > 0 /\ cut.phash_len + BLS_SALT_BYTE > INPUT_MAX)
            /\ Return(ERR)
         \/ /\ pk # <<>>
            /\ BLS_SALT_BYTE > 0 => cut.phash_len + BLS_SALT_BYTE <= INPUT_MAX
            /\ Return(IF cp_bls_ver(cut.sig, cut.phash \o cut.salt, pk) THEN OK ELSE ERR_VERIFY)
      /\ UNCHANGED <<wrapper_vars, core, s_initialized, keys, issued, sent, wire>>

-----------------------------------------------------------------------------
BothInit ==
  /\ Init
  /\ lib \in {"unified", "wrapper"}
  /\ wcore = "down"
  /\ held = <<>>
  /\ cut = <<>>

WrapperSign ==
  /\ Cardinality(issued) < MaxSigned
  /\ \E key \in keys, phash \in PHashes, user_salt \in UserSalts \cup {NoSalt} :
       bls_sign(key, phash, user_salt)

WrapperNext ==
  \/ bls_stego_init
  \/ bls_stego_cleanup
  \/ bls_keypair_gen
  \/ WrapperSign
  \/ \E pk \in keys \cup {NoKey} : bls_payload_assemble(pk)
  \/ Fault /\ cut' = <<>> /\ UNCHANGED <<lib, wcore, held>>
  \/ \E phash_len \in Lengths : bls_payload_disassemble(phash_len)
  \/ \E ext_pk \in keys \cup {NoKey} : bls_verify(ext_pk)

BothNext ==
  \/ lib = "unified" /\ Next /\ UNCHANGED wrapper_vars
  \/ lib = "wrapper" /\ WrapperNext

BothSpec == BothInit /\ [][BothNext]_both_vars

-----------------------------------------------------------------------------
(* The two libraries read one format.  Whatever arrives, the wrapper cuts  *)
(* a payload where the unified API finds a pHash in it, and accepts those  *)
(* that stego_verify accepts with the same pHash and key; only bytes       *)
(* behind an embedded key, which the unified API leaves unread, make the   *)
(* wrapper refuse.                                                         *)
UnifiedAccepts(parsed, ext_pk) ==
  /\ ext_pk # NoKey \/ parsed.remaining >= stego_pk_bytes
  /\ Len(parsed.phash) + BLS_SALT_BYTE <= INPUT_MAX
  /\ cp_bls_ver(parsed.sig, parsed.phash \o parsed.salt, PkData(wire, parsed, ext_pk))

ReadersAgree ==
  cut # <<>> =>
    LET parsed == Parse(wire, cut.phash_len) IN
    /\ cut.rc = OK <=> parsed.embedded
    /\ verdict # <<>> =>
         /\ verdict.recovered = parsed.phash
         /\ verdict.rc = OK <=>
              /\ UnifiedAccepts(parsed, verdict.ext_pk)
              /\ verdict.ext_pk = NoKey => parsed.remaining = stego_pk_bytes
=============================================================================
