------------------------------- MODULE OvSign -------------------------------
(***************************************************************************)
(* Signing and verifying with pqov (src/ov.c): ov_sign, ov_sign_salt and   *)
(* ov_sign_digest build a target y = hash || salt and hand it to           *)
(* _ov_sign_target, which derives vinegar values from a hash of the        *)
(* message, the secret seed and a retry counter until the linear system    *)
(* they leave for the oil variables is regular.  ov_verify and             *)
(* ov_verify_digest evaluate the public map and compare the hash part.     *)
(*                                                                         *)
(* ov_expand_and_sign and ov_expand_and_verify do so with compressed keys, *)
(* which they expand into memory of the heap first.                        *)
(*                                                                         *)
(* One call of one of the four signers, on any seed, from its entry to its *)
(* return, one step per round of the retry loop.                           *)
(***************************************************************************)
EXTENDS UovMap

CONSTANTS
  SALT_BYTE,            \* _SALT_BYTE: entries of the target that are salt
  MAX_ATTEMPT_VINEGAR,  \* 256
  CtrMod,               \* values of uint8_t ctr: 256
  Seeds,                \* secret seeds, each what it expands to
  Messages,             \* messages, for ov_sign and ov_sign_salt
  Digests,              \* digests, for ov_sign_digest
  UserSalts,            \* salts given by the caller
  Vinegars,             \* the values that hashing can give to the vinegar
                        \* variables
  Hash(_),              \* SHAKE to _HASH_EFFECTIVE_BYTE entries
  HashSalt(_),          \* SHAKE to _SALT_BYTE entries
  NoSalt,               \* user_salt == NULL: draw a random one
  None                  \* a variable the code has not assigned yet

HASH_EFFECTIVE_BYTE == O - SALT_BYTE
HashVec == [0 .. HASH_EFFECTIVE_BYTE-1 -> GF]
SaltVec == [0 .. SALT_BYTE-1 -> GF]

ASSUME OvSignAssumption ==
  /\ SALT_BYTE \in 0 .. O-1
  /\ MAX_ATTEMPT_VINEGAR \in Nat \ {0}
  /\ CtrMod \in Nat /\ MAX_ATTEMPT_VINEGAR <= CtrMod
  /\ NoSalt \notin UserSalts
  /\ Seeds \subseteq [P1 : [Upper(V) -> Vec], P2 : [Row \X Col -> Vec], O : [Row \X Col -> GF]]
  /\ Vinegars \subseteq [Row -> GF]
  /\ \A m \in Messages \cup Digests : Hash(m) \in HashVec
  /\ \A s \in UserSalts : HashSalt(s) \in SaltVec
  /\ \A d \in Digests : /\ IsFiniteSet(DOMAIN d)
                        /\ DOMAIN d = 0 .. Cardinality(DOMAIN d)-1
                        /\ \A i \in DOMAIN d : d[i] \in GF

VARIABLES
  pc,         \* "expand", "start", "loop", "after" (the loop), "free", "returned"
  csk,        \* is this ov_expand_and_sign, on a compressed secret key?
  seed,       \* the signer's key
  op,         \* "message" (ov_sign, ov_sign_salt) or "digest"
  input,      \* the message or the digest
  y,          \* the target
  n_attempt,
  tried,      \* history: the counters hashed so far
  vinegar,    \* the values of the last round
  x_o1,       \* the oil part, once a round has succeeded
  live,       \* hash contexts and heap memory created and not freed
  signature,
  result      \* return code

vars == <<pc, csk, seed, op, input, y, n_attempt, tried, vinegar, x_o1, live, signature, result>>

DigestLen(d) == Cardinality(DOMAIN d)

(* ov_sign_digest, ov_verify_digest: a digest of the exact length is used  *)
(* as it is, a shorter one is hashed, a longer one (verifier only) is cut. *)
DigestHash(d) ==
  IF DigestLen(d) < HASH_EFFECTIVE_BYTE THEN Hash(d)
  ELSE [i \in 0 .. HASH_EFFECTIVE_BYTE-1 |-> d[i]]

_build_target_from_hash(hash, salt) ==
  [e \in Eq |-> IF e < HASH_EFFECTIVE_BYTE THEN hash[e] ELSE salt[e - HASH_EFFECTIVE_BYTE]]

-----------------------------------------------------------------------------
Init ==
  /\ csk \in BOOLEAN
  /\ pc = IF csk THEN "expand" ELSE "start"
  /\ seed \in Seeds
  /\ csk => op = "message"
  /\ \/ op = "message" /\ input \in Messages
     \/ op = "digest" /\ input \in Digests
  /\ y = VZero
  /\ n_attempt = 0
  /\ tried = {}
  /\ vinegar = None
  /\ x_o1 = None
  /\ live = {}
  /\ signature = None
  /\ result = None

(* ov_expand_and_sign: there may be no memory for the key.                 *)
Expand ==
  /\ pc = "expand"
  /\ \/ pc' = "returned" /\ result' = -1 /\ UNCHANGED live
     \/ pc' = "start" /\ live' = live \cup {"sk"} /\ UNCHANGED result
  /\ UNCHANGED <<csk, seed, op, input, y, n_attempt, tried, vinegar, x_o1, signature>>

(* The key to sign with: from key generation, or from the secret seed.     *)
SecretKey == IF csk THEN expand_sk(seed) ELSE generate_keypair(seed).sk

(* The entry of ov_sign_salt and ov_sign_digest: a salt from the caller's  *)
(* or at random, then the target, then the two base hash contexts.         *)
Salts(user_salt) == IF user_salt = NoSalt THEN SaltVec ELSE {HashSalt(user_salt)}

SignMessage(salt) ==
  /\ op = "message"
  /\ y' = _build_target_from_hash(Hash(input), salt)

SignDigest(salt) ==
  /\ op = "digest"
  /\ DigestLen(input) <= HASH_EFFECTIVE_BYTE
  /\ y' = _build_target_from_hash(DigestHash(input), salt)

Start ==
  /\ pc = "start"
  /\ \E user_salt \in IF csk THEN {NoSalt} ELSE UserSalts \cup {NoSalt} : \E salt \in Salts(user_salt) :
       SignMessage(salt) \/ SignDigest(salt)
  /\ pc' = "loop"
  /\ live' = live \cup {"h_vinegar_base", "h_vinegar_copy"}
  /\ UNCHANGED <<csk, seed, op, input, n_attempt, tried, vinegar, x_o1, signature, result>>

RejectDigest ==
  /\ pc = "start"
  /\ op = "digest"
  /\ DigestLen(input) > HASH_EFFECTIVE_BYTE
  /\ pc' = "returned"
  /\ result' = -2
  /\ UNCHANGED <<csk, seed, op, input, y, n_attempt, tried, vinegar, x_o1, live, signature>>

(* The oil system that vinegar values v leave: its columns and constant,   *)
(* eliminated.                                                             *)
OilSystem(sk, target, v) ==
  gfmat_gaussian_elim([j \in Col |-> gfmat_prod([i \in Row |-> sk.S[i, j]], v, Row)],
                      VAdd(batch_quad_trimat_eval(sk.P1, v), target))

(* Mutant: the counter is not incremented.                                 *)
CtrStuck(n) == 0

(* uint8_t ctr, before the n-th increment.                                 *)
Ctr(n) == n % CtrMod

(* One round.  The round's own context is copied from h_vinegar_copy, and  *)
(* freed when it is finalized.                                             *)
Round ==
  LET sk == SecretKey
  IN  /\ pc = "loop"
      /\ tried' = tried \cup {Ctr(n_attempt)}
      /\ n_attempt' = n_attempt + 1
      /\ \E v \in Vinegars :
           LET system == OilSystem(sk, y, v)
           IN  /\ vinegar' = v
               /\ \/ /\ system.succ
                     /\ x_o1' = gfmat_back_substitute(system.mat)
                     /\ pc' = "after"
                  \/ /\ ~system.succ
                     /\ UNCHANGED <<x_o1, pc>>
      /\ UNCHANGED <<csk, seed, op, input, y, live, signature, result>>

Attempt == n_attempt < MAX_ATTEMPT_VINEGAR /\ Round

(* Mutant: one round awaited that never comes.                             *)
GiveUpLate ==
  /\ pc = "loop"
  /\ n_attempt > MAX_ATTEMPT_VINEGAR
  /\ pc' = "after"
  /\ UNCHANGED <<csk, seed, op, input, y, n_attempt, tried, vinegar, x_o1, live, signature, result>>

GiveUp ==
  /\ pc = "loop"
  /\ n_attempt = MAX_ATTEMPT_VINEGAR
  /\ pc' = "after"
  /\ UNCHANGED <<csk, seed, op, input, y, n_attempt, tried, vinegar, x_o1, live, signature, result>>

(* w = (v + O x) || x                                                      *)
Assemble(sk, v, x) ==
  [n \in 0 .. V+O-1 |->
     IF n >= V THEN x[n - V]
     ELSE LET Ox == MapThenFoldSet(GFAdd, 0, LAMBDA j : GFMul(x[j], sk.O[n, j]),
                                   LAMBDA T : CHOOSE t \in T : TRUE, Col)
          IN  GFAdd(v[n], Ox)]

Finish ==
  /\ pc = "after"
  /\ pc' = IF csk THEN "free" ELSE "returned"
  /\ live' = live \ {"h_vinegar_copy"}
  /\ \/ /\ MAX_ATTEMPT_VINEGAR <= n_attempt
        /\ result' = -1
        /\ UNCHANGED signature
     \/ /\ MAX_ATTEMPT_VINEGAR > n_attempt
        /\ result' = 0
        /\ signature' = Assemble(SecretKey, vinegar, x_o1)
  /\ UNCHANGED <<csk, seed, op, input, y, n_attempt, tried, vinegar, x_o1>>

Free ==
  /\ pc = "free"
  /\ pc' = "returned"
  /\ live' = live \ {"sk"}
  /\ UNCHANGED <<csk, seed, op, input, y, n_attempt, tried, vinegar, x_o1, signature, result>>

Next == Expand \/ Free \/ Start \/ RejectDigest \/ Attempt \/ GiveUp \/ Finish

(* A call runs until it returns.                                           *)
Spec == Init /\ [][Next]_vars /\ WF_vars(Next)

-----------------------------------------------------------------------------
_ov_verify_hash(expected, digest_ck) ==
  \A e \in 0 .. HASH_EFFECTIVE_BYTE-1 : digest_ck[e] = expected[e]

ov_verify(pk, w, m) == _ov_verify_hash(Hash(m), ov_publicmap(pk, w))

(* By build, all of the key is expanded, or what this signature needs, and *)
(* the rest of its memory is what it was.                                  *)
ov_expand_and_verify(cpk, w, m) == ov_verify(expand_pk(cpk), w, m)
ov_expand_and_verify_some(cpk, w, m, old) == ov_verify(expand_pk_predicate(cpk, w, old), w, m)

ov_verify_digest(pk, w, d) == _ov_verify_hash(DigestHash(d), ov_publicmap(pk, w))

-----------------------------------------------------------------------------
(* A signer that expands its seed (expand_sk, calculate_F2) and one that   *)
(* kept the secret key of key generation (calculate_F2_P3) solve the same  *)
(* system, whichever key generation it was; and those that compute P3 from *)
(* P2 before it becomes S give the same public key.                        *)
SameSecretKey ==
  /\ expand_sk(seed) = generate_keypair(seed).sk
  /\ expand_sk(seed) = generate_keypair_pkc(seed).sk
  /\ calculate_P3(seed.P1, seed.P2, seed.O) = generate_keypair(seed).pk.P3

(* A signature that was returned inverts the public map at the whole       *)
(* target: the verifier gets hash and salt back, and accepts exactly the   *)
(* messages and digests with the hash that was signed.  One with the       *)
(* compressed key does so too, whatever its memory held before.            *)
SignatureVerifies ==
  pc = "returned" /\ result = 0 =>
    LET pk     == generate_keypair(seed).pk
        cpk    == generate_keypair_pkc(seed).pk
        hashed == IF op = "message" THEN Hash(input) ELSE DigestHash(input)
    IN  /\ ov_publicmap(pk, signature) = y
        /\ \A m \in Messages :
             /\ ov_verify(pk, signature, m) <=> Hash(m) = hashed
             /\ ov_expand_and_verify(cpk, signature, m) <=> Hash(m) = hashed
             /\ \A a \in GF :
                  ov_expand_and_verify_some(cpk, signature, m, [e \in Eq |-> a])
                    <=> Hash(m) = hashed
        /\ \A d \in Digests : ov_verify_digest(pk, signature, d) <=> DigestHash(d) = hashed

(* Every round hashes a counter no earlier round hashed, although the      *)
(* counter is a byte: a retry never repeats a failed attempt.              *)
RetriesDiffer == Cardinality(tried) = n_attempt

(* The retry loop ends and the call returns.                               *)
Returns == <>(pc = "returned")

(* ov.h: 0 for success, -1 otherwise.  A call that found a solution in one *)
(* of its MAX_ATTEMPT_VINEGAR rounds does not report failure.              *)
SolvedMeansSigned == pc = "returned" /\ x_o1 # None => result = 0

(* ov.c: the contexts of the vinegar hash are freed before the return, as  *)
(* the comment on the line that frees one of them says.                    *)
ContextsFreed == pc = "returned" => live = {}
=============================================================================
