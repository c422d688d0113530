----------------------------- MODULE KeyStream -----------------------------
(***************************************************************************)
(* What prng_publicinputs promises its callers (utils/utils_prng.c): the   *)
(* seed names one fixed stream of bytes, prng_gen_publicinputs hands out   *)
(* the next outlen bytes of it, and prng_skip_publicinputs passes over     *)
(* outlen bytes without producing them.  How the requests are cut must not *)
(* show in what is delivered: the expanded public key is defined as this   *)
(* stream, and the signer and the verifier cut it differently.             *)
(***************************************************************************)
EXTENDS Integers

CONSTANTS
  BLOCK,   \* AES128_BLOCKSIZE: bytes of one AES block
  CtrMod,  \* number of values of the block counter (2^32 in the code)
  Lens,    \* the request lengths the callers use
  MaxPos   \* bound on the stream position (for TLC)

VARIABLES
  pos,     \* bytes of the stream consumed so far
  out      \* the bytes the last request delivered, each at its position

svars == <<pos, out>>

(* Byte p of the stream: byte p % BLOCK of the encryption of the block     *)
(* whose counter is p \div BLOCK, the counter being a 32-bit word.         *)
StreamByte(p) == <<(p \div BLOCK) % CtrMod, p % BLOCK>>

SInit ==
  /\ pos = 0
  /\ out = [p \in {} |-> StreamByte(p)]

SGen(n) ==
  /\ pos + n <= MaxPos
  /\ pos' = pos + n
  /\ out' = [p \in pos .. pos+n-1 |-> StreamByte(p)]

SSkip(n) ==
  /\ pos + n <= MaxPos
  /\ pos' = pos + n
  /\ out' = [p \in {} |-> StreamByte(p)]

SNext == \E n \in Lens : SGen(n) \/ SSkip(n)

SSpec == SInit /\ [][SNext]_svars
=============================================================================
