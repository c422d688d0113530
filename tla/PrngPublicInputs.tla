-------------------------- MODULE PrngPublicInputs --------------------------
(***************************************************************************)
(* The AES-128-CTR expander of public seeds, utils/utils_prng.c: a         *)
(* one-refill buffer in front of the block cipher.  A context is           *)
(* {used, ctr, buf}: buf holds the last refill, used is the number of its  *)
(* bytes already consumed (RNG_OUTPUTLEN: all of them), ctr the counter of *)
(* the next block to encrypt, a 32-bit word.                               *)
(*                                                                         *)
(* A byte of the key stream is <<counter, offset>>: byte offset of the     *)
(* encryption of the block with that counter.  The cipher is injective     *)
(* under one key, so two such bytes are the same exactly when the code     *)
(* computes them from the same block and the same place in it.             *)
(***************************************************************************)
EXTENDS Integers

CONSTANTS
  BLOCK,   \* AES128_BLOCKSIZE (16)
  BPC,     \* blocks per refill, RNG_OUTPUTLEN / AES128_BLOCKSIZE: 4 in the
           \* default build, 2 (PQM4), 8 (bitsliced NEON) or 1 (OQS) in others
  CtrMod,  \* 2^32, the number of values of uint32_t ctr
  Lens,    \* request lengths
  MaxPos   \* bound on the bytes drawn from one context (for TLC)

ASSUME PrngAssumption ==
  /\ BLOCK \in Nat \ {0}
  /\ BPC \in Nat \ {0}
  /\ CtrMod \in Nat \ {0}
  /\ Lens \subseteq Nat
  /\ MaxPos \in Nat

RNG_OUTPUTLEN == BPC * BLOCK

VARIABLES
  used,    \* ctx->used
  ctr,     \* ctx->ctr
  buf,     \* ctx->buf
  pos,     \* history: bytes generated or skipped since the context was set
  out      \* the bytes the last call wrote to its out pointer, each indexed
           \* by the stream position it was asked for (pos + its offset)

vars == <<used, ctr, buf, pos, out>>

KeyByte == (0 .. CtrMod-1) \X (0 .. BLOCK-1)

(* Contents of ctx->buf before the first refill: never written.            *)
Uninit == <<>>

(* Byte k of what aes128ctr_publicinputs writes when it starts at counter  *)
(* c: blocks c, c+1, ... with the counter computed in 32 bits.             *)
aes128ctr_publicinputs(c, k) == <<(c + (k \div BLOCK)) % CtrMod, k % BLOCK>>

Refill(c) == [k \in 0 .. RNG_OUTPUTLEN-1 |-> aes128ctr_publicinputs(c, k)]

NoOutput == [p \in {} |-> aes128ctr_publicinputs(0, p)]

-----------------------------------------------------------------------------
(* prng_set_publicinputs: an empty buffer at counter 0.                    *)
Init ==
  /\ used = RNG_OUTPUTLEN
  /\ ctr = 0
  /\ buf = [k \in 0 .. RNG_OUTPUTLEN-1 |-> Uninit]
  /\ pos = 0
  /\ out = NoOutput

(* prng_gen_publicinputs: drain the buffer, then whole refills straight    *)
(* into the caller's memory, then a fresh refill for the tail.             *)
Gen(n) ==
  LET avail   == RNG_OUTPUTLEN - used
      ready   == IF n <= avail THEN n ELSE avail
      rest    == n - ready
      nblocks == rest \div RNG_OUTPUTLEN
      tail    == rest % RNG_OUTPUTLEN
      ctr1    == (ctr + BPC * nblocks) % CtrMod
  IN  /\ pos + n <= MaxPos
      /\ pos' = pos + n
      /\ \/ /\ tail = 0
            /\ used' = used + ready
            /\ ctr' = ctr1
            /\ UNCHANGED buf
         \/ /\ tail > 0
            /\ used' = tail
            /\ ctr' = (ctr1 + BPC) % CtrMod
            /\ buf' = Refill(ctr1)
      /\ out' = [p \in pos .. pos+n-1 |->
                   LET i == p - pos
                   IN  IF i < ready THEN buf[used + i]
                       ELSE IF i < ready + nblocks * RNG_OUTPUTLEN
                         THEN aes128ctr_publicinputs(ctr, i - ready)
                         ELSE buf'[i - ready - nblocks * RNG_OUTPUTLEN]]

(* Mutants of the two below: the target is never compared with the end of  *)
(* the buffer; a refill after a skip is not counted, is made from the old  *)
(* counter, or is left out when the target is the start of a refill.       *)
SkipInBufferUnchecked(n) ==
  /\ used' = used + n
  /\ UNCHANGED <<ctr, buf>>

SkipAheadUncounted(n) ==
  LET beyond == n - (RNG_OUTPUTLEN - used)
      ctr1   == (ctr + BPC * (beyond \div RNG_OUTPUTLEN)) % CtrMod
  IN  /\ used + n > RNG_OUTPUTLEN
      /\ used' = beyond % RNG_OUTPUTLEN
      /\ buf' = Refill(ctr1)
      /\ ctr' = ctr1

SkipAheadOldCounter(n) ==
  LET beyond == n - (RNG_OUTPUTLEN - used)
      blocks == BPC * (beyond \div RNG_OUTPUTLEN)
  IN  /\ used + n > RNG_OUTPUTLEN
      /\ used' = beyond % RNG_OUTPUTLEN
      /\ buf' = Refill(ctr)
      /\ ctr' = (ctr + blocks + BPC) % CtrMod

SkipAheadStale(n) ==
  LET beyond == n - (RNG_OUTPUTLEN - used)
      ctr1   == (ctr + BPC * (beyond \div RNG_OUTPUTLEN)) % CtrMod
      rem    == beyond % RNG_OUTPUTLEN
  IN  /\ used + n > RNG_OUTPUTLEN
      /\ used' = rem
      /\ IF rem = 0 THEN ctr' = ctr1 /\ UNCHANGED buf
                    ELSE ctr' = (ctr1 + BPC) % CtrMod /\ buf' = Refill(ctr1)

(* prng_skip_publicinputs: stay inside the buffer when possible, else move *)
(* the counter and refill only when the target is inside a refill.         *)
SkipInBuffer(n) ==
  /\ used + n <= RNG_OUTPUTLEN
  /\ used' = used + n
  /\ UNCHANGED <<ctr, buf>>

SkipAhead(n) ==
  LET beyond == n - (RNG_OUTPUTLEN - used)
      ctr1   == (ctr + BPC * (beyond \div RNG_OUTPUTLEN)) % CtrMod
      rem    == beyond % RNG_OUTPUTLEN
  IN  /\ used + n > RNG_OUTPUTLEN
      /\ \/ /\ rem # 0
            /\ used' = rem
            /\ buf' = Refill(ctr1)
            /\ ctr' = (ctr1 + BPC) % CtrMod
         \/ /\ rem = 0
            /\ used' = RNG_OUTPUTLEN
            /\ ctr' = ctr1
            /\ UNCHANGED buf

Skip(n) ==
  /\ pos + n <= MaxPos
  /\ pos' = pos + n
  /\ out' = NoOutput
  /\ SkipInBuffer(n) \/ SkipAhead(n)

Next == \E n \in Lens : Gen(n) \/ Skip(n)

Spec == Init /\ [][Next]_vars

-----------------------------------------------------------------------------
TypeOK ==
  /\ used \in 0 .. RNG_OUTPUTLEN
  /\ ctr \in 0 .. CtrMod-1
  /\ buf \in [0 .. RNG_OUTPUTLEN-1 -> KeyByte \cup {Uninit}]
  /\ pos \in Nat
  /\ out \in [DOMAIN out -> KeyByte \cup {Uninit}]

(* The counter is always at the start of a refill, and the bytes consumed  *)
(* plus the bytes still in the buffer are a whole number of refills: the   *)
(* position the code never stores, recovered from {used, ctr}.             *)
PositionAgrees ==
  LET refills == (pos + (RNG_OUTPUTLEN - used)) \div RNG_OUTPUTLEN
  IN  /\ pos + (RNG_OUTPUTLEN - used) = refills * RNG_OUTPUTLEN
      /\ ctr = (refills * BPC) % CtrMod

(* Bytes still to be consumed are those of the refill that the position    *)
(* lies in: no stale refill survives a skip, none is served twice.         *)
BufferFresh ==
  \A k \in used .. RNG_OUTPUTLEN-1 :
    buf[k] = aes128ctr_publicinputs(0, pos + (k - used))

(* Whatever the sequence of calls, a call delivers exactly the bytes of    *)
(* the seed's stream from the position it starts at: the buffered          *)
(* generator implements the abstract stream.                               *)
Stream == INSTANCE KeyStream

StreamSpec == Stream!SSpec
=============================================================================
