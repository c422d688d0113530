---------------------------- MODULE KeccakSponge ----------------------------
(***************************************************************************)
(* The hash interface in its default build (utils/utils_hash.c) over the   *)
(* incremental SHAKE of utils/fips202.c.  A context is the sponge's state  *)
(* and a position in the current block; bytes are added to the state as    *)
(* they come, and the state is permuted when a block is full.              *)
(*                                                                         *)
(* The permutation is injective and is not computed: a state is the        *)
(* sequence of blocks that were permuted into it, and what was added to    *)
(* each byte since.  Adding is exclusive or: twice the same is nothing.    *)
(***************************************************************************)
EXTENDS Integers, Sequences

CONSTANTS
  RATE,     \* SHAKE256_RATE (136) or SHAKE128_RATE (168)
  Ctxs,     \* contexts
  Parts,    \* what one update may bring: byte sequences
  OutLens,  \* digest lengths
  MaxLen    \* bound on the bytes given to one context (for TLC)

ASSUME SpongeAssumption ==
  /\ RATE \in Nat \ {0}
  /\ OutLens \subseteq Nat
  /\ MaxLen \in Nat
  /\ \A mesg \in Parts : mesg = [k \in 1 .. Len(mesg) |-> mesg[k]] /\ Len(mesg) \in Nat

VARIABLES
  ctx,      \* the contexts in use, each [permuted, added, pos]
  msg,      \* history: the bytes each of them was given
  digest    \* what the last call wrote, if it was a finalization

vars == <<ctx, msg, digest>>

Cell == 0 .. RATE-1
Zero == [i \in Cell |-> {}]
Xor(x, y) == (x \ y) \cup (y \ x)

(* f with value v at c; f without c.                                       *)
With(f, c, v) == [x \in DOMAIN f \cup {c} |-> IF x = c THEN v ELSE f[x]]
Without(f, c) == [x \in DOMAIN f \ {c} |-> f[x]]

shake_init == [permuted |-> <<>>, added |-> Zero, pos |-> 0]

(* KeccakF1600_StatePermute, n times with nothing added in between.        *)
Permute(s, n) ==
  [permuted |-> s.permuted \o [j \in 1 .. n |-> IF j = 1 THEN s.added ELSE Zero],
   added    |-> IF n = 0 THEN s.added ELSE Zero,
   pos      |-> s.pos]

(* A byte read from the state.                                             *)
StateByte(s, i) == [permuted |-> s.permuted, cell |-> s.added[i], at |-> i]

(* Mutant: every block is fed the beginning of the input.                  *)
FedRewound(s, in, j) ==
  [i \in Cell |->
     LET n == IF j = 0 THEN i - s.pos ELSE i
     IN  Xor(IF j = 0 THEN s.added[i] ELSE {}, {in[k] : k \in {n + 1} \cap 1 .. Len(in)})]

(* What adding in, from s.pos on, leaves added in the j-th block from here.*)
Fed(s, in, j) ==
  [i \in Cell |->
     LET n == j * RATE + i - s.pos
     IN  Xor(IF j = 0 THEN s.added[i] ELSE {}, {in[k] : k \in {n + 1} \cap 1 .. Len(in)})]

(* keccak_absorb: blocks are completed while there is enough input.        *)
keccak_absorb(s, in) ==
  LET end  == s.pos + Len(in)
      full == end \div RATE
  IN  [permuted |-> s.permuted \o [j \in 1 .. full |-> Fed(s, in, j - 1)],
       added    |-> Fed(s, in, full),
       pos      |-> end - full * RATE]

Pad(s, i) == {p \in {"0x1F"} : i = s.pos} \cup {p \in {"0x80"} : i = RATE - 1}

(* Mutant: the position is left where the input ended.                     *)
keccak_finalize_in_place(s) ==
  [s EXCEPT !.added = [i \in Cell |-> Xor(s.added[i], Pad(s, i))]]

(* keccak_finalize and shake256_finalize: the suffix at the position, the  *)
(* last bit at the end of the block, and nothing left to read of it.       *)
keccak_finalize(s) ==
  [permuted |-> s.permuted,
   added    |-> [i \in Cell |-> Xor(s.added[i], Pad(s, i))],
   pos      |-> RATE]

(* keccak_squeezeblocks: permute, then read a whole block, each time.      *)
keccak_squeezeblocks(s, nblocks) ==
  [k \in 0 .. nblocks * RATE - 1 |-> StateByte(Permute(s, (k \div RATE) + 1), k % RATE)]

(* keccak_squeeze: permute when the block is used up, else read on.        *)
keccak_squeeze(s, outlen) ==
  [k \in 0 .. outlen-1 |-> StateByte(Permute(s, (s.pos + k) \div RATE), (s.pos + k) % RATE)]

-----------------------------------------------------------------------------
NoDigest == [k \in {} |-> StateByte(shake_init, k)]

Init ==
  /\ ctx = [c \in {} |-> shake_init]
  /\ msg = [c \in {} |-> <<>>]
  /\ digest = NoDigest

hash_init(c) ==
  /\ ctx' = With(ctx, c, shake_init)
  /\ msg' = With(msg, c, <<>>)
  /\ digest' = NoDigest

hash_update(c, mesg) ==
  /\ c \in DOMAIN ctx
  /\ Len(msg[c]) + Len(mesg) <= MaxLen
  /\ ctx' = With(ctx, c, keccak_absorb(ctx[c], mesg))
  /\ msg' = With(msg, c, msg[c] \o mesg)
  /\ digest' = NoDigest

(* memcpy: a context is a value in this build.                             *)
hash_ctx_copy(nctx, octx) ==
  /\ octx \in DOMAIN ctx
  /\ ctx' = With(ctx, nctx, ctx[octx])
  /\ msg' = With(msg, nctx, msg[octx])
  /\ digest' = NoDigest

(* Whole blocks first, then the rest.  The context is not used again.      *)
hash_final_digest(c, outlen) ==
  LET final   == keccak_finalize(ctx[c])
      nblocks == outlen \div RATE
      blocks  == keccak_squeezeblocks(final, nblocks)
      rest    == keccak_squeeze(Permute(final, nblocks), outlen - nblocks * RATE)
  IN  /\ c \in DOMAIN ctx
      /\ digest' = [k \in 0 .. outlen-1 |-> IF k < nblocks * RATE THEN blocks[k]
                                            ELSE rest[k - nblocks * RATE]]
      /\ ctx' = Without(ctx, c)
      /\ msg' = Without(msg, c)

Next ==
  \E c \in Ctxs :
    \/ hash_init(c)
    \/ \E mesg \in Parts : hash_update(c, mesg)
    \/ \E octx \in Ctxs \ {c} : hash_ctx_copy(c, octx)
    \/ \E outlen \in OutLens : hash_final_digest(c, outlen)

Spec == Init /\ [][Next]_vars

-----------------------------------------------------------------------------
OneShot == INSTANCE Xof

(* The state a context is in depends on the bytes it was given, not on the *)
(* pieces they came in: the position is the length modulo the rate, each   *)
(* full block was permuted once, the rest waits at its place.              *)
Absorbed(m) ==
  LET full == Len(m) \div RATE
  IN  [permuted |-> [b \in 1 .. full |-> OneShot!MessageBlock(m, b - 1)],
       added    |-> OneShot!MessageBlock(m, full),
       pos      |-> Len(m) % RATE]

AbsorbedAgrees == DOMAIN ctx = DOMAIN msg /\ \A c \in DOMAIN ctx : ctx[c] = Absorbed(msg[c])

(* A digest is a prefix of the stream of the whole message, however the    *)
(* message was cut, the context copied, and the digest read.               *)
XofSpec == OneShot!XSpec
=============================================================================
