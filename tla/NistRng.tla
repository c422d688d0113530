------------------------------ MODULE NistRng ------------------------------
(***************************************************************************)
(* The generators of the known-answer program, utils/nistkat/rng.c: the    *)
(* seed expander, a counter mode with a limit on its length, and the       *)
(* AES-CTR DRBG behind randombytes, whose key and counter are replaced     *)
(* after every request.                                                    *)
(*                                                                         *)
(* Counters are the big-endian digits of the code, with their carry loop.  *)
(* A byte of the expander's stream is <<upper half, counter, offset>>, the *)
(* block it is taken from and its place there: AES is injective under one  *)
(* key.  The DRBG's keys are numbered, and the block that becomes its next *)
(* counter is any block.                                                   *)
(***************************************************************************)
EXTENDS Integers, Sequences

CONSTANTS
  XBLOCK,     \* bytes of an AES block (16)
  Radix,      \* values of a digit of a counter (256)
  XDigits,    \* digits of the expander's counter and of its length (4)
  VDigits,    \* digits of the DRBG's counter (16)
  XMaxLens,   \* lengths an expander is initialised with
  XLens,      \* lengths asked of the expander
  XLimit,     \* bound on the bytes of one expander (for TLC), beyond all XMaxLens
  VLens,      \* lengths asked of randombytes
  MaxRequests \* bound on reseed_counter (for TLC)

ASSUME RngAssumption ==
  /\ XBLOCK \in Nat \ {0} /\ Radix \in Nat \ {0, 1}
  /\ XDigits \in Nat \ {0} /\ VDigits \in Nat \ {0}
  /\ XMaxLens \cup XLens \cup VLens \cup {XLimit, MaxRequests} \subseteq Nat
  /\ \A n \in XMaxLens : n <= XLimit

VARIABLES
  rng,     \* which generator this is: "off", "expander" or "drbg"
  xctx,    \* AES_XOF_struct
  xlast,   \* history: maxlen, bytes served, last return code, output of the last request served
  drbg,    \* DRBG_ctx
  vuses,   \* history: the blocks encrypted since randombytes_init
  vout     \* the bytes randombytes returned last

rng_vars == <<rng, xctx, xlast, drbg, vuses, vout>>

-----------------------------------------------------------------------------
(* The loops that add 1: trailing full digits become 0, the digit before   *)
(* them takes the carry.                                                   *)
Increment(d) ==
  LET n == Len(d)
      full(i) == \A j \in i+1 .. n : d[j] = Radix - 1
  IN  [i \in 1 .. n |-> IF ~full(i) THEN d[i] ELSE (d[i] + 1) % Radix]

(* The counter after each of n increments, after none first.               *)
Counters(d, n) ==
  LET c[i \in 1 .. n+1] == IF i = 1 THEN d ELSE Increment(c[i-1]) IN c

(* n digits: of 0, of v by repeated remainders, and what they stand for.   *)
Zeros(n) == [i \in 1 .. n |-> 0]
Digits(v, n) ==
  LET rest[k \in 0 .. n] == IF k = 0 THEN v ELSE rest[k-1] \div Radix
  IN  [i \in 1 .. n |-> rest[n-i] % Radix]
Value(d) ==
  LET f[i \in 0 .. Len(d)] == IF i = 0 THEN 0 ELSE f[i-1] * Radix + d[i] IN f[Len(d)]

(* How many values n digits have: 2^32 for the expander's 4.               *)
Span(n) == Value([i \in 1 .. n |-> Radix - 1]) + 1

BlocksFor(n) == (n + XBLOCK - 1) \div XBLOCK

(* The blocks of a request and the 3 of the update behind it, or of        *)
(* randombytes_init, are no more than there are counters (2^128).          *)
ASSUME DrbgAssumption == \A n \in VLens \cup {0} : BlocksFor(n) + 3 <= Span(VDigits)

-----------------------------------------------------------------------------
(* The seed expander.                                                      *)
AES256_ECB(c) == [k \in 0 .. XBLOCK-1 |-> <<c.upper, Value(c.ctr), k>>]
NoBytes == [p \in {} |-> <<>>]

ExpanderIdle ==
  xctx = [left |-> 0, pos |-> XBLOCK, upper |-> <<>>, ctr |-> <<>>, buf |-> NoBytes]
    /\ xlast = [maxlen |-> 0, served |-> 0, ret |-> "none", out |-> NoBytes]

seedexpander_init(maxlen) ==
  /\ xlast.ret = "none"
  /\ xlast' = [xlast EXCEPT !.maxlen = maxlen,
                            !.ret = IF maxlen >= Span(XDigits) THEN "bad_maxlen" ELSE "success"]
  /\ xctx' = IF maxlen >= Span(XDigits) THEN xctx
             ELSE [ left |-> maxlen, pos |-> XBLOCK, upper |-> Digits(maxlen, XDigits),
                    ctr |-> Zeros(XDigits),
                    buf |-> [k \in 0 .. XBLOCK-1 |-> <<>>] ]

(* Mutants: a request is refused only when nothing remains, and the place  *)
(* in the buffer is not moved over the end of a request.                   *)
RefusedAtTheEnd(xlen) == xctx.left = 0
Refused(xlen) == xlen >= xctx.left

PlaceAfterUnmoved(xlen) == IF xlen <= XBLOCK - xctx.pos THEN xctx.pos ELSE 0
PlaceAfter(xlen) ==
  LET avail == XBLOCK - xctx.pos IN
  IF xlen <= avail THEN xctx.pos + xlen
  ELSE xlen - avail - XBLOCK * (BlocksFor(xlen - avail) - 1)

(* What is in the buffer first, then block after block.                    *)
seedexpander(xlen) ==
  LET avail  == XBLOCK - xctx.pos
      beyond == IF xlen <= avail THEN 0 ELSE xlen - avail
      n      == BlocksFor(beyond)
      ctrs   == Counters(xctx.ctr, n)
      block(i) == AES256_ECB([xctx EXCEPT !.ctr = ctrs[i]])
  IN
  /\ xlast.ret \notin {"none", "bad_maxlen"}
  /\ \/ /\ Refused(xlen)
        /\ xlast' = [xlast EXCEPT !.ret = "bad_req_len"]
        /\ UNCHANGED xctx
     \/ /\ ~Refused(xlen)
        /\ xctx' = [xctx EXCEPT !.left = @ - xlen, !.pos = PlaceAfter(xlen), !.ctr = ctrs[n+1],
                                !.buf = IF n = 0 THEN @ ELSE block(n)]
        /\ xlast' = [xlast EXCEPT
             !.served = @ + xlen, !.ret = "success",
             !.out = [p \in xlast.served .. xlast.served + xlen - 1 |->
                       LET i == p - xlast.served IN
                       IF i < avail THEN xctx.buf[xctx.pos + i]
                       ELSE block((i - avail) \div XBLOCK + 1)[(i - avail) % XBLOCK]]]

(* A null output pointer is refused before anything else.                  *)
seedexpander_null ==
  /\ xlast.ret \notin {"none", "bad_maxlen"}
  /\ xlast' = [xlast EXCEPT !.ret = "bad_outbuf"]
  /\ UNCHANGED xctx

-----------------------------------------------------------------------------
(* The DRBG.  A use is a block encrypted: its key and its counter.         *)
Uses(key, ctrs) == [i \in 1 .. Len(ctrs) |-> [key |-> key, ctr |-> ctrs[i]]]

(* Mutant: the counter is incremented after the encryption.                *)
UpdateThenIncrement(key, v, uses, count) ==
  /\ drbg' \in [Key : {key + 1}, V : [1 .. VDigits -> 0 .. Radix-1], reseed_counter : {count}]
  /\ vuses' = uses \o Uses(key, SubSeq(Counters(v, 3), 1, 3))

(* Three blocks: the next key, and the next counter, which after the       *)
(* cipher and the provided data is any block.                              *)
AES256_CTR_DRBG_Update(key, v, uses, count) ==
  /\ drbg' \in [Key : {key + 1}, V : [1 .. VDigits -> 0 .. Radix-1], reseed_counter : {count}]
  /\ vuses' = uses \o Uses(key, Tail(Counters(v, 3)))

DrbgIdle == drbg = [Key |-> 0, V |-> <<>>, reseed_counter |-> 0] /\ vuses = <<>> /\ vout = <<>>

randombytes_init ==
  /\ AES256_CTR_DRBG_Update(0, Zeros(VDigits), <<>>, 1)
  /\ vout' = <<>>

randombytes(xlen) ==
  LET n    == BlocksFor(xlen)
      ctrs == Tail(Counters(drbg.V, n))
      v    == IF n = 0 THEN drbg.V ELSE ctrs[n]
  IN
  /\ drbg.reseed_counter \in 1 .. MaxRequests
  /\ AES256_CTR_DRBG_Update(drbg.Key, v, vuses \o Uses(drbg.Key, ctrs),
                            drbg.reseed_counter + 1)
  /\ vout' = [i \in 0 .. xlen-1 |->
               [key |-> drbg.Key, ctr |-> ctrs[i \div XBLOCK + 1], at |-> i % XBLOCK]]

-----------------------------------------------------------------------------
RngOff == rng = "off" /\ ExpanderIdle /\ DrbgIdle
RngInit == rng \in {"expander", "drbg"} /\ ExpanderIdle /\ DrbgIdle

RngNext ==
  \/ /\ rng = "expander"
     /\ \/ \E n \in XMaxLens : seedexpander_init(n)
        \/ \E n \in XLens : seedexpander(n)
        \/ seedexpander_null
     /\ UNCHANGED <<rng, drbg, vuses, vout>>
  \/ /\ rng = "drbg"
     /\ randombytes_init \/ \E n \in VLens : randombytes(n)
     /\ UNCHANGED <<rng, xctx, xlast>>

-----------------------------------------------------------------------------
(* An expander serves one stream, the one its length is part of, from      *)
(* where the request before ended, and a refused request does not touch it.*)
(* However the requests are cut, it never encrypts with a counter that has *)
(* wrapped, because the limit ends the stream first.                       *)
Position(b) == <<b[2], b[3]>>
Expanded == INSTANCE KeyStream WITH
  BLOCK <- XBLOCK, CtrMod <- Span(XDigits), Lens <- XLens, MaxPos <- XLimit,
  pos <- xlast.served, out <- [p \in DOMAIN xlast.out |-> Position(xlast.out[p])]
ExpanderSpec == Expanded!SSpec

(* The limit is kept: what was served and what remains are the length the  *)
(* expander was set up for, at least one byte of which is never served,    *)
(* and every byte comes from blocks marked with that length.               *)
LengthKept ==
  xlast.ret \notin {"none", "bad_maxlen"} =>
    /\ xctx.left >= 0
    /\ xlast.served + xctx.left = xlast.maxlen
    /\ Value(xctx.upper) = xlast.maxlen
    /\ \A p \in DOMAIN xlast.out : xlast.out[p][1] = xctx.upper
    /\ BlocksFor(xlast.served) = Value(xctx.ctr)

(* No block is encrypted twice under one key of the DRBG: what was handed  *)
(* out never comes again, and is never the key or counter that follows.    *)
BlocksFresh ==
  \A i, j \in DOMAIN vuses :
    vuses[i].key = vuses[j].key /\ vuses[i].ctr = vuses[j].ctr => i = j
=============================================================================
