-------------------------- MODULE Generators_proofs --------------------------
(***************************************************************************)
(* Proofs about the generators and the readers of a public seed, for every *)
(* block size, buffer size, width of a counter, number of variables and    *)
(* length of a request.                                                    *)
(*                                                                         *)
(* The public-seed expander: the type invariant, the position and          *)
(* freshness of its buffer, and that it implements the abstract stream of  *)
(* KeyStream.                                                              *)
(*                                                                         *)
(* Its readers: whichever of the four ways a reader goes through the       *)
(* stream, it means the same key, and it has written every row that its    *)
(* public map needs.  The generator hands out the bytes of the stream at   *)
(* its position, so it is enough that the position and the address that is *)
(* written never part, and that the address is, before each request, where *)
(* the row of that request belongs.                                        *)
(*                                                                         *)
(* The known-answer program's generators: digits carried by a loop count,  *)
(* so that a request encrypts a run of counters, none of them twice.  The  *)
(* seed expander ends before its counter wraps and implements the same     *)
(* abstract stream; the DRBG replaces its key before the run of the next   *)
(* request begins.                                                         *)
(***************************************************************************)
EXTENDS Generators, ExpandPk, SequenceTheorems, WellFoundedInduction, TLAPS

(* Quotient and remainder of natural numbers.                              *)
LEMMA DivMod ==
  ASSUME NEW a \in Nat, NEW b \in Nat, b > 0
  PROVE  /\ a \div b \in Nat
         /\ a % b \in 0 .. b-1
         /\ a = b * (a \div b) + (a % b)
  BY SMT

(* Euclidean division is unique.                                           *)
LEMMA DivUnique ==
  ASSUME NEW b \in Nat, b > 0, NEW q \in Nat, NEW r \in 0 .. b-1
  PROVE  /\ (b * q + r) \div b = q
         /\ (b * q + r) % b = r
  BY SMTT(20)

(* Reducing a summand first does not change a sum modulo m: the counter    *)
(* may be kept in 32 bits between the calls.                               *)
LEMMA ModAdd ==
  ASSUME NEW m \in Nat, m > 0, NEW a \in Nat, NEW b \in Nat
  PROVE  ((a % m) + b) % m = (a + b) % m
<1> DEFINE q == a \div m
           r == a % m
           q2 == (r + b) \div m
           r2 == (r + b) % m
<1>1. q \in Nat /\ r \in 0 .. m-1 /\ a = m * q + r
  BY DivMod
<1>2. r + b \in Nat
  BY <1>1
<1>3. q2 \in Nat /\ r2 \in 0 .. m-1 /\ r + b = m * q2 + r2
  BY <1>2, DivMod
<1> HIDE DEF q, r, q2, r2
<1>4. a + b = m * (q + q2) + r2
  BY <1>1, <1>3
<1>5. q + q2 \in Nat
  BY <1>1, <1>3
<1>6. (m * (q + q2) + r2) % m = r2
  BY <1>3, <1>5, DivUnique
<1> QED
  BY <1>4, <1>6 DEF r, r2

LEMMA OutputLen == RNG_OUTPUTLEN \in Nat /\ RNG_OUTPUTLEN > 0
  BY PrngAssumption DEF RNG_OUTPUTLEN

(* Refill number c starts at stream position c * RNG_OUTPUTLEN, whatever   *)
(* the counter has wrapped to.                                             *)
LEMMA RefillIsStream ==
  ASSUME NEW c \in Nat, NEW k \in Nat
  PROVE  aes128ctr_publicinputs((c * BPC) % CtrMod, k)
           = aes128ctr_publicinputs(0, c * RNG_OUTPUTLEN + k)
<1> DEFINE q == k \div BLOCK
           r == k % BLOCK
           p == c * RNG_OUTPUTLEN + k
<1>1. BLOCK \in Nat /\ BLOCK > 0 /\ BPC \in Nat /\ CtrMod \in Nat /\ CtrMod > 0
  BY PrngAssumption
<1>2. q \in Nat /\ r \in 0 .. BLOCK-1 /\ k = BLOCK * q + r
  BY <1>1, DivMod
<1> HIDE DEF q, r
<1>3. c * BPC \in Nat /\ c * BPC + q \in Nat
  BY <1>1, <1>2
<1>4. p = BLOCK * (c * BPC + q) + r
  <2>1. c * (BPC * BLOCK) = BLOCK * (c * BPC)
    BY <1>1
  <2>2. BLOCK * (c * BPC + q) = BLOCK * (c * BPC) + BLOCK * q
    BY <1>1, <1>2, <1>3
  <2> QED
    BY <1>1, <1>2, <1>3, <2>1, <2>2 DEF RNG_OUTPUTLEN
<1>5. p \div BLOCK = c * BPC + q /\ p % BLOCK = r
  <2> DEFINE n == c * BPC + q
  <2>1. n \in Nat
    BY <1>3
  <2> HIDE DEF n
  <2>2. (BLOCK * n + r) \div BLOCK = n /\ (BLOCK * n + r) % BLOCK = r
    BY <1>1, <1>2, <2>1, DivUnique
  <2> QED
    BY <1>4, <2>2 DEF n
<1>6. (((c * BPC) % CtrMod) + q) % CtrMod = (c * BPC + q) % CtrMod
  <2> DEFINE n == c * BPC
  <2>1. n \in Nat
    BY <1>3
  <2> HIDE DEF n
  <2>2. n \in Nat /\ q \in Nat /\ CtrMod \in Nat /\ CtrMod > 0
    BY <1>1, <1>2, <2>1
  <2>3. ((n % CtrMod) + q) % CtrMod = (n + q) % CtrMod
    BY ONLY <2>2, ModAdd
  <2> QED
    BY <2>3 DEF n
<1> QED
  BY <1>1, <1>3, <1>5, <1>6 DEF aes128ctr_publicinputs, q, r, p

(* What aes128ctr_publicinputs writes are bytes of the stream.             *)
LEMMA CipherType ==
  ASSUME NEW c \in Nat, NEW k \in Nat
  PROVE  aes128ctr_publicinputs(c, k) \in KeyByte
<1>1. BLOCK \in Nat /\ BLOCK > 0 /\ CtrMod \in Nat /\ CtrMod > 0
  BY PrngAssumption
<1>2. k \div BLOCK \in Nat /\ k % BLOCK \in 0 .. BLOCK-1
  BY <1>1, DivMod
<1>3. c + (k \div BLOCK) \in Nat
  BY <1>2
<1>4. (c + (k \div BLOCK)) % CtrMod \in 0 .. CtrMod-1
  BY <1>1, <1>3, DivMod
<1> QED
  BY <1>2, <1>4 DEF aes128ctr_publicinputs, KeyByte
-----------------------------------------------------------------------------
(* PositionAgrees with its quotient named: c refills have been encrypted.  *)
At(c) ==
  /\ pos + (RNG_OUTPUTLEN - used) = c * RNG_OUTPUTLEN
  /\ ctr = (c * BPC) % CtrMod

LEMMA PositionIsAt ==
  ASSUME TypeOK
  PROVE  PositionAgrees <=> \E c \in Nat : At(c)
<1> DEFINE total == pos + (RNG_OUTPUTLEN - used)
<1>1. total \in Nat
  BY OutputLen DEF TypeOK
<1>2. total \div RNG_OUTPUTLEN \in Nat
  BY <1>1, OutputLen, DivMod
<1>3. ASSUME NEW c \in Nat, total = c * RNG_OUTPUTLEN
      PROVE  total \div RNG_OUTPUTLEN = c
  <2>1. total = RNG_OUTPUTLEN * c + 0 /\ 0 \in 0 .. RNG_OUTPUTLEN-1
    BY <1>3, OutputLen
  <2> HIDE DEF total
  <2> QED
    BY <2>1, OutputLen, DivUnique
<1> QED
  BY <1>2, <1>3 DEF PositionAgrees, At

(* The inductive invariant: a call can only be right about what it serves  *)
(* from the buffer if the buffer is the refill its position lies in.       *)
IInv == TypeOK /\ PositionAgrees /\ BufferFresh

LEMMA InitIInv == Init => IInv
<1> SUFFICES ASSUME Init PROVE IInv
  OBVIOUS
<1>1. TypeOK
  BY OutputLen, PrngAssumption DEF Init, TypeOK, NoOutput
<1>2. At(0)
  <2>1. 0 % CtrMod = 0
    BY PrngAssumption
  <2> QED
    BY <2>1, OutputLen, PrngAssumption DEF Init, At
<1>3. BufferFresh
  BY OutputLen DEF Init, BufferFresh
<1> QED
  BY <1>1, <1>2, <1>3, PositionIsAt DEF IInv

(* The counter after m more refills.                                       *)
LEMMA CounterAdvances ==
  ASSUME NEW c \in Nat, NEW m \in Nat
  PROVE  (((c * BPC) % CtrMod) + BPC * m) % CtrMod = ((c + m) * BPC) % CtrMod
<1>1. BPC \in Nat /\ CtrMod \in Nat /\ CtrMod > 0
  BY PrngAssumption
<1>2. c * BPC \in Nat /\ BPC * m \in Nat
  BY <1>1
<1>3. (((c * BPC) % CtrMod) + BPC * m) % CtrMod = (c * BPC + BPC * m) % CtrMod
  BY <1>1, <1>2, ModAdd
<1>4. c * BPC + BPC * m = (c + m) * BPC
  BY <1>1
<1> QED
  BY <1>3, <1>4

(* A refill made at the c-th refill's counter holds the bytes from stream  *)
(* position c * RNG_OUTPUTLEN on.                                          *)
LEMMA RefillHolds ==
  ASSUME NEW c \in Nat
  PROVE  /\ Refill((c * BPC) % CtrMod) \in [0 .. RNG_OUTPUTLEN-1 -> KeyByte]
         /\ \A k \in 0 .. RNG_OUTPUTLEN-1 :
              Refill((c * BPC) % CtrMod)[k]
                = aes128ctr_publicinputs(0, c * RNG_OUTPUTLEN + k)
<1>1. c * BPC \in Nat /\ CtrMod \in Nat /\ CtrMod > 0
  BY PrngAssumption
<1>2. (c * BPC) % CtrMod \in Nat
  BY <1>1, DivMod
<1>3. \A k \in 0 .. RNG_OUTPUTLEN-1 : k \in Nat
  BY OutputLen
<1> QED
  BY <1>2, <1>3, CipherType, RefillIsStream DEF Refill

(* Every way a call can end leaves {used, ctr, buf} in one of two shapes:  *)
(* the old buffer at the same refill or drained, or a new refill partly    *)
(* consumed.  Both re-establish the invariant.                             *)
LEMMA EndsInOldBuffer ==
  ASSUME IInv, NEW c \in Nat, At(c), NEW m \in Nat, m <= RNG_OUTPUTLEN - used,
         pos' = pos + m, used' = used + m, ctr' = ctr, buf' = buf
  PROVE  PositionAgrees' /\ BufferFresh' /\ used' \in 0 .. RNG_OUTPUTLEN
<1>1. used' \in 0 .. RNG_OUTPUTLEN /\ pos' \in Nat
  BY OutputLen DEF IInv, TypeOK
<1>2. At(c)'
  BY <1>1, OutputLen DEF At, IInv, TypeOK
<1>3. PositionAgrees'
  <2> DEFINE total == pos' + (RNG_OUTPUTLEN - used')
  <2>1. total = RNG_OUTPUTLEN * c + 0 /\ 0 \in 0 .. RNG_OUTPUTLEN-1
    BY <1>2, OutputLen DEF At
  <2> HIDE DEF total
  <2>2. total \div RNG_OUTPUTLEN = c
    BY <2>1, OutputLen, DivUnique
  <2> QED
    BY <1>2, <2>2 DEF total, PositionAgrees, At
<1>4. BufferFresh'
  <2> SUFFICES ASSUME NEW k \in used' .. RNG_OUTPUTLEN-1
               PROVE  buf'[k] = aes128ctr_publicinputs(0, pos' + (k - used'))
    BY DEF BufferFresh
  <2>1. k \in used .. RNG_OUTPUTLEN-1
    BY <1>1, OutputLen DEF IInv, TypeOK
  <2>2. pos' + (k - used') = pos + (k - used)
    BY <1>1, <2>1, OutputLen DEF IInv, TypeOK
  <2> QED
    BY <2>1, <2>2 DEF IInv, BufferFresh
<1> QED
  BY <1>1, <1>3, <1>4

LEMMA EndsDrained ==
  ASSUME NEW c \in Nat, pos' = c * RNG_OUTPUTLEN, used' = RNG_OUTPUTLEN,
         ctr' = (c * BPC) % CtrMod
  PROVE  PositionAgrees' /\ BufferFresh'
<1> DEFINE total == pos' + (RNG_OUTPUTLEN - used')
<1>1. total = RNG_OUTPUTLEN * c + 0 /\ 0 \in 0 .. RNG_OUTPUTLEN-1
  BY OutputLen
<1>2. total = c * RNG_OUTPUTLEN
  BY OutputLen
<1>3. total \div RNG_OUTPUTLEN = c
  <2> HIDE DEF total
  <2> QED
    BY <1>1, OutputLen, DivUnique
<1>4. PositionAgrees'
  BY <1>2, <1>3 DEF PositionAgrees
<1>5. BufferFresh'
  BY OutputLen DEF BufferFresh
<1> QED
  BY <1>4, <1>5

LEMMA EndsInNewBuffer ==
  ASSUME NEW c \in Nat, NEW u \in 1 .. RNG_OUTPUTLEN-1,
         pos' = c * RNG_OUTPUTLEN + u, used' = u,
         ctr' = (((c * BPC) % CtrMod) + BPC) % CtrMod,
         buf' = Refill((c * BPC) % CtrMod)
  PROVE  PositionAgrees' /\ BufferFresh'
<1> DEFINE total == pos' + (RNG_OUTPUTLEN - used')
<1>1. total = (c + 1) * RNG_OUTPUTLEN
  BY OutputLen
<1>2. total = RNG_OUTPUTLEN * (c + 1) + 0 /\ 0 \in 0 .. RNG_OUTPUTLEN-1
  BY OutputLen
<1>3. total \div RNG_OUTPUTLEN = c + 1
  <2> HIDE DEF total
  <2> QED
    BY <1>2, OutputLen, DivUnique
<1>4. ctr' = ((c + 1) * BPC) % CtrMod
  <2>1. (((c * BPC) % CtrMod) + BPC * 1) % CtrMod = ((c + 1) * BPC) % CtrMod
    BY CounterAdvances
  <2>2. BPC * 1 = BPC
    BY PrngAssumption
  <2> QED
    BY <2>1, <2>2
<1>5. PositionAgrees'
  BY <1>1, <1>3, <1>4 DEF PositionAgrees
<1>6. BufferFresh'
  <2> SUFFICES ASSUME NEW k \in used' .. RNG_OUTPUTLEN-1
               PROVE  buf'[k] = aes128ctr_publicinputs(0, pos' + (k - used'))
    BY DEF BufferFresh
  <2>1. k \in 0 .. RNG_OUTPUTLEN-1
    BY OutputLen
  <2>2. pos' + (k - used') = c * RNG_OUTPUTLEN + k
    BY <2>1, OutputLen
  <2> QED
    BY <2>1, <2>2, RefillHolds
<1> QED
  BY <1>5, <1>6
-----------------------------------------------------------------------------
(* prng_gen_publicinputs keeps the invariant and delivers the stream.      *)
LEMMA GenStep ==
  ASSUME IInv, NEW n \in Nat, Gen(n)
  PROVE  /\ IInv'
         /\ out' = [p \in pos .. pos+n-1 |-> aes128ctr_publicinputs(0, p)]
<1> DEFINE avail   == RNG_OUTPUTLEN - used
           ready   == IF n <= avail THEN n ELSE avail
           rest    == n - ready
           nblocks == rest \div RNG_OUTPUTLEN
           tail    == rest % RNG_OUTPUTLEN
           ctr1    == (ctr + BPC * nblocks) % CtrMod
<1>1. n \in Nat /\ pos \in Nat /\ used \in 0 .. RNG_OUTPUTLEN
  BY PrngAssumption DEF IInv, TypeOK
<1>2. /\ avail \in Nat /\ avail = RNG_OUTPUTLEN - used
      /\ ready \in Nat /\ ready <= avail /\ ready <= n
      /\ rest \in Nat /\ n = ready + rest
      /\ rest > 0 => ready = avail
  BY <1>1, OutputLen
<1>3. /\ nblocks \in Nat /\ tail \in 0 .. RNG_OUTPUTLEN-1
      /\ rest = RNG_OUTPUTLEN * nblocks + tail
  BY <1>2, OutputLen, DivMod
<1>4. /\ pos' = pos + n
      /\ \/ tail = 0 /\ used' = used + ready /\ ctr' = ctr1 /\ buf' = buf
         \/ tail > 0 /\ used' = tail /\ ctr' = (ctr1 + BPC) % CtrMod /\ buf' = Refill(ctr1)
      /\ out' = [p \in pos .. pos+n-1 |->
                   LET i == p - pos
                   IN  IF i < ready THEN buf[used + i]
                       ELSE IF i < ready + nblocks * RNG_OUTPUTLEN
                         THEN aes128ctr_publicinputs(ctr, i - ready)
                         ELSE buf'[i - ready - nblocks * RNG_OUTPUTLEN]]
  BY DEF Gen
<1>5. PICK c \in Nat : At(c)
  BY PositionIsAt DEF IInv
<1> HIDE DEF avail, ready, rest, nblocks, tail
<1>6. ctr1 = ((c + nblocks) * BPC) % CtrMod
  BY <1>3, <1>5, CounterAdvances DEF At
<1>7. rest > 0 => pos + ready = c * RNG_OUTPUTLEN
  BY <1>1, <1>2, <1>5, OutputLen DEF At
<1>8. rest > 0 => pos' = (c + nblocks) * RNG_OUTPUTLEN + tail
  <2>1. (c + nblocks) * RNG_OUTPUTLEN = c * RNG_OUTPUTLEN + RNG_OUTPUTLEN * nblocks
    BY <1>3, OutputLen
  <2>2. c * RNG_OUTPUTLEN \in Nat /\ RNG_OUTPUTLEN * nblocks \in Nat
    BY <1>3, OutputLen
  <2> DEFINE a == c * RNG_OUTPUTLEN
             b == RNG_OUTPUTLEN * nblocks
  <2>3. a \in Nat /\ b \in Nat /\ (c + nblocks) * RNG_OUTPUTLEN = a + b
    BY <2>1, <2>2
  <2>4. rest = b + tail /\ (rest > 0 => pos + ready = a)
    BY <1>3, <1>7
  <2> HIDE DEF a, b
  <2>5. rest > 0 => pos + n = (a + b) + tail
    BY <1>1, <1>2, <1>3, <2>3, <2>4
  <2> QED
    BY <1>4, <2>3, <2>5
<1>9. rest = 0 => nblocks = 0 /\ tail = 0 /\ ctr1 = ctr
  <2>1. rest = 0 => nblocks = 0 /\ tail = 0
    BY <1>3, OutputLen
  <2>2. nblocks = 0 => c + nblocks = c
    OBVIOUS
  <2> QED
    BY <1>5, <1>6, <2>1, <2>2 DEF At
<1> HIDE DEF ctr1
<1>10. used' \in 0 .. RNG_OUTPUTLEN /\ PositionAgrees' /\ BufferFresh'
  <2>1. CASE rest = 0
    <3>1. n = ready /\ tail = 0 /\ ctr1 = ctr
      BY <1>2, <1>9, <2>1
    <3>2. pos' = pos + ready /\ used' = used + ready /\ ctr' = ctr /\ buf' = buf
      BY <1>4, <3>1
    <3>3. ready \in Nat /\ ready <= RNG_OUTPUTLEN - used
      BY <1>2
    <3> QED
      BY <1>5, <3>2, <3>3, EndsInOldBuffer
  <2>2. CASE rest > 0 /\ tail = 0
    <3>1. pos' = (c + nblocks) * RNG_OUTPUTLEN /\ used' = RNG_OUTPUTLEN
      <4>1. (c + nblocks) * RNG_OUTPUTLEN \in Nat
        BY <1>3, OutputLen
      <4> QED
        BY <1>1, <1>2, <1>4, <1>8, <2>2, <4>1, OutputLen
    <3>2. c + nblocks \in Nat /\ ctr' = ((c + nblocks) * BPC) % CtrMod
      BY <1>3, <1>4, <1>6, <2>2
    <3> QED
      BY <3>1, <3>2, EndsDrained, OutputLen
  <2>3. CASE rest > 0 /\ tail > 0
    <3>1. c + nblocks \in Nat /\ tail \in 1 .. RNG_OUTPUTLEN-1
      BY <1>3, <2>3, OutputLen
    <3>2. /\ pos' = (c + nblocks) * RNG_OUTPUTLEN + tail
          /\ used' = tail
          /\ ctr' = ((((c + nblocks) * BPC) % CtrMod) + BPC) % CtrMod
          /\ buf' = Refill(((c + nblocks) * BPC) % CtrMod)
      BY <1>3, <1>4, <1>6, <1>8, <2>3
    <3>3. PositionAgrees' /\ BufferFresh'
      BY <3>1, <3>2, EndsInNewBuffer
    <3>4. used' \in 0 .. RNG_OUTPUTLEN
      BY <3>1, <3>2, OutputLen
    <3> QED
      BY <3>3, <3>4
  <2>4. rest = 0 \/ (rest > 0 /\ tail = 0) \/ (rest > 0 /\ tail > 0)
    BY <1>2, <1>3, OutputLen
  <2> QED
    BY <2>1, <2>2, <2>3, <2>4
<1>11. \A p \in pos .. pos+n-1 : out'[p] = aes128ctr_publicinputs(0, p)
  <2> SUFFICES ASSUME NEW p \in pos .. pos+n-1
               PROVE  out'[p] = aes128ctr_publicinputs(0, p)
    OBVIOUS
  <2> DEFINE i == p - pos
  <2>1. i \in 0 .. n-1 /\ p = pos + i
    BY <1>1
  <2> HIDE DEF i
  <2>2. CASE i < ready
    <3>1. out'[p] = buf[used + i]
      BY <1>4, <2>2 DEF i
    <3>2. used + i \in used .. RNG_OUTPUTLEN-1 /\ pos + ((used + i) - used) = p
      BY <1>1, <1>2, <2>1, <2>2, OutputLen
    <3> QED
      BY <3>1, <3>2 DEF IInv, BufferFresh
  <2>3. CASE i >= ready /\ i < ready + nblocks * RNG_OUTPUTLEN
    <3>1. out'[p] = aes128ctr_publicinputs(ctr, i - ready)
      BY <1>2, <1>3, <1>4, <2>1, <2>3, OutputLen DEF i
    <3>2. rest > 0
      BY <1>2, <2>1, <2>3
    <3>3. i - ready \in Nat /\ c * RNG_OUTPUTLEN + (i - ready) = p
      BY <1>1, <1>2, <1>7, <2>1, <2>3, <3>2, OutputLen
    <3> QED
      BY <1>5, <3>1, <3>3, RefillIsStream DEF At
  <2>4. CASE i >= ready + nblocks * RNG_OUTPUTLEN
    <3> DEFINE j == i - ready - nblocks * RNG_OUTPUTLEN
    <3>1. out'[p] = buf'[j]
      <4>1. nblocks * RNG_OUTPUTLEN \in Nat
        BY <1>3, OutputLen
      <4> QED
        BY <1>2, <1>4, <2>1, <2>4, <4>1 DEF i
    <3>2. RNG_OUTPUTLEN * nblocks = nblocks * RNG_OUTPUTLEN /\ nblocks * RNG_OUTPUTLEN \in Nat
      BY <1>3, OutputLen
    <3>3. j \in 0 .. tail-1 /\ rest > 0 /\ tail > 0
      BY <1>2, <1>3, <2>1, <2>4, <3>2
    <3>4. (c + nblocks) * RNG_OUTPUTLEN + j = p
      <4>1. (c + nblocks) * RNG_OUTPUTLEN = c * RNG_OUTPUTLEN + nblocks * RNG_OUTPUTLEN
        BY <1>3, OutputLen
      <4>2. c * RNG_OUTPUTLEN \in Nat
        BY OutputLen
      <4> QED
        BY <1>1, <1>2, <1>7, <2>1, <3>2, <3>3, <4>1, <4>2
    <3>5. buf' = Refill(((c + nblocks) * BPC) % CtrMod)
      BY <1>3, <1>4, <1>6, <3>3
    <3>6. c + nblocks \in Nat /\ j \in 0 .. RNG_OUTPUTLEN-1
      BY <1>3, <3>3, OutputLen
    <3> QED
      BY <3>1, <3>4, <3>5, <3>6, RefillHolds
  <2> QED
    BY <1>2, <1>3, <2>1, <2>2, <2>3, <2>4, OutputLen
<1>12. out' = [p \in pos .. pos+n-1 |-> aes128ctr_publicinputs(0, p)]
  BY <1>4, <1>11
<1>13. TypeOK'
  <2>1. pos' \in Nat
    BY <1>1, <1>4
  <2>2. ctr' \in 0 .. CtrMod-1
    <3>1. BPC \in Nat /\ CtrMod \in Nat /\ CtrMod > 0
      BY PrngAssumption
    <3>2. (c + nblocks) * BPC \in Nat
      BY <1>3, <3>1
    <3>3. ctr1 \in 0 .. CtrMod-1
      BY <1>6, <3>1, <3>2, DivMod
    <3>4. ctr1 + BPC \in Nat
      BY <3>1, <3>3
    <3> QED
      BY <1>4, <3>1, <3>3, <3>4, DivMod
  <2>3. buf' \in [0 .. RNG_OUTPUTLEN-1 -> KeyByte \cup {Uninit}]
    <3>1. Refill(((c + nblocks) * BPC) % CtrMod) \in [0 .. RNG_OUTPUTLEN-1 -> KeyByte]
      BY <1>3, RefillHolds
    <3> QED
      BY <1>4, <1>6, <3>1 DEF IInv, TypeOK
  <2>4. out' \in [DOMAIN out' -> KeyByte \cup {Uninit}]
    <3>1. \A p \in pos .. pos+n-1 : p \in Nat
      BY <1>1
    <3> QED
      BY <1>12, <3>1, CipherType
  <2> QED
    BY <1>10, <2>1, <2>2, <2>3, <2>4 DEF TypeOK
<1> QED
  BY <1>10, <1>12, <1>13 DEF IInv

(* prng_skip_publicinputs keeps the invariant and delivers nothing.        *)
LEMMA SkipStep ==
  ASSUME IInv, NEW n \in Nat, Skip(n)
  PROVE  IInv'
<1>1. /\ n \in Nat /\ pos \in Nat /\ used \in 0 .. RNG_OUTPUTLEN
      /\ pos' = pos + n
  BY PrngAssumption DEF IInv, TypeOK, Skip
<1>2. PICK c \in Nat : At(c)
  BY PositionIsAt DEF IInv
<1>3. TypeOK' /\ PositionAgrees' /\ BufferFresh'
  <2>1. CASE SkipInBuffer(n)
    <3>1. n <= RNG_OUTPUTLEN - used /\ used' = used + n /\ ctr' = ctr /\ buf' = buf
      BY <1>1, <2>1, OutputLen DEF SkipInBuffer
    <3>2. used' \in 0 .. RNG_OUTPUTLEN /\ PositionAgrees' /\ BufferFresh'
      BY <1>1, <1>2, <3>1, EndsInOldBuffer
    <3>3. TypeOK'
      BY <1>1, <3>1, <3>2 DEF IInv, TypeOK, Skip, NoOutput
    <3> QED
      BY <3>2, <3>3
  <2>2. CASE SkipAhead(n)
    <3> DEFINE beyond == n - (RNG_OUTPUTLEN - used)
               m      == beyond \div RNG_OUTPUTLEN
               rem    == beyond % RNG_OUTPUTLEN
               ctr1   == (ctr + BPC * m) % CtrMod
    <3>1. used + n > RNG_OUTPUTLEN
      BY <2>2 DEF SkipAhead
    <3>2. beyond \in Nat /\ pos' = (pos + (RNG_OUTPUTLEN - used)) + beyond
      BY <1>1, <3>1, OutputLen
    <3>3. /\ m \in Nat /\ rem \in 0 .. RNG_OUTPUTLEN-1
          /\ beyond = RNG_OUTPUTLEN * m + rem
      BY <3>2, OutputLen, DivMod
    <3>4. \/ rem # 0 /\ used' = rem /\ buf' = Refill(ctr1) /\ ctr' = (ctr1 + BPC) % CtrMod
          \/ rem = 0 /\ used' = RNG_OUTPUTLEN /\ ctr' = ctr1 /\ buf' = buf
      BY <2>2 DEF SkipAhead
    <3> HIDE DEF beyond, m, rem
    <3>5. ctr1 = ((c + m) * BPC) % CtrMod
      BY <1>2, <3>3, CounterAdvances DEF At
    <3> HIDE DEF ctr1
    <3>6. c + m \in Nat /\ pos' = (c + m) * RNG_OUTPUTLEN + rem
      <4> DEFINE a == c * RNG_OUTPUTLEN
                 b == RNG_OUTPUTLEN * m
      <4>1. a \in Nat /\ b \in Nat /\ (c + m) * RNG_OUTPUTLEN = a + b
        BY <3>3, OutputLen
      <4>2. pos' = a + beyond /\ beyond = b + rem
        BY <1>2, <3>2, <3>3 DEF At
      <4> HIDE DEF a, b
      <4>3. pos' = (a + b) + rem
        BY <3>3, <4>1, <4>2
      <4> QED
        BY <3>3, <4>1, <4>3
    <3>7. PositionAgrees' /\ BufferFresh'
      <4>1. CASE rem = 0
        <5>1. pos' = (c + m) * RNG_OUTPUTLEN
          <6>1. (c + m) * RNG_OUTPUTLEN \in Nat
            BY <3>6, OutputLen
          <6> QED
            BY <3>6, <4>1, <6>1
        <5> QED
          BY <3>4, <3>5, <3>6, <4>1, <5>1, EndsDrained
      <4>2. CASE rem # 0
        <5>1. rem \in 1 .. RNG_OUTPUTLEN-1
          BY <3>3, <4>2, OutputLen
        <5>2. /\ used' = rem
              /\ ctr' = ((((c + m) * BPC) % CtrMod) + BPC) % CtrMod
              /\ buf' = Refill(((c + m) * BPC) % CtrMod)
          BY <3>4, <3>5, <4>2
        <5> QED
          BY <3>6, <5>1, <5>2, EndsInNewBuffer
      <4> QED
        BY <4>1, <4>2
    <3>8. TypeOK'
      <4>1. used' \in 0 .. RNG_OUTPUTLEN /\ pos' \in Nat
        BY <1>1, <3>3, <3>4, OutputLen
      <4>2. ctr' \in 0 .. CtrMod-1
        <5>1. BPC \in Nat /\ CtrMod \in Nat /\ CtrMod > 0
          BY PrngAssumption
        <5>2. (c + m) * BPC \in Nat
          BY <3>6, <5>1
        <5>3. ctr1 \in 0 .. CtrMod-1
          BY <3>5, <5>1, <5>2, DivMod
        <5>4. ctr1 + BPC \in Nat
          BY <5>1, <5>3
        <5> QED
          BY <3>4, <5>1, <5>3, <5>4, DivMod
      <4>3. buf' \in [0 .. RNG_OUTPUTLEN-1 -> KeyByte \cup {Uninit}]
        <5>1. Refill(((c + m) * BPC) % CtrMod) \in [0 .. RNG_OUTPUTLEN-1 -> KeyByte]
          BY <3>6, RefillHolds
        <5> QED
          BY <3>4, <3>5, <5>1 DEF IInv, TypeOK
      <4>4. out' \in [DOMAIN out' -> KeyByte \cup {Uninit}]
        BY DEF Skip, NoOutput
      <4> QED
        BY <4>1, <4>2, <4>3, <4>4 DEF TypeOK
    <3> QED
      BY <3>7, <3>8
  <2> QED
    BY <2>1, <2>2 DEF Skip
<1> QED
  BY <1>3 DEF IInv
-----------------------------------------------------------------------------
LEMMA StepIInv == IInv /\ [Next]_vars => IInv'
<1> SUFFICES ASSUME IInv, [Next]_vars PROVE IInv'
  OBVIOUS
<1>1. ASSUME NEW n \in Lens, Gen(n) PROVE IInv'
  BY <1>1, GenStep, PrngAssumption
<1>2. ASSUME NEW n \in Lens, Skip(n) PROVE IInv'
  BY <1>2, SkipStep, PrngAssumption
<1>3. CASE UNCHANGED vars
  BY <1>3 DEF vars, IInv, TypeOK, PositionAgrees, BufferFresh
<1> QED
  BY <1>1, <1>2, <1>3 DEF Next

(* For every block size, refill size and counter width, in every state     *)
(* {used, ctr} determine the stream position and the unread bytes of the   *)
(* buffer are the bytes of the stream at that position.                    *)
THEOREM PrngInvariant == Spec => [](TypeOK /\ PositionAgrees /\ BufferFresh)
<1>1. Spec => []IInv
  BY InitIInv, StepIInv, PTL DEF Spec
<1> QED
  BY <1>1, PTL DEF IInv

(* The counter stays a 32-bit word, the number of used bytes that of a     *)
(* buffer, and what is in the buffer and what is handed out is a byte of   *)
(* the cipher's, or of a buffer that was never filled.                     *)
THEOREM PrngTypeOK == Spec => []TypeOK
<1>1. TypeOK /\ PositionAgrees /\ BufferFresh => TypeOK
  OBVIOUS
<1> QED
  BY <1>1, PrngInvariant, PTL

(* {used, ctr} determine the position in the stream, which the code does   *)
(* not store, whatever was generated and skipped before.                   *)
THEOREM PrngPositionAgrees == Spec => []PositionAgrees
<1>1. TypeOK /\ PositionAgrees /\ BufferFresh => PositionAgrees
  OBVIOUS
<1> QED
  BY <1>1, PrngInvariant, PTL

(* Every call of prng_gen_publicinputs and prng_skip_publicinputs, in      *)
(* whatever sequence, implements a step of the abstract stream: what the   *)
(* callers see does not depend on how their requests were cut.             *)
THEOREM PrngImplementsStream == Spec => StreamSpec
<1>1. \A p \in Nat : Stream!StreamByte(p) = aes128ctr_publicinputs(0, p)
  <2>1. \A p \in Nat : 0 + (p \div BLOCK) = p \div BLOCK
    BY PrngAssumption, DivMod
  <2> QED
    BY <2>1 DEF Stream!StreamByte, aes128ctr_publicinputs
<1>2. Init => Stream!SInit
  BY DEF Init, Stream!SInit, NoOutput
<1>3. ASSUME IInv, [Next]_vars PROVE [Stream!SNext]_<<pos, out>>
  <2>1. ASSUME NEW n \in Lens, Gen(n) PROVE Stream!SGen(n)
    <3>1. \A p \in pos .. pos+n-1 : p \in Nat
      BY <1>3, PrngAssumption DEF IInv, TypeOK
    <3>2. out' = [p \in pos .. pos+n-1 |-> aes128ctr_publicinputs(0, p)]
      BY <1>3, <2>1, GenStep, PrngAssumption
    <3>3. out' = [p \in pos .. pos+n-1 |-> Stream!StreamByte(p)]
      BY <1>1, <3>1, <3>2
    <3> QED
      BY <2>1, <3>3 DEF Gen, Stream!SGen
  <2>2. ASSUME NEW n \in Lens, Skip(n) PROVE Stream!SSkip(n)
    BY <2>2 DEF Skip, NoOutput, Stream!SSkip
  <2>3. CASE UNCHANGED vars
    BY <2>3 DEF vars
  <2> QED
    BY <1>3, <2>1, <2>2, <2>3 DEF Next, Stream!SNext
<1>4. Spec => []IInv
  BY InitIInv, StepIInv, PTL DEF Spec
<1> QED
  BY <1>2, <1>3, <1>4, PTL DEF Spec, StreamSpec, Stream!SSpec, Stream!svars

-----------------------------------------------------------------------------
(* The triangle of P1 and the rows of P2.                                  *)

A(i) == i * V - (i * (i - 1)) \div 2

LEMMA Even ==
  ASSUME NEW i \in Nat
  PROVE  /\ (i * (i - 1)) \div 2 \in Nat
         /\ 2 * ((i * (i - 1)) \div 2) = i * (i - 1)
<1> DEFINE q == i \div 2
           r == i % 2
<1>1. q \in Nat /\ r \in 0 .. 1 /\ i = 2 * q + r
  BY DivMod
<1> HIDE DEF q, r
<1>2. CASE r = 0
  <2> DEFINE h == q * (2 * q - 1)
  <2>1. h \in Nat
    <3>1. CASE q = 0
      BY <3>1
    <3>2. CASE q > 0
      <4>1. 2 * q - 1 \in Nat
        BY <1>1, <3>2
      <4>2. QED
        BY <1>1, <4>1
    <3>3. QED
      BY <1>1, <3>1, <3>2
  <2>2. i * (i - 1) = 2 * h + 0
    BY <1>1, <1>2
  <2> HIDE DEF h
  <2>3. (2 * h + 0) \div 2 = h
    BY <2>1, DivUnique
  <2>4. QED
    BY <2>1, <2>2, <2>3
<1>3. CASE r = 1
  <2> DEFINE h == q * (2 * q + 1)
  <2>1. h \in Nat
    BY <1>1
  <2>2. i * (i - 1) = 2 * h + 0
    BY <1>1, <1>3
  <2> HIDE DEF h
  <2>3. (2 * h + 0) \div 2 = h
    BY <2>1, DivUnique
  <2>4. QED
    BY <2>1, <2>2, <2>3
<1>4. QED
  BY <1>1, <1>2, <1>3

LEMMA TwiceA ==
  ASSUME NEW i \in 0 .. V
  PROVE  A(i) \in Nat /\ 2 * A(i) = i * (2 * V - i + 1)
<1> DEFINE t == (i * (i - 1)) \div 2
<1>1. V \in Nat /\ i \in Nat /\ i <= V
  BY ExpandAssumption
<1>2. t \in Nat /\ 2 * t = i * (i - 1)
  BY <1>1, Even
<1> HIDE DEF t
<1>3. A(i) = i * V - t
  BY DEF A, t
<1> DEFINE iV == i * V
           ii == i * i
<1>4. iV \in Nat /\ ii \in Nat /\ ii <= iV /\ i * (i - 1) = ii - i
      /\ i * (2 * V - i + 1) = 2 * iV - ii + i
  BY <1>1
<1>5. A(i) = iV - t
  BY <1>3
<1> HIDE DEF iV, ii
<1>6. 2 * (iV - t) = 2 * iV - ii + i
  BY <1>1, <1>2, <1>4
<1>7. iV - t \in Nat
  BY <1>1, <1>2, <1>4, <1>6
<1>8. QED
  BY <1>4, <1>5, <1>6, <1>7

LEMMA ANext == 
  ASSUME NEW i \in 0 .. V - 1
  PROVE  A(i + 1) = A(i) + (V - i)
<1>1. V \in Nat /\ i \in 0 .. V /\ i + 1 \in 0 .. V /\ i \in Nat
  BY ExpandAssumption
<1>2. A(i) \in Nat /\ 2 * A(i) = i * (2 * V - i + 1)
  BY <1>1, TwiceA
<1>3. A(i + 1) \in Nat /\ 2 * A(i + 1) = (i + 1) * (2 * V - (i + 1) + 1)
  BY <1>1, TwiceA
<1> DEFINE iV == i * V
           ii == i * i
           a == A(i)
           b == A(i + 1)
<1>4. iV \in Nat /\ ii \in Nat /\ i * (2 * V - i + 1) = 2 * iV - ii + i
      /\ (i + 1) * (2 * V - (i + 1) + 1) = 2 * iV - ii - i + 2 * V
  BY <1>1
<1>5. a \in Nat /\ b \in Nat /\ 2 * a = 2 * iV - ii + i /\ 2 * b = 2 * iV - ii - i + 2 * V
  BY <1>2, <1>3, <1>4
<1> HIDE DEF iV, ii, a, b
<1>6. b = a + (V - i)
  BY <1>1, <1>4, <1>5
<1>7. QED
  BY <1>6 DEF a, b

LEMMA AMonotonic ==
  ASSUME NEW i \in 0 .. V, NEW j \in 0 .. V, i <= j
  PROVE  A(i) <= A(j)
<1>1. V \in Nat /\ i \in Nat /\ j \in Nat /\ i <= V /\ j <= V
  BY ExpandAssumption
<1> DEFINE d == j - i
           e == 2 * V - i - j + 1
           a == A(i)
           b == A(j)
<1>2. d \in Nat /\ e \in Nat
  BY <1>1
<1>3. d * e \in Nat
  BY <1>2
<1>4. d * e = j * (2 * V - j + 1) - i * (2 * V - i + 1)
  BY <1>1
<1>5. a \in Nat /\ b \in Nat /\ 2 * a = i * (2 * V - i + 1) /\ 2 * b = j * (2 * V - j + 1)
  BY TwiceA
<1> DEFINE x == i * (2 * V - i + 1)
           y == j * (2 * V - j + 1)
           z == d * e
<1>6. z \in Nat /\ z = y - x /\ 2 * a = x /\ 2 * b = y /\ a \in Nat /\ b \in Nat
      /\ x \in Int /\ y \in Int
  BY <1>1, <1>3, <1>4, <1>5
<1> HIDE DEF d, e, a, b, x, y, z
<1>7. a <= b
  BY <1>6
<1>8. QED
  BY <1>7 DEF a, b

(* The rows of P1 lie one behind the other and fill it.                    *)
LEMMA P1Layout ==
  /\ PK_P1_BYTE \in Nat /\ P1At(0) = 0 /\ P1At(V) = PK_P1_BYTE
  /\ \A i \in 0 .. V : P1At(i) \in Nat
  /\ \A i \in Row : P1Row(i) \in Nat /\ P1At(i + 1) = P1At(i) + P1Row(i)
  /\ \A i, j \in 0 .. V : i <= j => P1At(i) <= P1At(j)
<1>1. V \in Nat /\ O_BYTE \in Nat /\ V > 0 /\ O_BYTE > 0
  BY ExpandAssumption
<1>2. \A i \in 0 .. V : P1At(i) = O_BYTE * A(i)
  BY DEF P1At, A
<1>3. \A i \in 0 .. V : A(i) \in Nat
  BY TwiceA
<1>4. \A i \in 0 .. V : P1At(i) \in Nat
  BY <1>1, <1>2, <1>3
<1>5. ASSUME NEW i \in Row
      PROVE  P1Row(i) \in Nat /\ P1At(i + 1) = P1At(i) + P1Row(i)
  <2>1. i \in 0 .. V - 1 /\ i \in 0 .. V /\ i + 1 \in 0 .. V /\ V - i \in Nat
    BY <1>1 DEF Row
  <2>2. A(i + 1) = A(i) + (V - i)
    BY <2>1, ANext
  <2> DEFINE a == A(i)
             w == V - i
  <2>3. a \in Nat /\ w \in Nat
    BY <1>3, <2>1
  <2>4. P1At(i + 1) = O_BYTE * (a + w) /\ P1At(i) = O_BYTE * a /\ P1Row(i) = O_BYTE * w
    BY <1>2, <2>1, <2>2 DEF P1Row
  <2> HIDE DEF a, w
  <2>5. QED
    BY <1>1, <2>3, <2>4
<1>6. ASSUME NEW i \in 0 .. V, NEW j \in 0 .. V, i <= j
      PROVE  P1At(i) <= P1At(j)
  <2> DEFINE a == A(i)
             b == A(j)
  <2>1. a \in Nat /\ b \in Nat /\ a <= b /\ P1At(i) = O_BYTE * a /\ P1At(j) = O_BYTE * b
    BY <1>2, <1>3, <1>6, AMonotonic
  <2> HIDE DEF a, b
  <2>2. QED
    BY <1>1, <2>1
<1>7. P1At(0) = 0
  <2>1. 0 \in 0 .. V
    BY <1>1
  <2>2. A(0) \in Nat /\ 2 * A(0) = 0 * (2 * V - 0 + 1)
    BY <2>1, TwiceA
  <2>3. A(0) = 0
    BY <1>1, <2>2
  <2>4. QED
    BY <1>1, <1>2, <2>1, <2>3
<1>8. P1At(V) = PK_P1_BYTE
  <2> DEFINE a == A(V)
             h == O_BYTE * a
  <2>1. V \in 0 .. V
    BY <1>1
  <2>2. a \in Nat /\ 2 * a = V * (2 * V - V + 1)
    BY <2>1, TwiceA
  <2>3. 2 * V - V + 1 = V + 1
    BY <1>1
  <2>4. 2 * a = V * (V + 1)
    BY <2>2, <2>3
  <2> HIDE DEF a
  <2>5. h \in Nat /\ O_BYTE * V * (V + 1) = 2 * h + 0
    <3> DEFINE p == V * (V + 1)
    <3>1. p \in Nat /\ O_BYTE * V * (V + 1) = O_BYTE * p
      BY <1>1
    <3> HIDE DEF p
    <3>2. 2 * a = p
      BY <2>4 DEF p
    <3>3. QED
      BY <1>1, <2>2, <3>1, <3>2
  <2>6. P1At(V) = h
    BY <1>2, <2>1 DEF a
  <2> HIDE DEF h
  <2>7. (2 * h + 0) \div 2 = h
    BY <2>5, DivUnique
  <2>8. QED
    BY <2>5, <2>6, <2>7 DEF PK_P1_BYTE
<1>9. PK_P1_BYTE \in Nat
  <2>1. V \in 0 .. V
    BY <1>1
  <2>2. QED
    BY <1>4, <1>8, <2>1
<1>10. QED
  BY <1>4, <1>5, <1>6, <1>7, <1>8, <1>9

(* So do the rows of P2, behind P1.                                        *)
LEMMA P2Layout ==
  /\ PK_P2_BYTE \in Nat /\ P2Row \in Nat
  /\ P2At(0) = PK_P1_BYTE /\ P2At(V) = PK_P1_BYTE + PK_P2_BYTE
  /\ \A i \in 0 .. V : P2At(i) \in Nat
  /\ \A i \in Row : P2At(i + 1) = P2At(i) + P2Row
  /\ \A i, j \in 0 .. V : i <= j => P2At(i) <= P2At(j)
<1>1. V \in Nat /\ O \in Nat /\ O_BYTE \in Nat /\ PK_P1_BYTE \in Nat
  BY ExpandAssumption, P1Layout
<1>2. P2Row \in Nat
  BY <1>1 DEF P2Row
<1>3. PK_P2_BYTE \in Nat /\ PK_P2_BYTE = V * P2Row
  BY <1>1 DEF PK_P2_BYTE, P2Row
<1>4. \A i \in 0 .. V : i * P2Row \in Nat
  BY <1>1, <1>2
<1>5. \A i \in 0 .. V : P2At(i) \in Nat
  BY <1>1, <1>2, <1>4 DEF P2At
<1>6. ASSUME NEW i \in Row
      PROVE  P2At(i + 1) = P2At(i) + P2Row
  <2>1. i \in Nat /\ (i + 1) * P2Row = i * P2Row + P2Row
    BY <1>1, <1>2 DEF Row
  <2>2. i * P2Row \in Nat
    BY <1>2, <2>1
  <2>3. QED
    BY <1>1, <1>2, <2>1, <2>2 DEF P2At
<1>7. ASSUME NEW i \in 0 .. V, NEW j \in 0 .. V, i <= j
      PROVE  P2At(i) <= P2At(j)
  <2>1. i * P2Row <= j * P2Row /\ i * P2Row \in Nat /\ j * P2Row \in Nat
    BY <1>1, <1>2, <1>7
  <2>2. QED
    BY <1>1, <2>1 DEF P2At
<1>8. P2At(0) = PK_P1_BYTE
  BY <1>1, <1>2 DEF P2At
<1>9. P2At(V) = PK_P1_BYTE + PK_P2_BYTE
  BY <1>3 DEF P2At
<1>10. QED
  BY <1>2, <1>3, <1>5, <1>6, <1>7, <1>8, <1>9

-----------------------------------------------------------------------------
(* The requests of the reader that skips, from the k-th on, and where its  *)
(* k-th request writes.                                                    *)

RowOf(k) == IF k <= V THEN k - 1 ELSE k - 1 - V
RowAt(k) == IF k <= V THEN P1At(k - 1) ELSE P2At(k - 1 - V)
LenOf(k) == IF k <= V THEN P1Row(k - 1) ELSE P2Row
RequestOf(pred, k) == Request(pred[RowOf(k)], LenOf(k))
Left(pred, k) == [j \in 1 .. 2 * V + 1 - k |-> RequestOf(pred, k + j - 1)]

Requests == [gen : BOOLEAN, len : Nat]

LEMMA RowFacts ==
  /\ V \in Nat /\ V > 0
  /\ \A k \in 1 .. 2 * V : RowOf(k) \in Row /\ LenOf(k) \in Nat
  /\ \A k \in 1 .. 2 * V : RowAt(k + 1) = RowAt(k) + LenOf(k)
  /\ \A k \in 1 .. 2 * V + 1 : RowAt(k) \in Nat
  /\ RowAt(1) = 0 /\ RowAt(2 * V + 1) = PK_P1_BYTE + PK_P2_BYTE
<1>1. V \in Nat /\ V > 0
  BY ExpandAssumption
<1>2. ASSUME NEW k \in 1 .. 2 * V
      PROVE  RowOf(k) \in Row /\ LenOf(k) \in Nat /\ RowAt(k + 1) = RowAt(k) + LenOf(k)
  <2>1. CASE k < V
    <3>1. k - 1 \in Row /\ (k - 1) + 1 = k /\ k + 1 <= V /\ (k + 1) - 1 = k /\ k <= V
      BY <1>1, <2>1 DEF Row
    <3>2. RowAt(k + 1) = P1At(k) /\ RowAt(k) = P1At(k - 1)
      BY <3>1 DEF RowAt
    <3>3. P1At((k - 1) + 1) = P1At(k - 1) + P1Row(k - 1) /\ P1Row(k - 1) \in Nat
      BY <3>1, P1Layout
    <3>4. QED
      BY <3>1, <3>2, <3>3 DEF RowOf, LenOf
  <2>2. CASE k = V
    <3>1. k - 1 \in Row /\ (k - 1) + 1 = V /\ ~(k + 1 <= V) /\ (k + 1) - 1 - V = 0 /\ k <= V
      BY <1>1, <2>2 DEF Row
    <3>2. RowAt(k + 1) = P2At(0) /\ RowAt(k) = P1At(k - 1)
      BY <3>1 DEF RowAt
    <3>3. P1At((k - 1) + 1) = P1At(k - 1) + P1Row(k - 1) /\ P1Row(k - 1) \in Nat
      BY <3>1, P1Layout
    <3>4. P2At(0) = P1At((k - 1) + 1)
      BY <3>1, P1Layout, P2Layout
    <3>5. QED
      BY <3>1, <3>2, <3>3, <3>4 DEF RowOf, LenOf
  <2>3. CASE k > V
    <3>1. k - 1 - V \in Row /\ ~(k + 1 <= V) /\ (k + 1) - 1 - V = (k - 1 - V) + 1 /\ ~(k <= V)
      BY <1>1, <2>3 DEF Row
    <3>2. RowAt(k + 1) = P2At((k - 1 - V) + 1) /\ RowAt(k) = P2At(k - 1 - V)
      BY <3>1 DEF RowAt
    <3>3. P2At((k - 1 - V) + 1) = P2At(k - 1 - V) + P2Row /\ P2Row \in Nat
      BY <3>1, P2Layout
    <3>4. QED
      BY <3>1, <3>2, <3>3 DEF RowOf, LenOf
  <2>4. QED
    BY <1>1, <2>1, <2>2, <2>3
<1>3. ASSUME NEW k \in 1 .. 2 * V + 1
      PROVE  RowAt(k) \in Nat
  <2>1. CASE k <= V
    <3>1. k - 1 \in 0 .. V
      BY <1>1, <2>1
    <3>2. QED
      BY <2>1, <3>1, P1Layout DEF RowAt
  <2>2. CASE k > V
    <3>1. k - 1 - V \in 0 .. V /\ ~(k <= V)
      BY <1>1, <2>2
    <3>2. QED
      BY <3>1, P2Layout DEF RowAt
  <2>3. QED
    BY <1>1, <2>1, <2>2
<1>4. RowAt(1) = 0
  BY <1>1, P1Layout DEF RowAt
<1>5. RowAt(2 * V + 1) = PK_P1_BYTE + PK_P2_BYTE
  <2>1. ~(2 * V + 1 <= V) /\ (2 * V + 1) - 1 - V = V
    BY <1>1
  <2>2. QED
    BY <2>1, P2Layout DEF RowAt
<1>6. QED
  BY <1>1, <1>2, <1>3, <1>4, <1>5

LEMMA FunctionIsASequence ==
  ASSUME NEW S, NEW n \in Nat, NEW f \in [1 .. n -> S]
  PROVE  f \in Seq(S) /\ Len(f) = n
BY SeqDef

LEMMA LeftIsSeq ==
  ASSUME NEW pred \in [Row -> BOOLEAN], NEW k \in 1 .. 2 * V + 1
  PROVE  /\ Left(pred, k) \in Seq(Requests)
         /\ Len(Left(pred, k)) = 2 * V + 1 - k
<1>1. 2 * V + 1 - k \in Nat
  BY RowFacts
<1>2. ASSUME NEW j \in 1 .. 2 * V + 1 - k
      PROVE  RequestOf(pred, k + j - 1) \in Requests
  <2>1. k + j - 1 \in 1 .. 2 * V
    BY RowFacts
  <2>2. RowOf(k + j - 1) \in Row /\ LenOf(k + j - 1) \in Nat
    BY <2>1, RowFacts
  <2>3. pred[RowOf(k + j - 1)] \in BOOLEAN
    BY <2>2
  <2>4. QED
    BY <2>2, <2>3 DEF RequestOf, Request, Requests
<1>3. Left(pred, k) \in [1 .. 2 * V + 1 - k -> Requests]
  BY <1>2 DEF Left
<1>4. QED
  BY <1>1, <1>3, FunctionIsASequence

LEMMA LeftSteps ==
  ASSUME NEW pred \in [Row -> BOOLEAN], NEW k \in 1 .. 2 * V
  PROVE  /\ Head(Left(pred, k)) = RequestOf(pred, k)
         /\ Tail(Left(pred, k)) = Left(pred, k + 1)
<1>1. k \in 1 .. 2 * V + 1 /\ k + 1 \in 1 .. 2 * V + 1 /\ V \in Nat
  BY RowFacts
<1> DEFINE s == Left(pred, k)
           t == Left(pred, k + 1)
<1>2. s \in Seq(Requests) /\ Len(s) = 2 * V + 1 - k
  BY <1>1, LeftIsSeq
<1>3. t \in Seq(Requests) /\ Len(t) = 2 * V + 1 - (k + 1)
  BY <1>1, LeftIsSeq
<1>4. \A j \in 1 .. 2 * V + 1 - k : s[j] = RequestOf(pred, k + j - 1)
  BY DEF Left
<1>5. \A j \in 1 .. 2 * V + 1 - (k + 1) : t[j] = RequestOf(pred, k + 1 + j - 1)
  BY DEF Left
<1> HIDE DEF s, t
<1>6. s # <<>>
  BY <1>1, <1>2, EmptySeq
<1>7. Head(s) = s[1]
  BY <1>2, <1>6
<1>8. s[1] = RequestOf(pred, k)
  <2>1. 1 \in 1 .. 2 * V + 1 - k /\ k + 1 - 1 = k
    BY <1>1
  <2>2. QED
    BY <1>4, <2>1
<1>9. /\ Tail(s) \in Seq(Requests) /\ Len(Tail(s)) = Len(s) - 1
      /\ \A j \in 1 .. Len(Tail(s)) : Tail(s)[j] = s[j + 1]
  BY <1>2, <1>6, HeadTailProperties
<1>10. Len(Tail(s)) = Len(t)
  BY <1>1, <1>2, <1>3, <1>9
<1>11. ASSUME NEW j \in 1 .. Len(Tail(s))
       PROVE  Tail(s)[j] = t[j]
  <2>1. /\ j \in 1 .. 2 * V + 1 - (k + 1) /\ j + 1 \in 1 .. 2 * V + 1 - k
        /\ k + (j + 1) - 1 = k + 1 + j - 1
    BY <1>1, <1>3, <1>10
  <2>2. Tail(s)[j] = s[j + 1]
    BY <1>9
  <2>3. QED
    BY <1>4, <1>5, <2>1, <2>2
<1>12. Tail(s) = t
  BY <1>3, <1>9, <1>10, <1>11, SeqEqual
<1>13. QED
  BY <1>7, <1>8, <1>12 DEF s, t

LEMMA LeftEnds ==
  ASSUME NEW pred \in [Row -> BOOLEAN], NEW k \in 1 .. 2 * V + 1
  PROVE  Left(pred, k) = <<>> <=> k = 2 * V + 1
<1>1. Left(pred, k) \in Seq(Requests) /\ Len(Left(pred, k)) = 2 * V + 1 - k
  BY LeftIsSeq
<1>2. QED
  BY <1>1, EmptySeq, RowFacts

LEMMA PredicateIsLeft ==
  ASSUME NEW pred \in [Row -> BOOLEAN]
  PROVE  expand_pk_predicate(pred) = Left(pred, 1)
<1> DEFINE f == [k \in 1..V |-> Request(pred[k-1], P1Row(k-1))]
           g == [k \in 1..V |-> Request(pred[k-1], P2Row)]
           s == Left(pred, 1)
<1>1. V \in Nat /\ 1 \in 1 .. 2 * V + 1
  BY RowFacts
<1>2. s \in Seq(Requests) /\ Len(s) = 2 * V
  BY <1>1, LeftIsSeq
<1>3. \A k \in 1 .. 2 * V : s[k] = RequestOf(pred, k)
  <2>1. \A k \in 1 .. 2 * V + 1 - 1 : s[k] = RequestOf(pred, 1 + k - 1)
    BY DEF Left
  <2>2. \A k \in 1 .. 2 * V : 1 + k - 1 = k /\ k \in 1 .. 2 * V + 1 - 1
    BY <1>1
  <2>3. QED
    BY <2>1, <2>2
<1>4. \A k \in 1 .. V : k - 1 \in Row
  BY <1>1 DEF Row
<1>5. f \in Seq(Requests) /\ Len(f) = V
  <2>1. \A k \in 1 .. V : P1Row(k-1) \in Nat /\ pred[k-1] \in BOOLEAN
    BY <1>4, P1Layout
  <2>2. f \in [1 .. V -> Requests]
    BY <2>1 DEF Request, Requests
  <2>3. QED
    BY <1>1, <2>2, FunctionIsASequence
<1>6. g \in Seq(Requests) /\ Len(g) = V
  <2>1. \A k \in 1 .. V : P2Row \in Nat /\ pred[k-1] \in BOOLEAN
    BY <1>4, P2Layout
  <2>2. g \in [1 .. V -> Requests]
    BY <2>1 DEF Request, Requests
  <2>3. QED
    BY <1>1, <2>2, FunctionIsASequence
<1>7. /\ \A k \in 1 .. V : f[k] = Request(pred[k-1], P1Row(k-1))
      /\ \A k \in 1 .. V : g[k] = Request(pred[k-1], P2Row)
  OBVIOUS
<1>8. expand_pk_predicate(pred) = f \o g
  BY DEF expand_pk_predicate
<1> HIDE DEF f, g, s
<1>9. /\ f \o g \in Seq(Requests) /\ Len(f \o g) = V + V
      /\ \A k \in 1 .. V + V : (f \o g)[k] = IF k <= V THEN f[k] ELSE g[k - V]
  <2>1. /\ f \o g \in Seq(Requests) /\ Len(f \o g) = Len(f) + Len(g)
        /\ \A k \in 1 .. Len(f) + Len(g) :
             (f \o g)[k] = IF k <= Len(f) THEN f[k] ELSE g[k - Len(f)]
    BY <1>5, <1>6, ConcatProperties
  <2>2. QED
    BY <1>5, <1>6, <2>1
<1>10. ASSUME NEW k \in 1 .. Len(s)
       PROVE  s[k] = (f \o g)[k]
  <2>1. k \in 1 .. 2 * V /\ k \in 1 .. V + V
    BY <1>1, <1>2
  <2>2. CASE k <= V
    <3>1. k \in 1 .. V
      BY <2>1, <2>2
    <3>2. (f \o g)[k] = Request(pred[k-1], P1Row(k-1))
      BY <1>7, <1>9, <2>1, <2>2, <3>1
    <3>3. QED
      BY <1>3, <2>1, <2>2, <3>2 DEF RequestOf, RowOf, LenOf
  <2>3. CASE k > V
    <3>1. k - V \in 1 .. V /\ ~(k <= V) /\ k - V - 1 = k - 1 - V
      BY <1>1, <2>1, <2>3
    <3>2. (f \o g)[k] = Request(pred[k - V - 1], P2Row)
      BY <1>7, <1>9, <2>1, <3>1
    <3>3. QED
      BY <1>3, <2>1, <3>1, <3>2 DEF RequestOf, RowOf, LenOf
  <2>4. k <= V \/ k > V
    BY <1>1, <2>1
  <2>5. QED
    BY <2>2, <2>3, <2>4
<1>11. Len(s) = Len(f \o g)
  BY <1>1, <1>2, <1>9
<1>12. QED
  BY <1>2, <1>8, <1>9, <1>10, <1>11, SeqEqual DEF s

-----------------------------------------------------------------------------
(* The invariant of a reader.                                              *)

Pending ==
  \/ todo = <<>> /\ addr = PK_P1_BYTE + PK_P2_BYTE
  \/ todo = << Request(TRUE, PK_P1_BYTE + PK_P2_BYTE) >> /\ addr = 0
  \/ todo = << Request(TRUE, PK_P1_BYTE), Request(TRUE, PK_P2_BYTE) >> /\ addr = 0
  \/ todo = << Request(TRUE, PK_P2_BYTE) >> /\ addr = PK_P1_BYTE
  \/ \E k \in 1 .. 2 * V + 1 : todo = Left(predicate, k) /\ addr = RowAt(k)

InRow(i, a) ==
  \/ a \in P1At(i) .. P1At(i) + P1Row(i) - 1
  \/ a \in P2At(i) .. P2At(i) + P2Row - 1

(* What is needed and lies behind has been written.                        *)
Written ==
  \A i \in Row, a \in Nat : predicate[i] /\ InRow(i, a) /\ a < addr => pk[a] # Uninit

EIInv ==
  /\ IInv
  /\ pos = addr
  /\ predicate \in [Row -> BOOLEAN]
  /\ Pending
  /\ pk = [a \in 0 .. PK_P1_BYTE + PK_P2_BYTE - 1 |-> pk[a]]
  /\ SameKey
  /\ Written

LEMMA InRowBounds ==
  ASSUME NEW i \in Row, NEW a, InRow(i, a)
  PROVE  /\ a \in Nat
         /\ a < PK_P1_BYTE + PK_P2_BYTE
         /\ \/ P1At(i) <= a /\ a < P1At(i + 1)
            \/ P2At(i) <= a /\ a < P2At(i + 1)
<1>1. i \in 0 .. V /\ i + 1 \in 0 .. V /\ V \in 0 .. V
  BY RowFacts DEF Row
<1>2. CASE a \in P1At(i) .. P1At(i) + P1Row(i) - 1
  <2>1. P1At(i) \in Nat /\ P1Row(i) \in Nat /\ P1At(i + 1) = P1At(i) + P1Row(i)
    BY <1>1, P1Layout
  <2>2. P1At(i + 1) <= PK_P1_BYTE /\ P1At(i + 1) \in Nat
    <3>1. i + 1 <= V
      BY <1>1
    <3>2. QED
      BY <1>1, <3>1, P1Layout
  <2>3. PK_P1_BYTE \in Nat /\ PK_P2_BYTE \in Nat
    BY P1Layout, P2Layout
  <2>4. QED
    BY <1>2, <2>1, <2>2, <2>3
<1>3. CASE a \in P2At(i) .. P2At(i) + P2Row - 1
  <2>1. P2At(i) \in Nat /\ P2Row \in Nat /\ P2At(i + 1) = P2At(i) + P2Row
    BY <1>1, P2Layout
  <2>2. P2At(i + 1) <= PK_P1_BYTE + PK_P2_BYTE /\ P2At(i + 1) \in Nat
    <3>1. i + 1 <= V
      BY <1>1
    <3>2. QED
      BY <1>1, <3>1, P2Layout
  <2>3. PK_P1_BYTE \in Nat /\ PK_P2_BYTE \in Nat
    BY P1Layout, P2Layout
  <2>4. QED
    BY <1>3, <2>1, <2>2, <2>3
<1>4. QED
  BY <1>2, <1>3 DEF InRow

(* The bytes that a skipping request passes over belong to its own row.    *)
LEMMA SkippedIsOwnRow ==
  ASSUME NEW k \in 1 .. 2 * V, NEW i \in Row, i # RowOf(k), NEW a, InRow(i, a),
         a < RowAt(k + 1)
  PROVE  a < RowAt(k)
<1>1. V \in Nat /\ i \in 0 .. V /\ i + 1 \in 0 .. V /\ V \in 0 .. V /\ 0 \in 0 .. V /\ i + 1 <= V
  BY RowFacts DEF Row
<1> DEFINE r == RowOf(k)
<1>2. r \in Row /\ r \in 0 .. V /\ r + 1 \in 0 .. V /\ r # i /\ r + 1 <= V
  BY RowFacts DEF Row
<1>3. a \in Nat
  BY InRowBounds
<1>4. CASE k <= V
  <2>1. RowAt(k) = P1At(r)
    BY <1>4 DEF RowAt, RowOf
  <2>2. RowAt(k + 1) = P1At(r + 1)
    <3>1. RowAt(k + 1) = RowAt(k) + LenOf(k)
      BY RowFacts
    <3>2. LenOf(k) = P1Row(r)
      BY <1>4 DEF LenOf, RowOf
    <3>3. P1At(r + 1) = P1At(r) + P1Row(r)
      BY <1>2, P1Layout
    <3>4. QED
      BY <2>1, <3>1, <3>2, <3>3
  <2> HIDE DEF r
  <2>3. P1At(r) \in Nat /\ P1At(r + 1) \in Nat /\ P1At(i) \in Nat /\ P1At(i + 1) \in Nat
    BY <1>1, <1>2, P1Layout
  <2>4. CASE P1At(i) <= a /\ a < P1At(i + 1)
    <3>1. ~(r + 1 <= i)
      <4>1. r + 1 <= i => P1At(r + 1) <= P1At(i)
        BY <1>1, <1>2, P1Layout
      <4>2. QED
        BY <1>3, <2>2, <2>3, <2>4, <4>1
    <3>2. i + 1 <= r
      BY <1>1, <1>2, <3>1
    <3>3. P1At(i + 1) <= P1At(r)
      BY <1>1, <1>2, <3>2, P1Layout
    <3>4. QED
      BY <1>3, <2>1, <2>3, <2>4, <3>3
  <2>5. CASE P2At(i) <= a /\ a < P2At(i + 1)
    <3>1. P1At(r + 1) <= P1At(V) /\ P1At(V) = P2At(0)
      BY <1>1, <1>2, P1Layout, P2Layout
    <3>2. P2At(0) <= P2At(i) /\ P2At(0) \in Nat /\ P2At(i) \in Nat
      <4>1. 0 <= i
        BY <1>1
      <4>2. QED
        BY <1>1, <4>1, P2Layout
    <3>3. QED
      BY <1>3, <2>2, <2>3, <2>5, <3>1, <3>2
  <2>6. QED
    BY <2>4, <2>5, InRowBounds
<1>5. CASE k > V
  <2>0. ~(k <= V)
    BY <1>1, <1>5
  <2>1. RowAt(k) = P2At(r)
    BY <2>0 DEF RowAt, RowOf
  <2>2. RowAt(k + 1) = P2At(r + 1)
    <3>1. RowAt(k + 1) = RowAt(k) + LenOf(k)
      BY RowFacts
    <3>2. LenOf(k) = P2Row
      BY <2>0 DEF LenOf
    <3>3. P2At(r + 1) = P2At(r) + P2Row
      BY <1>2, P2Layout
    <3>4. QED
      BY <2>1, <3>1, <3>2, <3>3
  <2> HIDE DEF r
  <2>3. P2At(r) \in Nat /\ P2At(r + 1) \in Nat /\ P2At(i) \in Nat /\ P2At(i + 1) \in Nat
    BY <1>1, <1>2, P2Layout
  <2>4. CASE P2At(i) <= a /\ a < P2At(i + 1)
    <3>1. ~(r + 1 <= i)
      <4>1. r + 1 <= i => P2At(r + 1) <= P2At(i)
        BY <1>1, <1>2, P2Layout
      <4>2. QED
        BY <1>3, <2>2, <2>3, <2>4, <4>1
    <3>2. i + 1 <= r
      BY <1>1, <1>2, <3>1
    <3>3. P2At(i + 1) <= P2At(r)
      BY <1>1, <1>2, <3>2, P2Layout
    <3>4. QED
      BY <1>3, <2>1, <2>3, <2>4, <3>3
  <2>5. CASE P1At(i) <= a /\ a < P1At(i + 1)
    <3>1. P1At(i + 1) <= P1At(V) /\ P1At(V) = P2At(0) /\ P1At(i + 1) \in Nat
      BY <1>1, P1Layout, P2Layout
    <3>2. P2At(0) <= P2At(r) /\ P2At(0) \in Nat
      <4>1. 0 <= r
        BY <1>2
      <4>2. QED
        BY <1>1, <1>2, <4>1, P2Layout
    <3>3. QED
      BY <1>3, <2>1, <2>3, <2>5, <3>1, <3>2
  <2>6. QED
    BY <2>4, <2>5, InRowBounds
<1>6. k <= V \/ k > V
  BY <1>1
<1>7. QED
  BY <1>4, <1>5, <1>6

LEMMA TwoRequests ==
  ASSUME NEW x, NEW y
  PROVE  Head(<<x, y>>) = x /\ Tail(<<x, y>>) = <<y>>
OBVIOUS

LEMMA PendingStep ==
  ASSUME predicate \in [Row -> BOOLEAN], Pending, todo # <<>>,
         todo' = Tail(todo), addr' = addr + Head(todo).len, predicate' = predicate
  PROVE  /\ Pending'
         /\ addr \in Nat /\ Head(todo).len \in Nat
         /\ ~Head(todo).gen =>
              \E k \in 1 .. 2 * V :
                addr = RowAt(k) /\ addr' = RowAt(k + 1) /\ ~predicate[RowOf(k)]
<1> DEFINE p1 == PK_P1_BYTE
           p2 == PK_P2_BYTE
<1>1. p1 \in Nat /\ p2 \in Nat /\ p1 + p2 \in Nat
  BY P1Layout, P2Layout
<1>2. CASE todo = << Request(TRUE, p1 + p2) >> /\ addr = 0
  <2>1. Tail(todo) = <<>> /\ Head(todo) = Request(TRUE, p1 + p2)
    BY <1>2
  <2>2. Head(todo).gen = TRUE /\ Head(todo).len = p1 + p2
    BY <2>1 DEF Request
  <2>3. todo' = <<>> /\ addr' = p1 + p2
    <3>1. todo' = <<>> /\ addr' = 0 + (p1 + p2)
      BY <1>2, <2>1, <2>2
    <3>2. 0 + (p1 + p2) = p1 + p2
      BY <1>1
    <3>3. QED
      BY <3>1, <3>2
  <2>4. QED
    BY <1>1, <1>2, <2>2, <2>3 DEF Pending
<1>3. CASE todo = << Request(TRUE, p1), Request(TRUE, p2) >> /\ addr = 0
  <2>1. Tail(todo) = << Request(TRUE, p2) >> /\ Head(todo) = Request(TRUE, p1)
    <3> DEFINE x == Request(TRUE, p1)
               y == Request(TRUE, p2)
    <3>1. todo = <<x, y>>
      BY <1>3
    <3> HIDE DEF x, y
    <3>2. Head(todo) = x /\ Tail(todo) = <<y>>
      BY <3>1, TwoRequests
    <3>3. QED
      BY <3>2 DEF x, y
  <2>2. Head(todo).gen = TRUE /\ Head(todo).len = p1
    BY <2>1 DEF Request
  <2>3. todo' = << Request(TRUE, p2) >> /\ addr' = p1
    <3>1. todo' = << Request(TRUE, p2) >>
      BY <2>1
    <3>2. addr' = 0 + p1
      BY <1>3, <2>2
    <3>3. 0 + p1 = p1
      BY <1>1
    <3>4. QED
      BY <3>1, <3>2, <3>3
  <2>4. QED
    BY <1>1, <1>3, <2>2, <2>3 DEF Pending
<1>4. CASE todo = << Request(TRUE, p2) >> /\ addr = p1
  <2>1. Tail(todo) = <<>> /\ Head(todo) = Request(TRUE, p2)
    BY <1>4
  <2>2. Head(todo).gen = TRUE /\ Head(todo).len = p2
    BY <2>1 DEF Request
  <2>3. todo' = <<>> /\ addr' = p1 + p2
    BY <1>1, <1>4, <2>1, <2>2
  <2>4. QED
    BY <1>1, <1>4, <2>2, <2>3 DEF Pending
<1>5. CASE \E k \in 1 .. 2 * V + 1 : todo = Left(predicate, k) /\ addr = RowAt(k)
  <2>1. PICK k \in 1 .. 2 * V + 1 : todo = Left(predicate, k) /\ addr = RowAt(k)
    BY <1>5
  <2>2. k \in 1 .. 2 * V /\ k + 1 \in 1 .. 2 * V + 1
    <3>1. k # 2 * V + 1
      BY <2>1, LeftEnds
    <3>2. QED
      BY <3>1, RowFacts
  <2>3. Head(todo) = RequestOf(predicate, k) /\ Tail(todo) = Left(predicate, k + 1)
    BY <2>1, <2>2, LeftSteps
  <2>4. Head(todo).gen = predicate[RowOf(k)] /\ Head(todo).len = LenOf(k)
    BY <2>3 DEF RequestOf, Request
  <2>5. RowAt(k) \in Nat /\ LenOf(k) \in Nat /\ RowAt(k + 1) = RowAt(k) + LenOf(k)
    BY <2>2, RowFacts
  <2>6. todo' = Left(predicate', k + 1) /\ addr' = RowAt(k + 1)
    BY <2>1, <2>3, <2>4, <2>5
  <2>7. Pending'
    BY <2>2, <2>6 DEF Pending
  <2>8. addr \in Nat /\ Head(todo).len \in Nat
    BY <2>1, <2>4, <2>5
  <2>9. ~Head(todo).gen => ~predicate[RowOf(k)]
    BY <2>4
  <2>10. QED
    BY <2>1, <2>2, <2>6, <2>7, <2>8, <2>9
<1>6. QED
  BY <1>2, <1>3, <1>4, <1>5 DEF Pending

LEMMA EInitInv == EInit => EIInv
<1> SUFFICES ASSUME EInit PROVE EIInv
  OBVIOUS
<1>1. IInv
  BY InitIInv DEF EInit
<1>2. pos = addr /\ addr = 0 /\ predicate \in [Row -> BOOLEAN]
  BY DEF EInit, Init
<1>3. Pending
  <2>1. CASE todo = expand_pk
    BY <1>2, <2>1 DEF expand_pk, Pending
  <2>2. CASE todo = expand_sk
    BY <1>2, <2>2 DEF expand_sk, Pending
  <2>3. CASE todo = expand_pk_predicate(predicate)
    <3>1. todo = Left(predicate, 1)
      BY <1>2, <2>3, PredicateIsLeft
    <3>2. 1 \in 1 .. 2 * V + 1 /\ addr = RowAt(1)
      BY <1>2, RowFacts
    <3>3. QED
      BY <3>1, <3>2 DEF Pending
  <2>4. QED
    BY <2>1, <2>2, <2>3 DEF EInit
<1>4. pk = [a \in 0 .. PK_P1_BYTE + PK_P2_BYTE - 1 |-> pk[a]]
  BY DEF EInit
<1>5. SameKey
  BY DEF EInit, SameKey
<1>6. Written
  BY <1>2 DEF Written
<1>7. QED
  BY <1>1, <1>2, <1>3, <1>4, <1>5, <1>6 DEF EIInv

(* A request that is generated writes the bytes of the stream, which       *)
(* belong at the address they are written to.                              *)
LEMMA GenRowStep ==
  ASSUME EIInv, GenRow, todo' = Tail(todo), addr' = addr + Head(todo).len, predicate' = predicate
  PROVE  EIInv'
<1> DEFINE n == Head(todo).len
           total == PK_P1_BYTE + PK_P2_BYTE
<1>1. /\ IInv /\ pos = addr /\ predicate \in [Row -> BOOLEAN] /\ Pending
      /\ SameKey /\ Written
  BY DEF EIInv
<1>a. pk = [a \in 0 .. total - 1 |-> pk[a]]
  <2>1. pk = [a \in 0 .. PK_P1_BYTE + PK_P2_BYTE - 1 |-> pk[a]]
    BY DEF EIInv
  <2>2. PK_P1_BYTE + PK_P2_BYTE - 1 = total - 1
    BY P1Layout, P2Layout
  <2> HIDE DEF total
  <2>3. QED
    BY <2>1, <2>2
<1>2. /\ todo # <<>> /\ Gen(n)
      /\ pk' = [a \in DOMAIN pk |-> IF a \in addr .. addr + n - 1
                                    THEN out'[pos + (a - addr)] ELSE pk[a]]
  BY DEF GenRow
<1>3. Pending' /\ addr \in Nat /\ n \in Nat
  BY <1>1, <1>2, PendingStep
<1>4. addr' = addr + n
  OBVIOUS
<1> HIDE DEF n
<1>5. IInv' /\ out' = [p \in pos .. pos+n-1 |-> aes128ctr_publicinputs(0, p)]
  BY <1>1, <1>2, <1>3, GenStep
<1>6. pos' = addr'
  BY <1>1, <1>2, <1>4 DEF Gen
<1>7. DOMAIN pk = 0 .. total - 1 /\ total \in Nat
  BY <1>a, P1Layout, P2Layout
<1> HIDE DEF total
<1>8. \A a \in 0 .. total - 1 :
        pk'[a] = IF a \in addr .. addr + n - 1 THEN aes128ctr_publicinputs(0, a) ELSE pk[a]
  <2>1. SUFFICES ASSUME NEW a \in 0 .. total - 1, a \in addr .. addr + n - 1
                 PROVE  out'[pos + (a - addr)] = aes128ctr_publicinputs(0, a)
    BY <1>2, <1>7
  <2>2. pos + (a - addr) = a /\ a \in pos .. pos + n - 1
    BY <1>1, <1>3, <1>7, <2>1
  <2>3. QED
    BY <1>5, <2>2
<1>9. pk' = [a \in 0 .. total - 1 |-> pk'[a]] /\ DOMAIN pk' = 0 .. total - 1
  BY <1>2, <1>7
<1>10. SameKey'
  <2>1. \A a \in 0 .. total - 1 : pk[a] \in {Uninit, aes128ctr_publicinputs(0, a)}
    BY <1>1, <1>7 DEF SameKey
  <2>2. \A a \in 0 .. total - 1 : pk'[a] \in {Uninit, aes128ctr_publicinputs(0, a)}
    BY <1>8, <2>1
  <2>3. QED
    BY <1>9, <2>2 DEF SameKey
<1>11. Written'
  <2>1. SUFFICES ASSUME NEW i \in Row, NEW a \in Nat, predicate[i], InRow(i, a), a < addr + n
                 PROVE  pk'[a] # Uninit
    BY <1>4 DEF Written, InRow
  <2>2. a \in 0 .. total - 1
    BY <1>7, <2>1, InRowBounds DEF total
  <2>3. CASE a < addr
    <3>1. ~(a \in addr .. addr + n - 1)
      BY <1>3, <2>3
    <3>2. pk[a] # Uninit
      BY <1>1, <2>1, <2>3 DEF Written
    <3>3. QED
      BY <1>8, <2>2, <3>1, <3>2
  <2>4. CASE ~(a < addr)
    <3>1. a \in addr .. addr + n - 1
      BY <1>3, <2>1, <2>4
    <3>2. aes128ctr_publicinputs(0, a) # Uninit
      BY DEF aes128ctr_publicinputs, Uninit
    <3>3. QED
      BY <1>8, <2>2, <3>1, <3>2
  <2>5. QED
    BY <2>3, <2>4
<1>12. pk' = [a \in 0 .. PK_P1_BYTE + PK_P2_BYTE - 1 |-> pk'[a]]
  <2>1. PK_P1_BYTE + PK_P2_BYTE - 1 = total - 1
    BY P1Layout, P2Layout DEF total
  <2>2. QED
    BY <1>9, <2>1
<1>13. QED
  BY <1>1, <1>3, <1>5, <1>6, <1>10, <1>11, <1>12 DEF EIInv

(* A request that is skipped passes over a row that is not needed.         *)
LEMMA SkipRowStep ==
  ASSUME EIInv, SkipRow, todo' = Tail(todo), addr' = addr + Head(todo).len, predicate' = predicate
  PROVE  EIInv'
<1> DEFINE n == Head(todo).len
<1>1. /\ IInv /\ pos = addr /\ predicate \in [Row -> BOOLEAN] /\ Pending
      /\ SameKey /\ Written
  BY DEF EIInv
<1>2. todo # <<>> /\ ~Head(todo).gen /\ Skip(n) /\ pk' = pk
  BY DEF SkipRow
<1>3. /\ Pending' /\ addr \in Nat /\ n \in Nat
      /\ \E k \in 1 .. 2 * V :
           addr = RowAt(k) /\ addr' = RowAt(k + 1) /\ ~predicate[RowOf(k)]
  BY <1>1, <1>2, PendingStep
<1>4. IInv'
  BY <1>1, <1>2, <1>3, SkipStep
<1>5. pos' = addr'
  BY <1>1, <1>2 DEF Skip
<1>6. SameKey'
  BY <1>1, <1>2 DEF SameKey
<1>7. Written'
  <2>1. SUFFICES ASSUME NEW i \in Row, NEW a \in Nat, predicate[i], InRow(i, a), a < addr'
                 PROVE  pk[a] # Uninit
    BY <1>2 DEF Written, InRow
  <2>2. PICK k \in 1 .. 2 * V : addr = RowAt(k) /\ addr' = RowAt(k + 1) /\ ~predicate[RowOf(k)]
    BY <1>3
  <2>3. i # RowOf(k)
    BY <2>1, <2>2
  <2>4. a < addr
    BY <2>1, <2>2, <2>3, SkippedIsOwnRow
  <2>5. QED
    BY <1>1, <2>1, <2>4 DEF Written
<1>8. pk' = [a \in 0 .. PK_P1_BYTE + PK_P2_BYTE - 1 |-> pk'[a]]
  BY <1>2 DEF EIInv
<1>9. QED
  BY <1>1, <1>3, <1>4, <1>5, <1>6, <1>7, <1>8 DEF EIInv

LEMMA EStep == EIInv /\ [ENext]_<<vars, evars>> => EIInv'
<1> SUFFICES ASSUME EIInv, [ENext]_<<vars, evars>> PROVE EIInv'
  OBVIOUS
<1>1. CASE ENext
  <2>1. todo' = Tail(todo) /\ addr' = addr + Head(todo).len /\ predicate' = predicate
    BY <1>1 DEF ENext
  <2>2. CASE GenRow
    BY <2>1, <2>2, GenRowStep
  <2>3. CASE SkipRow
    BY <2>1, <2>3, SkipRowStep
  <2>4. QED
    BY <1>1, <2>2, <2>3 DEF ENext
<1>2. CASE UNCHANGED <<vars, evars>>
  <2>1. UNCHANGED <<used, ctr, buf, pos, out, predicate, todo, addr, pk>>
    BY <1>2 DEF vars, evars
  <2>2. IInv'
    BY <2>1 DEF EIInv, IInv, TypeOK, PositionAgrees, BufferFresh
  <2>3. Pending' /\ SameKey' /\ Written'
    BY <2>1 DEF EIInv, Pending, SameKey, Written, InRow
  <2>4. QED
    BY <2>1, <2>2, <2>3 DEF EIInv
<1>3. QED
  BY <1>1, <1>2

LEMMA ExpandInvariant == ESpec => []EIInv
BY EInitInv, EStep, PTL DEF ESpec

(* The key generator, the signer and the verifier, which cut the stream of *)
(* one seed in different places and skip different rows, put the same byte *)
(* at the same address of P1 and P2, wherever they write at all.           *)
THEOREM ExpandSameKey == ESpec => []SameKey
<1>1. EIInv => SameKey
  BY DEF EIInv
<1>2. QED
  BY <1>1, ExpandInvariant, PTL

(* When the verifier has gone through its rows, every row that its public  *)
(* map multiplies by a vinegar value other than zero is written.           *)
THEOREM ExpandNeededRowsWritten == ESpec => []NeededRowsWritten
<1>1. EIInv => NeededRowsWritten
  <2> SUFFICES ASSUME EIInv, todo = <<>>, NEW i \in Row, predicate[i], NEW a, InRow(i, a)
               PROVE  pk[a] # Uninit
    BY DEF NeededRowsWritten, InRow
  <2>1. addr = PK_P1_BYTE + PK_P2_BYTE
    <3>1. ASSUME NEW k \in 1 .. 2 * V + 1, todo = Left(predicate, k), addr = RowAt(k)
          PROVE  addr = PK_P1_BYTE + PK_P2_BYTE
      <4>1. k = 2 * V + 1
        BY <3>1, LeftEnds DEF EIInv
      <4>2. QED
        BY <3>1, <4>1, RowFacts
    <3>2. QED
      BY <3>1 DEF EIInv, Pending
  <2>2. a \in Nat /\ a < addr
    BY <2>1, InRowBounds
  <2>3. QED
    BY <2>2 DEF EIInv, Written
<1>2. QED
  BY <1>1, ExpandInvariant, PTL

-----------------------------------------------------------------------------
(* Induction for the generators of the known-answer program.               *)

(* A set of numbers that has 0 and the successor of each of its members    *)
(* has them all.                                                           *)
LEMMA NatSetInduction ==
  ASSUME NEW T, 0 \in T, \A n \in Nat : n \in T => n + 1 \in T
  PROVE  Nat \subseteq T
<1> DEFINE D == Nat \ T
           R == OpToRel(<, Nat)
<1> SUFFICES ASSUME D # {} PROVE FALSE
  OBVIOUS
<1>1. IsWellFoundedOn(R, Nat)
  BY NatLessThanWellFounded
<1>2. D \subseteq Nat
  OBVIOUS
<1>a. \A x \in Nat, y \in Nat : y < x => <<y, x>> \in R
  BY DEF OpToRel
<1> HIDE DEF D, R
<1>3. PICK x \in D : \A y \in D : ~(<<y, x>> \in R)
  BY <1>1, <1>2, WFMin
<1>4. \A y \in D : ~(y < x)
  BY <1>2, <1>3, <1>a
<1>5. x \in Nat /\ x # 0 /\ x \notin T
  BY <1>2 DEF D
<1>6. x - 1 \in Nat /\ x - 1 < x /\ (x - 1) + 1 = x
  BY <1>5
<1>7. x - 1 \in T
  BY <1>4, <1>6 DEF D
<1>8. QED
  BY <1>5, <1>6, <1>7

-----------------------------------------------------------------------------
(* Numbers written in digits.                                              *)

Digit == 0 .. Radix-1
DigitSeq(n) == [1 .. n -> Digit]

LEMMA LenOfDomain ==
  ASSUME NEW l \in Nat, NEW n \in Nat, 1 .. l = 1 .. n
  PROVE  l = n
<1>1. \A a, b \in Nat : a < b => b \in 1 .. b /\ b \notin 1 .. a
  OBVIOUS
<1>2. ~(l < n) /\ ~(n < l)
  BY <1>1
<1>3. QED
  BY <1>2

LEMMA DigitSeqLen ==
  ASSUME NEW n \in Nat, NEW d \in DigitSeq(n)
  PROVE  d \in Seq(Digit) /\ Len(d) = n /\ \A i \in 1 .. n : d[i] \in Digit
<1>1. d \in Seq(Digit)
  BY SeqDef DEF DigitSeq
<1>2. Len(d) \in Nat /\ DOMAIN d = 1 .. Len(d) /\ DOMAIN d = 1 .. n
  BY <1>1, LenProperties DEF DigitSeq
<1>4. Len(d) = n
  BY <1>2, LenOfDomain
<1>5. QED
  BY <1>1, <1>4 DEF DigitSeq

(* f[i] is what the first i digits of d stand for.                         *)
Prefix(f, d, n) ==
  /\ f \in [0 .. n -> Nat]
  /\ f[0] = 0
  /\ \A i \in 1 .. n : f[i] = f[i-1] * Radix + d[i]

IsPrefix(f, d, n) == f = [i \in 0 .. n |-> IF i = 0 THEN 0 ELSE f[i-1] * Radix + d[i]]

LEMMA PrefixExists ==
  ASSUME NEW n \in Nat, NEW d \in DigitSeq(n)
  PROVE  \E f : IsPrefix(f, d, n)
<1> DEFINE T == {m \in Nat : m <= n => \E f : IsPrefix(f, d, m)}
<1>1. 0 \in T
  <2> DEFINE f == [i \in 0 .. 0 |-> 0]
  <2>1. IsPrefix(f, d, 0)
    BY DEF IsPrefix
  <2>2. QED
    BY <2>1
<1>2. ASSUME NEW m \in Nat, m \in T PROVE m + 1 \in T
  <2> SUFFICES ASSUME m + 1 <= n PROVE \E f : IsPrefix(f, d, m + 1)
    OBVIOUS
  <2>1. PICK f : IsPrefix(f, d, m)
    BY <1>2
  <2> DEFINE g == [i \in 0 .. m + 1 |-> IF i <= m THEN f[i] ELSE f[m] * Radix + d[m + 1]]
             h == [i \in 0 .. m + 1 |-> IF i = 0 THEN 0 ELSE g[i-1] * Radix + d[i]]
  <2>2. ASSUME NEW i \in 0 .. m + 1 PROVE g[i] = h[i]
    <3>1. CASE i = 0
      BY <2>1, <3>1 DEF IsPrefix
    <3>2. CASE i \in 1 .. m
      <4>1. g[i] = f[i] /\ g[i-1] = f[i-1]
        BY <3>2
      <4>2. f[i] = f[i-1] * Radix + d[i]
        BY <2>1, <3>2 DEF IsPrefix
      <4>3. QED
        BY <3>2, <4>1, <4>2
    <3>3. CASE i = m + 1
      <4>1. g[i] = f[m] * Radix + d[m + 1] /\ g[i-1] = f[m] /\ i # 0
        BY <3>3
      <4>2. QED
        BY <3>3, <4>1
    <3>4. QED
      BY <3>1, <3>2, <3>3
  <2> HIDE DEF h
  <2>3. g = h
    BY <2>2 DEF h
  <2>4. IsPrefix(g, d, m + 1)
    BY <2>3 DEF IsPrefix, h
  <2>5. QED
    BY <2>4
<1> HIDE DEF T
<1>3. Nat \subseteq T
  BY <1>1, <1>2, NatSetInduction
<1>4. QED
  BY <1>3 DEF T

LEMMA PrefixIs ==
  ASSUME NEW n \in Nat, NEW d \in DigitSeq(n), NEW f, IsPrefix(f, d, n)
  PROVE  Prefix(f, d, n)
<1>1. DOMAIN f = 0 .. n /\ f[0] = 0 /\ \A i \in 1 .. n : f[i] = f[i-1] * Radix + d[i]
  BY DEF IsPrefix
<1> DEFINE T == {m \in Nat : m <= n => f[m] \in Nat}
<1>2. 0 \in T
  BY <1>1
<1>3. ASSUME NEW m \in Nat, m \in T PROVE m + 1 \in T
  <2> SUFFICES ASSUME m + 1 <= n PROVE f[m + 1] \in Nat
    OBVIOUS
  <2>1. f[m + 1] = f[m] * Radix + d[m + 1] /\ d[m + 1] \in Digit
    BY <1>1, DigitSeqLen
  <2>2. f[m] \in Nat /\ Radix \in Nat
    BY <1>3, RngAssumption
  <2>3. QED
    BY <2>1, <2>2 DEF Digit
<1> HIDE DEF T
<1>4. Nat \subseteq T
  BY <1>2, <1>3, NatSetInduction
<1>5. f = [i \in 0 .. n |-> f[i]]
  BY DEF IsPrefix
<1>6. \A i \in 0 .. n : f[i] \in Nat
  <2> TAKE i \in 0 .. n
  <2>1. i \in Nat /\ i <= n
    OBVIOUS
  <2>2. i \in T
    BY <1>4, <2>1
  <2>3. QED
    BY <2>1, <2>2 DEF T
<1>7. f \in [0 .. n -> Nat]
  BY <1>5, <1>6
<1>8. QED
  BY <1>1, <1>7 DEF Prefix

LEMMA ValuePrefix ==
  ASSUME NEW n \in Nat, NEW d \in DigitSeq(n)
  PROVE  \E f : Prefix(f, d, n) /\ Value(d) = f[n]
<1> DEFINE f == CHOOSE f : f = [i \in 0 .. Len(d) |-> IF i = 0 THEN 0 ELSE f[i-1] * Radix + d[i]]
<1>1. Len(d) = n
  BY DigitSeqLen
<1>2. Value(d) = f[Len(d)]
  BY DEF Value
<1>3. f = CHOOSE g : IsPrefix(g, d, n)
  BY <1>1 DEF IsPrefix
<1> HIDE DEF f
<1>4. IsPrefix(f, d, n)
  BY <1>3, PrefixExists
<1>5. QED
  BY <1>1, <1>2, <1>4, PrefixIs

(* The n digits that stand for most.                                       *)
Full(n) == [i \in 1 .. n |-> Radix - 1]

LEMMA RadixFacts == Radix \in Nat /\ Radix > 1 /\ Radix - 1 \in Digit /\ 0 \in Digit
BY RngAssumption DEF Digit

LEMMA FullDigits == \A n \in Nat : Full(n) \in DigitSeq(n) /\ Zeros(n) \in DigitSeq(n)
BY RadixFacts DEF Full, DigitSeq, Zeros

LEMMA MulMonotone ==
  ASSUME NEW a \in Nat, NEW b \in Nat, NEW r \in Nat, a <= b
  PROVE  a * r <= b * r
<1>1. b = a + (b - a) /\ b - a \in Nat
  OBVIOUS
<1>2. b * r = a * r + (b - a) * r
  BY <1>1
<1>3. (b - a) * r \in Nat /\ a * r \in Nat /\ b * r \in Nat
  BY <1>1
<1>4. QED
  BY <1>2, <1>3

(* The prefix of full digits is larger, and equal only for full digits.    *)
LEMMA BelowFull ==
  ASSUME NEW n \in Nat, NEW d \in DigitSeq(n), NEW f, Prefix(f, d, n), NEW m, Prefix(m, Full(n), n)
  PROVE  \A i \in 0 .. n :
           /\ f[i] <= m[i]
           /\ f[i] = m[i] <=> \A j \in 1 .. i : d[j] = Radix - 1
<1> DEFINE P(i) == /\ f[i] <= m[i]
                   /\ f[i] = m[i] <=> \A j \in 1 .. i : d[j] = Radix - 1
           T == {i \in Nat : i <= n => P(i)}
<1>1. 0 \in T
  BY DEF Prefix
<1>2. ASSUME NEW i \in Nat, i \in T PROVE i + 1 \in T
  <2> SUFFICES ASSUME i + 1 <= n PROVE P(i + 1)
    OBVIOUS
  <2> DEFINE a == f[i]
             b == m[i]
             x == d[i + 1]
  <2>1. P(i) /\ i \in 0 .. n /\ i + 1 \in 1 .. n /\ i + 1 \in 0 .. n
    BY <1>2
  <2>2. f[i + 1] = a * Radix + x /\ m[i + 1] = b * Radix + (Radix - 1)
    BY <2>1 DEF Prefix, Full
  <2>3. a \in Nat /\ b \in Nat /\ x \in 0 .. Radix-1 /\ a <= b
    BY <2>1, DigitSeqLen DEF Prefix, Digit
  <2>4. (\A j \in 1 .. i + 1 : d[j] = Radix - 1) <=> (\A j \in 1 .. i : d[j] = Radix - 1) /\ x = Radix - 1
    <3>1. 1 .. i + 1 = (1 .. i) \cup {i + 1}
      OBVIOUS
    <3>2. QED
      BY <3>1
  <2>5. (\A j \in 1 .. i : d[j] = Radix - 1) <=> a = b
    BY <2>1
  <2> HIDE DEF a, b, x
  <2>6. /\ a * Radix + x <= b * Radix + (Radix - 1)
        /\ a * Radix + x = b * Radix + (Radix - 1) <=> a = b /\ x = Radix - 1
    <3>1. a * Radix \in Nat /\ b * Radix \in Nat
      BY <2>3, RadixFacts
    <3>2. CASE a = b
      BY <2>3, <3>1, <3>2, RadixFacts
    <3>3. CASE a < b
      <4>1. a + 1 <= b /\ a + 1 \in Nat
        BY <2>3, <3>3
      <4>2. (a + 1) * Radix <= b * Radix
        BY <2>3, <4>1, RadixFacts, MulMonotone
      <4>3. (a + 1) * Radix = a * Radix + Radix
        BY <2>3, RadixFacts
      <4>4. a * Radix + x < b * Radix
        BY <2>3, <3>1, <4>2, <4>3, RadixFacts
      <4>5. QED
        BY <2>3, <3>1, <3>3, <4>4, RadixFacts
    <3>4. QED
      BY <2>3, <3>2, <3>3
  <2>7. QED
    BY <2>2, <2>4, <2>5, <2>6
<1> HIDE DEF T
<1>3. Nat \subseteq T
  BY <1>1, <1>2, NatSetInduction
<1>4. QED
  BY <1>3 DEF T

LEMMA SpanPrefix == \A n \in Nat : \E m : Prefix(m, Full(n), n) /\ Span(n) = m[n] + 1
BY ValuePrefix, FullDigits DEF Span, Full

LEMMA ValuesBelowSpan ==
  ASSUME NEW n \in Nat, NEW d \in DigitSeq(n)
  PROVE  /\ Value(d) \in Nat /\ Span(n) \in Nat /\ Value(d) < Span(n)
         /\ Value(d) + 1 = Span(n) <=> \A j \in 1 .. n : d[j] = Radix - 1
<1>1. PICK f : Prefix(f, d, n) /\ Value(d) = f[n]
  BY ValuePrefix
<1>2. PICK m : Prefix(m, Full(n), n) /\ Span(n) = m[n] + 1
  BY SpanPrefix
<1>3. f[n] \in Nat /\ m[n] \in Nat /\ n \in 0 .. n
  BY <1>1, <1>2 DEF Prefix
<1>4. /\ f[n] <= m[n]
      /\ f[n] = m[n] <=> \A j \in 1 .. n : d[j] = Radix - 1
  BY <1>1, <1>2, <1>3, BelowFull
<1>5. QED
  BY <1>1, <1>2, <1>3, <1>4

LEMMA ZerosValue == \A n \in Nat : Value(Zeros(n)) = 0
<1> SUFFICES ASSUME NEW n \in Nat PROVE Value(Zeros(n)) = 0
  OBVIOUS
<1>1. PICK f : Prefix(f, Zeros(n), n) /\ Value(Zeros(n)) = f[n]
  BY ValuePrefix, FullDigits
<1> DEFINE T == {i \in Nat : i <= n => f[i] = 0}
<1>2. 0 \in T
  BY <1>1 DEF Prefix
<1>3. ASSUME NEW i \in Nat, i \in T PROVE i + 1 \in T
  <2> SUFFICES ASSUME i + 1 <= n PROVE f[i + 1] = 0
    OBVIOUS
  <2>1. f[i] = 0 /\ i + 1 \in 1 .. n
    BY <1>3
  <2>2. f[i + 1] = f[i] * Radix + Zeros(n)[i + 1] /\ Zeros(n)[i + 1] = 0
    BY <1>1, <2>1 DEF Prefix, Zeros
  <2>3. QED
    BY <2>1, <2>2, RadixFacts
<1> HIDE DEF T
<1>4. Nat \subseteq T
  BY <1>2, <1>3, NatSetInduction
<1>5. QED
  BY <1>1, <1>4 DEF T

(* The carry loops add 1, and go from the largest number to 0.             *)
LEMMA IncrementValue ==
  ASSUME NEW n \in Nat, NEW d \in DigitSeq(n)
  PROVE  /\ Increment(d) \in DigitSeq(n)
         /\ Value(Increment(d)) = IF Value(d) + 1 = Span(n) THEN 0 ELSE Value(d) + 1
<1> DEFINE e == Increment(d)
           full(i) == \A j \in i+1 .. n : d[j] = Radix - 1
           some(i) == \E j \in 1 .. i : d[j] # Radix - 1
<1>1. e = [i \in 1 .. n |-> IF ~full(i) THEN d[i] ELSE (d[i] + 1) % Radix]
  BY DigitSeqLen DEF Increment
<1>2. ASSUME NEW i \in 1 .. n
      PROVE  /\ d[i] \in 0 .. Radix-1
             /\ ~full(i) => e[i] = d[i]
             /\ full(i) => e[i] = IF d[i] = Radix - 1 THEN 0 ELSE d[i] + 1
  <2>1. d[i] \in 0 .. Radix-1 /\ e[i] = IF ~full(i) THEN d[i] ELSE (d[i] + 1) % Radix
    BY <1>1, DigitSeqLen DEF Digit
  <2>2. d[i] = Radix - 1 => (d[i] + 1) % Radix = 0
    BY RadixFacts
  <2>3. d[i] # Radix - 1 => (d[i] + 1) % Radix = d[i] + 1
    BY <2>1, RadixFacts
  <2> HIDE DEF full, e
  <2>4. QED
    BY <2>1, <2>2, <2>3
<1>3. e \in DigitSeq(n)
  <2>1. ASSUME NEW i \in 1 .. n PROVE e[i] \in Digit
    <3> HIDE DEF e, full
    <3>1. QED
      BY <1>2, <2>1, RadixFacts DEF Digit
  <2>2. QED
    BY <1>1, <2>1 DEF DigitSeq
<1>4. PICK f : Prefix(f, d, n) /\ Value(d) = f[n]
  BY ValuePrefix
<1> HIDE DEF e
<1>5. PICK g : Prefix(g, e, n) /\ Value(e) = g[n]
  BY <1>3, ValuePrefix
<1> DEFINE P(i) == /\ ~full(i) => g[i] = f[i]
                   /\ full(i) /\ some(i) => g[i] = f[i] + 1
                   /\ full(i) /\ ~some(i) => g[i] = 0
           T == {i \in Nat : i <= n => P(i)}
<1>6. 0 \in T
  BY <1>4, <1>5 DEF Prefix
<1>7. ASSUME NEW i \in Nat, i \in T PROVE i + 1 \in T
  <2> SUFFICES ASSUME i + 1 <= n PROVE P(i + 1)
    OBVIOUS
  <2> DEFINE k == i + 1
             x == d[k]
             y == e[k]
             a == f[i]
             b == g[i]
  <2>1. P(i) /\ k \in 1 .. n /\ i \in 0 .. n
    BY <1>7
  <2>2. f[k] = a * Radix + x /\ g[k] = b * Radix + y /\ a \in Nat /\ b \in Nat
    <3>1. k \in 1 .. n /\ i \in 0 .. n /\ k - 1 = i
      BY <2>1
    <3> HIDE DEF k
    <3>2. f[k] = f[k-1] * Radix + d[k] /\ f[i] \in Nat
      BY <1>4, <3>1 DEF Prefix
    <3>3. g[k] = g[k-1] * Radix + e[k] /\ g[i] \in Nat
      BY <1>5, <3>1 DEF Prefix
    <3>4. QED
      BY <3>1, <3>2, <3>3
  <2>3. x \in 0 .. Radix-1 /\ (~full(k) => y = x)
        /\ (full(k) => y = IF x = Radix - 1 THEN 0 ELSE x + 1)
    BY <1>2, <2>1
  <2>4. full(i) <=> full(k) /\ x = Radix - 1
    <3>1. i+1 .. n = (k+1 .. n) \cup {k}
      BY <2>1
    <3>2. QED
      BY <3>1
  <2>5. some(k) <=> some(i) \/ x # Radix - 1
    <3>1. 1 .. k = (1 .. i) \cup {k}
      BY <2>1
    <3>2. QED
      BY <3>1
  <2>6. (a + 1) * Radix = a * Radix + Radix /\ a * Radix \in Nat /\ 0 * Radix = 0
    BY <2>2, RadixFacts
  <2>7. /\ ~full(i) => b = a
        /\ full(i) /\ some(i) => b = a + 1
        /\ full(i) /\ ~some(i) => b = 0
    BY <2>1
  <2>8. /\ ~full(k) => g[k] = f[k]
        /\ full(k) /\ some(k) => g[k] = f[k] + 1
        /\ full(k) /\ ~some(k) => g[k] = 0
    <3> HIDE DEF a, b, x, y, k, full, some
    <3>1. CASE ~full(k)
      BY <2>2, <2>3, <2>4, <2>7, <3>1
    <3>2. CASE full(k) /\ x # Radix - 1
      BY <2>2, <2>3, <2>4, <2>5, <2>6, <2>7, <3>2
    <3>3. CASE full(k) /\ x = Radix - 1 /\ some(i)
      BY <2>2, <2>3, <2>4, <2>5, <2>6, <2>7, <3>3, RadixFacts
    <3>4. CASE full(k) /\ x = Radix - 1 /\ ~some(i)
      BY <2>2, <2>3, <2>4, <2>5, <2>6, <2>7, <3>4, RadixFacts
    <3>5. QED
      BY <3>1, <3>2, <3>3, <3>4
  <2>9. QED
    BY <2>8
<1> HIDE DEF T
<1>8. Nat \subseteq T
  BY <1>6, <1>7, NatSetInduction
<1>9. P(n)
  BY <1>8 DEF T
<1>10. full(n)
  OBVIOUS
<1>11. some(n) <=> Value(d) + 1 # Span(n)
  BY ValuesBelowSpan
<1> HIDE DEF full, some
<1>12. Value(e) = IF Value(d) + 1 = Span(n) THEN 0 ELSE Value(d) + 1
  BY <1>4, <1>5, <1>9, <1>10, <1>11
<1>13. QED
  BY <1>3, <1>12 DEF e

-----------------------------------------------------------------------------
(* A number below Span(n) is written in n digits without loss.             *)

Rests(r, v, n) ==
  /\ r \in [0 .. n -> Nat]
  /\ r[0] = v
  /\ \A k \in 1 .. n : r[k] = r[k-1] \div Radix

IsRests(r, v, n) == r = [k \in 0 .. n |-> IF k = 0 THEN v ELSE r[k-1] \div Radix]

LEMMA RestsExist ==
  ASSUME NEW n \in Nat, NEW v \in Nat
  PROVE  \E r : IsRests(r, v, n)
<1> DEFINE T == {m \in Nat : \E r : IsRests(r, v, m)}
<1>1. 0 \in T
  <2> DEFINE r == [k \in 0 .. 0 |-> v]
  <2>1. IsRests(r, v, 0)
    BY DEF IsRests
  <2>2. QED
    BY <2>1
<1>2. ASSUME NEW m \in Nat, m \in T PROVE m + 1 \in T
  <2>1. PICK r : IsRests(r, v, m)
    BY <1>2
  <2> DEFINE g == [k \in 0 .. m + 1 |-> IF k <= m THEN r[k] ELSE r[m] \div Radix]
             h == [k \in 0 .. m + 1 |-> IF k = 0 THEN v ELSE g[k-1] \div Radix]
  <2>2. ASSUME NEW k \in 0 .. m + 1 PROVE g[k] = h[k]
    <3>1. CASE k = 0
      BY <2>1, <3>1 DEF IsRests
    <3>2. CASE k \in 1 .. m
      <4>1. g[k] = r[k] /\ g[k-1] = r[k-1]
        BY <3>2
      <4>2. r[k] = r[k-1] \div Radix
        BY <2>1, <3>2 DEF IsRests
      <4>3. QED
        BY <3>2, <4>1, <4>2
    <3>3. CASE k = m + 1
      <4>1. g[k] = r[m] \div Radix /\ g[k-1] = r[m] /\ k # 0
        BY <3>3
      <4>2. QED
        BY <3>3, <4>1
    <3>4. QED
      BY <3>1, <3>2, <3>3
  <2> HIDE DEF h
  <2>3. g = h
    BY <2>2 DEF h
  <2>4. IsRests(g, v, m + 1)
    BY <2>3 DEF IsRests, h
  <2>5. QED
    BY <2>4
<1> HIDE DEF T
<1>3. Nat \subseteq T
  BY <1>1, <1>2, NatSetInduction
<1>4. QED
  BY <1>3 DEF T

LEMMA RestsAre ==
  ASSUME NEW n \in Nat, NEW v \in Nat, NEW r, IsRests(r, v, n)
  PROVE  Rests(r, v, n)
<1>1. DOMAIN r = 0 .. n /\ r[0] = v /\ \A k \in 1 .. n : r[k] = r[k-1] \div Radix
  BY DEF IsRests
<1> DEFINE T == {m \in Nat : m <= n => r[m] \in Nat}
<1>2. 0 \in T
  BY <1>1
<1>3. ASSUME NEW m \in Nat, m \in T PROVE m + 1 \in T
  <2> SUFFICES ASSUME m + 1 <= n PROVE r[m + 1] \in Nat
    OBVIOUS
  <2>1. r[m + 1] = r[m] \div Radix /\ r[m] \in Nat
    BY <1>1, <1>3
  <2>2. QED
    BY <2>1, RadixFacts, DivMod
<1> HIDE DEF T
<1>4. Nat \subseteq T
  BY <1>2, <1>3, NatSetInduction
<1>5. r = [k \in 0 .. n |-> r[k]]
  BY DEF IsRests
<1>6. \A k \in 0 .. n : r[k] \in Nat
  <2> TAKE k \in 0 .. n
  <2>1. k \in Nat /\ k <= n
    OBVIOUS
  <2>2. k \in T
    BY <1>4, <2>1
  <2>3. QED
    BY <2>1, <2>2 DEF T
<1>7. r \in [0 .. n -> Nat]
  BY <1>5, <1>6
<1>8. QED
  BY <1>1, <1>7 DEF Rests

LEMMA DigitsRests ==
  ASSUME NEW n \in Nat, NEW v \in Nat
  PROVE  \E r : Rests(r, v, n) /\ Digits(v, n) = [i \in 1 .. n |-> r[n-i] % Radix]
<1> DEFINE r == CHOOSE r : r = [k \in 0 .. n |-> IF k = 0 THEN v ELSE r[k-1] \div Radix]
<1>1. Digits(v, n) = [i \in 1 .. n |-> r[n-i] % Radix]
  BY DEF Digits
<1>2. r = CHOOSE g : IsRests(g, v, n)
  BY DEF IsRests
<1> HIDE DEF r
<1>3. IsRests(r, v, n)
  BY <1>2, RestsExist
<1>4. QED
  BY <1>1, <1>3, RestsAre

(* What remains of a number below Span(n) after k digits fits in n - k.    *)
LEMMA RestsEnd ==
  ASSUME NEW n \in Nat, NEW v \in Nat, v < Span(n), NEW r, Rests(r, v, n)
  PROVE  r[n] = 0
<1>1. PICK m : Prefix(m, Full(n), n) /\ Span(n) = m[n] + 1
  BY SpanPrefix
<1> DEFINE T == {k \in Nat : k <= n => r[k] <= m[n-k]}
<1>2. 0 \in T
  <2>1. n \in 0 .. n /\ n - 0 = n
    OBVIOUS
  <2>2. m[n] \in Nat /\ r[0] = v
    BY <1>1, <2>1 DEF Prefix, Rests
  <2>3. QED
    BY <1>1, <2>1, <2>2
<1>3. ASSUME NEW k \in Nat, k \in T PROVE k + 1 \in T
  <2> SUFFICES ASSUME k + 1 <= n PROVE r[k + 1] <= m[n - (k + 1)]
    OBVIOUS
  <2> DEFINE h == n - k
             a == r[k]
             b == m[h - 1]
             q == a \div Radix
             x == a % Radix
  <2>1. h \in 1 .. n /\ h - 1 \in 0 .. n /\ h - 1 = n - (k + 1) /\ k \in 0 .. n
        /\ k + 1 \in 1 .. n /\ (k + 1) - 1 = k
    OBVIOUS
  <2>2. r[k + 1] = q /\ a \in Nat
    BY <2>1 DEF Rests
  <2>3. a <= m[h]
    BY <1>3
  <2>4. m[h] = b * Radix + (Radix - 1) /\ b \in Nat
    <3> HIDE DEF h
    <3>1. m[h] = m[h - 1] * Radix + Full(n)[h] /\ m[h - 1] \in Nat /\ Full(n)[h] = Radix - 1
      BY <1>1, <2>1 DEF Prefix, Full
    <3>2. QED
      BY <3>1
  <2>5. q \in Nat /\ x \in 0 .. Radix-1 /\ a = Radix * q + x
    BY <2>2, RadixFacts, DivMod
  <2>6. q <= b
    <3> HIDE DEF a, b, q, x, h
    <3>1. CASE b < q
      <4>1. b + 1 <= q /\ b + 1 \in Nat
        BY <2>4, <2>5, <3>1
      <4>2. (b + 1) * Radix <= q * Radix
        BY <2>5, <4>1, RadixFacts, MulMonotone
      <4>3. (b + 1) * Radix = b * Radix + Radix /\ q * Radix = Radix * q
        BY <2>4, <2>5, RadixFacts
      <4>4. b * Radix \in Nat /\ Radix * q \in Nat
        BY <2>4, <2>5, RadixFacts
      <4>5. m[h] < a
        BY <2>2, <2>4, <2>5, <4>2, <4>3, <4>4, RadixFacts
      <4>6. m[h] \in Nat
        BY <2>4, RadixFacts
      <4>7. QED
        BY <2>2, <2>3, <4>5, <4>6
    <3>2. QED
      BY <2>4, <2>5, <3>1
  <2>7. QED
    BY <2>1, <2>2, <2>6
<1> HIDE DEF T
<1>4. Nat \subseteq T
  BY <1>2, <1>3, NatSetInduction
<1>5. r[n] <= m[n - n]
  BY <1>4 DEF T
<1>6. m[n - n] = 0 /\ r[n] \in Nat
  <2>1. n - n = 0 /\ n \in 0 .. n
    OBVIOUS
  <2>2. QED
    BY <1>1, <2>1 DEF Prefix, Rests
<1>7. QED
  BY <1>5, <1>6

LEMMA DigitsValue ==
  ASSUME NEW n \in Nat, NEW v \in Nat, v < Span(n)
  PROVE  Digits(v, n) \in DigitSeq(n) /\ Value(Digits(v, n)) = v
<1>1. PICK r : Rests(r, v, n) /\ Digits(v, n) = [i \in 1 .. n |-> r[n-i] % Radix]
  BY DigitsRests
<1> DEFINE d == Digits(v, n)
<1>2. ASSUME NEW i \in 1 .. n
      PROVE  /\ d[i] \in Digit
             /\ r[n-i] = Radix * r[n-(i-1)] + d[i]
  <2> DEFINE a == r[n-i]
  <2>1. n - i \in 0 .. n /\ n - (i-1) \in 1 .. n /\ (n - (i-1)) - 1 = n - i
    OBVIOUS
  <2>2. a \in Nat /\ r[n-(i-1)] = a \div Radix /\ d[i] = a % Radix
    <3>1. a \in Nat
      BY <1>1, <2>1 DEF Rests
    <3>2. r[n-(i-1)] = r[(n-(i-1)) - 1] \div Radix
      BY <1>1, <2>1 DEF Rests
    <3>3. QED
      BY <1>1, <2>1, <3>1, <3>2
  <2> HIDE DEF a, d
  <2>3. a % Radix \in 0 .. Radix-1 /\ a = Radix * (a \div Radix) + (a % Radix)
    BY <2>2, RadixFacts, DivMod
  <2>4. QED
    BY <2>2, <2>3 DEF Digit, a
<1>3. d \in DigitSeq(n)
  <2>1. d = [i \in 1 .. n |-> d[i]]
    BY <1>1
  <2> HIDE DEF d
  <2>2. QED
    BY <1>2, <2>1 DEF DigitSeq
<1> HIDE DEF d
<1>4. PICK f : Prefix(f, d, n) /\ Value(d) = f[n]
  BY <1>3, ValuePrefix
<1> DEFINE T == {i \in Nat : i <= n => f[i] = r[n-i]}
<1>5. 0 \in T
  <2>1. r[n] = 0 /\ n - 0 = n /\ f[0] = 0
    BY <1>1, <1>4, RestsEnd DEF Prefix
  <2>2. QED
    BY <2>1
<1>6. ASSUME NEW i \in Nat, i \in T PROVE i + 1 \in T
  <2> SUFFICES ASSUME i + 1 <= n PROVE f[i + 1] = r[n-(i + 1)]
    OBVIOUS
  <2> DEFINE k == i + 1
  <2>1. k \in 1 .. n /\ k - 1 = i /\ f[i] = r[n-i] /\ i \in 0 .. n
    BY <1>6
  <2> HIDE DEF k
  <2>2. f[k] = f[i] * Radix + d[k] /\ f[i] \in Nat
    BY <1>4, <2>1 DEF Prefix
  <2>3. r[n-k] = Radix * r[n-i] + d[k]
    BY <1>2, <2>1
  <2>4. f[i] * Radix = Radix * f[i]
    BY <2>2, RadixFacts
  <2>5. f[k] = r[n-k]
    BY <2>1, <2>2, <2>3, <2>4
  <2>6. QED
    BY <2>5 DEF k
<1> HIDE DEF T
<1>7. Nat \subseteq T
  BY <1>5, <1>6, NatSetInduction
<1>8. f[n] = r[n-n] /\ n - n = 0
  BY <1>7 DEF T
<1>9. Value(d) = v
  BY <1>1, <1>4, <1>8 DEF Rests
<1>10. QED
  BY <1>3, <1>9 DEF d

-----------------------------------------------------------------------------
(* A run of counters, each the increment of the one before.                *)

Run(u, n, m) ==
  /\ u \in [1 .. n -> DigitSeq(m)]
  /\ \A i \in 1 .. n : i < n => u[i+1] = Increment(u[i])

IsCounters(c, d, n) == c = [i \in 1 .. n+1 |-> IF i = 1 THEN d ELSE Increment(c[i-1])]

LEMMA CountersExist ==
  ASSUME NEW d, NEW n \in Nat
  PROVE  \E c : IsCounters(c, d, n)
<1> DEFINE T == {k \in Nat : \E c : IsCounters(c, d, k)}
<1>1. 0 \in T
  <2> DEFINE c == [i \in 1 .. 1 |-> d]
             h == [i \in 1 .. 0+1 |-> IF i = 1 THEN d ELSE Increment(c[i-1])]
  <2>1. c = h
    BY SMT
  <2>2. IsCounters(c, d, 0)
    BY <2>1 DEF IsCounters
  <2>3. QED
    BY <2>2
<1>2. ASSUME NEW k \in Nat, k \in T PROVE k + 1 \in T
  <2>1. PICK c : IsCounters(c, d, k)
    BY <1>2
  <2> DEFINE g == [i \in 1 .. (k+1)+1 |-> IF i <= k+1 THEN c[i] ELSE Increment(c[k+1])]
             h == [i \in 1 .. (k+1)+1 |-> IF i = 1 THEN d ELSE Increment(g[i-1])]
  <2>2. ASSUME NEW i \in 1 .. (k+1)+1 PROVE g[i] = h[i]
    <3>1. CASE i = 1
      BY <2>1, <3>1 DEF IsCounters
    <3>2. CASE i \in 2 .. k+1
      <4>1. g[i] = c[i] /\ g[i-1] = c[i-1]
        BY <3>2
      <4>2. c[i] = Increment(c[i-1])
        BY <2>1, <3>2 DEF IsCounters
      <4>3. QED
        BY <3>2, <4>1, <4>2
    <3>3. CASE i = (k+1)+1
      <4>1. g[i] = Increment(c[k+1]) /\ g[i-1] = c[k+1] /\ i # 1
        BY <3>3
      <4>2. QED
        BY <3>3, <4>1
    <3>4. QED
      BY <3>1, <3>2, <3>3
  <2> HIDE DEF h
  <2>3. g = h
    BY <2>2 DEF h
  <2>4. IsCounters(g, d, k + 1)
    BY <2>3 DEF IsCounters, h
  <2>5. QED
    BY <2>4
<1> HIDE DEF T
<1>3. Nat \subseteq T
  BY <1>1, <1>2, NatSetInduction
<1>4. QED
  BY <1>3 DEF T

LEMMA CountersRun ==
  ASSUME NEW m \in Nat, NEW d \in DigitSeq(m), NEW n \in Nat
  PROVE  Run(Counters(d, n), n+1, m) /\ Counters(d, n)[1] = d
<1> DEFINE c == CHOOSE c : c = [i \in 1 .. n+1 |-> IF i = 1 THEN d ELSE Increment(c[i-1])]
<1>1. Counters(d, n) = c
  BY DEF Counters
<1>2. c = CHOOSE g : IsCounters(g, d, n)
  BY DEF IsCounters
<1> HIDE DEF c
<1>3. IsCounters(c, d, n)
  BY <1>2, CountersExist
<1>4. /\ DOMAIN c = 1 .. n+1 /\ c = [i \in 1 .. n+1 |-> c[i]] /\ c[1] = d
      /\ \A i \in 1 .. n+1 : i # 1 => c[i] = Increment(c[i-1])
  <2>1. DOMAIN c = 1 .. n+1 /\ c = [i \in 1 .. n+1 |-> c[i]] /\ 1 \in 1 .. n+1
    BY <1>3 DEF IsCounters
  <2>2. \A i \in 1 .. n+1 : c[i] = IF i = 1 THEN d ELSE Increment(c[i-1])
    BY <1>3 DEF IsCounters
  <2>3. QED
    BY <2>1, <2>2
<1>5. \A i \in 1 .. n+1 : i < n+1 => c[i+1] = Increment(c[i])
  <2> SUFFICES ASSUME NEW i \in 1 .. n+1, i < n+1 PROVE c[i+1] = Increment(c[i])
    OBVIOUS
  <2> DEFINE k == i + 1
  <2>1. k \in 1 .. n+1 /\ k # 1 /\ k - 1 = i
    OBVIOUS
  <2> HIDE DEF k
  <2>2. c[k] = Increment(c[i])
    BY <1>4, <2>1
  <2>3. QED
    BY <2>2 DEF k
<1> DEFINE T == {k \in Nat : k <= n => c[k+1] \in DigitSeq(m)}
<1>6. 0 \in T
  BY <1>4
<1>7. ASSUME NEW k \in Nat, k \in T PROVE k + 1 \in T
  <2> SUFFICES ASSUME k + 1 <= n PROVE c[(k+1)+1] \in DigitSeq(m)
    OBVIOUS
  <2>1. c[k+1] \in DigitSeq(m)
    BY <1>7
  <2>2. k+1 \in 1 .. n+1 /\ k+1 < n+1
    OBVIOUS
  <2>3. c[(k+1)+1] = Increment(c[k+1])
    BY <1>5, <2>2
  <2>4. QED
    BY <2>1, <2>3, IncrementValue
<1> HIDE DEF T
<1>8. Nat \subseteq T
  BY <1>6, <1>7, NatSetInduction
<1>9. \A i \in 1 .. n+1 : c[i] \in DigitSeq(m)
  <2> TAKE i \in 1 .. n+1
  <2>1. i - 1 \in Nat /\ i - 1 <= n /\ (i-1)+1 = i
    OBVIOUS
  <2>2. i - 1 \in T
    BY <1>8, <2>1
  <2>3. c[(i-1)+1] \in DigitSeq(m)
    BY <2>1, <2>2 DEF T
  <2>4. QED
    BY <2>1, <2>3
<1>10. c \in [1 .. n+1 -> DigitSeq(m)]
  BY <1>4, <1>9
<1>11. QED
  BY <1>1, <1>4, <1>5, <1>10 DEF Run

(* As numbers they go up by 1, and around at most once.                    *)
Around(a, s) == IF a < s THEN a ELSE a - s

LEMMA RunValues ==
  ASSUME NEW m \in Nat, NEW n \in Nat, n <= Span(m), NEW u, Run(u, n, m)
  PROVE  \A i \in 1 .. n : Value(u[i]) = Around(Value(u[1]) + (i-1), Span(m))
<1> DEFINE s == Span(m)
           a == Value(u[1])
           T == {k \in Nat : k < n => Value(u[k+1]) = Around(a + k, s)}
<1>1. \A i \in 1 .. n : u[i] \in DigitSeq(m)
  BY DEF Run
<1>2. \A i \in 1 .. n : Value(u[i]) \in Nat /\ Value(u[i]) < s /\ s \in Nat
  BY <1>1, ValuesBelowSpan
<1>3. 0 \in T
  <2> SUFFICES ASSUME 0 < n PROVE Value(u[0+1]) = Around(a + 0, s)
    OBVIOUS
  <2>1. a \in Nat /\ a < s /\ a + 0 = a
    BY <1>2
  <2>2. QED
    BY <2>1 DEF Around
<1>4. ASSUME NEW k \in Nat, k \in T PROVE k + 1 \in T
  <2> SUFFICES ASSUME k + 1 < n PROVE Value(u[(k+1)+1]) = Around(a + (k+1), s)
    OBVIOUS
  <2> DEFINE b == Value(u[k+1])
             b2 == Value(u[(k+1)+1])
  <2>1. k+1 \in 1 .. n /\ k+1 < n /\ 1 \in 1 .. n
    OBVIOUS
  <2>2. u[(k+1)+1] = Increment(u[k+1])
    BY <2>1 DEF Run
  <2>3. b2 = IF b + 1 = s THEN 0 ELSE b + 1
    BY <1>1, <2>1, <2>2, IncrementValue
  <2>4. b = Around(a + k, s)
    BY <1>4
  <2>5. a \in Nat /\ a < s /\ b \in Nat /\ b < s /\ s \in Nat /\ k + 1 < s
    BY <1>2, <2>1
  <2> HIDE DEF a, b, b2, s
  <2>6. b2 = Around(a + (k+1), s)
    BY <2>3, <2>4, <2>5 DEF Around
  <2>7. QED
    BY <2>6 DEF b2
<1> HIDE DEF T
<1>5. Nat \subseteq T
  BY <1>3, <1>4, NatSetInduction
<1>6. QED
  <2> SUFFICES ASSUME NEW i \in 1 .. n PROVE Value(u[i]) = Around(a + (i-1), s)
    OBVIOUS
  <2>1. i - 1 \in Nat /\ i - 1 < n /\ (i-1)+1 = i
    OBVIOUS
  <2>2. i - 1 \in T
    BY <1>5, <2>1
  <2>3. Value(u[(i-1)+1]) = Around(a + (i-1), s)
    BY <2>1, <2>2 DEF T
  <2>4. QED
    BY <2>1, <2>3

LEMMA RunDistinct ==
  ASSUME NEW m \in Nat, NEW n \in Nat, n <= Span(m), NEW u, Run(u, n, m),
         NEW i \in 1 .. n, NEW j \in 1 .. n, u[i] = u[j]
  PROVE  i = j
<1> DEFINE s == Span(m)
           a == Value(u[1])
<1>1. Around(a + (i-1), s) = Around(a + (j-1), s)
  BY RunValues
<1>2. a \in Nat /\ a < s /\ s \in Nat
  <2>1. 1 \in 1 .. n
    OBVIOUS
  <2>2. u[1] \in DigitSeq(m)
    BY <2>1 DEF Run
  <2>3. QED
    BY <2>2, ValuesBelowSpan
<1>3. i - 1 < s /\ j - 1 < s
  BY <1>2
<1> HIDE DEF a, s
<1>4. QED
  BY <1>1, <1>2, <1>3 DEF Around

LEMMA XBlockFacts == XBLOCK \in Nat /\ XBLOCK > 0 /\ XDigits \in Nat /\ VDigits \in Nat
BY RngAssumption

(* The blocks that n bytes are cut from.                                   *)
LEMMA BlocksCover ==
  ASSUME NEW b \in Nat
  PROVE  /\ BlocksFor(b) \in Nat
         /\ b <= XBLOCK * BlocksFor(b) /\ XBLOCK * BlocksFor(b) < b + XBLOCK
         /\ b = 0 <=> BlocksFor(b) = 0
<1> DEFINE a == b + XBLOCK - 1
           q == a \div XBLOCK
           r == a % XBLOCK
<1>1. a \in Nat /\ a = (b + XBLOCK) - 1
  BY XBlockFacts
<1>2. q \in Nat /\ r \in 0 .. XBLOCK-1 /\ a = XBLOCK * q + r
  BY <1>1, XBlockFacts, DivMod
<1>3. BlocksFor(b) = q
  BY DEF BlocksFor
<1> HIDE DEF a, q, r
<1>4. XBLOCK * q \in Nat
  BY <1>2, XBlockFacts
<1>5. b <= XBLOCK * q /\ XBLOCK * q < b + XBLOCK
  BY <1>1, <1>2, <1>4, XBlockFacts
<1>6. q = 0 => b = 0
  BY <1>5, XBlockFacts
<1>7. b = 0 => q = 0
  <2>1. XBLOCK * q < XBLOCK <=> q = 0
    <3>1. q > 0 => XBLOCK * q >= XBLOCK
      <4> SUFFICES ASSUME q > 0 PROVE XBLOCK * q >= XBLOCK
        OBVIOUS
      <4>1. q - 1 \in Nat /\ XBLOCK * q = XBLOCK * (q - 1) + XBLOCK
        BY <1>2, XBlockFacts
      <4>2. XBLOCK * (q - 1) \in Nat
        BY <4>1, XBlockFacts
      <4>3. QED
        BY <4>1, <4>2, XBlockFacts
    <3>2. QED
      BY <1>2, <1>4, <3>1, XBlockFacts
  <2>2. QED
    BY <1>5, <2>1, XBlockFacts
<1>8. QED
  BY <1>2, <1>3, <1>5, <1>6, <1>7

-----------------------------------------------------------------------------
(* The DRBG.                                                               *)

(* Under the key of now nothing was encrypted yet.                         *)
DrbgInv ==
  /\ drbg.reseed_counter >= 1 => drbg.Key \in Nat /\ drbg.V \in DigitSeq(VDigits)
  /\ vuses \in Seq([key : Nat, ctr : DigitSeq(VDigits)])
  /\ \A i \in DOMAIN vuses : vuses[i].key < drbg.Key
  /\ BlocksFresh

Use == [key : Nat, ctr : DigitSeq(VDigits)]

LEMMA UsesOf ==
  ASSUME NEW key \in Nat, NEW n \in Nat, NEW c \in [1 .. n -> DigitSeq(VDigits)]
  PROVE  /\ Uses(key, c) \in Seq(Use)
         /\ Len(Uses(key, c)) = n
         /\ \A i \in 1 .. n : Uses(key, c)[i].key = key /\ Uses(key, c)[i].ctr = c[i]
<1> DEFINE w == [i \in 1 .. n |-> [key |-> key, ctr |-> c[i]]]
<1>1. c \in Seq(DigitSeq(VDigits)) /\ Len(c) = n
  <2>1. c \in Seq(DigitSeq(VDigits))
    BY SeqDef
  <2>2. Len(c) \in Nat /\ DOMAIN c = 1 .. Len(c) /\ DOMAIN c = 1 .. n
    BY <2>1, LenProperties
  <2>3. QED
    BY <2>1, <2>2, LenOfDomain
<1>2. Uses(key, c) = w
  BY <1>1 DEF Uses
<1>3. w \in [1 .. n -> Use]
  BY DEF Use
<1>4. w \in Seq(Use) /\ Len(w) = n
  <2>1. w \in Seq(Use)
    BY <1>3, SeqDef
  <2>2. Len(w) \in Nat /\ DOMAIN w = 1 .. Len(w) /\ DOMAIN w = 1 .. n
    BY <2>1, LenProperties
  <2>3. QED
    BY <2>1, <2>2, LenOfDomain
<1>5. QED
  BY <1>2, <1>4

Fresh(uses) ==
  \A i, j \in DOMAIN uses : uses[i].key = uses[j].key /\ uses[i].ctr = uses[j].ctr => i = j

LEMMA TailOf ==
  ASSUME NEW n \in Nat, NEW c \in [1 .. n+1 -> DigitSeq(VDigits)]
  PROVE  Tail(c) \in [1 .. n -> DigitSeq(VDigits)] /\ \A i \in 1 .. n : Tail(c)[i] = c[i+1]
<1>1. c \in Seq(DigitSeq(VDigits))
  BY SeqDef
<1>2. Len(c) = n+1
  <2>1. Len(c) \in Nat /\ DOMAIN c = 1 .. Len(c) /\ DOMAIN c = 1 .. n+1
    BY <1>1, LenProperties
  <2>2. QED
    BY <2>1, LenOfDomain
<1>3. c # << >>
  <2>1. Len(<< >>) = 0
    OBVIOUS
  <2>2. QED
    BY <1>2, <2>1
<1>4. Tail(c) \in Seq(DigitSeq(VDigits)) /\ Len(Tail(c)) = n /\ \A i \in 1 .. n : Tail(c)[i] = c[i+1]
  BY <1>1, <1>2, <1>3, HeadTailProperties
<1>5. QED
  <2>1. DOMAIN Tail(c) = 1 .. n /\ Tail(c) \in [1 .. Len(Tail(c)) -> DigitSeq(VDigits)]
    BY <1>4, LenProperties
  <2>2. QED
    BY <1>4, <2>1

(* A request's counters and the three of the update behind it are one run: *)
(* under its key none of them comes twice.                                 *)
LEMMA UpdateFresh ==
  ASSUME NEW key \in Nat, NEW old \in Seq(Use), \A i \in DOMAIN old : old[i].key < key, Fresh(old),
         NEW n \in Nat, n + 3 <= Span(VDigits), NEW c, Run(c, n+1, VDigits), NEW count,
         AES256_CTR_DRBG_Update(key, c[n+1], old \o Uses(key, Tail(c)), count)
  PROVE  DrbgInv'
<1> DEFINE e == Counters(c[n+1], 3)
           w == [k \in 1 .. n+3 |-> IF k <= n THEN c[k+1] ELSE e[(k-n)+1]]
           L == Len(old)
           t1 == Uses(key, Tail(c))
           t2 == Uses(key, Tail(e))
<1>1. c \in [1 .. n+1 -> DigitSeq(VDigits)] /\ \A i \in 1 .. n+1 : i < n+1 => c[i+1] = Increment(c[i])
  BY DEF Run
<1>2. Run(e, 3+1, VDigits) /\ e[1] = c[n+1]
  <2>1. c[n+1] \in DigitSeq(VDigits) /\ VDigits \in Nat
    BY <1>1, XBlockFacts
  <2>2. QED
    BY <2>1, CountersRun
<1>3. e \in [1 .. 3+1 -> DigitSeq(VDigits)] /\ \A i \in 1 .. 3+1 : i < 3+1 => e[i+1] = Increment(e[i])
  BY <1>2 DEF Run
<1>4. drbg'.Key = key + 1 /\ drbg'.V \in DigitSeq(VDigits) /\ vuses' = (old \o t1) \o t2
  BY DEF AES256_CTR_DRBG_Update, DigitSeq, Digit
<1> HIDE DEF e
<1>5. Run(w, n+3, VDigits)
  <2>1. w \in [1 .. n+3 -> DigitSeq(VDigits)]
    BY <1>1, <1>3
  <2>2. ASSUME NEW k \in 1 .. n+3, k < n+3 PROVE w[k+1] = Increment(w[k])
    <3>1. CASE k < n
      <4>1. w[k+1] = c[(k+1)+1] /\ w[k] = c[k+1] /\ k+1 \in 1 .. n+1 /\ k+1 < n+1
        BY <3>1
      <4>2. QED
        BY <1>1, <4>1
    <3>2. CASE k = n
      <4>1. w[k+1] = e[1+1] /\ w[k] = c[n+1]
        BY <3>2
      <4>2. e[1+1] = Increment(e[1])
        BY <1>3
      <4>3. QED
        BY <1>2, <4>1, <4>2
    <3>3. CASE k > n
      <4> DEFINE h == (k-n)+1
      <4>1. h \in 1 .. 3+1 /\ h < 3+1 /\ h+1 = ((k+1)-n)+1 /\ ~(k <= n) /\ ~(k+1 <= n)
        BY <2>2, <3>3
      <4>3. w[k] = e[h]
        BY <4>1
      <4>4. w[k+1] = e[((k+1)-n)+1]
        BY <4>1
      <4> HIDE DEF h, w
      <4>2. QED
        BY <1>3, <4>1, <4>3, <4>4
    <3>4. QED
      BY <3>1, <3>2, <3>3
  <2>3. QED
    BY <2>1, <2>2 DEF Run
<1>6. /\ t1 \in Seq(Use) /\ Len(t1) = n
      /\ \A i \in 1 .. n : t1[i].key = key /\ t1[i].ctr = c[i+1]
  <2> DEFINE u == Tail(c)
  <2>1. u \in [1 .. n -> DigitSeq(VDigits)] /\ \A i \in 1 .. n : u[i] = c[i+1]
    BY <1>1, TailOf
  <2> HIDE DEF u
  <2>3. /\ Uses(key, u) \in Seq(Use) /\ Len(Uses(key, u)) = n
        /\ \A i \in 1 .. n : Uses(key, u)[i].key = key /\ Uses(key, u)[i].ctr = u[i]
    BY <2>1, UsesOf
  <2>2. QED
    BY <2>1, <2>3 DEF u
<1>7. /\ t2 \in Seq(Use) /\ Len(t2) = 3
      /\ \A i \in 1 .. 3 : t2[i].key = key /\ t2[i].ctr = e[i+1]
  <2> DEFINE u == Tail(e)
  <2>0. PICK m \in Nat : m = 3
    OBVIOUS
  <2>1. u \in [1 .. m -> DigitSeq(VDigits)] /\ \A i \in 1 .. m : u[i] = e[i+1]
    BY <1>3, <2>0, TailOf
  <2> HIDE DEF u
  <2>3. /\ Uses(key, u) \in Seq(Use) /\ Len(Uses(key, u)) = m
        /\ \A i \in 1 .. m : Uses(key, u)[i].key = key /\ Uses(key, u)[i].ctr = u[i]
    BY <2>1, UsesOf
  <2>2. QED
    BY <2>0, <2>1, <2>3 DEF u
<1> HIDE DEF t1, t2
<1>8. L \in Nat /\ DOMAIN old = 1 .. L
  BY LenProperties
<1>9. /\ old \o t1 \in Seq(Use) /\ Len(old \o t1) = L + n
      /\ \A i \in 1 .. L + n : (old \o t1)[i] = IF i <= L THEN old[i] ELSE t1[i - L]
  BY <1>6, ConcatProperties
<1>10. /\ vuses' \in Seq(Use) /\ Len(vuses') = (L + n) + 3
       /\ \A i \in 1 .. (L + n) + 3 :
            vuses'[i] = IF i <= L + n THEN (old \o t1)[i] ELSE t2[i - (L + n)]
  <2> DEFINE r == old \o t1
  <2>1. r \in Seq(Use) /\ Len(r) = L + n /\ vuses' = r \o t2
    BY <1>4, <1>9
  <2> HIDE DEF r
  <2>2. /\ r \o t2 \in Seq(Use) /\ Len(r \o t2) = Len(r) + Len(t2)
        /\ \A i \in 1 .. Len(r) + Len(t2) :
             (r \o t2)[i] = IF i <= Len(r) THEN r[i] ELSE t2[i - Len(r)]
    BY <1>7, <2>1, ConcatProperties
  <2>3. QED
    BY <1>7, <2>1, <2>2 DEF r
<1>11. DOMAIN vuses' = 1 .. (L + n) + 3
  BY <1>10, LenProperties
<1>12. ASSUME NEW i \in DOMAIN vuses'
       PROVE  /\ i <= L => i \in DOMAIN old /\ vuses'[i] = old[i]
              /\ i > L => i - L \in 1 .. n+3 /\ vuses'[i].key = key /\ vuses'[i].ctr = w[i - L]
  <2>1. i \in 1 .. (L + n) + 3 /\ i \in Nat
    BY <1>8, <1>11
  <2>2. CASE i <= L
    BY <1>8, <1>9, <1>10, <2>1, <2>2
  <2>3. CASE i > L /\ i <= L + n
    <3> DEFINE k == i - L
    <3>1. k \in 1 .. n /\ k \in 1 .. n+3 /\ k <= n
      BY <1>8, <2>1, <2>3
    <3>2. vuses'[i] = t1[k]
      BY <1>8, <1>9, <1>10, <2>1, <2>3
    <3> HIDE DEF k
    <3>3. t1[k].key = key /\ t1[k].ctr = c[k+1] /\ w[k] = c[k+1]
      BY <1>6, <3>1
    <3>4. QED
      BY <2>3, <3>1, <3>2, <3>3, <1>8, <2>1 DEF k
  <2>4. CASE i > L + n
    <3> DEFINE k == i - L
               h == i - (L + n)
    <3>1. k \in 1 .. n+3 /\ ~(k <= n) /\ h \in 1 .. 3 /\ k - n = h /\ ~(i <= L) /\ ~(i <= L + n)
      BY <1>8, <2>1, <2>4
    <3>2. vuses'[i] = t2[h]
      BY <1>10, <2>1, <3>1
    <3> HIDE DEF k, h
    <3>3. t2[h].key = key /\ t2[h].ctr = e[h+1]
      BY <1>7, <3>1
    <3>4. w[k] = e[h+1]
      BY <3>1
    <3>5. QED
      BY <3>1, <3>2, <3>3, <3>4 DEF k
  <2>5. QED
    BY <1>8, <2>1, <2>2, <2>3, <2>4
<1> HIDE DEF w
<1>13. ASSUME NEW i \in DOMAIN vuses' PROVE vuses'[i].key <= key /\ (i <= L => vuses'[i].key < key)
  <2>1. i \in Nat
    BY <1>8, <1>11
  <2>2. \A k \in DOMAIN old : old[k].key \in Nat
    <3>1. \A k \in 1 .. Len(old) : old[k] \in Use
      BY ElementOfSeq
    <3>2. QED
      BY <1>8, <3>1 DEF Use
  <2>3. QED
    BY <1>8, <1>12, <2>1, <2>2
<1>14. ASSUME NEW i \in DOMAIN vuses', NEW j \in DOMAIN vuses',
              vuses'[i].key = vuses'[j].key, vuses'[i].ctr = vuses'[j].ctr
       PROVE  i = j
  <2>1. i \in Nat /\ j \in Nat
    BY <1>8, <1>11
  <2>2. CASE i <= L /\ j <= L
    BY <1>12, <1>14, <2>2 DEF Fresh
  <2>3. CASE i > L /\ j > L
    <3>1. /\ i - L \in 1 .. n+3 /\ j - L \in 1 .. n+3
          /\ w[i - L] = w[j - L]
      BY <1>12, <1>14, <2>3
    <3>2. i - L = j - L
      <4>1. VDigits \in Nat /\ n+3 \in Nat
        BY XBlockFacts
      <4>2. QED
        BY <1>5, <3>1, <4>1, RunDistinct
    <3>3. QED
      BY <1>8, <2>1, <3>2
  <2>4. CASE ~(i <= L /\ j <= L) /\ ~(i > L /\ j > L)
    <3>1. (i <= L /\ j > L) \/ (i > L /\ j <= L)
      BY <1>8, <2>1, <2>4
    <3>2. CASE i <= L /\ j > L
      BY <1>12, <1>13, <1>14, <3>2
    <3>3. CASE i > L /\ j <= L
      BY <1>12, <1>13, <1>14, <3>3
    <3>4. QED
      BY <3>1, <3>2, <3>3
  <2>5. QED
    BY <2>2, <2>3, <2>4
<1>15. \A i \in DOMAIN vuses' : vuses'[i].key < drbg'.Key
  <2> TAKE i \in DOMAIN vuses'
  <2>1. vuses'[i].key \in Nat
    <3>1. \A k \in 1 .. Len(vuses') : vuses'[k] \in Use
      BY <1>10, ElementOfSeq
    <3>2. QED
      BY <1>10, <1>11, <3>1 DEF Use
  <2>2. vuses'[i].key <= key
    BY <1>13
  <2>3. drbg'.Key = key + 1
    BY <1>4
  <2>4. QED
    BY <2>1, <2>2, <2>3
<1>16. BlocksFresh'
  BY <1>14 DEF BlocksFresh
<1>17. drbg'.Key \in Nat
  BY <1>4
<1>18. QED
  BY <1>4, <1>10, <1>15, <1>16, <1>17 DEF DrbgInv, Use

LEMMA DrbgInitInv == ASSUME randombytes_init PROVE DrbgInv'
<1> DEFINE c == Counters(Zeros(VDigits), 0)
<1>1. VDigits \in Nat /\ Zeros(VDigits) \in DigitSeq(VDigits)
  BY XBlockFacts, FullDigits
<1>2. Run(c, 0+1, VDigits) /\ c[0+1] = Zeros(VDigits)
  BY <1>1, CountersRun
<1> HIDE DEF c
<1>3. c \in [1 .. 0+1 -> DigitSeq(VDigits)]
  BY <1>2 DEF Run
<1>4. Tail(c) \in [1 .. 0 -> DigitSeq(VDigits)]
  BY <1>3, TailOf
<1>5. Uses(0, Tail(c)) = << >>
  <2>1. Uses(0, Tail(c)) \in Seq(Use) /\ Len(Uses(0, Tail(c))) = 0
    <3> DEFINE u == Tail(c)
    <3>1. u \in [1 .. 0 -> DigitSeq(VDigits)] /\ 0 \in Nat
      BY <1>4
    <3> HIDE DEF u
    <3>2. Uses(0, u) \in Seq(Use) /\ Len(Uses(0, u)) = 0
      BY <3>1, UsesOf
    <3>3. QED
      BY <3>2 DEF u
  <2>2. QED
    BY <2>1, EmptySeq
<1>6. << >> \in Seq(Use) /\ << >> \o << >> = << >> /\ DOMAIN << >> = {}
  BY EmptySeq, ConcatEmptySeq
<1>7. 0 + 3 <= Span(VDigits)
  BY BlocksCover, DrbgAssumption
<1>8. AES256_CTR_DRBG_Update(0, c[0+1], << >> \o Uses(0, Tail(c)), 1)
  BY <1>2, <1>5, <1>6 DEF randombytes_init
<1>9. \A i \in DOMAIN << >> : << >>[i].key < 0
  BY <1>6
<1>10. Fresh(<< >>)
  BY <1>6 DEF Fresh
<1>11. QED
  BY <1>2, <1>6, <1>7, <1>8, <1>9, <1>10, UpdateFresh

LEMMA DrbgStepInv ==
  ASSUME DrbgInv, NEW n \in VLens, randombytes(n)
  PROVE  DrbgInv'
<1> DEFINE b == BlocksFor(n)
           c == Counters(drbg.V, b)
           ctrs == Tail(c)
           v == IF b = 0 THEN drbg.V ELSE ctrs[b]
<1>1. n \in Nat /\ b \in Nat /\ b + 3 <= Span(VDigits)
  BY RngAssumption, DrbgAssumption, BlocksCover
<1>2. drbg.Key \in Nat /\ drbg.V \in DigitSeq(VDigits)
  BY DEF randombytes, DrbgInv
<1>3. AES256_CTR_DRBG_Update(drbg.Key, v, vuses \o Uses(drbg.Key, ctrs), drbg.reseed_counter + 1)
  BY DEF randombytes
<1> HIDE DEF b
<1>4. Run(c, b+1, VDigits) /\ c[1] = drbg.V
  BY <1>1, <1>2, XBlockFacts, CountersRun
<1> HIDE DEF c
<1>5. c \in [1 .. b+1 -> DigitSeq(VDigits)]
  BY <1>4 DEF Run
<1>6. \A i \in 1 .. b : ctrs[i] = c[i+1]
  BY <1>1, <1>5, TailOf
<1>7. v = c[b+1]
  <2>1. CASE b = 0
    BY <1>4, <2>1
  <2>2. CASE b # 0
    <3>1. b \in 1 .. b
      BY <1>1, <2>2
    <3>2. QED
      BY <1>6, <2>2, <3>1
  <2>3. QED
    BY <2>1, <2>2
<1>8. AES256_CTR_DRBG_Update(drbg.Key, c[b+1], vuses \o Uses(drbg.Key, Tail(c)),
                             drbg.reseed_counter + 1)
  BY <1>3, <1>7
<1>9. /\ vuses \in Seq(Use) /\ \A i \in DOMAIN vuses : vuses[i].key < drbg.Key
      /\ Fresh(vuses)
  BY DEF DrbgInv, Use, Fresh, BlocksFresh
<1>10. QED
  BY <1>1, <1>2, <1>4, <1>8, <1>9, UpdateFresh

-----------------------------------------------------------------------------
(* The expander.                                                           *)

Avail == XBLOCK - xctx.pos
Beyond(xlen) == IF xlen <= Avail THEN 0 ELSE xlen - Avail
Made == Value(xctx.ctr)

(* An expander in use: the blocks made so far are numbered from 0, what    *)
(* was served is all of them but the rest of the last one, and that rest   *)
(* is in the buffer.                                                       *)
Ready ==
  /\ xlast.served \in Nat /\ xctx.left \in Nat /\ xlast.maxlen \in Nat
  /\ xlast.served + xctx.left = xlast.maxlen
  /\ xlast.maxlen < Span(XDigits) /\ xlast.maxlen <= XLimit
  /\ Value(xctx.upper) = xlast.maxlen
  /\ xctx.pos \in 1 .. XBLOCK /\ xctx.ctr \in DigitSeq(XDigits)
  /\ xlast.served + Avail = XBLOCK * Made
  /\ \A k \in xctx.pos .. XBLOCK-1 : xctx.buf[k] = <<xctx.upper, Made - 1, k>>
  /\ \A p \in DOMAIN xlast.out : xlast.out[p][1] = xctx.upper

ExpanderInv ==
  /\ DOMAIN xctx = {"left", "pos", "upper", "ctr", "buf"}
  /\ DOMAIN xlast = {"maxlen", "served", "ret", "out"}
  /\ xlast.ret \in {"none", "bad_maxlen"} => xlast.served = 0 /\ xlast.out = NoBytes
  /\ xlast.ret \notin {"none", "bad_maxlen"} => Ready

LEMMA ReadyKeepsLength == ASSUME ExpanderInv PROVE LengthKept
<1> SUFFICES ASSUME xlast.ret \notin {"none", "bad_maxlen"}
             PROVE  /\ xctx.left >= 0
                    /\ xlast.served + xctx.left = xlast.maxlen
                    /\ Value(xctx.upper) = xlast.maxlen
                    /\ \A p \in DOMAIN xlast.out : xlast.out[p][1] = xctx.upper
                    /\ BlocksFor(xlast.served) = Made
  BY DEF LengthKept, Made
<1> USE DEF ExpanderInv
<1>1. Ready
  OBVIOUS
<1>2. BlocksFor(xlast.served) = Made
  <2> DEFINE s == xlast.served
             q == Made
             r == xctx.pos - 1
  <2>1. s \in Nat /\ q \in Nat /\ r \in 0 .. XBLOCK-1 /\ s + (XBLOCK - (r + 1)) = XBLOCK * q
    BY <1>1, XBlockFacts, ValuesBelowSpan DEF Ready, Made, Avail
  <2> HIDE DEF q, r
  <2>2. XBLOCK * q \in Nat /\ s + XBLOCK - 1 = XBLOCK * q + r
    BY <2>1, XBlockFacts
  <2>3. (XBLOCK * q + r) \div XBLOCK = q
    BY <2>1, XBlockFacts, DivUnique
  <2>4. QED
    BY <2>2, <2>3 DEF BlocksFor, q
<1>3. QED
  BY <1>1, <1>2 DEF Ready

LEMMA ExpanderIdleInv == ASSUME ExpanderIdle PROVE ExpanderInv
BY DEF ExpanderIdle, ExpanderInv

LEMMA ExpanderInitInv ==
  ASSUME ExpanderInv, NEW n \in XMaxLens, seedexpander_init(n)
  PROVE  ExpanderInv' /\ xlast'.served = xlast.served /\ xlast'.out = xlast.out
<1> USE DEF ExpanderInv, seedexpander_init
<1>1. n \in Nat /\ n <= XLimit
  BY RngAssumption
<1>2. /\ xlast.served = 0 /\ xlast.out = NoBytes
      /\ DOMAIN xlast' = {"maxlen", "served", "ret", "out"}
      /\ xlast'.served = xlast.served /\ xlast'.out = xlast.out /\ xlast'.maxlen = n
  OBVIOUS
<1>3. CASE n >= Span(XDigits)
  <2>1. xlast'.ret = "bad_maxlen" /\ xctx' = xctx
    BY <1>3
  <2>2. QED
    BY <1>2, <2>1
<1>4. CASE ~(n >= Span(XDigits))
  <2>1. /\ xlast'.ret = "success"
        /\ xctx' = [ left |-> n, pos |-> XBLOCK, upper |-> Digits(n, XDigits),
                     ctr |-> Zeros(XDigits), buf |-> [k \in 0 .. XBLOCK-1 |-> <<>>] ]
    BY <1>4
  <2>2. XDigits \in Nat /\ Zeros(XDigits) \in DigitSeq(XDigits) /\ Value(Zeros(XDigits)) = 0
    BY XBlockFacts, FullDigits, ZerosValue
  <2>3. Span(XDigits) \in Nat /\ n < Span(XDigits)
    BY <1>1, <1>4, <2>2, ValuesBelowSpan
  <2>4. Value(Digits(n, XDigits)) = n
    BY <1>1, <2>2, <2>3, DigitsValue
  <2>5. DOMAIN NoBytes = {}
    BY DEF NoBytes
  <2>6. /\ xctx'.left = n /\ xctx'.pos = XBLOCK /\ Value(xctx'.upper) = n
        /\ xctx'.ctr \in DigitSeq(XDigits) /\ Value(xctx'.ctr) = 0
        /\ DOMAIN xctx' = {"left", "pos", "upper", "ctr", "buf"}
    BY <2>1, <2>2, <2>4
  <2>7. XBLOCK * 0 = 0 /\ xctx'.pos .. XBLOCK-1 = {}
    BY <2>6, XBlockFacts
  <2>8. Ready'
    BY <1>1, <1>2, <2>3, <2>5, <2>6, <2>7, XBlockFacts DEF Ready, Avail, Made
  <2>9. QED
    BY <1>2, <2>1, <2>6, <2>8
<1>5. QED
  BY <1>3, <1>4

(* The counters of a request: as many as the bytes beyond the buffer take, *)
(* none of them wrapped, because the length of the expander ends first.    *)
LEMMA RequestCounters ==
  ASSUME Ready, NEW xlen \in Nat, ~Refused(xlen)
  PROVE  LET n == BlocksFor(Beyond(xlen))
             c == Counters(xctx.ctr, n)
         IN  /\ n \in Nat
             /\ \A i \in 1 .. n+1 : c[i] \in DigitSeq(XDigits) /\ Value(c[i]) = Made + (i-1)
             /\ \A i \in 1 .. n+1 : Made + (i-1) < Span(XDigits)
             /\ n = 0 => c[1] = xctx.ctr
<1> DEFINE b == Beyond(xlen)
           n == BlocksFor(b)
           c == Counters(xctx.ctr, n)
           s == Span(XDigits)
<1>1. XDigits \in Nat /\ XBLOCK \in Nat /\ XBLOCK > 0 /\ xctx.ctr \in DigitSeq(XDigits)
  BY XBlockFacts DEF Ready
<1>2. Made \in Nat /\ s \in Nat /\ Made < s
  BY <1>1, ValuesBelowSpan DEF Made
<1>3. Avail \in Nat /\ b \in Nat
  BY <1>1 DEF Ready, Avail, Beyond
<1>4. /\ n \in Nat /\ b <= XBLOCK * n /\ XBLOCK * n < b + XBLOCK
      /\ b = 0 <=> n = 0
  BY <1>3, BlocksCover
<1>5. xlast.served + xlen < s - 1
  BY <1>2 DEF Ready, Refused
<1> HIDE DEF b, n, s
<1>6. \A i \in 1 .. n+1 : Made + (i-1) < s
  <2>1. CASE n = 0
    BY <1>2, <1>4, <2>1
  <2>2. CASE n # 0
    <3> DEFINE m == Made + (n - 1)
    <3>1. b # 0 /\ b = xlen - Avail /\ m \in Nat
      BY <1>2, <1>4, <2>2 DEF b, Beyond
    <3>2. XBLOCK * m = XBLOCK * Made + (XBLOCK * n - XBLOCK)
      BY <1>1, <1>2, <1>4, <3>1
    <3> HIDE DEF m
    <3>3. XBLOCK * m \in Nat /\ XBLOCK * n \in Nat /\ XBLOCK * Made \in Nat
      BY <1>1, <1>2, <1>4, <3>1
    <3>4. xlast.served + Avail = XBLOCK * Made /\ xlast.served \in Nat
      BY DEF Ready
    <3>5. XBLOCK * m < xlast.served + xlen
      BY <1>1, <1>3, <1>4, <3>1, <3>2, <3>3, <3>4
    <3>6. m <= XBLOCK * m
      <4>1. XBLOCK - 1 \in Nat /\ XBLOCK * m = m + (XBLOCK - 1) * m
        BY <1>1, <3>1
      <4>2. (XBLOCK - 1) * m \in Nat
        BY <3>1, <4>1
      <4>3. QED
        BY <3>1, <4>1, <4>2
    <3>7. m + 1 < s
      BY <1>2, <1>5, <3>1, <3>3, <3>4, <3>5, <3>6
    <3>8. QED
      BY <1>2, <1>4, <3>1, <3>7 DEF m
  <2>3. QED
    BY <2>1, <2>2
<1>7. Run(c, n+1, XDigits) /\ c[1] = xctx.ctr
  BY <1>1, <1>4, CountersRun
<1> HIDE DEF c
<1>8. n+1 \in Nat /\ n+1 <= s
  <2>1. n+1 \in 1 .. n+1 /\ (n+1) - 1 = n
    BY <1>4
  <2>2. Made + n < s
    BY <1>6, <2>1
  <2>3. QED
    BY <1>2, <1>4, <2>2
<1>9. \A i \in 1 .. n+1 : Value(c[i]) = Around(Value(c[1]) + (i-1), s)
  BY <1>1, <1>7, <1>8, RunValues DEF s
<1>10. \A i \in 1 .. n+1 : c[i] \in DigitSeq(XDigits) /\ Value(c[i]) = Made + (i-1)
  BY <1>6, <1>7, <1>9 DEF Made, Around, Run
<1>11. QED
  BY <1>4, <1>6, <1>7, <1>10 DEF b, n, c, s

(* A request that is served moves the expander on and writes the next      *)
(* bytes of the stream.                                                    *)
LEMMA ExpanderServes ==
  ASSUME ExpanderInv, NEW xlen \in XLens, seedexpander(xlen), ~Refused(xlen)
  PROVE  ExpanderInv' /\ Expanded!SGen(xlen)
<1> DEFINE n == BlocksFor(Beyond(xlen))
           c == Counters(xctx.ctr, n)
           block(i) == AES256_ECB([xctx EXCEPT !.ctr = c[i]])
           byte(i) == IF i < Avail THEN xctx.buf[xctx.pos + i]
                      ELSE block((i - Avail) \div XBLOCK + 1)[(i - Avail) % XBLOCK]
           s == Span(XDigits)
           now == xlast.served
<1>1. Ready
  BY DEF ExpanderInv, seedexpander
<1>2. /\ DOMAIN xctx = {"left", "pos", "upper", "ctr", "buf"}
      /\ DOMAIN xlast = {"maxlen", "served", "ret", "out"}
  BY DEF ExpanderInv
<1>3. /\ xctx' = [xctx EXCEPT !.left = xctx.left - xlen, !.pos = PlaceAfter(xlen), !.ctr = c[n+1],
                              !.buf = IF n = 0 THEN xctx.buf ELSE block(n)]
      /\ xlast' = [xlast EXCEPT !.served = now + xlen, !.ret = "success",
                                !.out = [p \in now .. now + xlen - 1 |-> byte(p - now)]]
  BY DEF seedexpander, Beyond, Avail
<1>4. /\ xctx'.left = xctx.left - xlen /\ xctx'.pos = PlaceAfter(xlen) /\ xctx'.ctr = c[n+1]
      /\ xctx'.buf = (IF n = 0 THEN xctx.buf ELSE block(n)) /\ xctx'.upper = xctx.upper
      /\ DOMAIN xctx' = {"left", "pos", "upper", "ctr", "buf"}
  BY <1>2, <1>3
<1>5. /\ xlast'.served = now + xlen /\ xlast'.ret = "success" /\ xlast'.maxlen = xlast.maxlen
      /\ xlast'.out = [p \in now .. now + xlen - 1 |-> byte(p - now)]
      /\ DOMAIN xlast' = {"maxlen", "served", "ret", "out"}
  BY <1>2, <1>3
<1>6. xlen \in Nat /\ XBLOCK \in Nat /\ XBLOCK > 0 /\ XDigits \in Nat
  BY RngAssumption, XBlockFacts
<1>7. /\ n \in Nat
      /\ \A i \in 1 .. n+1 : c[i] \in DigitSeq(XDigits) /\ Value(c[i]) = Made + (i-1)
      /\ \A i \in 1 .. n+1 : Made + (i-1) < s
      /\ n = 0 => c[1] = xctx.ctr
  BY <1>1, <1>6, RequestCounters
<1>8. Made \in Nat /\ s \in Nat
  BY <1>1, <1>6, ValuesBelowSpan DEF Made, Ready
<1>9. /\ now \in Nat /\ Avail \in Nat /\ Avail < XBLOCK /\ xctx.pos = XBLOCK - Avail
      /\ now + Avail = XBLOCK * Made
  BY <1>1, <1>6 DEF Ready, Avail
<1>10. /\ Beyond(xlen) \in Nat
       /\ Beyond(xlen) <= XBLOCK * n /\ XBLOCK * n < Beyond(xlen) + XBLOCK
       /\ Beyond(xlen) = 0 <=> n = 0
  <2>1. Beyond(xlen) \in Nat
    BY <1>6, <1>9 DEF Beyond
  <2>2. QED
    BY <2>1, BlocksCover
<1>11. ASSUME NEW i \in 1 .. n+1, NEW k \in 0 .. XBLOCK-1
       PROVE  block(i)[k] = <<xctx.upper, Made + (i-1), k>>
  <2> DEFINE x == [xctx EXCEPT !.ctr = c[i]]
  <2>1. x.upper = xctx.upper /\ x.ctr = c[i]
    BY <1>2
  <2> HIDE DEF x
  <2>2. AES256_ECB(x)[k] = <<xctx.upper, Value(c[i]), k>>
    BY <2>1 DEF AES256_ECB
  <2>3. QED
    BY <1>7, <2>2 DEF x
<1> HIDE DEF c, block, n, s
<1>12. ASSUME NEW i \in 0 .. xlen-1
       PROVE  byte(i) = <<xctx.upper, (now + i) \div XBLOCK, (now + i) % XBLOCK>>
              /\ (now + i) \div XBLOCK \in Nat /\ (now + i) \div XBLOCK < s
  <2>1. CASE i < Avail
    <3> DEFINE k == xctx.pos + i
               q == Made - 1
    <3>1. k \in 0 .. XBLOCK-1 /\ k \in xctx.pos .. XBLOCK-1
      BY <1>6, <1>9, <2>1
    <3>2. Made # 0
      BY <1>6, <1>9, <2>1
    <3>3. q \in Nat /\ q < s
      <4>1. 1 \in 1 .. n+1 /\ Made + (1-1) = Made
        BY <1>7, <1>8
      <4>2. QED
        BY <1>7, <1>8, <3>2, <4>1
    <3>4. XBLOCK * Made = XBLOCK * q + XBLOCK /\ XBLOCK * q \in Nat
      BY <1>6, <1>8, <3>3
    <3>5. byte(i) = <<xctx.upper, q, k>>
      BY <1>1, <2>1, <3>1 DEF Ready
    <3> HIDE DEF q, byte
    <3>6. now + i = XBLOCK * q + k
      BY <1>6, <1>9, <3>4
    <3> HIDE DEF k
    <3>7. (XBLOCK * q + k) \div XBLOCK = q /\ (XBLOCK * q + k) % XBLOCK = k
      BY <1>6, <3>1, <3>3, DivUnique
    <3>8. QED
      BY <3>3, <3>5, <3>6, <3>7
  <2>2. CASE ~(i < Avail)
    <3> DEFINE j == i - Avail
               h == j \div XBLOCK
               k == j % XBLOCK
               q == Made + h
    <3>1. j \in Nat
      BY <1>9, <2>2
    <3>2. h \in Nat /\ k \in 0 .. XBLOCK-1 /\ j = XBLOCK * h + k
      BY <1>6, <3>1, DivMod
    <3>3. byte(i) = block(h + 1)[k]
      BY <2>2
    <3> HIDE DEF byte, h, k
    <3>4. j < XBLOCK * n
      BY <1>6, <1>7, <1>9, <1>10, <2>2 DEF Beyond
    <3>5. h + 1 \in 1 .. n+1 /\ (h + 1) - 1 = h
      <4>1. ASSUME h >= n PROVE FALSE
        <5>1. h - n \in Nat /\ XBLOCK * h = XBLOCK * n + XBLOCK * (h - n)
          BY <1>6, <1>7, <3>2, <4>1
        <5>2. XBLOCK * (h - n) \in Nat /\ XBLOCK * n \in Nat
          BY <1>6, <1>7, <5>1
        <5>3. QED
          BY <1>6, <3>1, <3>2, <3>4, <5>1, <5>2
      <4>2. QED
        BY <1>7, <3>2, <4>1
    <3>6. byte(i) = <<xctx.upper, q, k>>
      BY <1>11, <3>2, <3>3, <3>5
    <3>7. q \in Nat /\ q < s
      BY <1>7, <1>8, <3>2, <3>5
    <3>8. XBLOCK * q = XBLOCK * Made + XBLOCK * h
      BY <1>6, <1>8, <3>2
    <3>9. XBLOCK * h \in Nat /\ XBLOCK * Made \in Nat /\ XBLOCK * q \in Nat
      BY <1>6, <1>8, <3>2
    <3> HIDE DEF q
    <3>10. now + i = XBLOCK * q + k
      BY <1>6, <1>9, <3>1, <3>2, <3>8, <3>9
    <3>11. (XBLOCK * q + k) \div XBLOCK = q /\ (XBLOCK * q + k) % XBLOCK = k
      BY <1>6, <3>2, <3>7, DivUnique
    <3>12. QED
      BY <3>6, <3>7, <3>10, <3>11
  <2>3. QED
    BY <2>1, <2>2
<1> HIDE DEF byte
<1>13. DOMAIN xlast'.out = now .. now + xlen - 1
  BY <1>5
<1>14. ASSUME NEW p \in now .. now + xlen - 1
       PROVE  /\ xlast'.out[p] = <<xctx.upper, p \div XBLOCK, p % XBLOCK>>
              /\ p \div XBLOCK \in Nat /\ p \div XBLOCK < s
  <2>1. p - now \in 0 .. xlen-1 /\ now + (p - now) = p
    BY <1>6, <1>9
  <2>2. xlast'.out[p] = byte(p - now)
    BY <1>5
  <2>3. QED
    BY <1>12, <2>1, <2>2
<1>15. Made' = Made + n /\ xctx'.ctr \in DigitSeq(XDigits)
  <2>1. n+1 \in 1 .. n+1 /\ (n+1) - 1 = n
    BY <1>7
  <2>2. QED
    BY <1>4, <1>7, <2>1 DEF Made
<1>16. /\ xctx'.pos \in 1 .. XBLOCK
       /\ xlast'.served + Avail' = XBLOCK * Made'
       /\ n = 0 => xctx'.pos = xctx.pos + xlen
  <2>1. XBLOCK * Made' = XBLOCK * Made + XBLOCK * n /\ XBLOCK * n \in Nat /\ XBLOCK * Made \in Nat
    BY <1>6, <1>7, <1>8, <1>15
  <2>2. CASE xlen <= Avail
    <3>1. n = 0 /\ XBLOCK * n = 0
      BY <1>6, <1>10, <2>2 DEF Beyond
    <3>2. xctx'.pos = xctx.pos + xlen
      BY <1>4, <2>2 DEF PlaceAfter, Avail
    <3>3. QED
      BY <1>5, <1>6, <1>9, <2>1, <2>2, <3>1, <3>2 DEF Avail
  <2>3. CASE ~(xlen <= Avail)
    <3>1. Beyond(xlen) = xlen - Avail /\ n # 0
      BY <1>6, <1>9, <1>10, <2>3 DEF Beyond
    <3>2. BlocksFor(xlen - Avail) = n
      BY <3>1 DEF n
    <3>3. xctx'.pos = (xlen - Avail) - XBLOCK * (n - 1)
      BY <1>4, <2>3, <3>2 DEF PlaceAfter, Avail
    <3>4. XBLOCK * (n - 1) = XBLOCK * n - XBLOCK
      BY <1>6, <1>7
    <3>5. xctx'.pos = ((xlen - Avail) - XBLOCK * n) + XBLOCK
      BY <1>6, <1>9, <2>1, <3>3, <3>4
    <3>6. xctx'.pos \in 1 .. XBLOCK
      BY <1>6, <1>9, <1>10, <2>1, <3>1, <3>5
    <3>7. Avail' = XBLOCK * n - (xlen - Avail)
      BY <1>6, <1>9, <2>1, <3>5, <3>6 DEF Avail
    <3>8. QED
      BY <1>5, <1>6, <1>9, <2>1, <3>1, <3>6, <3>7
  <2>4. QED
    BY <2>2, <2>3
<1>17. ASSUME NEW k \in xctx'.pos .. XBLOCK-1
       PROVE  xctx'.buf[k] = <<xctx'.upper, Made' - 1, k>>
  <2>1. CASE n = 0
    <3>1. k \in xctx.pos .. XBLOCK-1 /\ Made' = Made
      BY <1>6, <1>8, <1>9, <1>15, <1>16, <2>1
    <3>2. QED
      BY <1>1, <1>4, <2>1, <3>1 DEF Ready
  <2>2. CASE n # 0
    <3>1. k \in 0 .. XBLOCK-1 /\ n \in 1 .. n+1 /\ Made + (n-1) = Made' - 1
      BY <1>6, <1>7, <1>8, <1>15, <1>16, <2>2
    <3>2. QED
      BY <1>4, <1>11, <2>2, <3>1
  <2>3. QED
    BY <2>1, <2>2
<1>18. /\ xlast'.served \in Nat /\ xctx'.left \in Nat /\ xlast'.maxlen \in Nat
       /\ xlast'.served + xctx'.left = xlast'.maxlen
       /\ xlast'.maxlen < s /\ xlast'.maxlen <= XLimit
       /\ Value(xctx'.upper) = xlast'.maxlen
  <2>1. /\ now \in Nat /\ xctx.left \in Nat /\ xlast.maxlen \in Nat
        /\ now + xctx.left = xlast.maxlen
        /\ xlast.maxlen < s /\ xlast.maxlen <= XLimit
        /\ Value(xctx.upper) = xlast.maxlen
    BY <1>1 DEF Ready, s
  <2>2. xlen < xctx.left
    BY <1>6, <2>1 DEF Refused
  <2>3. xctx'.left \in Nat /\ now + xlen \in Nat /\ (now + xlen) + xctx'.left = xlast.maxlen
    BY <1>4, <1>6, <2>1, <2>2
  <2>4. QED
    BY <1>4, <1>5, <2>1, <2>3
<1>19. \A p \in DOMAIN xlast'.out : xlast'.out[p][1] = xctx'.upper
  BY <1>4, <1>13, <1>14
<1>20. Ready'
  BY <1>15, <1>16, <1>17, <1>18, <1>19 DEF Ready, s
<1>21. Expanded!SGen(xlen)
  <2>1. now + xlen <= XLimit
    <3> DEFINE t == now + xlen
    <3>1. t = xlast'.served /\ t \in Nat /\ XLimit \in Nat
      BY <1>5, <1>18, RngAssumption
    <3> HIDE DEF t
    <3>2. t <= XLimit
      BY <1>18, <3>1
    <3>3. QED
      BY <3>2 DEF t
  <2>2. ASSUME NEW p \in now .. now + xlen - 1
        PROVE  Position(xlast'.out[p]) = Expanded!StreamByte(p)
    <3>1. (p \div XBLOCK) % s = p \div XBLOCK
      <4> DEFINE a == p \div XBLOCK
      <4>1. a \in Nat /\ a < s
        BY <1>14
      <4> HIDE DEF a
      <4>2. a % s = a
        BY <1>8, <4>1
      <4>3. QED
        BY <4>2 DEF a
    <3>2. QED
      BY <1>14, <3>1 DEF Position, Expanded!StreamByte, s
  <2>3. [p \in DOMAIN xlast'.out |-> Position(xlast'.out[p])]
          = [p \in now .. now + xlen - 1 |-> Expanded!StreamByte(p)]
    BY <1>13, <2>2
  <2>4. QED
    BY <1>5, <2>1, <2>3 DEF Expanded!SGen
<1>22. QED
  BY <1>4, <1>5, <1>20, <1>21 DEF ExpanderInv

(* A refused request, too long or without an output pointer, leaves the    *)
(* expander and the stream where they are.                                 *)
LEMMA RefusalKeeps ==
  ASSUME ExpanderInv, xlast.ret \notin {"none", "bad_maxlen"}, xctx' = xctx,
         NEW r \in {"bad_req_len", "bad_outbuf"}, xlast' = [xlast EXCEPT !.ret = r]
  PROVE  ExpanderInv' /\ UNCHANGED Expanded!svars
<1>1. /\ DOMAIN xlast' = DOMAIN xlast /\ xlast'.ret = r /\ xlast'.served = xlast.served
      /\ xlast'.maxlen = xlast.maxlen /\ xlast'.out = xlast.out
  BY DEF ExpanderInv
<1>2. Ready'
  BY <1>1 DEF ExpanderInv, Ready, Avail, Made
<1>3. ExpanderInv'
  BY <1>1, <1>2 DEF ExpanderInv
<1>4. QED
  BY <1>1, <1>3 DEF Expanded!svars

LEMMA ExpanderStep ==
  ASSUME ExpanderInv, NEW xlen \in XLens, seedexpander(xlen)
  PROVE  ExpanderInv' /\ [Expanded!SNext]_(Expanded!svars)
<1>1. CASE Refused(xlen)
  <2>1. /\ xlast.ret \notin {"none", "bad_maxlen"} /\ xctx' = xctx
        /\ xlast' = [xlast EXCEPT !.ret = "bad_req_len"]
    BY <1>1 DEF seedexpander
  <2>2. ExpanderInv' /\ UNCHANGED Expanded!svars
    BY <2>1, RefusalKeeps
  <2>3. QED
    BY <2>2
<1>2. CASE ~Refused(xlen)
  BY <1>2, ExpanderServes DEF Expanded!SNext
<1>3. QED
  BY <1>1, <1>2

-----------------------------------------------------------------------------
(* The invariant of both generators.  Neither moves while the other, or    *)
(* the library's, is the one that lives.                                   *)
RngInv == ExpanderInv /\ DrbgInv

LEMMA RngIdleInv == ExpanderIdle /\ DrbgIdle => RngInv
<1> SUFFICES ASSUME ExpanderIdle, DrbgIdle PROVE RngInv
  OBVIOUS
<1>1. << >> \in Seq(Use) /\ DOMAIN << >> = {}
  BY EmptySeq
<1>2. drbg.reseed_counter = 0 /\ vuses = << >>
  BY DEF DrbgIdle
<1>3. DrbgInv
  BY <1>1, <1>2 DEF DrbgInv, BlocksFresh, Use
<1>4. QED
  BY <1>3, ExpanderIdleInv DEF RngInv

LEMMA RngStep ==
  ASSUME RngInv, RngNext
  PROVE  RngInv' /\ [Expanded!SNext]_(Expanded!svars)
<1>1. CASE /\ \/ \E n \in XMaxLens : seedexpander_init(n)
              \/ \E n \in XLens : seedexpander(n)
              \/ seedexpander_null
           /\ UNCHANGED <<drbg, vuses>>
  <2>1. DrbgInv'
    BY <1>1 DEF RngInv, DrbgInv, BlocksFresh
  <2>2. ASSUME NEW n \in XMaxLens, seedexpander_init(n)
        PROVE  ExpanderInv' /\ UNCHANGED Expanded!svars
    <3>1. ExpanderInv' /\ xlast'.served = xlast.served /\ xlast'.out = xlast.out
      BY <2>2, ExpanderInitInv DEF RngInv
    <3>2. QED
      BY <3>1 DEF Expanded!svars
  <2>3. ASSUME NEW n \in XLens, seedexpander(n)
        PROVE  ExpanderInv' /\ [Expanded!SNext]_(Expanded!svars)
    BY <2>3, ExpanderStep DEF RngInv
  <2>4. ASSUME seedexpander_null
        PROVE  ExpanderInv' /\ UNCHANGED Expanded!svars
    BY <2>4, RefusalKeeps DEF RngInv, seedexpander_null
  <2>5. QED
    BY <1>1, <2>1, <2>2, <2>3, <2>4 DEF RngInv
<1>2. CASE /\ randombytes_init \/ \E n \in VLens : randombytes(n)
           /\ UNCHANGED <<xctx, xlast>>
  <2>1. DrbgInv'
    BY <1>2, DrbgInitInv, DrbgStepInv DEF RngInv
  <2>2. ExpanderInv' /\ UNCHANGED Expanded!svars
    BY <1>2 DEF RngInv, ExpanderInv, Ready, Avail, Made, Expanded!svars
  <2>3. QED
    BY <2>1, <2>2 DEF RngInv
<1>3. QED
  BY <1>1, <1>2 DEF RngNext

-----------------------------------------------------------------------------
(* One generator lives in a behaviour.                                     *)

(* Of the public-seed expander it shows only its own behaviours, so that   *)
(* what follows from Spec holds of it.                                     *)
LEMMA PublicAlone == GSpec => Spec
<1>1. GInit => Init
  BY DEF GInit
<1>2. [GNext]_<<vars, rng_vars>> => [Next]_vars
  BY DEF GNext
<1>3. QED
  BY <1>1, <1>2, PTL DEF GSpec, Spec

LEMMA RngAlways == GSpec => []RngInv
<1>1. GInit => RngInv
  BY RngIdleInv DEF GInit, RngOff, RngInit
<1>2. RngInv /\ [GNext]_<<vars, rng_vars>> => RngInv'
  <2> SUFFICES ASSUME RngInv, [GNext]_<<vars, rng_vars>> PROVE RngInv'
    OBVIOUS
  <2>1. CASE RngNext
    BY <2>1, RngStep
  <2>2. CASE UNCHANGED rng_vars
    BY <2>2 DEF rng_vars, RngInv, ExpanderInv, Ready, Avail, Made, DrbgInv, BlocksFresh
  <2>3. QED
    BY <2>1, <2>2 DEF GNext
<1>3. QED
  BY <1>1, <1>2, PTL DEF GSpec

(* The seed expander keeps its limit: in every state what was served and   *)
(* what remains are the length it was set up for, every byte comes from    *)
(* blocks marked with that length, and the counter is the number of blocks *)
(* that the bytes served were cut from.                                    *)
THEOREM RngLengthKept == GSpec => []LengthKept
<1>1. RngInv => LengthKept
  BY ReadyKeepsLength DEF RngInv
<1>2. QED
  BY <1>1, RngAlways, PTL

(* randombytes and randombytes_init never encrypt a block twice under one  *)
(* key, whatever lengths are asked for and wherever the counter starts,    *)
(* as long as one request and its update need no more blocks than there    *)
(* are counters.                                                           *)
THEOREM RngBlocksFresh == GSpec => []BlocksFresh
<1>1. RngInv => BlocksFresh
  BY DEF RngInv, DrbgInv
<1>2. QED
  BY <1>1, RngAlways, PTL

(* Every call of seedexpander that is served writes the next bytes of the  *)
(* abstract stream, and a refused one leaves it where it was: how the      *)
(* requests are cut does not show, and the counter never wraps.            *)
THEOREM RngImplementsStream == GSpec => ExpanderSpec
<1>1. GInit => Expanded!SInit
  <2> SUFFICES ASSUME GInit PROVE Expanded!SInit
    OBVIOUS
  <2>1. xlast = [maxlen |-> 0, served |-> 0, ret |-> "none", out |-> NoBytes]
    BY DEF GInit, RngOff, RngInit, ExpanderIdle
  <2>2. xlast.served = 0 /\ DOMAIN xlast.out = {}
    BY <2>1 DEF NoBytes
  <2>3. QED
    BY <2>2 DEF Expanded!SInit
<1>2. RngInv /\ [GNext]_<<vars, rng_vars>> => [Expanded!SNext]_(Expanded!svars)
  <2> SUFFICES ASSUME RngInv, [GNext]_<<vars, rng_vars>> PROVE [Expanded!SNext]_(Expanded!svars)
    OBVIOUS
  <2>1. CASE RngNext
    BY <2>1, RngStep
  <2>2. CASE UNCHANGED rng_vars
    BY <2>2 DEF rng_vars, Expanded!svars
  <2>3. QED
    BY <2>1, <2>2 DEF GNext
<1>3. QED
  BY <1>1, <1>2, RngAlways, PTL DEF GSpec, ExpanderSpec, Expanded!SSpec
=============================================================================
