------------------------- MODULE KeccakSponge_proofs -------------------------
(***************************************************************************)
(* The incremental sponge, for every rate, every piece of input and every  *)
(* length of digest: a context is in the state that its bytes name, and    *)
(* the calls implement the hash of whole messages, Xof.                    *)
(*                                                                         *)
(* The state is a function of the message, Absorbed, so the invariant is   *)
(* inductive as it stands once absorbing one more piece is shown to be the *)
(* same as absorbing the longer message: cell by cell, a byte of the piece *)
(* comes to lie where it would have lain.                                  *)
(***************************************************************************)
EXTENDS KeccakSponge, SequenceTheorems, TLAPS

-----------------------------------------------------------------------------
(* Quotients, remainders and sequences.                                    *)

LEMMA DivMod ==
  ASSUME NEW a \in Nat, NEW b \in Nat, b > 0
  PROVE  /\ a \div b \in Nat
         /\ a % b \in 0 .. b-1
         /\ a = b * (a \div b) + (a % b)
BY SMT

LEMMA DivUnique ==
  ASSUME NEW b \in Nat, b > 0, NEW q \in Nat, NEW r \in 0 .. b-1
  PROVE  /\ (b * q + r) \div b = q
         /\ (b * q + r) % b = r
BY SMTT(20)

LEMMA Rate == RATE \in Nat /\ RATE > 0
BY SpongeAssumption

(* The place of a byte: its block and its cell.                            *)
LEMMA Place ==
  ASSUME NEW n \in Nat
  PROVE  /\ n \div RATE \in Nat /\ n % RATE \in Cell
         /\ n = RATE * (n \div RATE) + (n % RATE)
         /\ RATE * (n \div RATE) \in Nat
<1>1. n \div RATE \in Nat /\ n % RATE \in 0 .. RATE - 1 /\ n = RATE * (n \div RATE) + (n % RATE)
  BY Rate, DivMod
<1>2. QED
  BY <1>1, Rate DEF Cell

LEMMA PlaceUnique ==
  ASSUME NEW q \in Nat, NEW i \in Cell
  PROVE  (RATE * q + i) \div RATE = q /\ (RATE * q + i) % RATE = i
BY Rate, DivUnique DEF Cell

LEMMA FunctionIsSeq ==
  ASSUME NEW S, NEW n \in Nat, NEW f \in [1 .. n -> S]
  PROVE  f \in Seq(S) /\ Len(f) = n
BY SeqDef

(* Two lists of blocks, one behind the other, are one list.                *)
Follows(h, f, p, g, n) ==
  /\ \A b \in 1 .. p : h[b] = f[b]
  /\ \A j \in 1 .. n : h[p + j] = g[j]

LEMMA Listed ==
  ASSUME NEW S, NEW p \in Nat, NEW n \in Nat, NEW f \in [1 .. p -> S], NEW g \in [1 .. n -> S],
         NEW h \in [1 .. p + n -> S], Follows(h, f, p, g, n)
  PROVE  f \o g = h
<1>1. f \in Seq(S) /\ Len(f) = p /\ g \in Seq(S) /\ Len(g) = n
  BY FunctionIsSeq
<1>2. h \in Seq(S) /\ Len(h) = p + n
  <2>1. p + n \in Nat
    OBVIOUS
  <2>2. QED
    BY <2>1, FunctionIsSeq
<1>3. /\ f \o g \in Seq(S) /\ Len(f \o g) = p + n
      /\ \A b \in 1 .. p + n : (f \o g)[b] = IF b <= p THEN f[b] ELSE g[b - p]
  <2>1. /\ f \o g \in Seq(S) /\ Len(f \o g) = Len(f) + Len(g)
        /\ \A b \in 1 .. Len(f) + Len(g) :
             (f \o g)[b] = IF b <= Len(f) THEN f[b] ELSE g[b - Len(f)]
    BY <1>1, ConcatProperties
  <2>2. QED
    BY <1>1, <2>1
<1>4. ASSUME NEW b \in 1 .. p + n
      PROVE  (f \o g)[b] = h[b]
  <2>1. CASE b <= p
    <3>1. b \in 1 .. p
      BY <2>1
    <3>2. QED
      BY <1>3, <2>1, <3>1 DEF Follows
  <2>2. CASE ~(b <= p)
    <3>1. b - p \in 1 .. n /\ p + (b - p) = b
      BY <2>2
    <3>2. h[b] = g[b - p]
      BY <3>1 DEF Follows
    <3>3. QED
      BY <1>3, <2>2, <3>2
  <2>3. QED
    BY <2>1, <2>2
<1>5. QED
  BY <1>2, <1>3, <1>4, SeqEqual

-----------------------------------------------------------------------------
(* Absorbing.                                                              *)

LEMMA XorNothing == \A x : Xor(x, {}) = x /\ Xor({}, x) = x
BY DEF Xor

(* The byte of m at n, as a cell holds it.                                 *)
At(m, n) == {m[k] : k \in {n} \cap 1 .. Len(m)}

LEMMA AtInside == ASSUME NEW m, NEW n, n \in 1 .. Len(m) PROVE At(m, n) = {m[n]}
BY DEF At

LEMMA AtOutside == ASSUME NEW m, NEW n, n \notin 1 .. Len(m) PROVE At(m, n) = {}
BY DEF At

(* The blocks of a message that goes on are those of its beginning, as far *)
(* as these are full.                                                      *)
LEMMA FullBlockStays ==
  ASSUME NEW S, NEW m \in Seq(S), NEW in \in Seq(S), NEW b \in Nat, b < Len(m) \div RATE
  PROVE  OneShot!MessageBlock(m \o in, b) = OneShot!MessageBlock(m, b)
<1> DEFINE full == Len(m) \div RATE
           w == m \o in
<1>1. Len(m) \in Nat /\ Len(in) \in Nat
  BY LenProperties
<1>2. /\ Len(w) = Len(m) + Len(in)
      /\ \A n \in 1 .. Len(m) + Len(in) : w[n] = IF n <= Len(m) THEN m[n] ELSE in[n - Len(m)]
  BY ConcatProperties
<1>3. full \in Nat /\ RATE * full <= Len(m) /\ RATE * full \in Nat /\ b < full
  <2>1. Len(m) % RATE \in Cell /\ Len(m) = RATE * full + (Len(m) % RATE) /\ RATE * full \in Nat
        /\ full \in Nat
    BY <1>1, Place
  <2>2. QED
    BY <2>1, Rate DEF Cell
<1> HIDE DEF w, full
<1>4. ASSUME NEW i \in Cell
      PROVE  At(w, b * RATE + i + 1) = At(m, b * RATE + i + 1)
  <2>1. b * RATE + i + 1 \in 1 .. Len(m)
    <3>1. b * RATE + RATE <= RATE * full
      <4>1. (b + 1) * RATE <= full * RATE
        BY <1>3, Rate
      <4>2. (b + 1) * RATE = b * RATE + RATE /\ full * RATE = RATE * full
        BY <1>3, Rate
      <4>3. QED
        BY <4>1, <4>2
    <3>2. b * RATE \in Nat /\ i \in 0 .. RATE - 1
      BY Rate DEF Cell
    <3>3. QED
      BY <1>1, <1>3, <3>1, <3>2, Rate
  <2> DEFINE n == b * RATE + i + 1
  <2>2. n \in 1 .. Len(m)
    BY <2>1
  <2> HIDE DEF n
  <2>3. n \in 1 .. Len(w) /\ w[n] = m[n]
    BY <1>1, <1>2, <2>2
  <2>4. At(w, n) = At(m, n)
    BY <2>2, <2>3, AtInside
  <2>5. QED
    BY <2>4 DEF n
<1>5. QED
  BY <1>4 DEF OneShot!MessageBlock, OneShot!Cell, Cell, At, w

(* What absorbing adds from here on is what the longer message puts there. *)
LEMMA FedIsMessage ==
  ASSUME NEW S, NEW m \in Seq(S), NEW in \in Seq(S), NEW j \in Nat
  PROVE  Fed(Absorbed(m), in, j) = OneShot!MessageBlock(m \o in, Len(m) \div RATE + j)
<1> DEFINE full == Len(m) \div RATE
           r == Len(m) % RATE
           w == m \o in
           s == Absorbed(m)
<1>1. Len(m) \in Nat /\ Len(in) \in Nat
  BY LenProperties
<1>2. /\ Len(w) = Len(m) + Len(in)
      /\ \A n \in 1 .. Len(m) + Len(in) : w[n] = IF n <= Len(m) THEN m[n] ELSE in[n - Len(m)]
  BY ConcatProperties
<1>3. full \in Nat /\ r \in Cell /\ Len(m) = RATE * full + r /\ RATE * full \in Nat
  BY <1>1, Place
<1>4. s.added = OneShot!MessageBlock(m, full) /\ s.pos = r
  BY DEF Absorbed
<1> HIDE DEF w, full, r, s
<1>5. ASSUME NEW i \in Cell
      PROVE  Xor(IF j = 0 THEN s.added[i] ELSE {}, At(in, j * RATE + i - r + 1))
               = At(w, (full + j) * RATE + i + 1)
  <2> DEFINE n == (full + j) * RATE + i + 1
             k == j * RATE + i - r + 1
  <2>1. /\ i \in Nat /\ r \in Nat /\ i < RATE /\ r < RATE
        /\ j * RATE \in Nat /\ (full + j) * RATE = RATE * full + j * RATE
    BY <1>3, Rate DEF Cell
  <2>2. n \in Nat /\ n > 0 /\ k \in Int /\ k = n - Len(m)
    <3> DEFINE fR == RATE * full
               jR == j * RATE
    <3>1. n = fR + jR + i + 1 /\ k = jR + i - r + 1 /\ Len(m) = fR + r /\ fR \in Nat /\ jR \in Nat
      BY <1>3, <2>1
    <3> HIDE DEF fR, jR, n, k
    <3>2. QED
      BY <2>1, <3>1
  <2>3. j = 0 => s.added[i] = At(m, n)
    <3>1. SUFFICES ASSUME j = 0 PROVE s.added[i] = At(m, n)
      OBVIOUS
    <3>2. n = full * RATE + i + 1
      BY <3>1, <1>3
    <3>3. s.added[i] = At(m, full * RATE + i + 1)
      BY <1>4 DEF OneShot!MessageBlock, OneShot!Cell, Cell, At
    <3>4. QED
      BY <3>2, <3>3
  <2>4. j # 0 => n > Len(m)
    <3>1. SUFFICES ASSUME j # 0 PROVE n > Len(m)
      OBVIOUS
    <3>2. j * RATE >= RATE
      BY <3>1, Rate
    <3> DEFINE fR == RATE * full
               jR == j * RATE
    <3>3. n = fR + jR + i + 1 /\ Len(m) = fR + r /\ fR \in Nat /\ jR \in Nat /\ jR >= RATE
      BY <1>3, <2>1, <3>2
    <3> HIDE DEF fR, jR, n, k
    <3>4. QED
      BY <2>1, <3>3, Rate
  <2> HIDE DEF n, k
  <2>5. CASE n <= Len(m)
    <3>1. j = 0
      BY <1>1, <2>2, <2>4, <2>5
    <3>2. n \in 1 .. Len(m) /\ n \in 1 .. Len(w) /\ k \notin 1 .. Len(in)
      BY <1>1, <1>2, <2>2, <2>5
    <3>3. At(m, n) = {m[n]} /\ At(w, n) = {w[n]} /\ At(in, k) = {} /\ w[n] = m[n]
      <4>1. w[n] = m[n]
        BY <1>1, <1>2, <2>5, <3>2
      <4>2. QED
        BY <3>2, <4>1, AtInside, AtOutside
    <3>4. Xor(At(m, n), {}) = At(m, n)
      BY XorNothing
    <3>5. QED
      BY <2>3, <3>1, <3>3, <3>4 DEF n, k
  <2>6. CASE ~(n <= Len(m))
    <3>1. At(m, n) = {}
      <4>1. n \notin 1 .. Len(m)
        BY <1>1, <2>2, <2>6
      <4>2. QED
        BY <4>1, AtOutside
    <3>2. (IF j = 0 THEN s.added[i] ELSE {}) = {}
      BY <2>3, <3>1
    <3>3. At(in, k) = At(w, n)
      <4>1. CASE k \in 1 .. Len(in)
        <5>1. n \in 1 .. Len(w) /\ n \in 1 .. Len(m) + Len(in) /\ n - Len(m) = k
          BY <1>1, <1>2, <2>2, <2>6, <4>1
        <5>2. w[n] = in[k]
          BY <1>2, <2>6, <5>1
        <5>3. QED
          BY <4>1, <5>1, <5>2, AtInside
      <4>2. CASE k \notin 1 .. Len(in)
        <5>1. n \notin 1 .. Len(w) /\ Len(w) \in Nat
          BY <1>1, <1>2, <2>2, <2>6, <4>2
        <5>2. QED
          BY <4>2, <5>1, AtOutside
      <4>3. QED
        BY <4>1, <4>2
    <3>4. Xor({}, At(in, k)) = At(in, k)
      BY XorNothing
    <3>5. QED
      BY <3>2, <3>3, <3>4 DEF n, k
  <2>7. QED
    BY <2>5, <2>6
<1>6. Fed(s, in, j) = [i \in Cell |-> Xor(IF j = 0 THEN s.added[i] ELSE {}, At(in, j * RATE + i - r + 1))]
  BY <1>4 DEF Fed, At
<1>7. OneShot!MessageBlock(w, full + j) = [i \in Cell |-> At(w, (full + j) * RATE + i + 1)]
  BY DEF OneShot!MessageBlock, OneShot!Cell, Cell, At
<1>8. QED
  BY <1>5, <1>6, <1>7 DEF w, full, s

(* A context that absorbed m and then in has absorbed m \o in.             *)
LEMMA AbsorbsMore ==
  ASSUME NEW S, NEW m \in Seq(S), NEW in \in Seq(S)
  PROVE  keccak_absorb(Absorbed(m), in) = Absorbed(m \o in)
<1> DEFINE full == Len(m) \div RATE
           r == Len(m) % RATE
           w == m \o in
           s == Absorbed(m)
           end == r + Len(in)
           more == end \div RATE
           Blocks == {OneShot!MessageBlock(w, b) : b \in Nat} \cup {OneShot!MessageBlock(m, b) : b \in Nat}
           f == [b \in 1 .. full |-> OneShot!MessageBlock(m, b - 1)]
           g == [j \in 1 .. more |-> Fed(s, in, j - 1)]
           h == [b \in 1 .. full + more |-> OneShot!MessageBlock(w, b - 1)]
<1>1. Len(m) \in Nat /\ Len(in) \in Nat /\ Len(w) = Len(m) + Len(in)
  BY LenProperties, ConcatProperties
<1>2. full \in Nat /\ r \in Cell /\ Len(m) = RATE * full + r /\ RATE * full \in Nat /\ r \in Nat
  <2>1. full \in Nat /\ r \in Cell /\ Len(m) = RATE * full + r /\ RATE * full \in Nat
    BY <1>1, Place
  <2>2. QED
    BY <2>1, Rate DEF Cell
<1>3. s = [permuted |-> f, added |-> OneShot!MessageBlock(m, full), pos |-> r]
  BY DEF Absorbed
<1>4. end \in Nat /\ more \in Nat /\ (end % RATE) \in Cell /\ end = RATE * more + (end % RATE)
      /\ RATE * more \in Nat
  <2>1. end \in Nat
    BY <1>1, <1>2
  <2> HIDE DEF end
  <2>2. QED
    BY <2>1, Place
<1>5. Len(w) \div RATE = full + more /\ Len(w) % RATE = end % RATE /\ end - more * RATE = end % RATE
  <2> DEFINE e == end % RATE
             fR == RATE * full
             mR == RATE * more
  <2>1. Len(w) = fR + mR + e /\ fR \in Nat /\ mR \in Nat /\ e \in Nat /\ end = mR + e
    <3>1. Len(w) = RATE * full + end
      BY <1>1, <1>2
    <3>2. e \in Nat
      BY <1>4, Rate DEF Cell
    <3> HIDE DEF end, e, more, full
    <3>3. QED
      BY <1>2, <1>4, <3>1, <3>2 DEF e
  <2>2. more * RATE = mR /\ RATE * (full + more) = fR + mR
    BY <1>2, <1>4, Rate
  <2>3. full + more \in Nat /\ e \in Cell
    BY <1>2, <1>4
  <2> HIDE DEF end, e, more, full, fR, mR
  <2>4. (RATE * (full + more) + e) \div RATE = full + more /\ (RATE * (full + more) + e) % RATE = e
    BY <2>3, PlaceUnique
  <2>5. Len(w) = RATE * (full + more) + e
    BY <2>1, <2>2
  <2>6. end - more * RATE = e
    BY <2>1, <2>2
  <2>7. QED
    BY <2>4, <2>5, <2>6 DEF e
<1>6. keccak_absorb(s, in) = [permuted |-> s.permuted \o g, added |-> Fed(s, in, more), pos |-> end - more * RATE]
  <2>1. s.pos = r
    BY <1>3
  <2>2. QED
    BY <2>1 DEF keccak_absorb
<1>7. Absorbed(w) = [permuted |-> h, added |-> OneShot!MessageBlock(w, full + more), pos |-> end % RATE]
  <2> HIDE DEF w, full, more, end
  <2>1. QED
    BY <1>5 DEF Absorbed
<1>8. \A j \in Nat : Fed(s, in, j) = OneShot!MessageBlock(w, full + j)
  BY FedIsMessage
<1>9. \A b \in Nat : b < full => OneShot!MessageBlock(w, b) = OneShot!MessageBlock(m, b)
  BY FullBlockStays
<1>10. s.permuted = f
  BY <1>3
<1> HIDE DEF s, w, full, more, end, r
<1>11. f \in [1 .. full -> Blocks]
  BY <1>2
<1>12. g \in [1 .. more -> Blocks]
  <2>1. ASSUME NEW j \in 1 .. more
        PROVE  Fed(s, in, j - 1) \in Blocks
    <3>1. j - 1 \in Nat /\ full + (j - 1) \in Nat
      BY <1>2, <1>4
    <3>2. QED
      BY <1>8, <3>1
  <2>2. QED
    BY <2>1
<1>13. h \in [1 .. full + more -> Blocks]
  BY <1>2, <1>4
<1>14. \A b \in 1 .. full : h[b] = f[b]
  <2>1. ASSUME NEW b \in 1 .. full PROVE h[b] = f[b]
    <3>1. b - 1 \in Nat /\ b - 1 < full /\ b \in 1 .. full + more
      BY <1>2, <1>4
    <3>2. QED
      BY <1>9, <3>1
  <2>2. QED
    BY <2>1
<1>15. \A j \in 1 .. more : h[full + j] = g[j]
  <2>1. ASSUME NEW j \in 1 .. more PROVE h[full + j] = g[j]
    <3>1. j - 1 \in Nat /\ full + (j - 1) = (full + j) - 1 /\ full + j \in 1 .. full + more
      BY <1>2, <1>4
    <3>2. h[full + j] = OneShot!MessageBlock(w, (full + j) - 1)
      BY <3>1
    <3>3. g[j] = OneShot!MessageBlock(w, full + (j - 1))
      BY <1>8, <3>1
    <3>4. QED
      BY <3>1, <3>2, <3>3
  <2>2. QED
    BY <2>1
<1> HIDE DEF f, g, h, Blocks
<1>16. f \o g = h
  <2>1. Follows(h, f, full, g, more)
    BY <1>14, <1>15 DEF Follows
  <2>2. full \in Nat /\ more \in Nat
    BY <1>2, <1>4
  <2>3. QED
    BY <1>11, <1>12, <1>13, <2>1, <2>2, Listed
<1>17. Fed(s, in, more) = OneShot!MessageBlock(w, full + more)
  BY <1>4, <1>8
<1>18. QED
  BY <1>5, <1>6, <1>7, <1>10, <1>16, <1>17 DEF s, w

LEMMA InitIsAbsorbed == shake_init = Absorbed(<<>>)
<1>1. Len(<<>>) = 0
  BY EmptySeq
<1>2. 0 \div RATE = 0 /\ 0 % RATE = 0
  <2>1. RATE * 0 + 0 = 0 /\ 0 \in Cell
    BY Rate DEF Cell
  <2>2. QED
    BY <2>1, PlaceUnique
<1>3. OneShot!MessageBlock(<<>>, 0) = Zero
  <2>1. \A n : At(<<>>, n) = {}
    BY <1>1, AtOutside
  <2>2. OneShot!MessageBlock(<<>>, 0) = [i \in Cell |-> At(<<>>, 0 * RATE + i + 1)]
    BY DEF OneShot!MessageBlock, OneShot!Cell, Cell, At
  <2>3. QED
    BY <2>1, <2>2 DEF Zero
<1>4. [b \in 1 .. 0 |-> OneShot!MessageBlock(<<>>, b - 1)] = <<>>
  OBVIOUS
<1>5. Absorbed(<<>>) = [permuted |-> [b \in 1 .. 0 |-> OneShot!MessageBlock(<<>>, b - 1)],
                        added |-> OneShot!MessageBlock(<<>>, 0), pos |-> 0]
  BY <1>1, <1>2 DEF Absorbed
<1>6. QED
  BY <1>3, <1>4, <1>5 DEF shake_init

-----------------------------------------------------------------------------
(* The digest.                                                             *)

Blanks(first, n) == [j \in 1 .. n |-> IF j = 1 THEN first ELSE Zero]

(* a permutations and then b are a + b permutations.                       *)
LEMMA PermuteMore ==
  ASSUME NEW S, Zero \in S, NEW s, s.permuted \in Seq(S), s.added \in S,
         NEW a \in Nat, NEW b \in Nat
  PROVE  Permute(Permute(s, a), b) = Permute(s, a + b)
<1> DEFINE t == Permute(s, a)
           x == Blanks(s.added, a)
           y == Blanks(t.added, b)
           z == Blanks(s.added, a + b)
<1>1. /\ t.permuted = s.permuted \o x
      /\ t.added = IF a = 0 THEN s.added ELSE Zero
      /\ t.pos = s.pos
  BY DEF Permute, Blanks
<1>2. t.added \in S
  BY <1>1
<1>3. Permute(t, b) = [permuted |-> t.permuted \o y,
                       added |-> IF b = 0 THEN t.added ELSE Zero, pos |-> t.pos]
  BY DEF Permute, Blanks
<1>4. Permute(s, a + b) = [permuted |-> s.permuted \o z,
                           added |-> IF a + b = 0 THEN s.added ELSE Zero, pos |-> s.pos]
  BY DEF Permute, Blanks
<1> HIDE DEF t
<1>5. x \in [1 .. a -> S] /\ y \in [1 .. b -> S] /\ z \in [1 .. a + b -> S]
  BY <1>2 DEF Blanks
<1>6. Follows(z, x, a, y, b)
  <2>1. ASSUME NEW j \in 1 .. b PROVE z[a + j] = y[j]
    <3>1. a + j \in 1 .. a + b /\ j \in Nat
      OBVIOUS
    <3>2. z[a + j] = IF a + j = 1 THEN s.added ELSE Zero
      BY <3>1 DEF Blanks
    <3>3. y[j] = IF j = 1 THEN t.added ELSE Zero
      BY DEF Blanks
    <3>4. CASE a = 0
      BY <1>1, <3>1, <3>2, <3>3, <3>4
    <3>5. CASE a # 0
      BY <1>1, <3>1, <3>2, <3>3, <3>5
    <3>6. QED
      BY <3>4, <3>5
  <2>2. \A j \in 1 .. a : z[j] = x[j]
    BY DEF Blanks
  <2>3. QED
    BY <2>1, <2>2 DEF Follows
<1>7. x \in Seq(S) /\ y \in Seq(S)
  BY <1>5, FunctionIsSeq
<1> HIDE DEF x, y, z
<1>8. x \o y = z
  BY <1>5, <1>6, Listed
<1>9. (s.permuted \o x) \o y = s.permuted \o z
  <2> DEFINE p == s.permuted
  <2>1. p \in Seq(S)
    OBVIOUS
  <2> HIDE DEF p
  <2>2. (p \o x) \o y = p \o (x \o y)
    BY <1>7, <2>1, ConcatAssociative
  <2>3. QED
    BY <1>8, <2>2 DEF p
<1>10. (IF b = 0 THEN t.added ELSE Zero) = IF a + b = 0 THEN s.added ELSE Zero
  BY <1>1
<1>11. t.permuted \o y = s.permuted \o z
  BY <1>1, <1>9
<1>12. Permute(t, b) = Permute(s, a + b)
  <2> DEFINE p1 == t.permuted \o y
             p2 == s.permuted \o z
             c1 == IF b = 0 THEN t.added ELSE Zero
             c2 == IF a + b = 0 THEN s.added ELSE Zero
  <2>1. p1 = p2 /\ c1 = c2 /\ t.pos = s.pos
    BY <1>1, <1>10, <1>11
  <2>2. Permute(t, b) = [permuted |-> p1, added |-> c1, pos |-> t.pos]
    BY <1>3
  <2>3. Permute(s, a + b) = [permuted |-> p2, added |-> c2, pos |-> s.pos]
    BY <1>4
  <2> HIDE DEF p1, p2, c1, c2
  <2>4. QED
    BY <2>1, <2>2, <2>3, Zenon
<1>13. QED
  BY <1>12 DEF t

(* Finalized, what waits is the last block of the padded message.          *)
LEMMA Finalized ==
  ASSUME NEW S, NEW m \in Seq(S)
  PROVE  /\ keccak_finalize(Absorbed(m)).permuted
              = [b \in 1 .. Len(m) \div RATE |-> OneShot!MessageBlock(m, b - 1)]
         /\ keccak_finalize(Absorbed(m)).added = OneShot!LastBlock(m)
         /\ keccak_finalize(Absorbed(m)).pos = RATE
<1> DEFINE full == Len(m) \div RATE
           r == Len(m) % RATE
           s == Absorbed(m)
<1>1. Len(m) \in Nat /\ full \in Nat /\ r \in Cell /\ Len(m) = RATE * full + r /\ RATE * full \in Nat
  BY LenProperties, Place
<1>2. /\ s.permuted = [b \in 1 .. full |-> OneShot!MessageBlock(m, b - 1)]
      /\ s.added = OneShot!MessageBlock(m, full) /\ s.pos = r
  BY DEF Absorbed
<1>3. keccak_finalize(s) = [permuted |-> s.permuted,
                            added |-> [i \in Cell |-> Xor(s.added[i], Pad(s, i))], pos |-> RATE]
  BY DEF keccak_finalize
<1>4. OneShot!LastBlock(m) = [i \in Cell |-> OneShot!MessageBlock(m, full)[i]
                                               \cup {p \in {"0x1F"} : i = r}
                                               \cup {p \in {"0x80"} : i = RATE - 1}]
  BY DEF OneShot!LastBlock, OneShot!Cell, Cell
<1> HIDE DEF s, full, r
<1>5. ASSUME NEW i \in Cell
      PROVE  Xor(s.added[i], Pad(s, i)) = s.added[i] \cup {p \in {"0x1F"} : i = r}
                                                     \cup {p \in {"0x80"} : i = RATE - 1}
  <2>1. Pad(s, i) = {p \in {"0x1F"} : i = r} \cup {p \in {"0x80"} : i = RATE - 1}
    BY <1>2 DEF Pad
  <2>2. CASE i = r \/ i = RATE - 1
    <3>1. s.added[i] = At(m, full * RATE + i + 1)
      BY <1>2 DEF OneShot!MessageBlock, OneShot!Cell, Cell, At
    <3>2. full * RATE + i + 1 \notin 1 .. Len(m)
      BY <1>1, <2>2, Rate DEF Cell
    <3>3. s.added[i] = {}
      BY <3>1, <3>2, AtOutside
    <3>4. QED
      BY <2>1, <3>3 DEF Xor
  <2>3. CASE ~(i = r \/ i = RATE - 1)
    <3>1. Pad(s, i) = {}
      BY <2>1, <2>3
    <3>2. QED
      BY <2>1, <3>1 DEF Xor
  <2>4. QED
    BY <2>2, <2>3
<1>6. QED
  BY <1>2, <1>3, <1>4, <1>5 DEF s, full

LEMMA StreamByte ==
  ASSUME NEW S, NEW m \in Seq(S), NEW k \in Nat
  PROVE  StateByte(Permute(keccak_finalize(Absorbed(m)), (k \div RATE) + 1), k % RATE)
           = OneShot!XofByte(m, k)
<1> DEFINE full == Len(m) \div RATE
           last == OneShot!LastBlock(m)
           s == keccak_finalize(Absorbed(m))
           q == k \div RATE
           i == k % RATE
           Blocks == {OneShot!MessageBlock(m, b) : b \in Nat} \cup {last, Zero}
           f == [b \in 1 .. full |-> OneShot!MessageBlock(m, b - 1)]
           g == Blanks(last, q + 1)
           h == [b \in 1 .. full + (q + 1) |->
                   IF b <= full THEN OneShot!MessageBlock(m, b - 1)
                   ELSE IF b = full + 1 THEN last ELSE Zero]
<1>1. Len(m) \in Nat /\ full \in Nat
  BY LenProperties, Place
<1>2. q \in Nat /\ i \in Cell
  BY Place
<1>3. s.permuted = f /\ s.added = last
  BY Finalized
<1>4. OneShot!Zero = Zero
  BY DEF OneShot!Zero, OneShot!Cell, Zero, Cell
<1> HIDE DEF full, last, s, q, i
<1>5. Permute(s, q + 1).permuted = f \o g /\ Permute(s, q + 1).added = Zero
  <2>1. q + 1 # 0
    BY <1>2
  <2>2. QED
    BY <1>3, <2>1 DEF Permute, Blanks
<1>6. f \in [1 .. full -> Blocks] /\ g \in [1 .. q + 1 -> Blocks]
  BY <1>1 DEF Blanks
<1>7. h \in [1 .. full + (q + 1) -> Blocks]
  BY <1>1, <1>2
<1>8. Follows(h, f, full, g, q + 1)
  <2>1. \A b \in 1 .. full : h[b] = f[b]
    BY <1>1, <1>2
  <2>2. ASSUME NEW j \in 1 .. q + 1 PROVE h[full + j] = g[j]
    <3>1. full + j \in 1 .. full + (q + 1) /\ ~(full + j <= full) /\ (full + j = full + 1 <=> j = 1)
      BY <1>1, <1>2
    <3>2. QED
      BY <3>1 DEF Blanks
  <2>3. QED
    BY <2>1, <2>2 DEF Follows
<1> HIDE DEF f, g, h, Blocks
<1>9. f \o g = h
  <2>1. q + 1 \in Nat
    BY <1>2
  <2>2. QED
    BY <1>1, <1>6, <1>7, <1>8, <2>1, Listed
<1>10. full + 1 + q = full + (q + 1)
  BY <1>1, <1>2
<1>11. OneShot!XofByte(m, k) = [permuted |-> h, cell |-> {}, at |-> i]
  BY <1>4, <1>10 DEF OneShot!XofByte, h, full, last, q, i
<1>12. StateByte(Permute(s, q + 1), i) = [permuted |-> f \o g, cell |-> Zero[i], at |-> i]
  BY <1>5 DEF StateByte
<1>13. Zero[i] = {}
  BY <1>2 DEF Zero
<1>14. QED
  BY <1>9, <1>11, <1>12, <1>13 DEF s, q, i

(* Whole blocks and then the rest are the beginning of one stream.         *)
LEMMA DigestIsStream ==
  ASSUME NEW S, NEW m \in Seq(S), NEW outlen \in Nat, NEW k \in 0 .. outlen - 1
  PROVE  LET final   == keccak_finalize(Absorbed(m))
             nblocks == outlen \div RATE
             blocks  == keccak_squeezeblocks(final, nblocks)
             rest    == keccak_squeeze(Permute(final, nblocks), outlen - nblocks * RATE)
         IN  (IF k < nblocks * RATE THEN blocks[k] ELSE rest[k - nblocks * RATE])
               = OneShot!XofByte(m, k)
<1> DEFINE final   == keccak_finalize(Absorbed(m))
           nblocks == outlen \div RATE
           blocks  == keccak_squeezeblocks(final, nblocks)
           rest    == keccak_squeeze(Permute(final, nblocks), outlen - nblocks * RATE)
           over    == nblocks * RATE
<1>1. /\ nblocks \in Nat /\ over \in Nat /\ k \in Nat /\ RATE \in Nat /\ RATE > 0
      /\ outlen - over \in Cell /\ outlen = over + (outlen - over)
  <2>1. nblocks \in Nat /\ (outlen % RATE) \in Cell /\ outlen = RATE * nblocks + (outlen % RATE)
        /\ RATE * nblocks \in Nat
    BY Place
  <2> DEFINE e == outlen % RATE
  <2>2. e \in Nat /\ e \in Cell
    BY <2>1, Rate DEF Cell
  <2>3. over = RATE * nblocks
    BY <2>1, Rate
  <2> HIDE DEF nblocks, e
  <2>4. outlen = over + e /\ over \in Nat
    BY <2>1, <2>3 DEF e
  <2> HIDE DEF over
  <2>5. outlen - over = e
    BY <2>2, <2>4
  <2>6. QED
    BY <2>1, <2>2, <2>4, <2>5, Rate
<1> SUFFICES (IF k < over THEN blocks[k] ELSE rest[k - over]) = OneShot!XofByte(m, k)
  OBVIOUS
<1>2. blocks = [j \in 0 .. over - 1 |-> StateByte(Permute(final, (j \div RATE) + 1), j % RATE)]
  BY DEF keccak_squeezeblocks
<1>3. rest = [j \in 0 .. outlen - over - 1 |->
                StateByte(Permute(Permute(final, nblocks), (RATE + j) \div RATE), (RATE + j) % RATE)]
  <2>1. final.pos = RATE
    BY Finalized
  <2>2. Permute(final, nblocks).pos = RATE
    BY <2>1 DEF Permute
  <2> HIDE DEF final, nblocks
  <2>3. QED
    BY <2>2 DEF keccak_squeeze
<1>4. StateByte(Permute(final, (k \div RATE) + 1), k % RATE) = OneShot!XofByte(m, k)
  BY <1>1, StreamByte
<1> DEFINE Blocks == {OneShot!MessageBlock(m, b) : b \in Nat} \cup {OneShot!LastBlock(m), Zero}
<1>5. final.permuted \in Seq(Blocks) /\ final.added \in Blocks /\ Zero \in Blocks
  <2> DEFINE full == Len(m) \div RATE
             f == [b \in 1 .. full |-> OneShot!MessageBlock(m, b - 1)]
  <2>1. full \in Nat
    BY LenProperties, Place
  <2>2. f \in [1 .. full -> Blocks]
    BY <2>1
  <2>3. final.permuted = f /\ final.added = OneShot!LastBlock(m)
    BY Finalized
  <2> HIDE DEF f, full, final
  <2>4. f \in Seq(Blocks)
    BY <2>1, <2>2, FunctionIsSeq
  <2>5. QED
    BY <2>3, <2>4
<1> HIDE DEF final, nblocks, blocks, rest, over, Blocks
<1>6. CASE k < over
  <2>1. k \in 0 .. over - 1
    BY <1>1, <1>6
  <2>2. QED
    BY <1>2, <1>4, <1>6, <2>1
<1>7. CASE ~(k < over)
  <2> DEFINE j == k - over
  <2>1. j \in 0 .. outlen - over - 1 /\ j \in Cell /\ k = over + j
    BY <1>1, <1>7 DEF Cell
  <2>2. (RATE + j) \div RATE = 1 /\ (RATE + j) % RATE = j
    <3>1. RATE * 1 + j = RATE + j
      BY <1>1
    <3>2. (RATE * 1 + j) \div RATE = 1 /\ (RATE * 1 + j) % RATE = j
      BY <2>1, PlaceUnique
    <3>3. QED
      BY <3>1, <3>2
  <2>3. k \div RATE = nblocks /\ k % RATE = j
    <3>1. k = RATE * nblocks + j
      BY <1>1, <2>1 DEF over
    <3>2. (RATE * nblocks + j) \div RATE = nblocks /\ (RATE * nblocks + j) % RATE = j
      BY <1>1, <2>1, PlaceUnique
    <3>3. QED
      BY <3>1, <3>2
  <2>4. Permute(Permute(final, nblocks), 1) = Permute(final, nblocks + 1)
    BY <1>1, <1>5, PermuteMore
  <2>5. rest[j] = StateByte(Permute(Permute(final, nblocks), (RATE + j) \div RATE), (RATE + j) % RATE)
    BY <1>3, <2>1
  <2>6. rest[j] = StateByte(Permute(final, nblocks + 1), j)
    BY <2>2, <2>4, <2>5
  <2>7. QED
    BY <1>4, <1>7, <2>3, <2>6
<1>8. QED
  BY <1>6, <1>7

-----------------------------------------------------------------------------
(* The interface.                                                          *)

(* The bytes that any piece may bring.                                     *)
Bytes == UNION {{mesg[k] : k \in 1 .. Len(mesg)} : mesg \in Parts}

LEMMA PartIsSeq == ASSUME NEW mesg \in Parts PROVE mesg \in Seq(Bytes)
<1>1. mesg = [k \in 1 .. Len(mesg) |-> mesg[k]] /\ Len(mesg) \in Nat
  BY SpongeAssumption
<1>2. \A k \in 1 .. Len(mesg) : mesg[k] \in Bytes
  BY DEF Bytes
<1> DEFINE n == Len(mesg)
<1>3. [k \in 1 .. n |-> mesg[k]] \in [1 .. n -> Bytes]
  BY <1>2
<1> HIDE DEF n
<1>4. mesg \in [1 .. n -> Bytes] /\ n \in Nat
  BY <1>1, <1>3 DEF n
<1>5. QED
  BY <1>4, FunctionIsSeq

(* A context is what its bytes name; messages are sequences of bytes.      *)
IInv == AbsorbedAgrees /\ \A c \in DOMAIN msg : msg[c] \in Seq(Bytes)

(* A context gets a state and a message that agree.                        *)
LEMMA Agreeing ==
  ASSUME IInv, NEW c, NEW s, NEW m \in Seq(Bytes), s = Absorbed(m),
         ctx' = With(ctx, c, s), msg' = With(msg, c, m)
  PROVE  IInv'
<1>1. DOMAIN ctx = DOMAIN msg
  BY DEF IInv, AbsorbedAgrees
<1>2. DOMAIN ctx' = DOMAIN ctx \cup {c} /\ DOMAIN msg' = DOMAIN msg \cup {c}
  BY DEF With
<1>3. ctx'[c] = s /\ msg'[c] = m
  BY DEF With
<1>4. ASSUME NEW x \in DOMAIN ctx'
      PROVE  ctx'[x] = Absorbed(msg'[x]) /\ msg'[x] \in Seq(Bytes)
  <2>1. CASE x = c
    BY <1>3, <2>1
  <2>2. CASE x # c
    <3>1. x \in DOMAIN ctx \ {c} /\ x \in DOMAIN msg \ {c}
      BY <1>1, <1>2, <2>2
    <3>2. ctx'[x] = ctx[x] /\ msg'[x] = msg[x]
      BY <2>2, <3>1 DEF With
    <3>3. QED
      BY <3>1, <3>2 DEF IInv, AbsorbedAgrees
  <2>3. QED
    BY <2>1, <2>2
<1>5. QED
  BY <1>1, <1>2, <1>4 DEF IInv, AbsorbedAgrees

LEMMA InitInv == Init => IInv
<1>1. SUFFICES ASSUME Init PROVE IInv
  OBVIOUS
<1>2. DOMAIN ctx = {} /\ DOMAIN msg = {}
  BY <1>1 DEF Init
<1>3. QED
  BY <1>2 DEF IInv, AbsorbedAgrees

LEMMA NextInv == IInv /\ [Next]_vars => IInv'
<1> SUFFICES ASSUME IInv, [Next]_vars PROVE IInv'
  OBVIOUS
<1>1. ASSUME NEW c \in Ctxs, hash_init(c) PROVE IInv'
  <2>1. <<>> \in Seq(Bytes)
    BY EmptySeq
  <2>2. ctx' = With(ctx, c, shake_init) /\ msg' = With(msg, c, <<>>)
    BY <1>1 DEF hash_init
  <2>3. QED
    BY <2>1, <2>2, InitIsAbsorbed, Agreeing
<1>2. ASSUME NEW c \in Ctxs, NEW mesg \in Parts, hash_update(c, mesg) PROVE IInv'
  <2>1. c \in DOMAIN ctx /\ c \in DOMAIN msg
    BY <1>2 DEF hash_update, IInv, AbsorbedAgrees
  <2>2. ctx[c] = Absorbed(msg[c]) /\ msg[c] \in Seq(Bytes) /\ mesg \in Seq(Bytes)
    BY <2>1, PartIsSeq DEF IInv, AbsorbedAgrees
  <2>3. keccak_absorb(ctx[c], mesg) = Absorbed(msg[c] \o mesg) /\ msg[c] \o mesg \in Seq(Bytes)
    BY <2>2, AbsorbsMore, ConcatProperties
  <2>4. /\ ctx' = With(ctx, c, keccak_absorb(ctx[c], mesg))
        /\ msg' = With(msg, c, msg[c] \o mesg)
    BY <1>2 DEF hash_update
  <2>5. QED
    BY <2>3, <2>4, Agreeing
<1>3. ASSUME NEW c \in Ctxs, NEW octx \in Ctxs \ {c}, hash_ctx_copy(c, octx) PROVE IInv'
  <2>1. octx \in DOMAIN ctx /\ octx \in DOMAIN msg
    BY <1>3 DEF hash_ctx_copy, IInv, AbsorbedAgrees
  <2>2. ctx[octx] = Absorbed(msg[octx]) /\ msg[octx] \in Seq(Bytes)
    BY <2>1 DEF IInv, AbsorbedAgrees
  <2>3. ctx' = With(ctx, c, ctx[octx]) /\ msg' = With(msg, c, msg[octx])
    BY <1>3 DEF hash_ctx_copy
  <2>4. QED
    BY <2>2, <2>3, Agreeing
<1>4. ASSUME NEW c \in Ctxs, NEW outlen \in OutLens, hash_final_digest(c, outlen) PROVE IInv'
  <2>1. ctx' = Without(ctx, c) /\ msg' = Without(msg, c)
    BY <1>4 DEF hash_final_digest
  <2>2. DOMAIN ctx' = DOMAIN ctx \ {c} /\ DOMAIN msg' = DOMAIN msg \ {c}
    BY <2>1 DEF Without
  <2>3. \A x \in DOMAIN ctx' : x \in DOMAIN msg => ctx'[x] = ctx[x] /\ msg'[x] = msg[x]
    BY <2>1, <2>2 DEF Without, IInv, AbsorbedAgrees
  <2>4. QED
    BY <2>2, <2>3 DEF IInv, AbsorbedAgrees
<1>5. CASE UNCHANGED vars
  BY <1>5 DEF IInv, AbsorbedAgrees, vars
<1>6. QED
  BY <1>1, <1>2, <1>3, <1>4, <1>5 DEF Next

LEMMA SpongeInvariant == Spec => []IInv
<1>1. QED
  BY InitInv, NextInv, PTL DEF Spec

(* However a message was cut into updates and whatever was copied, the     *)
(* state of each context is the one that its bytes name                    *)
(* (keccak_absorb, fips202.c).                                             *)
THEOREM SpongeAbsorbs == Spec => []AbsorbedAgrees
<1>1. IInv => AbsorbedAgrees
  BY DEF IInv
<1>2. QED
  BY <1>1, SpongeInvariant, PTL

-----------------------------------------------------------------------------
(* The calls implement the promise.                                        *)

LEMMA SameWith ==
  /\ \A f, c, v : With(f, c, v) = OneShot!With(f, c, v)
  /\ \A f, c : Without(f, c) = OneShot!Without(f, c)
BY DEF With, Without, OneShot!With, OneShot!Without

LEMMA SameNoDigest == NoDigest = OneShot!NoDigest
BY DEF NoDigest, OneShot!NoDigest

LEMMA InitRefines == Init => OneShot!XInit
BY SameNoDigest DEF Init, OneShot!XInit

LEMMA FinalRefines ==
  ASSUME IInv, NEW c \in Ctxs, NEW outlen \in OutLens, hash_final_digest(c, outlen)
  PROVE  OneShot!XFinal(c, outlen)
<1> DEFINE m == msg[c]
           final   == keccak_finalize(Absorbed(m))
           nblocks == outlen \div RATE
           blocks  == keccak_squeezeblocks(final, nblocks)
           rest    == keccak_squeeze(Permute(final, nblocks), outlen - nblocks * RATE)
<1>1. c \in DOMAIN ctx /\ c \in DOMAIN msg /\ ctx[c] = Absorbed(m) /\ m \in Seq(Bytes)
  BY DEF hash_final_digest, IInv, AbsorbedAgrees
<1>2. digest' = [k \in 0 .. outlen-1 |-> IF k < nblocks * RATE THEN blocks[k]
                                         ELSE rest[k - nblocks * RATE]]
  BY <1>1 DEF hash_final_digest
<1>3. outlen \in Nat
  BY SpongeAssumption
<1>4. \A k \in 0 .. outlen - 1 :
        (IF k < nblocks * RATE THEN blocks[k] ELSE rest[k - nblocks * RATE]) = OneShot!XofByte(m, k)
  BY <1>1, <1>3, DigestIsStream
<1> HIDE DEF blocks, rest, nblocks
<1>5. digest' = [k \in 0 .. outlen-1 |-> OneShot!XofByte(m, k)]
  BY <1>2, <1>4
<1>6. msg' = OneShot!Without(msg, c)
  BY SameWith DEF hash_final_digest
<1>7. QED
  BY <1>1, <1>5, <1>6 DEF OneShot!XFinal

LEMMA NextRefines == IInv /\ [Next]_vars => [OneShot!XNext]_(OneShot!xvars)
<1> SUFFICES ASSUME IInv, [Next]_vars PROVE [OneShot!XNext]_(OneShot!xvars)
  OBVIOUS
<1>1. ASSUME NEW c \in Ctxs, hash_init(c) PROVE OneShot!XStart(c)
  BY <1>1, SameWith, SameNoDigest DEF hash_init, OneShot!XStart
<1>2. ASSUME NEW c \in Ctxs, NEW mesg \in Parts, hash_update(c, mesg) PROVE OneShot!XUpdate(c, mesg)
  BY <1>2, SameWith, SameNoDigest DEF hash_update, OneShot!XUpdate, IInv, AbsorbedAgrees
<1>3. ASSUME NEW c \in Ctxs, NEW octx \in Ctxs \ {c}, hash_ctx_copy(c, octx) PROVE OneShot!XCopy(c, octx)
  BY <1>3, SameWith, SameNoDigest DEF hash_ctx_copy, OneShot!XCopy, IInv, AbsorbedAgrees
<1>4. ASSUME NEW c \in Ctxs, NEW outlen \in OutLens, hash_final_digest(c, outlen)
      PROVE  OneShot!XFinal(c, outlen)
  BY <1>4, FinalRefines
<1>5. CASE UNCHANGED vars
  BY <1>5 DEF vars, OneShot!xvars
<1>6. QED
  BY <1>1, <1>2, <1>3, <1>4, <1>5 DEF Next, OneShot!XNext

(* Every digest, of any length, is the beginning of the stream that the    *)
(* whole message names, and calls on one context leave the messages of the *)
(* others alone (hash_update, hash_ctx_copy, hash_final_digest,            *)
(* utils_hash.c).                                                          *)
THEOREM SpongeImplementsXof == Spec => XofSpec
<1>1. QED
  BY InitRefines, NextRefines, SpongeInvariant, PTL DEF Spec, XofSpec, OneShot!XSpec
=============================================================================
