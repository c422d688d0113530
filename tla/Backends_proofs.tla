--------------------------- MODULE Backends_proofs ---------------------------
(***************************************************************************)
(* Proofs about the arithmetic of the backends, for every width of the     *)
(* registers and every length.                                             *)
(*                                                                         *)
(* Vectors: a function's moves cut its vector into pieces.  Sequences of   *)
(* moves that cut neighbouring pieces can be put behind each other, so     *)
(* that each function is followed from its registers to its remainder.     *)
(*                                                                         *)
(* Matrix products: a product's rows cut a column, its chunks cut the      *)
(* columns, and so its calls take each byte of the matrix once.  Before    *)
(* the first call this is all that is known of the calls, and it is what   *)
(* every call leaves of the ones behind it.                                *)
(*                                                                         *)
(* Batched products: the rows of a triangle (RowStart) lie behind each     *)
(* other, so that its entries have an address each (IdxUnique, IdxCovers)  *)
(* and a walk down a column meets the column's addresses (WalkIs).  With   *)
(* that the terms of one row are known for each kind of B; the invariant   *)
(* says which rows, and which mirror images, a result has.                 *)
(*                                                                         *)
(* The public map in bytes: the key's coefficients lie in the order of the *)
(* rows (KeyOrdered), so that a row's additions meet none of the earlier   *)
(* ones, and halving the buckets three times sorts the addresses by the    *)
(* bits of their bucket's number (ReducedIs).                              *)
(***************************************************************************)
EXTENDS Backends, FiniteSetTheorems, SequenceTheorems, WellFoundedInduction, TLAPS

(* Quotient and remainder of natural numbers.                              *)
LEMMA DivMod ==
  ASSUME NEW a \in Nat, NEW b \in Nat, b > 0
  PROVE  /\ a \div b \in Nat
         /\ a % b \in 0 .. b-1
         /\ a = b * (a \div b) + (a % b)
  BY SMT

LEMMA DivUnique ==
  ASSUME NEW b \in Nat, b > 0, NEW q \in Nat, NEW r \in 0 .. b-1
  PROVE  /\ (b * q + r) \div b = q
         /\ (b * q + r) % b = r
  BY SMTT(20)

LEMMA LenOfDomain ==
  ASSUME NEW l \in Nat, NEW n \in Nat, 1 .. l = 1 .. n
  PROVE  l = n
<1>1. \A a, b \in Nat : a < b => b \in 1 .. b /\ b \notin 1 .. a
  OBVIOUS
<1>2. ~(l < n) /\ ~(n < l)
  BY <1>1
<1>3. QED
  BY <1>2

LEMMA WidthFacts ==
  /\ XMM \in Nat /\ XMM > 0 /\ YMM \in Nat /\ YMM > 0 /\ YMM = 2*XMM
  /\ U32 \in Nat /\ U32 > 0 /\ U64 \in Nat /\ U64 > 0
BY WidthAssumption

-----------------------------------------------------------------------------
(* Moves.                                                                  *)

MoveType == [src : Nat, to : Nat, n : Nat, read : Nat, kept : SUBSET Nat]

(* The bytes that a move combines, and that are not put back.              *)
Taken(m) == (m.to .. m.to + m.n - 1) \ m.kept

(* The moves s take each byte from a up to b once, and no other, from its  *)
(* own place, and read nothing at e or behind.                             *)
Cuts(s, a, b, e) ==
  /\ s \in Seq(MoveType)
  /\ \A k \in 1 .. Len(s) : /\ s[k].src = s[k].to /\ s[k].src + s[k].read <= e
                            /\ Taken(s[k]) \subseteq a .. b-1
  /\ \A k, h \in 1 .. Len(s) : Taken(s[k]) \cap Taken(s[h]) # {} => k = h
  /\ \A i \in a .. b-1 : \E k \in 1 .. Len(s) : i \in Taken(s[k])

LEMMA CutsNothing ==
  ASSUME NEW a \in Nat, NEW e
  PROVE  Cuts(<< >>, a, a, e)
<1>1. << >> \in Seq(MoveType) /\ Len(<< >>) = 0
  BY EmptySeq
<1>2. 1 .. 0 = {} /\ a .. a-1 = {}
  OBVIOUS
<1>3. QED
  BY <1>1, <1>2 DEF Cuts

LEMMA CutsOne ==
  ASSUME NEW m \in MoveType, NEW a \in Nat, NEW b \in Nat, NEW e,
         m.src = m.to, m.src + m.read <= e, Taken(m) = a .. b-1
  PROVE  Cuts(<<m>>, a, b, e)
<1> DEFINE s == <<m>>
<1>1. s \in Seq(MoveType) /\ Len(s) = 1 /\ s[1] = m
  OBVIOUS
<1>2. \A k \in 1 .. 1 : k = 1
  OBVIOUS
<1> HIDE DEF s
<1>3. QED
  BY <1>1, <1>2 DEF Cuts, s

LEMMA CutsBoth ==
  ASSUME NEW a \in Nat, NEW b \in Nat, NEW d \in Nat, a <= b, b <= d, NEW e,
         NEW s, NEW t, Cuts(s, a, b, e), Cuts(t, b, d, e)
  PROVE  Cuts(s \o t, a, d, e)
<1> DEFINE r == s \o t
           L == Len(s)
           N == Len(t)
<1>1. /\ s \in Seq(MoveType) /\ t \in Seq(MoveType) /\ L \in Nat /\ N \in Nat
      /\ r \in Seq(MoveType) /\ Len(r) = L + N
      /\ \A k \in 1 .. L + N : r[k] = IF k <= L THEN s[k] ELSE t[k - L]
  BY ConcatProperties, LenProperties DEF Cuts
<1> HIDE DEF r, L, N
<1>2. \A k \in 1 .. L : k \in 1 .. L + N /\ r[k] = s[k]
  BY <1>1
<1>3. \A k \in 1 .. N : k + L \in 1 .. L + N /\ r[k + L] = t[k]
  BY <1>1
<1>4. ASSUME NEW k \in 1 .. L + N
      PROVE  \/ k \in 1 .. L /\ r[k] = s[k]
             \/ k - L \in 1 .. N /\ r[k] = t[k - L] /\ ~(k <= L)
  BY <1>1
<1>5. \A k \in 1 .. L : /\ s[k].src = s[k].to /\ s[k].src + s[k].read <= e
                        /\ Taken(s[k]) \subseteq a .. b-1
  BY DEF Cuts, L
<1>6. \A k \in 1 .. N : /\ t[k].src = t[k].to /\ t[k].src + t[k].read <= e
                        /\ Taken(t[k]) \subseteq b .. d-1
  BY DEF Cuts, N
<1>7. ASSUME NEW k \in 1 .. L + N
      PROVE  /\ r[k].src = r[k].to /\ r[k].src + r[k].read <= e
             /\ Taken(r[k]) \subseteq a .. d-1
  <2>1. a .. b-1 \subseteq a .. d-1 /\ b .. d-1 \subseteq a .. d-1
    OBVIOUS
  <2>2. CASE k \in 1 .. L /\ r[k] = s[k]
    BY <1>5, <2>1, <2>2
  <2>3. CASE k - L \in 1 .. N /\ r[k] = t[k - L]
    BY <1>6, <2>1, <2>3
  <2>4. QED
    BY <1>4, <2>2, <2>3
<1>8. ASSUME NEW k \in 1 .. L + N, NEW h \in 1 .. L + N, Taken(r[k]) \cap Taken(r[h]) # {}
      PROVE  k = h
  <2>1. a .. b-1 \cap b .. d-1 = {}
    OBVIOUS
  <2>2. CASE k \in 1 .. L /\ r[k] = s[k] /\ h \in 1 .. L /\ r[h] = s[h]
    BY <1>8, <2>2 DEF Cuts, L
  <2>3. CASE k - L \in 1 .. N /\ r[k] = t[k - L] /\ h - L \in 1 .. N /\ r[h] = t[h - L]
    <3>1. k - L = h - L
      BY <1>8, <2>3 DEF Cuts, N
    <3>2. QED
      BY <1>1, <3>1
  <2>4. CASE k \in 1 .. L /\ r[k] = s[k] /\ h - L \in 1 .. N /\ r[h] = t[h - L]
    BY <1>5, <1>6, <1>8, <2>1, <2>4
  <2>5. CASE k - L \in 1 .. N /\ r[k] = t[k - L] /\ h \in 1 .. L /\ r[h] = s[h]
    BY <1>5, <1>6, <1>8, <2>1, <2>5
  <2>6. QED
    BY <1>4, <2>2, <2>3, <2>4, <2>5
<1>9. ASSUME NEW i \in a .. d-1 PROVE \E k \in 1 .. L + N : i \in Taken(r[k])
  <2>1. CASE i \in a .. b-1
    <3>1. PICK k \in 1 .. L : i \in Taken(s[k])
      BY <2>1 DEF Cuts, L
    <3>2. QED
      BY <1>2, <3>1
  <2>2. CASE i \in b .. d-1
    <3>1. PICK k \in 1 .. N : i \in Taken(t[k])
      BY <2>2 DEF Cuts, N
    <3>2. QED
      BY <1>3, <3>1
  <2>3. QED
    BY <2>1, <2>2
<1>10. QED
  BY <1>1, <1>7, <1>8, <1>9 DEF Cuts, r

LEMMA CutsPart ==
  ASSUME NEW o \in Nat, NEW n \in Nat, NEW e \in Nat, o + n <= e
  PROVE  Cuts(<<Part(o, n)>>, o, o + n, e) /\ Cuts(Parts(o, n), o, o + n, e)
<1> DEFINE m == Part(o, n)
<1>1. m \in MoveType /\ m.src = o /\ m.to = o /\ m.read = n /\ Taken(m) = o .. (o + n) - 1
  BY DEF Part, Move, MoveType, Taken
<1> HIDE DEF m
<1>2. Cuts(<<m>>, o, o + n, e)
  BY <1>1, CutsOne
<1>3. CASE n = 0
  <2>1. Cuts(<< >>, o, o, e)
    BY CutsNothing
  <2>2. QED
    BY <1>2, <1>3, <2>1 DEF Parts, m
<1>4. CASE n # 0
  BY <1>2, <1>4 DEF Parts, m
<1>5. QED
  BY <1>3, <1>4

(* The overlapping head reads a whole register, and takes the remainder.   *)
LEMMA CutsHead ==
  ASSUME NEW w \in Nat, NEW rem \in 0 .. w, NEW e \in Nat, w <= e
  PROVE  Cuts(<<OverlapHead(rem, w)>>, 0, rem, e)
<1> DEFINE m == OverlapHead(rem, w)
<1>1. m.src = 0 /\ m.to = 0 /\ m.n = w /\ m.read = w /\ m.kept = rem .. rem+w-1
  BY DEF OverlapHead, Move
<1>2. m \in MoveType
  BY DEF OverlapHead, Move, MoveType
<1>3. Taken(m) = 0 .. rem-1
  BY <1>1 DEF Taken
<1> HIDE DEF m
<1>4. Cuts(<<m>>, 0, rem, e)
  BY <1>1, <1>2, <1>3, CutsOne
<1>5. QED
  BY <1>4 DEF m

(* Pieces of w bytes behind each other.                                    *)
Consecutive(o, q, w) == [k \in 1 .. q |-> Part(o + (k-1)*w, w)]

LEMMA CutsConsecutive ==
  ASSUME NEW o \in Nat, NEW q \in Nat, NEW w \in Nat, w > 0, NEW e \in Nat, o + w*q <= e
  PROVE  Cuts(Consecutive(o, q, w), o, o + w*q, e)
<1> DEFINE s == Consecutive(o, q, w)
           at(k) == o + (k-1)*w
<1>1. ASSUME NEW k \in 1 .. q
      PROVE  at(k) \in Nat /\ at(k) + w \in Nat /\ o <= at(k) /\ at(k) + w <= o + w*q
  <2>1. k-1 \in Nat /\ (k-1)*w \in Nat
    BY SMT
  <2>2. q - k \in Nat /\ w*(q - k) \in Nat
    BY SMT
  <2>3. w*q = (k-1)*w + w + w*(q - k)
    OBVIOUS
  <2>4. QED
    BY <2>1, <2>2, <2>3
<1>2. ASSUME NEW k \in 1 .. q
      PROVE  /\ s[k] \in MoveType /\ s[k].src = s[k].to /\ s[k].src + s[k].read <= e
             /\ Taken(s[k]) = at(k) .. (at(k) + w) - 1
  <2>1. s[k] = Part(at(k), w) /\ at(k) \in Nat /\ at(k) + w <= e
    BY <1>1 DEF Consecutive
  <2> HIDE DEF at, s
  <2>2. /\ s[k].src = at(k) /\ s[k].to = at(k) /\ s[k].n = w /\ s[k].read = w /\ s[k].kept = {}
        /\ s[k] \in MoveType
    BY <2>1 DEF Part, Move, MoveType
  <2>3. QED
    BY <2>1, <2>2 DEF Taken
<1>3. s \in Seq(MoveType) /\ Len(s) = q
  <2>1. s \in [1 .. q -> MoveType]
    BY <1>2 DEF Consecutive
  <2>2. s \in Seq(MoveType)
    BY <2>1, SeqDef
  <2>3. Len(s) \in Nat /\ DOMAIN s = 1 .. Len(s) /\ DOMAIN s = 1 .. q
    BY <2>1, <2>2, LenProperties
  <2> HIDE DEF s
  <2>4. QED
    BY <2>2, <2>3, LenOfDomain
<1> HIDE DEF s
<1>4. ASSUME NEW k \in 1 .. q, NEW i \in Taken(s[k])
      PROVE  i - o \in Nat /\ (i - o) \div w = k - 1
  <2> DEFINE r == i - at(k)
             j == k - 1
  <2>1. i \in at(k) .. (at(k) + w) - 1 /\ at(k) \in Nat
    BY <1>1, <1>2
  <2>2. r \in 0 .. w-1 /\ j \in Nat
    BY <2>1
  <2>3. j*w = w*j /\ w*j \in Nat
    BY <2>2
  <2>4. i - o = w*j + r /\ i - o \in Nat
    BY <2>1, <2>2, <2>3
  <2> HIDE DEF r, j
  <2>5. (w*j + r) \div w = j
    BY <2>2, DivUnique
  <2>6. QED
    BY <2>4, <2>5 DEF j
<1>5. ASSUME NEW i \in o .. (o + w*q) - 1 PROVE \E k \in 1 .. q : i \in Taken(s[k])
  <2> DEFINE j == (i - o) \div w
             r == (i - o) % w
  <2>0. w*q \in Nat
    OBVIOUS
  <2>1. i - o \in Nat /\ i - o < w*q
    BY <2>0
  <2>2. j \in Nat /\ r \in 0 .. w-1 /\ i - o = w*j + r
    BY <2>1, DivMod
  <2> HIDE DEF j, r
  <2>3. j < q
    <3>1. ASSUME j >= q PROVE FALSE
      <4>1. j - q \in Nat /\ w*j = w*q + w*(j - q)
        BY <2>2, <3>1
      <4>2. w*(j - q) \in Nat
        BY <4>1
      <4>3. QED
        BY <2>0, <2>1, <2>2, <4>1, <4>2
    <3>2. QED
      BY <2>2, <3>1
  <2>4. j + 1 \in 1 .. q /\ ((j+1)-1)*w = w*j
    BY <2>2, <2>3
  <2>5. w*j \in Nat
    BY <2>2
  <2>6. i \in at(j+1) .. (at(j+1) + w) - 1
    BY <2>1, <2>2, <2>4, <2>5
  <2>7. QED
    BY <1>2, <2>4, <2>6
<1>6. \A k, h \in 1 .. q : Taken(s[k]) \cap Taken(s[h]) # {} => k = h
  <2> SUFFICES ASSUME NEW k \in 1 .. q, NEW h \in 1 .. q, NEW i, i \in Taken(s[k]), i \in Taken(s[h])
               PROVE  k = h
    OBVIOUS
  <2>1. k - 1 = h - 1
    BY <1>4
  <2>2. QED
    BY <2>1
<1>7. \A k \in 1 .. q : /\ s[k].src = s[k].to /\ s[k].src + s[k].read <= e
                        /\ Taken(s[k]) \subseteq o .. (o + w*q) - 1
  <2> TAKE k \in 1 .. q
  <2> DEFINE a == at(k)
             b == o + w*q
  <2>1. a \in Nat /\ o <= a /\ a + w <= b /\ b \in Nat
    BY <1>1
  <2>2. Taken(s[k]) = a .. (a + w) - 1
    BY <1>2
  <2> HIDE DEF a, b
  <2>3. Taken(s[k]) \subseteq o .. b - 1
    BY <2>1, <2>2
  <2>4. QED
    BY <1>2, <2>3 DEF b
<1>8. QED
  BY <1>3, <1>5, <1>6, <1>7 DEF Cuts, s

(* The same pieces of one byte from the end.                               *)
LEMMA CutsBytes ==
  ASSUME NEW o \in Nat, NEW n \in Nat, NEW e \in Nat, o + n <= e
  PROVE  Cuts(BytesUp(o, n), o, o + n, e) /\ Cuts(BytesDown(o, n), o, o + n, e)
<1>1. Cuts(BytesUp(o, n), o, o + n, e)
  <2>1. Cuts(Consecutive(o, n, 1), o, o + 1*n, e)
    <3>1. 1 \in Nat /\ 1 > 0 /\ 1*n = n
      OBVIOUS
    <3>2. QED
      BY <3>1, CutsConsecutive
  <2>2. BytesUp(o, n) = Consecutive(o, n, 1)
    BY DEF BytesUp, Consecutive
  <2>3. QED
    BY <2>1, <2>2
<1>2. Cuts(BytesDown(o, n), o, o + n, e)
  <2> DEFINE s == BytesDown(o, n)
  <2>1. ASSUME NEW k \in 1 .. n
        PROVE  /\ s[k] \in MoveType /\ s[k].src = s[k].to /\ s[k].src + s[k].read <= e
               /\ Taken(s[k]) = {o + n - k} /\ o + n - k \in o .. (o + n) - 1
    <3> DEFINE a == o + n - k
    <3>1. a \in Nat /\ a \in o .. (o + n) - 1 /\ s[k] = Part(a, 1)
      BY DEF BytesDown
    <3> HIDE DEF a, s
    <3>2. s[k].src = a /\ s[k].to = a /\ s[k].n = 1 /\ s[k].read = 1 /\ s[k].kept = {} /\ s[k] \in MoveType
      BY <3>1 DEF Part, Move, MoveType
    <3>3. Taken(s[k]) = {a}
      BY <3>1, <3>2 DEF Taken
    <3>4. QED
      BY <3>1, <3>2, <3>3 DEF a
  <2>2. s \in Seq(MoveType) /\ Len(s) = n
    <3>1. s \in [1 .. n -> MoveType]
      BY <2>1 DEF BytesDown
    <3>2. s \in Seq(MoveType)
      BY <3>1, SeqDef
    <3>3. Len(s) \in Nat /\ DOMAIN s = 1 .. Len(s) /\ DOMAIN s = 1 .. n
      BY <3>1, <3>2, LenProperties
    <3> HIDE DEF s
    <3>4. QED
      BY <3>2, <3>3, LenOfDomain
  <2> HIDE DEF s
  <2>3. \A k, h \in 1 .. n : Taken(s[k]) \cap Taken(s[h]) # {} => k = h
    BY <2>1
  <2>4. ASSUME NEW i \in o .. (o + n) - 1 PROVE \E k \in 1 .. n : i \in Taken(s[k])
    <3>1. (o + n) - i \in 1 .. n /\ o + n - ((o + n) - i) = i
      OBVIOUS
    <3>2. QED
      BY <2>1, <3>1
  <2>5. QED
    BY <2>1, <2>2, <2>3, <2>4 DEF Cuts, s
<1>3. QED
  BY <1>1, <1>2

-----------------------------------------------------------------------------
(* Registers and remainders.                                               *)

LEMMA CutsRegisters ==
  ASSUME NEW o \in Nat, NEW n \in Nat, NEW w \in Nat, w > 0, NEW e \in Nat, o + n <= e
  PROVE  /\ n - (n % w) \in Nat /\ n % w \in 0 .. w-1
         /\ Cuts(Registers(o, n, w), o, o + (n - (n % w)), e)
<1> DEFINE q == n \div w
           r == n % w
<1>1. q \in Nat /\ r \in 0 .. w-1 /\ n = w*q + r
  BY DivMod
<1>2. Registers(o, n, w) = Consecutive(o, q, w)
  BY DEF Registers, Register, Part, Consecutive
<1> HIDE DEF q, r
<1>3. w*q \in Nat /\ n - r = w*q
  BY <1>1
<1>4. Cuts(Consecutive(o, q, w), o, o + w*q, e)
  <2>1. o + w*q <= e
    BY <1>1, <1>3
  <2>2. QED
    BY <1>1, <2>1, CutsConsecutive
<1>5. QED
  BY <1>1, <1>2, <1>3, <1>4 DEF r

LEMMA CutsWhole ==
  ASSUME NEW o \in Nat, NEW n \in Nat, NEW w \in Nat, w > 0, n % w = 0, NEW e \in Nat, o + n <= e
  PROVE  Cuts(Registers(o, n, w), o, o + n, e)
<1>1. n - (n % w) = n
  OBVIOUS
<1>2. Cuts(Registers(o, n, w), o, o + (n - (n % w)), e)
  BY CutsRegisters
<1>3. QED
  BY <1>1, <1>2

LEMMA CutsBlocksThenPart ==
  ASSUME NEW n \in Nat, NEW w \in Nat, w > 0
  PROVE  Cuts(BlocksThenPart(n, w), 0, n, n)
<1> DEFINE r == n % w
           m == n - r
<1>1. m \in Nat /\ r \in 0 .. w-1 /\ Cuts(Registers(0, n, w), 0, 0 + m, n)
  BY CutsRegisters
<1> HIDE DEF r
<1>2. m + r = n /\ 0 + m = m /\ r \in Nat
  BY <1>1
<1>3. Cuts(Parts(m, r), m, m + r, n)
  <2> HIDE DEF m
  <2>1. m + r <= n
    BY <1>1, <1>2
  <2>2. QED
    BY <1>1, <1>2, <2>1, CutsPart
<1>4. Cuts(Registers(0, n, w) \o Parts(m, r), 0, n, n)
  BY <1>1, <1>2, <1>3, CutsBoth
<1>5. QED
  BY <1>4 DEF BlocksThenPart, r

LEMMA CutsThenBytes ==
  ASSUME NEW n \in Nat, NEW w \in Nat, w > 0
  PROVE  /\ Cuts(Registers(0, n, w) \o BytesUp(n - (n % w), n % w), 0, n, n)
         /\ Cuts(Registers(0, n, w) \o BytesDown(n - (n % w), n % w), 0, n, n)
<1> DEFINE r == n % w
           m == n - r
<1>1. m \in Nat /\ r \in 0 .. w-1 /\ Cuts(Registers(0, n, w), 0, 0 + m, n)
  BY CutsRegisters
<1> HIDE DEF r
<1>2. m + r = n /\ 0 + m = m /\ r \in Nat
  BY <1>1
<1>3. Cuts(BytesUp(m, r), m, m + r, n) /\ Cuts(BytesDown(m, r), m, m + r, n)
  BY <1>1, <1>2, CutsBytes
<1>4. /\ Cuts(Registers(0, n, w) \o BytesUp(m, r), 0, n, n)
      /\ Cuts(Registers(0, n, w) \o BytesDown(m, r), 0, n, n)
  BY <1>1, <1>2, <1>3, CutsBoth
<1>5. QED
  BY <1>4 DEF r

(* What is left of a multiple of w by larger multiples is one.             *)
LEMMA StillWhole ==
  ASSUME NEW n \in Nat, NEW w \in Nat, w > 0, NEW f \in Nat, f > 0, n % w = 0
  PROVE  (n - (n - (n % (f*w)))) % w = 0
<1> DEFINE q == n \div w
           u == f*w
           h == n \div u
           r == n % u
<1>1. q \in Nat /\ n = w*q
  <2>1. q \in Nat /\ n = w*q + (n % w)
    BY DivMod
  <2> HIDE DEF q
  <2>2. QED
    BY <2>1
<1>2. u \in Nat /\ u > 0
  BY SMT
<1>3. h \in Nat /\ r \in 0 .. u-1 /\ n = u*h + r
  <2> HIDE DEF u
  <2>1. QED
    BY <1>2, DivMod
<1> HIDE DEF q, h, r
<1>4. r = w*(q - f*h) /\ f*h \in Nat
  <2>1. u*h = w*(f*h)
    BY <1>3
  <2>2. f*h \in Nat /\ w*(f*h) \in Nat
    BY <1>3
  <2> DEFINE g == f*h
  <2> HIDE DEF g, u
  <2>3. w*(q - g) = w*q - w*g
    BY <1>1, <2>2 DEF g
  <2>4. QED
    BY <1>1, <1>3, <2>1, <2>2, <2>3 DEF g
<1>5. q - f*h \in Nat
  <2> DEFINE g == q - f*h
  <2>1. g \in Int /\ r = w*g /\ r \in Nat
    BY <1>1, <1>2, <1>3, <1>4
  <2> HIDE DEF g
  <2>2. g \in Nat
    <3>1. ASSUME g < 0 PROVE FALSE
      <4>1. w*g < 0
        BY <2>1, <3>1
      <4>2. QED
        BY <2>1, <4>1
    <3>2. QED
      BY <2>1, <3>1
  <2>3. QED
    BY <2>2 DEF g
<1> DEFINE g == q - f*h
<1>6. g \in Nat /\ r = w*g + 0 /\ 0 \in 0 .. w-1
  BY <1>3, <1>4, <1>5
<1> HIDE DEF g, u
<1>7. (w*g + 0) % w = 0
  BY <1>6, DivUnique
<1>8. n - (n - r) = r
  BY <1>1, <1>2, <1>3
<1>9. QED
  BY <1>6, <1>7, <1>8 DEF r, u

LEMMA CutsTriples ==
  ASSUME NEW o \in Nat, NEW n \in Nat, NEW w \in Nat, w > 0, n % w = 0, NEW e \in Nat, o + n <= e
  PROVE  Cuts(Triples(o, n, w), o, o + n, e)
<1> DEFINE u == 3*w
           r == n % u
           m == n - r
<1>1. u \in Nat /\ u > 0
  OBVIOUS
<1>2. (n - m) % w = 0
  <2>1. 3 \in Nat /\ 3 > 0
    OBVIOUS
  <2>2. (n - (n - (n % (3*w)))) % w = 0
    BY <2>1, StillWhole
  <2>3. QED
    BY <2>2
<1> HIDE DEF u
<1>3. m \in Nat /\ r \in 0 .. u-1 /\ Cuts(Registers(o, n, u), o, o + m, e)
  BY <1>1, CutsRegisters
<1> HIDE DEF r
<1>4. n - m = r /\ r \in Nat /\ o + m \in Nat /\ (o + m) + (n - m) = o + n
  BY <1>1, <1>3
<1>5. Cuts(Registers(o + m, n - m, w), o + m, (o + m) + (n - m), e)
  BY <1>2, <1>4, CutsWhole
<1>6. Registers(o, m, u) = Registers(o, n, u)
  <2> DEFINE q == n \div u
  <2>1. q \in Nat /\ n = u*q + r
    BY <1>1, DivMod DEF r
  <2> HIDE DEF q
  <2>2. m = u*q + 0 /\ 0 \in 0 .. u-1
    BY <1>1, <1>3, <1>4, <2>1
  <2>3. (u*q + 0) \div u = q
    BY <1>1, <2>1, <2>2, DivUnique
  <2>4. m \div u = n \div u
    BY <2>2, <2>3 DEF q
  <2>5. QED
    BY <2>4 DEF Registers
<1>7. Cuts(Registers(o, m, u) \o Registers(o + m, n - m, w), o, o + n, e)
  BY <1>1, <1>3, <1>4, <1>5, <1>6, CutsBoth
<1>8. QED
  BY <1>7 DEF Triples, u, r
(* A head, if there is a remainder, and whole registers behind it.         *)
LEMMA CutsHeadThenRegisters ==
  ASSUME NEW n \in Nat, NEW w \in Nat, w > 0, NEW short,
         n % w = n => Cuts(short, 0, n, n)
  PROVE  Cuts(HeadThenRegisters(n, w, short), 0, n, n)
<1> DEFINE rem == n % w
           q == n \div w
           head == IF rem = 0 THEN << >> ELSE IF n >= w THEN <<OverlapHead(rem, w)>> ELSE short
<1>1. q \in Nat /\ rem \in 0 .. w-1 /\ n = w*q + rem
  BY DivMod
<1>2. (n - rem) % w = 0
  <2>1. (w*q + 0) % w = 0
    <3>1. 0 \in 0 .. w-1
      OBVIOUS
    <3> HIDE DEF q, rem
    <3>2. QED
      BY <1>1, <3>1, DivUnique
  <2> HIDE DEF q, rem
  <2>2. n - rem = w*q + 0
    BY <1>1
  <2>3. QED
    BY <2>1, <2>2
<1>3. n < w => rem = n
  <2>1. ASSUME n < w PROVE rem = n
    <3>1. (w*0 + n) % w = n
      <4>1. n \in 0 .. w-1 /\ 0 \in Nat
        BY <2>1
      <4>2. QED
        BY <4>1, DivUnique
    <3>2. QED
      BY <3>1
  <2>2. QED
    BY <2>1
<1>4. rem <= n /\ n - rem \in Nat /\ rem + (n - rem) = n
  <2>1. w*q \in Nat
    BY <1>1
  <2> HIDE DEF q, rem
  <2>2. QED
    BY <1>1, <2>1
<1>5. Cuts(head, 0, rem, n)
  <2>1. CASE rem = 0
    <3>1. Cuts(<< >>, 0, 0, n)
      BY CutsNothing
    <3>2. QED
      BY <2>1, <3>1
  <2>2. CASE rem # 0 /\ n >= w
    <3> HIDE DEF rem
    <3>1. Cuts(<<OverlapHead(rem, w)>>, 0, rem, n)
      <4>1. rem \in 0 .. w /\ w <= n
        BY <1>1, <2>2
      <4>2. QED
        BY <4>1, CutsHead
    <3>2. QED
      BY <2>2, <3>1
  <2>3. CASE rem # 0 /\ ~(n >= w)
    <3>1. n < w /\ rem = n
      BY <1>3, <2>3
    <3>2. Cuts(short, 0, n, n)
      BY <3>1
    <3> HIDE DEF rem
    <3>3. QED
      BY <2>3, <3>1, <3>2
  <2>4. QED
    BY <2>1, <2>2, <2>3
<1> HIDE DEF rem, q, head
<1>6. Cuts(Registers(rem, n - rem, w), rem, n, n)
  <2>1. rem \in Nat /\ rem + (n - rem) <= n
    BY <1>1, <1>4
  <2>2. Cuts(Registers(rem, n - rem, w), rem, rem + (n - rem), n)
    BY <1>2, <1>4, <2>1, CutsWhole
  <2>3. QED
    BY <1>4, <2>2
<1>7. Cuts(head \o Registers(rem, n - rem, w), 0, n, n)
  <2>1. rem \in Nat /\ 0 <= rem
    BY <1>1
  <2>2. QED
    BY <1>4, <1>5, <1>6, <2>1, CutsBoth
<1>8. QED
  BY <1>7 DEF HeadThenRegisters, head, rem

LEMMA CutsHeadThenTriples ==
  ASSUME NEW n \in Nat, n >= XMM \/ n % XMM = 0
  PROVE  Cuts(HeadThenTriples(n), 0, n, n)
<1> DEFINE rem == n % XMM
           q == n \div XMM
           head == IF rem = 0 THEN << >> ELSE <<OverlapHead(rem, XMM)>>
<1>w. XMM \in Nat /\ XMM > 0
  BY WidthFacts
<1>1. q \in Nat /\ rem \in 0 .. XMM-1 /\ n = XMM*q + rem
  BY <1>w, DivMod
<1>2. (n - rem) % XMM = 0
  <2>1. (XMM*q + 0) % XMM = 0
    <3>1. 0 \in 0 .. XMM-1
      BY <1>w
    <3> HIDE DEF q, rem
    <3>2. QED
      BY <1>w, <1>1, <3>1, DivUnique
  <2> HIDE DEF q, rem
  <2>2. n - rem = XMM*q + 0
    BY <1>w, <1>1
  <2>3. QED
    BY <2>1, <2>2
<1>4. rem <= n /\ n - rem \in Nat /\ rem + (n - rem) = n
  <2>1. XMM*q \in Nat
    BY <1>w, <1>1
  <2> HIDE DEF q, rem
  <2>2. QED
    BY <1>w, <1>1, <2>1
<1>5. Cuts(head, 0, rem, n)
  <2>1. CASE rem = 0
    <3>1. Cuts(<< >>, 0, 0, n)
      BY CutsNothing
    <3>2. QED
      BY <2>1, <3>1
  <2>2. CASE rem # 0
    <3>0. n >= XMM
      BY <2>2
    <3> HIDE DEF rem
    <3>1. Cuts(<<OverlapHead(rem, XMM)>>, 0, rem, n)
      <4>1. rem \in 0 .. XMM /\ XMM <= n
        BY <1>w, <1>1, <3>0
      <4>2. QED
        BY <1>w, <4>1, CutsHead
    <3>2. QED
      BY <2>2, <3>1
  <2>4. QED
    BY <2>1, <2>2
<1> HIDE DEF rem, q, head
<1>6. Cuts(Triples(rem, n - rem, XMM), rem, n, n)
  <2>1. rem \in Nat /\ rem + (n - rem) <= n
    BY <1>1, <1>4
  <2>2. Cuts(Triples(rem, n - rem, XMM), rem, rem + (n - rem), n)
    BY <1>w, <1>2, <1>4, <2>1, CutsTriples
  <2>3. QED
    BY <1>4, <2>2
<1>7. Cuts(head \o Triples(rem, n - rem, XMM), 0, n, n)
  <2>1. rem \in Nat /\ 0 <= rem
    BY <1>1
  <2>2. QED
    BY <1>4, <1>5, <1>6, <2>1, CutsBoth
<1>8. QED
  BY <1>7 DEF HeadThenTriples, head, rem

LEMMA TwoMoves == ASSUME NEW x, NEW y PROVE <<x>> \o <<y>> = <<x, y>>
<1> DEFINE a == <<x>>
           b == <<y>>
           d == <<x, y>>
           t == a \o b
<1>1. a \in Seq({x, y}) /\ b \in Seq({x, y}) /\ d \in Seq({x, y}) /\ Len(d) = 2
  OBVIOUS
<1>2. Len(a) = 1 /\ Len(b) = 1 /\ a[1] = x /\ b[1] = y /\ d[1] = x /\ d[2] = y
  OBVIOUS
<1> HIDE DEF a, b, d
<1>3. t \in Seq({x, y}) /\ Len(t) = Len(d)
  BY <1>1, <1>2, ConcatProperties
<1>4. \A i \in 1 .. Len(t) : t[i] = d[i]
  <2>1. t[1] = x /\ t[2] = y
    <3>1. \A i \in 1 .. Len(a) + Len(b) : t[i] = IF i <= Len(a) THEN a[i] ELSE b[i - Len(a)]
      BY <1>1, ConcatProperties
    <3>2. 1 \in 1 .. Len(a) + Len(b) /\ 2 \in 1 .. Len(a) + Len(b)
      BY <1>2
    <3> HIDE DEF t
    <3>3. t[1] = a[1]
      BY <1>2, <3>1, <3>2
    <3>4. t[2] = b[2 - 1]
      BY <1>2, <3>1, <3>2
    <3>5. QED
      BY <1>2, <3>3, <3>4
  <2>2. 1 .. Len(t) = {1, 2}
    BY <1>1, <1>3
  <2>3. QED
    BY <1>2, <2>1, <2>2
<1> HIDE DEF t
<1>5. t = d
  BY <1>1, <1>3, <1>4, SeqEqual
<1>6. QED
  BY <1>5 DEF t, a, b, d

(* The tables of GF(16): a last pair of registers may be a part.           *)
LEMMA CutsTables ==
  ASSUME NEW n \in Nat
  PROVE  Cuts(Tables16(n), 0, n, n)
<1> DEFINE u == 2*XMM
           r == n % u
           m == n - r
           q == n \div u
           last == IF r <= XMM THEN Parts(m, r) ELSE <<Part(m, XMM), Part(m + XMM, r - XMM)>>
<1>w. XMM \in Nat /\ XMM > 0 /\ u \in Nat /\ u > 0
  BY WidthFacts
<1>1. q \in Nat /\ r \in 0 .. u-1 /\ n = u*q + r
  <2> HIDE DEF u
  <2>1. QED
    BY <1>w, DivMod
<1>2. u*q \in Nat /\ m = u*q /\ u*q = XMM*(2*q) /\ 2*q \in Nat
  <2> HIDE DEF q, r
  <2>1. QED
    BY <1>w, <1>1
<1>3. m % XMM = 0
  <2>1. 0 \in 0 .. XMM-1
    BY <1>w
  <2>2. (XMM*(2*q) + 0) % XMM = 0
    <3> DEFINE g == 2*q
    <3>1. g \in Nat
      BY <1>2
    <3> HIDE DEF g
    <3>2. (XMM*g + 0) % XMM = 0
      BY <1>w, <2>1, <3>1, DivUnique
    <3>3. QED
      BY <3>2 DEF g
  <2> HIDE DEF q, m
  <2>3. m = XMM*(2*q) + 0
    BY <1>w, <1>2
  <2>4. QED
    BY <2>2, <2>3
<1> HIDE DEF q, r
<1>4. m \in Nat /\ r \in Nat /\ m + r = n /\ r - XMM < XMM
  BY <1>w, <1>1, <1>2
<1> HIDE DEF m
<1>5. Cuts(Registers(0, m, XMM), 0, m, n)
  <2>1. 0 + m <= n /\ 0 + m = m
    BY <1>4
  <2>2. Cuts(Registers(0, m, XMM), 0, 0 + m, n)
    BY <1>w, <1>3, <1>4, <2>1, CutsWhole
  <2>3. QED
    BY <2>1, <2>2
<1>6. Cuts(last, m, n, n)
  <2>1. CASE r <= XMM
    <3>1. Cuts(Parts(m, r), m, m + r, n)
      <4>1. m + r <= n
        BY <1>4
      <4>2. QED
        BY <1>4, <4>1, CutsPart
    <3>2. QED
      BY <1>4, <2>1, <3>1
  <2>2. CASE ~(r <= XMM)
    <3> DEFINE b == m + XMM
               t == r - XMM
    <3>1. b \in Nat /\ t \in Nat /\ b + t = n /\ m <= b /\ b <= n /\ m + XMM = b
      BY <1>w, <1>4, <2>2
    <3>2. Cuts(<<Part(m, XMM)>>, m, b, n)
      <4>1. m + XMM <= n
        BY <3>1
      <4>2. QED
        BY <1>w, <1>4, <4>1, CutsPart
    <3> HIDE DEF b, t
    <3>3. Cuts(<<Part(b, t)>>, b, n, n)
      <4>1. b + t <= n
        BY <3>1
      <4>2. Cuts(<<Part(b, t)>>, b, b + t, n)
        BY <3>1, <4>1, CutsPart
      <4>3. QED
        BY <3>1, <4>2
    <3>4. Cuts(<<Part(m, XMM)>> \o <<Part(b, t)>>, m, n, n)
      BY <1>4, <3>1, <3>2, <3>3, CutsBoth
    <3>5. <<Part(m, XMM)>> \o <<Part(b, t)>> = <<Part(m, XMM), Part(b, t)>>
      BY TwoMoves
    <3>6. QED
      BY <2>2, <3>4, <3>5 DEF b, t
  <2>3. QED
    BY <2>1, <2>2
<1> HIDE DEF last
<1>7. Cuts(Registers(0, m, XMM) \o last, 0, n, n)
  BY <1>4, <1>5, <1>6, CutsBoth
<1>8. QED
  <2>1. n - m = r
    BY <1>4
  <2>2. Tables16(n) = Registers(0, m, XMM) \o last
    <3>1. Tables16(n) = Registers(0, m, XMM) \o
            (IF n - m <= XMM THEN Parts(m, n - m) ELSE <<Part(m, XMM), Part(m + XMM, (n - m) - XMM)>>)
      BY DEF Tables16, m, r, u
    <3>2. QED
      BY <2>1, <3>1 DEF last
  <2>3. QED
    BY <1>7, <2>2

-----------------------------------------------------------------------------
(* The functions.                                                          *)

LEMMA CutsSse ==
  ASSUME NEW n \in Nat
  PROVE  /\ Cuts(linearmap_8x8_sse(n), 0, n, n) /\ Cuts(linearmap_8x8_accu_sse(n), 0, n, n)
         /\ Cuts(gf256v_add_sse(n), 0, n, n)
         /\ Cuts(gf256v_generate_multabs_sse(n), 0, n, n)
<1>1. XMM \in Nat /\ XMM > 0
  BY WidthFacts
<1>2. Cuts(BlocksThenPart(n, XMM), 0, n, n)
  BY <1>1, CutsBlocksThenPart
<1>3. Cuts(Registers(0, n, XMM) \o BytesUp(n - (n % XMM), n % XMM), 0, n, n)
  BY <1>1, CutsThenBytes
<1>4. QED
  BY <1>2, <1>3 DEF linearmap_8x8_sse, linearmap_8x8_accu_sse, gf256v_add_sse, gf256v_generate_multabs_sse

LEMMA CutsAvx2 ==
  ASSUME NEW n \in Nat
  PROVE  /\ Cuts(linearmap_8x8_ymm(n), 0, n, n) /\ Cuts(linearmap_8x8_accu_ymm(n), 0, n, n)
         /\ Cuts(gf256v_add_avx2(n), 0, n, n)
         /\ Cuts(HeadThenRegisters(n, YMM, Parts(0, n)), 0, n, n)
<1>1. YMM \in Nat /\ YMM > 0
  BY WidthFacts
<1>2. Cuts(HeadThenRegisters(n, YMM, linearmap_8x8_sse(n % YMM)), 0, n, n)
  <2>1. n % YMM = n => Cuts(linearmap_8x8_sse(n % YMM), 0, n, n)
    BY CutsSse
  <2>2. QED
    BY <1>1, <2>1, CutsHeadThenRegisters
<1>3. Cuts(HeadThenRegisters(n, YMM, linearmap_8x8_accu_sse(n % YMM)), 0, n, n)
  <2>1. n % YMM = n => Cuts(linearmap_8x8_accu_sse(n % YMM), 0, n, n)
    BY CutsSse
  <2>2. QED
    BY <1>1, <2>1, CutsHeadThenRegisters
<1>4. Cuts(HeadThenRegisters(n, YMM, gf256v_add_sse(n)), 0, n, n)
  <2>1. n % YMM = n => Cuts(gf256v_add_sse(n), 0, n, n)
    BY CutsSse
  <2>2. QED
    BY <1>1, <2>1, CutsHeadThenRegisters
<1>5. Cuts(HeadThenRegisters(n, YMM, Parts(0, n)), 0, n, n)
  <2>1. Cuts(Parts(0, n), 0, n, n)
    <3>1. 0 + n <= n /\ 0 + n = n
      OBVIOUS
    <3>2. Cuts(Parts(0, n), 0, 0 + n, n)
      BY <3>1, CutsPart
    <3>3. QED
      BY <3>1, <3>2
  <2>2. QED
    BY <1>1, <2>1, CutsHeadThenRegisters
<1>6. QED
  BY <1>2, <1>3, <1>4, <1>5 DEF linearmap_8x8_ymm, linearmap_8x8_accu_ymm, gf256v_add_avx2

LEMMA CutsNeon ==
  ASSUME NEW n \in Nat
  PROVE  /\ Cuts(gf256v_add_neon(n), 0, n, n)
         /\ Cuts(HeadThenRegisters(n, XMM, Parts(0, n)), 0, n, n)
         /\ Cuts(gf256v_mul_scalar_neon(n), 0, n, n)
         /\ Cuts(gf256v_madd_neon(n), 0, n, n)
<1>1. XMM \in Nat /\ XMM > 0
  BY WidthFacts
<1>2. Cuts(Parts(0, n), 0, n, n) /\ Cuts(BytesUp(0, n), 0, n, n)
  <2>1. 0 + n <= n /\ 0 + n = n
    OBVIOUS
  <2>2. Cuts(Parts(0, n), 0, 0 + n, n)
    BY <2>1, CutsPart
  <2>3. Cuts(BytesUp(0, n), 0, 0 + n, n)
    BY <2>1, CutsBytes
  <2>4. QED
    BY <2>1, <2>2, <2>3
<1>3. n >= XMM \/ n % XMM = 0 => Cuts(HeadThenTriples(n), 0, n, n)
  BY CutsHeadThenTriples
<1>4. n < XMM <=> ~(n >= XMM)
  BY <1>1
<1>5. Cuts(gf256v_add_neon(n), 0, n, n)
  BY <1>2, <1>3, <1>4 DEF gf256v_add_neon
<1>6. Cuts(HeadThenRegisters(n, XMM, Parts(0, n)), 0, n, n)
  BY <1>1, <1>2, CutsHeadThenRegisters
<1>7. Cuts(gf256v_mul_scalar_neon(n), 0, n, n) /\ Cuts(gf256v_madd_neon(n), 0, n, n)
  BY <1>2, <1>3, <1>4 DEF gf256v_mul_scalar_neon, gf256v_madd_neon,
                          _gf256v_mul_scalar_multab_neon, _gf256v_madd_multab_neon
<1>8. QED
  BY <1>5, <1>6, <1>7

LEMMA CutsWords ==
  ASSUME NEW n \in Nat, NEW aligned, NEW half
  PROVE  /\ Cuts(_gf256v_add_u32(n, half), 0, n, n)
         /\ Cuts(_gf256v_conditional_add_u32(n, half), 0, n, n)
         /\ Cuts(_gf256v_add_u64(n, aligned, half), 0, n, n)
         /\ Cuts(_gf256v_conditional_add_u64(n, aligned, half), 0, n, n)
         /\ Cuts(BlocksThenPart(n, U32), 0, n, n) /\ Cuts(BlocksThenPart(n, U64), 0, n, n)
<1>1. U32 \in Nat /\ U32 > 0 /\ U64 \in Nat /\ U64 > 0
  BY WidthFacts
<1>2. Cuts(BytesDown(0, n), 0, n, n)
  <2>1. Cuts(BytesDown(0, n), 0, 0 + n, n)
    BY CutsBytes
  <2>2. QED
    BY <2>1
<1>3. /\ Cuts(Registers(0, n, U32) \o BytesDown(n - (n % U32), n % U32), 0, n, n)
      /\ Cuts(Registers(0, n, U64) \o BytesDown(n - (n % U64), n % U64), 0, n, n)
  BY <1>1, CutsThenBytes
<1>4. Cuts(BlocksThenPart(n, U32), 0, n, n) /\ Cuts(BlocksThenPart(n, U64), 0, n, n)
  BY <1>1, CutsBlocksThenPart
<1>5. Cuts(_gf256v_add_u32(n, half), 0, n, n) /\ Cuts(_gf256v_conditional_add_u32(n, half), 0, n, n)
  BY <1>2, <1>3 DEF _gf256v_add_u32, _gf256v_add_u32_aligned,
                    _gf256v_conditional_add_u32, _gf256v_conditional_add_u32_aligned
<1>6. QED
  BY <1>3, <1>4, <1>5 DEF _gf256v_add_u64, _gf256v_add_u64_aligned,
                          _gf256v_conditional_add_u64, _gf256v_conditional_add_u64_aligned

(* Every function of every backend cuts its vector into pieces.            *)
LEMMA FunctionsCut ==
  ASSUME NEW n \in Nat, NEW aligned, NEW half
  PROVE  \A f \in DOMAIN Functions(n, aligned, half) : Cuts(Functions(n, aligned, half)[f], 0, n, n)
<1> DEFINE Good(s) == Cuts(s, 0, n, n)
<1>1. /\ Good(BlocksThenPart(n, XMM)) /\ Good(Tables16(n)) /\ Good(BlocksThenPart(n, 2))
      /\ Good(BytesUp(0, n))
      /\ Good(Registers(0, n, XMM) \o BytesUp(n - (n % XMM), n % XMM))
  <2>1. XMM \in Nat /\ XMM > 0 /\ 2 \in Nat /\ 2 > 0
    BY WidthFacts
  <2>2. Good(BlocksThenPart(n, XMM)) /\ Good(BlocksThenPart(n, 2)) /\ Good(Tables16(n))
    BY <2>1, CutsBlocksThenPart, CutsTables
  <2>3. Cuts(BytesUp(0, n), 0, 0 + n, n)
    BY CutsBytes
  <2>4. Good(BytesUp(0, n))
    BY <2>3
  <2>5. QED
    BY <2>1, <2>2, <2>4, CutsThenBytes
<1>2. Good(linearmap_8x8_sse(n)) /\ Good(linearmap_8x8_accu_sse(n)) /\ Good(gf256v_add_sse(n))
  BY CutsSse
<1>3. /\ Good(linearmap_8x8_ymm(n)) /\ Good(linearmap_8x8_accu_ymm(n)) /\ Good(gf256v_add_avx2(n))
      /\ Good(HeadThenRegisters(n, YMM, Parts(0, n)))
  BY CutsAvx2
<1>4. /\ Good(gf256v_add_neon(n)) /\ Good(HeadThenRegisters(n, XMM, Parts(0, n)))
      /\ Good(gf256v_mul_scalar_neon(n)) /\ Good(gf256v_madd_neon(n))
  BY CutsNeon
<1>5. /\ Good(_gf256v_add_u64(n, aligned, half)) /\ Good(_gf256v_conditional_add_u64(n, aligned, half))
      /\ Good(BlocksThenPart(n, U32)) /\ Good(BlocksThenPart(n, U64))
  BY CutsWords
<1> HIDE DEF Good
<1>6. /\ Good(gf16v_generate_multabs_sse(n))
      /\ Good(gf256v_generate_multabs_sse(n))
      /\ Good(_gf16v_generate_multabs_avx2(n))
      /\ Good(gf256v_generate_multabs_avx2(n))
      /\ Good(gf16v_generate_multabs_gfni(n))
      /\ Good(gf16v_generate_multabs_neon(n))
      /\ Good(gf256v_generate_multabs_neon(n))
  BY <1>1 DEF gf16v_generate_multabs_sse, gf256v_generate_multabs_sse,
        _gf16v_generate_multabs_avx2, gf256v_generate_multabs_avx2,
        gf16v_generate_multabs_gfni, gf16v_generate_multabs_neon,
        gf256v_generate_multabs_neon
<1>7. /\ Good(gf16v_mul_scalar_sse(n))
      /\ Good(gf16v_madd_sse(n))
      /\ Good(gf16v_madd_multab_sse(n))
      /\ Good(gf256v_mul_scalar_sse(n))
      /\ Good(gf256v_madd_sse(n))
      /\ Good(gf256v_madd_multab_sse(n))
      /\ Good(gf256v_add_sse(n))
  BY <1>1, <1>2 DEF gf16v_mul_scalar_sse, gf16v_madd_sse, gf16v_madd_multab_sse, gf256v_mul_scalar_sse,
        gf256v_madd_sse, gf256v_madd_multab_sse
<1>8. /\ Good(gf16v_mul_scalar_avx2(n))
      /\ Good(gf16v_madd_avx2(n))
      /\ Good(gf16v_madd_multab_avx2(n))
      /\ Good(gf256v_mul_scalar_avx2(n))
      /\ Good(gf256v_madd_avx2(n))
      /\ Good(gf256v_madd_multab_avx2(n))
      /\ Good(gf256v_add_avx2(n))
  BY <1>3 DEF gf16v_mul_scalar_avx2, gf16v_madd_avx2, gf16v_madd_multab_avx2,
        gf256v_mul_scalar_avx2, gf256v_madd_avx2, gf256v_madd_multab_avx2
<1>9. /\ Good(gf16v_madd_multab_gfni(n))
      /\ Good(gf16v_madd_gfni(n))
      /\ Good(gf16v_mul_scalar_gfni(n))
      /\ Good(gf256v_mul_scalar_avx2_gfni(n))
      /\ Good(gf256v_madd_avx2_gfni(n))
  BY <1>3 DEF gf16v_madd_multab_gfni, gf16v_madd_gfni, gf16v_mul_scalar_gfni,
        gf256v_mul_scalar_avx2_gfni, gf256v_madd_avx2_gfni
<1>10. /\ Good(gf256v_add_neon(n))
      /\ Good(gf256v_set_zero_neon(n))
      /\ Good(gf256v_conditional_add_neon(n))
      /\ Good(gf16v_mul_scalar_neon(n))
      /\ Good(gf16v_madd_neon(n))
      /\ Good(gf16v_madd_multab_neon(n))
      /\ Good(gf256v_mul_scalar_neon(n))
      /\ Good(gf256v_madd_neon(n))
  BY <1>1, <1>4 DEF gf256v_set_zero_neon, gf256v_conditional_add_neon, gf16v_mul_scalar_neon,
        gf16v_madd_neon, gf16v_madd_multab_neon
<1>11. /\ Good(_gf256v_add_u64(n, aligned, half))
      /\ Good(_gf256v_conditional_add_u64(n, aligned, half))
      /\ Good(_gf16v_mul_scalar_u64(n, aligned))
      /\ Good(_gf256v_mul_scalar_u64(n, aligned))
      /\ Good(_gf16v_madd_u64(n, aligned))
      /\ Good(_gf256v_madd_u64(n, aligned))
  BY <1>5 DEF _gf16v_mul_scalar_u64, _gf16v_mul_scalar_u64_aligned, _gf256v_mul_scalar_u64,
        _gf256v_mul_scalar_u64_aligned, _gf16v_madd_u64, _gf16v_madd_u64_aligned,
        _gf256v_madd_u64, _gf256v_madd_u64_aligned
<1>12. /\ Good(_gf16v_mul_scalar_u32(n, half))
      /\ Good(_gf256v_mul_scalar_u32(n, half))
      /\ Good(_gf16v_madd_u32(n, half))
      /\ Good(_gf256v_madd_u32(n, half))
  BY <1>5 DEF _gf16v_mul_scalar_u32, _gf16v_mul_scalar_u32_aligned, _gf256v_mul_scalar_u32,
        _gf256v_mul_scalar_u32_aligned, _gf16v_madd_u32, _gf16v_madd_u32_aligned,
        _gf256v_madd_u32, _gf256v_madd_u32_aligned
<1>13. QED
  BY <1>6, <1>7, <1>8, <1>9, <1>10, <1>11, <1>12 DEF Functions, Good

-----------------------------------------------------------------------------
(* A call of a vector function.                                            *)

(* The moves not made yet take what was not combined yet, and nothing      *)
(* twice; they and the moves made read the source only.                    *)
VecRuns ==
  /\ len \in Nat
  /\ todo \in Seq(MoveType)
  /\ \A k \in 1 .. Len(todo) : /\ todo[k].src = todo[k].to /\ todo[k].src + todo[k].read <= len
                               /\ Taken(todo[k]) \subseteq 0 .. len-1
  /\ \A k, h \in 1 .. Len(todo) : Taken(todo[k]) \cap Taken(todo[h]) # {} => k = h
  /\ DOMAIN dst = 0 .. len + YMM - 1
  /\ \A i \in 0 .. len + YMM - 1 :
       dst[i] = IF i < len /\ \A k \in 1 .. Len(todo) : i \notin Taken(todo[k]) THEN <<i>> ELSE << >>
  /\ top \in Nat /\ top <= len

VecInv == IF vf = "none" THEN VecIdle ELSE VecRuns

LEMMA VecInitInv == VecInit => VecInv
<1> SUFFICES ASSUME VecInit PROVE VecInv
  OBVIOUS
<1>1. len \in Nat /\ top = 0 /\ dst = [i \in 0 .. len + YMM - 1 |-> << >>]
  BY VectorAssumption DEF VecInit
<1>2. PICK aligned \in BOOLEAN, half \in BOOLEAN :
        vf \in DOMAIN Functions(len, aligned, half) /\ todo = Functions(len, aligned, half)[vf]
  BY DEF VecInit
<1>3. Cuts(todo, 0, len, len)
  BY <1>1, <1>2, FunctionsCut
<1>4. vf # "none"
  BY <1>2 DEF Functions
<1>5. ASSUME NEW i \in 0 .. len + YMM - 1
      PROVE  dst[i] = IF i < len /\ \A k \in 1 .. Len(todo) : i \notin Taken(todo[k]) THEN <<i>> ELSE << >>
  <2>1. CASE i < len
    <3>1. i \in 0 .. len-1
      BY <1>1, <2>1
    <3>2. \E k \in 1 .. Len(todo) : i \in Taken(todo[k])
      BY <1>3, <3>1 DEF Cuts
    <3>3. QED
      BY <1>1, <3>2
  <2>2. CASE ~(i < len)
    BY <1>1, <2>2
  <2>3. QED
    BY <2>1, <2>2
<1>6. DOMAIN dst = 0 .. len + YMM - 1 /\ top \in Nat /\ top <= len
  BY <1>1
<1>7. VecRuns
  BY <1>1, <1>3, <1>5, <1>6 DEF VecRuns, Cuts
<1>8. QED
  BY <1>4, <1>7 DEF VecInv

LEMMA VecStepInv == VecInv /\ VecStep => VecInv'
<1> SUFFICES ASSUME VecInv, VecStep PROVE VecInv'
  OBVIOUS
<1> DEFINE m == Head(todo)
           rest == Tail(todo)
<1>1. VecRuns /\ vf # "none" /\ vf' = vf /\ len' = len /\ todo # << >> /\ todo' = rest
  BY DEF VecInv, VecStep
<1>2. /\ dst' = Combine(m, dst)
      /\ top' = IF m.src + m.read > top THEN m.src + m.read ELSE top
  BY DEF VecStep
<1>3. /\ rest \in Seq(MoveType) /\ m = todo[1] /\ 1 \in 1 .. Len(todo) /\ m \in MoveType
      /\ Len(rest) \in Nat /\ Len(todo) = Len(rest) + 1
      /\ \A k \in 1 .. Len(rest) : k+1 \in 1 .. Len(todo) /\ rest[k] = todo[k+1]
  <2>0. todo \in Seq(MoveType) /\ todo # << >>
    BY <1>1 DEF VecRuns
  <2>1. /\ rest \in Seq(MoveType) /\ Len(todo) \in Nat /\ Len(todo) >= 1 /\ Len(rest) = Len(todo) - 1
        /\ \A k \in 1 .. Len(rest) : rest[k] = todo[k+1]
    BY <2>0, HeadTailProperties, LenProperties, EmptySeq
  <2>2. m = todo[1] /\ m \in MoveType
    BY <2>0, HeadTailProperties
  <2> HIDE DEF m, rest
  <2>3. QED
    BY <2>1, <2>2
<1> HIDE DEF m, rest
<1>4. m.src = m.to /\ m.src + m.read <= len /\ Taken(m) \subseteq 0 .. len-1
  BY <1>1, <1>3 DEF VecRuns
<1>5. \A k \in 1 .. Len(rest) : /\ rest[k].src = rest[k].to /\ rest[k].src + rest[k].read <= len
                                /\ Taken(rest[k]) \subseteq 0 .. len-1
  BY <1>1, <1>3 DEF VecRuns
<1>6. \A k, h \in 1 .. Len(rest) : Taken(rest[k]) \cap Taken(rest[h]) # {} => k = h
  <2> TAKE k, h \in 1 .. Len(rest)
  <2>1. Taken(rest[k]) \cap Taken(rest[h]) # {} => k+1 = h+1
    BY <1>1, <1>3 DEF VecRuns
  <2>2. QED
    BY <2>1
<1>7. \A k \in 1 .. Len(rest) : Taken(m) \cap Taken(rest[k]) = {}
  <2> TAKE k \in 1 .. Len(rest)
  <2>1. Taken(m) \cap Taken(rest[k]) # {} => 1 = k+1
    BY <1>1, <1>3 DEF VecRuns
  <2>2. QED
    BY <2>1
<1>8. \A i : (\A k \in 1 .. Len(todo) : i \notin Taken(todo[k]))
               <=> i \notin Taken(m) /\ \A k \in 1 .. Len(rest) : i \notin Taken(rest[k])
  <2>1. \A k \in 1 .. Len(todo) : k = 1 \/ (k-1 \in 1 .. Len(rest) /\ rest[k-1] = todo[k])
    <3>1. \A k \in 1 .. Len(todo) : k = 1 \/ (k-1 \in 1 .. Len(rest) /\ (k-1)+1 = k)
      BY <1>3
    <3>2. QED
      BY <1>3, <3>1
  <2>2. QED
    BY <1>3, <2>1
<1>9. DOMAIN dst' = 0 .. len + YMM - 1 /\ DOMAIN dst = 0 .. len + YMM - 1
  BY <1>1, <1>2 DEF VecRuns, Combine
<1>10. \A i \in 0 .. len + YMM - 1 :
         dst'[i] = IF i \in Taken(m) THEN Append(dst[i], i) ELSE dst[i]
  <2> TAKE i \in 0 .. len + YMM - 1
  <2>1. dst'[i] = IF i \in Taken(m) THEN Append(dst[i], m.src + i - m.to) ELSE dst[i]
    BY <1>2, <1>9 DEF Combine, Taken
  <2>2. m.src + i - m.to = i
    <3>1. i \in Int /\ m.src \in Nat /\ m.src = m.to
      BY <1>3, <1>4, WidthFacts DEF MoveType
    <3>2. QED
      BY <3>1
  <2>3. QED
    BY <2>1, <2>2
<1>11. \A i \in 0 .. len + YMM - 1 :
         dst'[i] = IF i < len /\ \A k \in 1 .. Len(rest) : i \notin Taken(rest[k]) THEN <<i>> ELSE << >>
  <2> TAKE i \in 0 .. len + YMM - 1
  <2>1. CASE i \in Taken(m)
    <3>1. dst[i] = << >>
      BY <1>1, <1>8, <2>1 DEF VecRuns
    <3>2. dst'[i] = <<i>>
      <4>1. Append(<< >>, i) = <<i>>
        OBVIOUS
      <4>2. dst'[i] = Append(dst[i], i)
        BY <1>10, <2>1
      <4>3. QED
        BY <3>1, <4>1, <4>2
    <3>3. i < len
      <4>1. i \in 0 .. len-1 /\ len \in Nat
        BY <1>1, <1>4, <2>1 DEF VecRuns
      <4>2. QED
        BY <4>1
    <3>4. \A k \in 1 .. Len(rest) : i \notin Taken(rest[k])
      BY <1>7, <2>1
    <3>5. QED
      BY <3>2, <3>3, <3>4
  <2>2. CASE i \notin Taken(m)
    <3>1. dst'[i] = dst[i]
      BY <1>10, <2>2
    <3>2. dst[i] = IF i < len /\ \A k \in 1 .. Len(todo) : i \notin Taken(todo[k]) THEN <<i>> ELSE << >>
      BY <1>1 DEF VecRuns
    <3>3. QED
      BY <1>8, <2>2, <3>1, <3>2
  <2>3. QED
    BY <2>1, <2>2
<1>12. top' \in Nat /\ top' <= len
  <2>1. top \in Nat /\ top <= len /\ m.src \in Nat /\ m.read \in Nat
    BY <1>1, <1>3 DEF VecRuns, MoveType
  <2>2. QED
    BY <1>2, <1>4, <2>1
<1>13. VecRuns'
  <2>1. len \in Nat
    BY <1>1 DEF VecRuns
  <2>2. QED
    BY <1>1, <1>3, <1>5, <1>6, <1>9, <1>11, <1>12, <2>1 DEF VecRuns
<1>14. QED
  BY <1>1, <1>13 DEF VecInv

LEMMA VecInductive == Spec => []VecInv
<1>1. Init => VecInv
  <2>1. VecIdle => VecInv
    BY DEF VecInv, VecIdle
  <2>2. Init => VecInit \/ VecIdle
    BY DEF Init
  <2>3. QED
    BY <2>1, <2>2, VecInitInv
<1>2. VecInv /\ [Next]_vars => VecInv'
  <2> SUFFICES ASSUME VecInv, [Next]_vars PROVE VecInv'
    OBVIOUS
  <2>1. VecStep \/ UNCHANGED vec_vars
    BY DEF Next, vars
  <2>2. CASE UNCHANGED vec_vars
    BY <2>2 DEF VecInv, VecIdle, VecRuns, vec_vars
  <2>3. QED
    BY <2>1, <2>2, VecStepInv
<1>3. QED
  BY <1>1, <1>2, PTL DEF Spec

(* Every vector function of every backend, of any length and alignment and *)
(* with registers of any width, combines each byte of its source into the  *)
(* byte at the same place exactly once and changes nothing behind it.      *)
THEOREM VectorFunctionsRight == Spec => []VectorsRight
<1>1. VecInv => VectorsRight
  <2> SUFFICES ASSUME VecInv, todo = << >>, NEW i \in DOMAIN dst
               PROVE  dst[i] = IF i < len THEN <<i>> ELSE << >>
    BY DEF VectorsRight
  <2>1. CASE vf = "none"
    BY <2>1 DEF VecInv, VecIdle
  <2>2. CASE vf # "none"
    <3>1. VecRuns /\ Len(todo) = 0 /\ 1 .. 0 = {}
      BY <2>2 DEF VecInv
    <3>2. i \in 0 .. len + YMM - 1
      BY <3>1 DEF VecRuns
    <3>3. \A k \in 1 .. Len(todo) : i \notin Taken(todo[k])
      BY <3>1
    <3>4. QED
      BY <3>1, <3>2, <3>3 DEF VecRuns
  <2>3. QED
    BY <2>1, <2>2
<1>2. QED
  BY <1>1, VecInductive, PTL

(* And it reads no byte behind its source, whole registers included.       *)
THEOREM VectorFunctionsReadInside == Spec => []VectorReadsInBounds
<1>1. VecInv => VectorReadsInBounds
  BY DEF VecInv, VecIdle, VecRuns, VectorReadsInBounds
<1>2. QED
  BY <1>1, VecInductive, PTL

-----------------------------------------------------------------------------
(* Matrix products.                                                        *)

(* A set with 0 and, with each of its numbers, the next one.               *)
LEMMA NatSetInduction ==
  ASSUME NEW T, 0 \in T, \A n \in Nat : n \in T => n + 1 \in T
  PROVE  Nat \subseteq T
<1> DEFINE D == Nat \ T
           R == OpToRel(<, Nat)
<1> SUFFICES ASSUME D # {} PROVE FALSE
  OBVIOUS
<1>1. IsWellFoundedOn(R, Nat)
  BY NatLessThanWellFounded
<1>2. D \subseteq Nat
  OBVIOUS
<1>3. \A a \in Nat, b \in Nat : b < a => <<b, a>> \in R
  BY DEF OpToRel
<1> HIDE DEF D, R
<1>4. PICK a \in D : \A b \in D : ~(<<b, a>> \in R)
  BY <1>1, <1>2, WFMin
<1>5. \A b \in D : ~(b < a)
  BY <1>2, <1>3, <1>4
<1>6. a \in Nat /\ a # 0 /\ a \notin T
  BY <1>2 DEF D
<1>7. a - 1 \in Nat /\ a - 1 < a /\ (a - 1) + 1 = a
  BY <1>6
<1>8. a - 1 \in T
  BY <1>5, <1>7 DEF D
<1>9. QED
  BY <1>6, <1>8, <1>7

(* A set of numbers below a bound has a largest one.                       *)
LEMMA HasLargest ==
  ASSUME NEW S \in SUBSET Nat, NEW b \in Nat, \A s \in S : s <= b, S # {}
  PROVE  \E s \in S : \A t \in S : t <= s
<1> DEFINE R == OpToRel(<, Nat)
           D == {d \in Nat : b - d \in S}
<1>1. IsWellFoundedOn(R, Nat)
  BY NatLessThanWellFounded
<1>2. \A d \in Nat, f \in Nat : f < d => <<f, d>> \in R
  BY DEF OpToRel
<1>3. \A s \in S : b - s \in D
  <2> TAKE s \in S
  <2>1. s \in Nat /\ s <= b
    OBVIOUS
  <2>2. b - s \in Nat /\ b - (b - s) = s
    BY <2>1
  <2>3. QED
    BY <2>2
<1>4. D \subseteq Nat /\ D # {}
  BY <1>3
<1> HIDE DEF R
<1>5. PICK d \in D : \A f \in D : ~(<<f, d>> \in R)
  BY <1>1, <1>4, WFMin
<1>6. b - d \in S /\ d \in Nat
  OBVIOUS
<1>7. ASSUME NEW t \in S PROVE t <= b - d
  <2>1. b - t \in D /\ ~(<<b - t, d>> \in R)
    BY <1>3, <1>5
  <2>2. b - t \in Nat /\ ~(b - t < d)
    BY <1>2, <1>4, <1>6, <2>1
  <2>3. t \in Nat
    OBVIOUS
  <2>4. QED
    BY <1>6, <2>2, <2>3
<1>8. QED
  BY <1>6, <1>7

LEMMA SeqOfFunction ==
  ASSUME NEW T, NEW P \in Nat, NEW f \in [1 .. P -> T]
  PROVE  f \in Seq(T) /\ Len(f) = P
<1>1. f \in Seq(T)
  BY SeqDef
<1>2. Len(f) \in Nat /\ DOMAIN f = 1 .. Len(f) /\ DOMAIN f = 1 .. P
  BY <1>1, LenProperties
<1>3. QED
  BY <1>1, <1>2, LenOfDomain

(* FlattenSeq concatenates from the first sequence on.                     *)
IsFlatten(g, s, n) == g = [i \in 1 .. n |-> IF i = 1 THEN s[i] ELSE g[i-1] \o s[i]]

LEMMA FlattenExists ==
  ASSUME NEW s, NEW m \in Nat
  PROVE  \E g : IsFlatten(g, s, m)
<1> DEFINE N == {n \in Nat : \E g : IsFlatten(g, s, n)}
<1>1. 0 \in N
  <2> DEFINE g == [i \in 1 .. 0 |-> s]
  <2>1. g = [i \in 1 .. 0 |-> IF i = 1 THEN s[i] ELSE g[i-1] \o s[i]]
    OBVIOUS
  <2> HIDE DEF g
  <2>2. IsFlatten(g, s, 0)
    BY <2>1 DEF IsFlatten
  <2>3. QED
    BY <2>2
<1>2. ASSUME NEW n \in Nat, n \in N PROVE n + 1 \in N
  <2>1. PICK g : IsFlatten(g, s, n)
    BY <1>2
  <2>2. \A i \in 1 .. n : g[i] = IF i = 1 THEN s[i] ELSE g[i-1] \o s[i]
    BY <2>1 DEF IsFlatten
  <2> DEFINE h == [i \in 1 .. n+1 |-> IF i = 1 THEN s[i] ELSE g[i-1] \o s[i]]
  <2>3. \A i \in 1 .. n : h[i] = g[i]
    BY <2>2
  <2>4. \A i \in 1 .. n+1 : i # 1 => i - 1 \in 1 .. n
    OBVIOUS
  <2>5. \A i \in 1 .. n+1 : i # 1 => h[i-1] = g[i-1]
    <3> HIDE DEF h
    <3>1. QED
      BY <2>3, <2>4
  <2>6. h = [i \in 1 .. n+1 |-> IF i = 1 THEN s[i] ELSE h[i-1] \o s[i]]
    BY <2>5
  <2> HIDE DEF h
  <2>7. IsFlatten(h, s, n + 1)
    BY <2>6 DEF IsFlatten
  <2>8. QED
    BY <2>7
<1> HIDE DEF N
<1>3. Nat \subseteq N
  BY <1>1, <1>2, NatSetInduction
<1>4. QED
  BY <1>3 DEF N

LEMMA FlattenIs ==
  ASSUME NEW s, Len(s) \in Nat, Len(s) # 0
  PROVE  \E g : IsFlatten(g, s, Len(s)) /\ FlattenSeq(s) = g[Len(s)]
<1> DEFINE g == CHOOSE g : IsFlatten(g, s, Len(s))
<1>1. IsFlatten(g, s, Len(s))
  BY FlattenExists
<1>2. g = CHOOSE f : f = [i \in 1 .. Len(s) |-> IF i = 1 THEN s[i] ELSE f[i-1] \o s[i]]
  BY DEF IsFlatten
<1>3. FlattenSeq(s) = g[Len(s)]
  BY <1>2 DEF FlattenSeq
<1> HIDE DEF g
<1>4. QED
  BY <1>1, <1>3

-----------------------------------------------------------------------------
(* Kernel calls.                                                           *)

RegType == [off : Nat, load : Nat, last : Nat, store : Nat]
ColType == [first : Nat, n : Nat, base : Nat, valid : Nat]
CallType == [regs : Seq(RegType), cols : ColType, add : BOOLEAN]

Stored(r) == r.off .. r.off + r.store - 1
Hit(regs) == UNION {Stored(r) : r \in ToSet(regs)}
ColSet(cols) == cols.first .. LastColumn(cols)

(* A register loads what it stores, in every column, and in the last one   *)
(* not beyond its end; in the others not beyond the end of the next one.   *)
RegOK(r, L) ==
  /\ r \in RegType
  /\ r.off + r.store <= L /\ r.store <= r.load /\ r.store <= r.last
  /\ r.off + r.last <= L /\ r.off + r.load <= 2*L

(* Columns of the matrix, each multiplied by its own element, whose table  *)
(* has been computed.                                                      *)
ColsOK(cols, n) ==
  cols \in ColType /\ cols.base = cols.first /\ cols.first + cols.n <= n /\ cols.valid = cols.n

CallOK(k, L, n) ==
  k \in CallType /\ (\A r \in ToSet(k.regs) : RegOK(r, L)) /\ ColsOK(k.cols, n)

(* The calls s take each byte of B in each column of C once, and nothing   *)
(* else.                                                                   *)
Takes(s, B, C, add, L, n) ==
  /\ s \in Seq(CallType)
  /\ \A p \in 1 .. Len(s) : /\ CallOK(s[p], L, n) /\ s[p].add = add
                            /\ Hit(s[p].regs) \subseteq B /\ ColSet(s[p].cols) \subseteq C
  /\ \A p, q \in 1 .. Len(s) :
       p # q => \/ Hit(s[p].regs) \cap Hit(s[q].regs) = {}
                \/ ColSet(s[p].cols) \cap ColSet(s[q].cols) = {}
  /\ \A b \in B, k \in C : \E p \in 1 .. Len(s) : b \in Hit(s[p].regs) /\ k \in ColSet(s[p].cols)

LEMMA TakesBoth ==
  ASSUME NEW B, NEW B1, NEW B2, NEW C, NEW C1, NEW C2, NEW add, NEW L, NEW n,
         B1 \subseteq B, B2 \subseteq B, C1 \subseteq C, C2 \subseteq C,
         B1 \cap B2 = {} \/ C1 \cap C2 = {},
         \A b \in B, k \in C : (b \in B1 /\ k \in C1) \/ (b \in B2 /\ k \in C2),
         NEW s, NEW t, Takes(s, B1, C1, add, L, n), Takes(t, B2, C2, add, L, n)
  PROVE  Takes(s \o t, B, C, add, L, n)
<1> DEFINE r == s \o t
           M == Len(s)
           N == Len(t)
<1>1. /\ s \in Seq(CallType) /\ t \in Seq(CallType) /\ M \in Nat /\ N \in Nat
      /\ r \in Seq(CallType) /\ Len(r) = M + N
      /\ \A p \in 1 .. M + N : r[p] = IF p <= M THEN s[p] ELSE t[p - M]
  BY ConcatProperties, LenProperties DEF Takes
<1> HIDE DEF r, M, N
<1>2. \A p \in 1 .. M : p \in 1 .. M + N /\ r[p] = s[p]
  BY <1>1
<1>3. \A p \in 1 .. N : p + M \in 1 .. M + N /\ r[p + M] = t[p]
  BY <1>1
<1>4. ASSUME NEW p \in 1 .. M + N
      PROVE  \/ p \in 1 .. M /\ r[p] = s[p]
             \/ p - M \in 1 .. N /\ r[p] = t[p - M] /\ (p - M) + M = p
  BY <1>1
<1>5. \A p \in 1 .. M : /\ CallOK(s[p], L, n) /\ s[p].add = add
                        /\ Hit(s[p].regs) \subseteq B1 /\ ColSet(s[p].cols) \subseteq C1
  BY DEF Takes, M
<1>6. \A p \in 1 .. N : /\ CallOK(t[p], L, n) /\ t[p].add = add
                        /\ Hit(t[p].regs) \subseteq B2 /\ ColSet(t[p].cols) \subseteq C2
  BY DEF Takes, N
<1>7. ASSUME NEW p \in 1 .. M + N
      PROVE  /\ CallOK(r[p], L, n) /\ r[p].add = add
             /\ Hit(r[p].regs) \subseteq B /\ ColSet(r[p].cols) \subseteq C
  <2>1. CASE p \in 1 .. M /\ r[p] = s[p]
    BY <1>5, <2>1
  <2>2. CASE p - M \in 1 .. N /\ r[p] = t[p - M]
    BY <1>6, <2>2
  <2>3. QED
    BY <1>4, <2>1, <2>2
<1>8. ASSUME NEW p \in 1 .. M + N, NEW q \in 1 .. M + N, p # q
      PROVE  \/ Hit(r[p].regs) \cap Hit(r[q].regs) = {}
             \/ ColSet(r[p].cols) \cap ColSet(r[q].cols) = {}
  <2>1. CASE p \in 1 .. M /\ r[p] = s[p] /\ q \in 1 .. M /\ r[q] = s[q]
    BY <1>8, <2>1 DEF Takes, M
  <2>2. CASE p - M \in 1 .. N /\ r[p] = t[p - M] /\ q - M \in 1 .. N /\ r[q] = t[q - M]
    <3>1. p - M # q - M
      BY <1>1, <1>8
    <3>2. QED
      BY <2>2, <3>1 DEF Takes, N
  <2>3. CASE p \in 1 .. M /\ r[p] = s[p] /\ q - M \in 1 .. N /\ r[q] = t[q - M]
    BY <1>5, <1>6, <2>3
  <2>4. CASE p - M \in 1 .. N /\ r[p] = t[p - M] /\ q \in 1 .. M /\ r[q] = s[q]
    BY <1>5, <1>6, <2>4
  <2>5. QED
    BY <1>4, <2>1, <2>2, <2>3, <2>4
<1>9. ASSUME NEW b \in B, NEW k \in C
      PROVE  \E p \in 1 .. M + N : b \in Hit(r[p].regs) /\ k \in ColSet(r[p].cols)
  <2>1. CASE b \in B1 /\ k \in C1
    <3>1. PICK p \in 1 .. M : b \in Hit(s[p].regs) /\ k \in ColSet(s[p].cols)
      BY <2>1 DEF Takes, M
    <3>2. QED
      BY <1>2, <3>1
  <2>2. CASE b \in B2 /\ k \in C2
    <3>1. PICK p \in 1 .. N : b \in Hit(t[p].regs) /\ k \in ColSet(t[p].cols)
      BY <2>2 DEF Takes, N
    <3>2. QED
      BY <1>3, <3>1
  <2>3. QED
    BY <2>1, <2>2
<1>10. QED
  BY <1>1, <1>7, <1>8, <1>9 DEF Takes, r

(* Sequences of registers that take the bytes from a up to b of a column,  *)
(* each by one of the sequences.                                           *)
RowsCut(rows, a, b, L) ==
  /\ rows \in Seq(Seq(RegType))
  /\ \A j \in 1 .. Len(rows) : /\ \A r \in ToSet(rows[j]) : RegOK(r, L)
                               /\ Hit(rows[j]) \subseteq a .. b-1
  /\ \A j, h \in 1 .. Len(rows) : j # h => Hit(rows[j]) \cap Hit(rows[h]) = {}
  /\ \A i \in a .. b-1 : \E j \in 1 .. Len(rows) : i \in Hit(rows[j])

ColumnsCut(chunks, C, n) ==
  /\ chunks \in Seq(ColType) /\ Len(chunks) # 0
  /\ \A g \in 1 .. Len(chunks) : ColsOK(chunks[g], n) /\ ColSet(chunks[g]) \subseteq C
  /\ \A g, h \in 1 .. Len(chunks) : g # h => ColSet(chunks[g]) \cap ColSet(chunks[h]) = {}
  /\ \A k \in C : \E g \in 1 .. Len(chunks) : k \in ColSet(chunks[g])

LEMMA RowCalls ==
  ASSUME NEW rows, NEW a, NEW b, NEW L, NEW n, RowsCut(rows, a, b, L),
         NEW cols, ColsOK(cols, n), NEW add \in BOOLEAN
  PROVE  Takes([j \in DOMAIN rows |-> Call(rows[j], cols, add)], a .. b-1, ColSet(cols), add, L, n)
<1> DEFINE s == [j \in DOMAIN rows |-> Call(rows[j], cols, add)]
           N == Len(rows)
<1>1. N \in Nat /\ DOMAIN rows = 1 .. N /\ \A j \in 1 .. N : rows[j] \in Seq(RegType)
  BY LenProperties, ElementOfSeq DEF RowsCut
<1> HIDE DEF N
<1>2. \A j \in 1 .. N : s[j].regs = rows[j] /\ s[j].cols = cols /\ s[j].add = add /\ s[j] \in CallType
  BY <1>1 DEF Call, CallType, ColsOK
<1>3. s \in Seq(CallType) /\ Len(s) = N
  <2>1. s \in [1 .. N -> CallType]
    BY <1>1, <1>2
  <2>2. s \in Seq(CallType)
    BY <1>1, <2>1, SeqDef
  <2>3. Len(s) \in Nat /\ DOMAIN s = 1 .. Len(s) /\ DOMAIN s = 1 .. N
    BY <2>1, <2>2, LenProperties
  <2> HIDE DEF s
  <2>4. QED
    BY <1>1, <2>2, <2>3, LenOfDomain
<1> HIDE DEF s
<1>4. \A j \in 1 .. N : CallOK(s[j], L, n) /\ Hit(s[j].regs) \subseteq a .. b-1
  BY <1>2 DEF RowsCut, CallOK, N
<1>5. \A j, h \in 1 .. N : j # h => Hit(s[j].regs) \cap Hit(s[h].regs) = {}
  BY <1>2 DEF RowsCut, N
<1>6. \A i \in a .. b-1 : \E j \in 1 .. N : i \in Hit(s[j].regs)
  BY <1>2 DEF RowsCut, N
<1>7. QED
  BY <1>2, <1>3, <1>4, <1>5, <1>6 DEF Takes, s

LEMMA SweepTakes ==
  ASSUME NEW rows, NEW a, NEW b, NEW L, NEW n, RowsCut(rows, a, b, L),
         NEW chunks, NEW C, ColumnsCut(chunks, C, n), NEW add \in BOOLEAN
  PROVE  Takes(Sweep(rows, chunks, add), a .. b-1, C, add, L, n)
<1> DEFINE S == [i \in DOMAIN chunks |-> [j \in DOMAIN rows |-> Call(rows[j], chunks[i], add)]]
           N == Len(chunks)
           B == a .. b-1
           Upto(i) == UNION {ColSet(chunks[h]) : h \in 1 .. i}
<1>1. N \in Nat /\ N # 0 /\ DOMAIN chunks = 1 .. N
  BY LenProperties DEF ColumnsCut
<1>2. Len(S) = N
  <2>1. S \in Seq({S[i] : i \in 1 .. N})
    BY <1>1, SeqDef
  <2>2. Len(S) \in Nat /\ DOMAIN S = 1 .. Len(S) /\ DOMAIN S = 1 .. N
    BY <1>1, <2>1, LenProperties
  <2> HIDE DEF S
  <2>3. QED
    BY <1>1, <2>2, LenOfDomain
<1>3. \A i \in 1 .. N : Takes(S[i], B, ColSet(chunks[i]), add, L, n)
  <2> TAKE i \in 1 .. N
  <2>1. S[i] = [j \in DOMAIN rows |-> Call(rows[j], chunks[i], add)]
    BY <1>1
  <2>2. ColsOK(chunks[i], n)
    BY DEF ColumnsCut
  <2> HIDE DEF S
  <2>3. QED
    BY <2>1, <2>2, RowCalls
<1> HIDE DEF S
<1>4. PICK g : IsFlatten(g, S, N) /\ FlattenSeq(S) = g[N]
  BY <1>1, <1>2, FlattenIs
<1>5. \A i \in 1 .. N : g[i] = IF i = 1 THEN S[i] ELSE g[i-1] \o S[i]
  BY <1>4 DEF IsFlatten
<1> DEFINE T == {m \in Nat : m + 1 \in 1 .. N => Takes(g[m+1], B, Upto(m+1), add, L, n)}
<1>6. 0 \in T
  <2>1. 1 \in 1 .. N /\ 0 + 1 = 1 /\ 1 .. 1 = {1}
    BY <1>1
  <2>2. g[1] = S[1] /\ Upto(1) = ColSet(chunks[1])
    BY <1>5, <2>1
  <2>3. Takes(g[1], B, Upto(1), add, L, n)
    BY <1>3, <2>1, <2>2
  <2> HIDE DEF Upto
  <2>4. QED
    BY <2>1, <2>3
<1>7. ASSUME NEW m \in Nat, m \in T PROVE m + 1 \in T
  <2> SUFFICES ASSUME (m + 1) + 1 \in 1 .. N
               PROVE  Takes(g[(m+1)+1], B, Upto((m+1)+1), add, L, n)
    OBVIOUS
  <2> DEFINE u == m + 1
             w == u + 1
  <2>1. u \in 1 .. N /\ w \in 1 .. N /\ w # 1 /\ w - 1 = u /\ 1 .. w = 1 .. u \cup {w} /\ w \notin 1 .. u
        /\ 1 .. u \subseteq 1 .. N
    BY <1>1
  <2>2. Takes(g[u], B, Upto(u), add, L, n)
    BY <1>7, <2>1
  <2> HIDE DEF u, w
  <2>3. g[w] = g[u] \o S[w]
    BY <1>5, <2>1
  <2>4. Takes(S[w], B, ColSet(chunks[w]), add, L, n)
    BY <1>3, <2>1
  <2>5. Upto(w) = Upto(u) \cup ColSet(chunks[w])
    BY <2>1
  <2>6. Upto(u) \cap ColSet(chunks[w]) = {}
    <3>1. \A h \in 1 .. u : ColSet(chunks[h]) \cap ColSet(chunks[w]) = {}
      <4>1. \A h \in 1 .. u : h \in 1 .. N /\ h # w
        BY <2>1
      <4>2. QED
        BY <2>1, <4>1 DEF ColumnsCut, N
    <3>2. QED
      BY <3>1
  <2> HIDE DEF Upto, B
  <2>7. Takes(g[u] \o S[w], B, Upto(w), add, L, n)
    <3> DEFINE C1 == Upto(u)
               C2 == ColSet(chunks[w])
               D == Upto(w)
    <3>1. C1 \subseteq D /\ C2 \subseteq D /\ B \subseteq B /\ C1 \cap C2 = {}
      BY <2>5, <2>6
    <3>2. \A i \in B, k \in D : (i \in B /\ k \in C1) \/ (i \in B /\ k \in C2)
      BY <2>5
    <3>3. Takes(g[u], B, C1, add, L, n) /\ Takes(S[w], B, C2, add, L, n)
      BY <2>2, <2>4
    <3> HIDE DEF C1, C2, D
    <3>4. Takes(g[u] \o S[w], B, D, add, L, n)
      BY <3>1, <3>2, <3>3, TakesBoth
    <3>5. QED
      BY <3>4 DEF D
  <2>8. QED
    BY <2>3, <2>7 DEF u, w
<1> HIDE DEF T
<1>8. Nat \subseteq T
  BY <1>6, <1>7, NatSetInduction
<1>9. Takes(g[N], B, Upto(N), add, L, n)
  <2>1. N - 1 \in Nat /\ (N - 1) + 1 = N /\ N \in 1 .. N
    BY <1>1
  <2>2. N - 1 \in T
    BY <1>8, <2>1
  <2> HIDE DEF Upto, N
  <2>3. QED
    BY <2>1, <2>2 DEF T
<1>10. Upto(N) = C
  BY DEF ColumnsCut
<1>11. QED
  BY <1>4, <1>9, <1>10 DEF Sweep, S

-----------------------------------------------------------------------------
(* Registers and rows.                                                     *)

(* The registers take the bytes from a up to b, some of them twice.        *)
RegsCut(regs, a, b, L) ==
  /\ regs \in Seq(RegType)
  /\ \A r \in ToSet(regs) : RegOK(r, L)
  /\ Hit(regs) = a .. b-1

LEMMA ToSetIs ==
  ASSUME NEW S, NEW s \in Seq(S)
  PROVE  ToSet(s) = {s[i] : i \in 1 .. Len(s)}
<1>1. DOMAIN s = 1 .. Len(s)
  BY LenProperties
<1>2. QED
  BY <1>1 DEF ToSet

LEMMA ToSetOne == ASSUME NEW r PROVE ToSet(<<r>>) = {r}
<1> DEFINE s == <<r>>
<1>1. s \in Seq({r}) /\ Len(s) = 1 /\ s[1] = r
  OBVIOUS
<1>2. 1 .. 1 = {1}
  OBVIOUS
<1> HIDE DEF s
<1>3. ToSet(s) = {r}
  BY <1>1, <1>2, ToSetIs
<1>4. QED
  BY <1>3 DEF s

LEMMA ToSetBoth ==
  ASSUME NEW S, NEW s \in Seq(S), NEW t \in Seq(S)
  PROVE  ToSet(s \o t) = ToSet(s) \cup ToSet(t)
<1> DEFINE r == s \o t
           M == Len(s)
           N == Len(t)
<1>1. /\ M \in Nat /\ N \in Nat /\ r \in Seq(S) /\ Len(r) = M + N
      /\ \A p \in 1 .. M + N : r[p] = IF p <= M THEN s[p] ELSE t[p - M]
  BY ConcatProperties, LenProperties
<1>2. ToSet(s) = {s[i] : i \in 1 .. M} /\ ToSet(t) = {t[i] : i \in 1 .. N}
  BY ToSetIs
<1> HIDE DEF r, M, N
<1>3. ToSet(r) = {r[i] : i \in 1 .. M + N}
  BY <1>1, ToSetIs
<1>4. \A p \in 1 .. M : p \in 1 .. M + N /\ r[p] = s[p]
  BY <1>1
<1>5. \A p \in 1 .. N : p + M \in 1 .. M + N /\ r[p + M] = t[p]
  BY <1>1
<1>6. \A p \in 1 .. M + N : (p \in 1 .. M /\ r[p] = s[p]) \/ (p - M \in 1 .. N /\ r[p] = t[p - M])
  BY <1>1
<1>7. ToSet(r) = ToSet(s) \cup ToSet(t)
  BY <1>2, <1>3, <1>4, <1>5, <1>6
<1>8. QED
  BY <1>7 DEF r

LEMMA RegsNone ==
  ASSUME NEW a \in Nat, NEW L
  PROVE  RegsCut(<< >>, a, a, L)
<1>1. << >> \in Seq(RegType) /\ ToSet(<< >>) = {}
  BY EmptySeq DEF ToSet
<1>2. a .. a-1 = {}
  OBVIOUS
<1>3. QED
  BY <1>1, <1>2 DEF RegsCut, Hit

LEMMA RegsOne ==
  ASSUME NEW r, NEW L, RegOK(r, L)
  PROVE  RegsCut(<<r>>, r.off, r.off + r.store, L)
<1>1. r \in RegType
  BY DEF RegOK
<1>2. <<r>> \in Seq(RegType)
  BY <1>1
<1>3. ToSet(<<r>>) = {r}
  BY ToSetOne
<1>4. Hit(<<r>>) = Stored(r)
  BY <1>3 DEF Hit
<1>5. r.off \in Nat /\ r.store \in Nat
  BY <1>1 DEF RegType
<1> DEFINE s == <<r>>
           b == r.off + r.store
<1>6. s \in Seq(RegType) /\ Hit(s) = r.off .. b-1
  BY <1>2, <1>4, <1>5 DEF Stored
<1>7. \A x \in ToSet(s) : RegOK(x, L)
  BY <1>3
<1> HIDE DEF s, b
<1>8. RegsCut(s, r.off, b, L)
  BY <1>6, <1>7 DEF RegsCut
<1>9. QED
  BY <1>8 DEF s, b

LEMMA RegsBoth ==
  ASSUME NEW a \in Nat, NEW b \in Nat, NEW f \in Nat, NEW d \in Nat, NEW L,
         a <= f, f <= b, b <= d, NEW s, NEW t, RegsCut(s, a, b, L), RegsCut(t, f, d, L)
  PROVE  RegsCut(s \o t, a, d, L)
<1>1. s \in Seq(RegType) /\ t \in Seq(RegType)
  BY DEF RegsCut
<1>2. s \o t \in Seq(RegType) /\ ToSet(s \o t) = ToSet(s) \cup ToSet(t)
  BY <1>1, ConcatProperties, ToSetBoth
<1>3. Hit(s \o t) = Hit(s) \cup Hit(t)
  BY <1>2 DEF Hit
<1>4. a .. d-1 = (a .. b-1) \cup (f .. d-1)
  OBVIOUS
<1>5. QED
  BY <1>2, <1>3, <1>4 DEF RegsCut

LEMMA RegOKs ==
  ASSUME NEW o \in Nat, NEW w \in Nat, NEW L \in Nat, o + w <= L
  PROVE  RegOK(Reg(o, w), L) /\ Reg(o, w).off = o /\ Reg(o, w).store = w
BY DEF RegOK, Reg, RegType

LEMMA RegsWhole ==
  ASSUME NEW o \in Nat, NEW q \in Nat, NEW w \in Nat, w > 0, NEW L \in Nat, o + w*q <= L
  PROVE  RegsCut(Regs(o, q, w), o, o + w*q, L)
<1> DEFINE s == Regs(o, q, w)
           at(k) == o + (k-1)*w
<1>1. ASSUME NEW k \in 1 .. q
      PROVE  at(k) \in Nat /\ o <= at(k) /\ at(k) + w <= o + w*q
  <2>1. k-1 \in Nat /\ (k-1)*w \in Nat
    BY SMT
  <2>2. q - k \in Nat /\ w*(q - k) \in Nat
    BY SMT
  <2>3. w*q = (k-1)*w + w + w*(q - k)
    OBVIOUS
  <2>4. QED
    BY <2>1, <2>2, <2>3
<1>2. ASSUME NEW k \in 1 .. q
      PROVE  RegOK(s[k], L) /\ s[k].off = at(k) /\ s[k].store = w /\ s[k] \in RegType
  <2> DEFINE a == at(k)
  <2>1. a \in Nat /\ a + w <= L
    <3>1. w*q \in Nat
      OBVIOUS
    <3>2. QED
      BY <1>1, <3>1
  <2>2. s[k] = Reg(a, w)
    BY DEF Regs
  <2> HIDE DEF a, s
  <2>3. RegOK(Reg(a, w), L) /\ Reg(a, w).off = a /\ Reg(a, w).store = w
    BY <2>1, RegOKs
  <2>4. Reg(a, w) \in RegType
    BY <2>3 DEF RegOK
  <2>5. QED
    BY <2>2, <2>3, <2>4 DEF a
<1>3. s \in Seq(RegType) /\ Len(s) = q
  <2>1. s \in [1 .. q -> RegType]
    BY <1>2 DEF Regs
  <2>2. s \in Seq(RegType)
    BY <2>1, SeqDef
  <2>3. Len(s) \in Nat /\ DOMAIN s = 1 .. Len(s) /\ DOMAIN s = 1 .. q
    BY <2>1, <2>2, LenProperties
  <2> HIDE DEF s
  <2>4. QED
    BY <2>2, <2>3, LenOfDomain
<1> HIDE DEF s
<1>4. ToSet(s) = {s[k] : k \in 1 .. q}
  BY <1>3, ToSetIs
<1>5. ASSUME NEW i \in o .. (o + w*q) - 1 PROVE \E k \in 1 .. q : i \in Stored(s[k])
  <2> DEFINE j == (i - o) \div w
             r == (i - o) % w
  <2>0. w*q \in Nat
    OBVIOUS
  <2>1. i - o \in Nat /\ i - o < w*q
    BY <2>0
  <2>2. j \in Nat /\ r \in 0 .. w-1 /\ i - o = w*j + r
    BY <2>1, DivMod
  <2> HIDE DEF j, r
  <2>3. j < q
    <3>1. ASSUME j >= q PROVE FALSE
      <4>1. j - q \in Nat /\ w*j = w*q + w*(j - q)
        BY <2>2, <3>1
      <4>2. w*(j - q) \in Nat
        BY <4>1
      <4>3. QED
        BY <2>0, <2>1, <2>2, <4>1, <4>2
    <3>2. QED
      BY <2>2, <3>1
  <2>4. j + 1 \in 1 .. q /\ ((j+1)-1)*w = w*j
    BY <2>2, <2>3
  <2>5. w*j \in Nat
    BY <2>2
  <2>6. i \in at(j+1) .. (at(j+1) + w) - 1
    BY <2>1, <2>2, <2>4, <2>5
  <2>7. Stored(s[j+1]) = at(j+1) .. (at(j+1) + w) - 1
    BY <1>2, <2>4 DEF Stored
  <2>8. QED
    BY <2>4, <2>6, <2>7
<1>6. ASSUME NEW k \in 1 .. q PROVE Stored(s[k]) \subseteq o .. (o + w*q) - 1
  <2> DEFINE a == at(k)
             b == o + w*q
  <2>1. a \in Nat /\ o <= a /\ a + w <= b /\ b \in Nat
    BY <1>1
  <2>2. Stored(s[k]) = a .. (a + w) - 1
    BY <1>2 DEF Stored
  <2> HIDE DEF a, b
  <2>3. Stored(s[k]) \subseteq o .. b - 1
    BY <2>1, <2>2
  <2>4. QED
    BY <2>3 DEF b
<1>7. Hit(s) = o .. (o + w*q) - 1
  BY <1>4, <1>5, <1>6 DEF Hit
<1>8. QED
  BY <1>2, <1>3, <1>4, <1>7 DEF RegsCut, s

LEMMA RowsNone ==
  ASSUME NEW a \in Nat, NEW L
  PROVE  RowsCut(<< >>, a, a, L)
<1>1. << >> \in Seq(Seq(RegType)) /\ Len(<< >>) = 0
  BY EmptySeq
<1>2. 1 .. 0 = {} /\ a .. a-1 = {}
  OBVIOUS
<1>3. QED
  BY <1>1, <1>2 DEF RowsCut

LEMMA RowsOne ==
  ASSUME NEW regs, NEW a, NEW b, NEW L, RegsCut(regs, a, b, L)
  PROVE  RowsCut(<<regs>>, a, b, L)
<1> DEFINE s == <<regs>>
<1>1. regs \in Seq(RegType)
  BY DEF RegsCut
<1>2. s \in Seq(Seq(RegType)) /\ Len(s) = 1 /\ s[1] = regs
  BY <1>1
<1>3. 1 .. 1 = {1}
  OBVIOUS
<1> HIDE DEF s
<1>4. \A j \in 1 .. Len(s) : j = 1 /\ s[j] = regs
  BY <1>2, <1>3
<1>5. (\A r \in ToSet(regs) : RegOK(r, L)) /\ Hit(regs) = a .. b-1
  BY DEF RegsCut
<1>6. \A j \in 1 .. Len(s) : (\A r \in ToSet(s[j]) : RegOK(r, L)) /\ Hit(s[j]) \subseteq a .. b-1
  BY <1>4, <1>5
<1>7. \A j, h \in 1 .. Len(s) : j # h => Hit(s[j]) \cap Hit(s[h]) = {}
  BY <1>4
<1>8. \A i \in a .. b-1 : \E j \in 1 .. Len(s) : i \in Hit(s[j])
  BY <1>2, <1>3, <1>5
<1>9. RowsCut(s, a, b, L)
  BY <1>2, <1>6, <1>7, <1>8 DEF RowsCut
<1>10. QED
  BY <1>9 DEF s

LEMMA RowsBoth ==
  ASSUME NEW a \in Nat, NEW b \in Nat, NEW d \in Nat, NEW L, a <= b, b <= d,
         NEW s, NEW t, RowsCut(s, a, b, L), RowsCut(t, b, d, L)
  PROVE  RowsCut(s \o t, a, d, L)
<1> DEFINE r == s \o t
           M == Len(s)
           N == Len(t)
<1>1. /\ s \in Seq(Seq(RegType)) /\ t \in Seq(Seq(RegType)) /\ M \in Nat /\ N \in Nat
      /\ r \in Seq(Seq(RegType)) /\ Len(r) = M + N
      /\ \A p \in 1 .. M + N : r[p] = IF p <= M THEN s[p] ELSE t[p - M]
  BY ConcatProperties, LenProperties DEF RowsCut
<1> HIDE DEF r, M, N
<1>0. \A p \in 1 .. M : p \in 1 .. M + N /\ p <= M
  BY <1>1
<1>2. \A p \in 1 .. M : p \in 1 .. M + N /\ r[p] = s[p]
  BY <1>0, <1>1
<1>3. \A p \in 1 .. N : p + M \in 1 .. M + N /\ r[p + M] = t[p]
  BY <1>1
<1>4. ASSUME NEW p \in 1 .. M + N
      PROVE  \/ p \in 1 .. M /\ r[p] = s[p]
             \/ p - M \in 1 .. N /\ r[p] = t[p - M] /\ (p - M) + M = p
  BY <1>1
<1>5. \A p \in 1 .. M : (\A x \in ToSet(s[p]) : RegOK(x, L)) /\ Hit(s[p]) \subseteq a .. b-1
  BY DEF RowsCut, M
<1>6. \A p \in 1 .. N : (\A x \in ToSet(t[p]) : RegOK(x, L)) /\ Hit(t[p]) \subseteq b .. d-1
  BY DEF RowsCut, N
<1>7. a .. d-1 = (a .. b-1) \cup (b .. d-1) /\ (a .. b-1) \cap (b .. d-1) = {}
  OBVIOUS
<1>8. ASSUME NEW p \in 1 .. M + N
      PROVE  (\A x \in ToSet(r[p]) : RegOK(x, L)) /\ Hit(r[p]) \subseteq a .. d-1
  <2>1. CASE p \in 1 .. M /\ r[p] = s[p]
    BY <1>5, <1>7, <2>1
  <2>2. CASE p - M \in 1 .. N /\ r[p] = t[p - M]
    BY <1>6, <1>7, <2>2
  <2>3. QED
    BY <1>4, <2>1, <2>2
<1>9. ASSUME NEW p \in 1 .. M + N, NEW q \in 1 .. M + N, p # q
      PROVE  Hit(r[p]) \cap Hit(r[q]) = {}
  <2>1. CASE p \in 1 .. M /\ r[p] = s[p] /\ q \in 1 .. M /\ r[q] = s[q]
    BY <1>9, <2>1 DEF RowsCut, M
  <2>2. CASE p - M \in 1 .. N /\ r[p] = t[p - M] /\ q - M \in 1 .. N /\ r[q] = t[q - M]
    <3>1. p - M # q - M
      BY <1>1, <1>9
    <3>2. QED
      BY <2>2, <3>1 DEF RowsCut, N
  <2>3. CASE p \in 1 .. M /\ r[p] = s[p] /\ q - M \in 1 .. N /\ r[q] = t[q - M]
    BY <1>5, <1>6, <1>7, <2>3
  <2>4. CASE p - M \in 1 .. N /\ r[p] = t[p - M] /\ q \in 1 .. M /\ r[q] = s[q]
    BY <1>5, <1>6, <1>7, <2>4
  <2>5. QED
    BY <1>4, <2>1, <2>2, <2>3, <2>4
<1>10. ASSUME NEW i \in a .. d-1 PROVE \E p \in 1 .. M + N : i \in Hit(r[p])
  <2>1. CASE i \in a .. b-1
    <3>1. PICK p \in 1 .. M : i \in Hit(s[p])
      BY <2>1 DEF RowsCut, M
    <3>2. QED
      BY <1>2, <3>1
  <2>2. CASE i \in b .. d-1
    <3>1. PICK p \in 1 .. N : i \in Hit(t[p])
      BY <2>2 DEF RowsCut, N
    <3>2. QED
      BY <1>3, <3>1
  <2>3. QED
    BY <1>7, <2>1, <2>2
<1>11. QED
  BY <1>1, <1>8, <1>9, <1>10 DEF RowsCut, r

-----------------------------------------------------------------------------
(* Pieces of at most m of n.                                               *)

PlaceAt(k, m) == (k-1)*m
Size(k, n, m) == Smaller(m, n - PlaceAt(k, m))

LEMMA PiecesCover ==
  ASSUME NEW n \in Nat, NEW m \in Nat, m > 0
  PROVE  /\ Pieces(n, m) \in Nat
         /\ \A k \in 1 .. Pieces(n, m) : /\ PlaceAt(k, m) \in Nat /\ PlaceAt(k, m) < n
                                         /\ Size(k, n, m) \in 1 .. m /\ PlaceAt(k, m) + Size(k, n, m) <= n
         /\ \A k, h \in 1 .. Pieces(n, m) : k < h => PlaceAt(k, m) + Size(k, n, m) <= PlaceAt(h, m)
         /\ \A i \in 0 .. n-1 : \E k \in 1 .. Pieces(n, m) : i \in PlaceAt(k, m) .. (PlaceAt(k, m) + Size(k, n, m)) - 1
<1> DEFINE P == Pieces(n, m)
           r == (n + m - 1) % m
<1>1. P \in Nat /\ r \in 0 .. m-1 /\ (n + m) - 1 = m*P + r
  <2>1. (n + m) - 1 \in Nat
    OBVIOUS
  <2>2. QED
    BY <2>1, DivMod DEF Pieces
<1> HIDE DEF P, r
<1>2. m*P \in Nat
  BY <1>1
<1>3. m*P <= (n + m) - 1 /\ n <= m*P
  BY <1>1, <1>2
<1>4. ASSUME NEW k \in 1 .. P
      PROVE  PlaceAt(k, m) \in Nat /\ PlaceAt(k, m) < n /\ Size(k, n, m) \in 1 .. m /\ PlaceAt(k, m) + Size(k, n, m) <= n
  <2>1. k-1 \in Nat /\ PlaceAt(k, m) \in Nat
    BY <1>1, SMT DEF PlaceAt
  <2>2. PlaceAt(k, m) + m <= m*P
    <3>1. P - k \in Nat /\ m*(P - k) \in Nat
      BY <1>1, SMT
    <3>2. m*P = PlaceAt(k, m) + m + m*(P - k)
      BY <1>1 DEF PlaceAt
    <3>3. QED
      BY <1>2, <2>1, <3>1, <3>2
  <2>3. PlaceAt(k, m) < n
    BY <1>2, <1>3, <2>1, <2>2
  <2>4. QED
    BY <2>1, <2>3 DEF Size, Smaller
<1>5. ASSUME NEW k \in 1 .. P, NEW h \in 1 .. P, k < h
      PROVE  PlaceAt(k, m) + Size(k, n, m) <= PlaceAt(h, m)
  <2>1. (h - k) - 1 \in Nat /\ m*((h - k) - 1) \in Nat
    BY <1>1, <1>5, SMT
  <2>2. PlaceAt(h, m) = PlaceAt(k, m) + m + m*((h - k) - 1)
    BY <1>1 DEF PlaceAt
  <2>3. PlaceAt(k, m) \in Nat /\ Size(k, n, m) \in 1 .. m
    BY <1>4
  <2>4. QED
    BY <2>1, <2>2, <2>3
<1>6. ASSUME NEW i \in 0 .. n-1
      PROVE  \E k \in 1 .. P : i \in PlaceAt(k, m) .. (PlaceAt(k, m) + Size(k, n, m)) - 1
  <2> DEFINE j == i \div m
             t == i % m
             k == j + 1
  <2>1. j \in Nat /\ t \in 0 .. m-1 /\ i = m*j + t
    BY DivMod
  <2> HIDE DEF j, t
  <2>2. m*j \in Nat
    BY <2>1
  <2>3. m*j < m*P
    BY <1>2, <1>3, <2>1, <2>2
  <2>4. j < P
    <3>1. ASSUME j >= P PROVE FALSE
      <4>1. j - P \in Nat /\ m*(j - P) \in Nat
        BY <1>1, <2>1, <3>1, SMT
      <4>2. m*j = m*P + m*(j - P)
        BY <1>1, <2>1
      <4>3. QED
        BY <1>2, <2>2, <2>3, <4>1, <4>2
    <3>2. QED
      BY <1>1, <2>1, <3>1
  <2>5. k \in 1 .. P /\ PlaceAt(k, m) = m*j
    BY <1>1, <2>1, <2>4 DEF PlaceAt
  <2>6. Size(k, n, m) = IF m < n - m*j THEN m ELSE n - m*j
    BY <2>5 DEF Size, Smaller
  <2> HIDE DEF k
  <2>7. i \in PlaceAt(k, m) .. (PlaceAt(k, m) + Size(k, n, m)) - 1
    BY <2>1, <2>2, <2>5, <2>6
  <2>8. QED
    BY <2>5, <2>7
<1>7. QED
  BY <1>1, <1>4, <1>5, <1>6 DEF P

(* One piece, when n is not more than m.                                   *)
LEMMA PieceOne ==
  ASSUME NEW n \in Nat, NEW m \in Nat, n > 0, n <= m
  PROVE  Pieces(n, m) = 1
<1>1. (n + m) - 1 = m*1 + (n - 1) /\ n - 1 \in 0 .. m-1
  OBVIOUS
<1>2. (m*1 + (n - 1)) \div m = 1
  BY <1>1, DivUnique
<1>3. QED
  BY <1>1, <1>2 DEF Pieces

LEMMA RowsOfPieces ==
  ASSUME NEW o \in Nat, NEW n \in Nat, NEW m \in Nat, m > 0, NEW L, NEW rows,
         rows = [k \in 1 .. Pieces(n, m) |-> rows[k]],
         \A k \in 1 .. Pieces(n, m) :
           RegsCut(rows[k], o + PlaceAt(k, m), o + PlaceAt(k, m) + Size(k, n, m), L)
  PROVE  RowsCut(rows, o, o + n, L)
<1> DEFINE P == Pieces(n, m)
           a(k) == o + PlaceAt(k, m)
           b(k) == o + PlaceAt(k, m) + Size(k, n, m)
           d == o + n
<1>1. /\ P \in Nat
      /\ \A k \in 1 .. P : a(k) \in Nat /\ b(k) \in Nat /\ o <= a(k) /\ b(k) <= d
      /\ \A k, h \in 1 .. P : k < h => b(k) <= a(h)
  <2>1. /\ P \in Nat
        /\ \A k \in 1 .. P : /\ PlaceAt(k, m) \in Nat
                             /\ Size(k, n, m) \in 1 .. m /\ PlaceAt(k, m) + Size(k, n, m) <= n
        /\ \A k, h \in 1 .. P : k < h => PlaceAt(k, m) + Size(k, n, m) <= PlaceAt(h, m)
    BY PiecesCover
  <2>2. ASSUME NEW k \in 1 .. P
        PROVE  a(k) \in Nat /\ b(k) \in Nat /\ o <= a(k) /\ b(k) <= d
    BY <2>1
  <2>3. ASSUME NEW k \in 1 .. P, NEW h \in 1 .. P, k < h PROVE b(k) <= a(h)
    BY <2>1, <2>3
  <2>4. QED
    BY <2>1, <2>2, <2>3
<1>2. d \in Nat
  OBVIOUS
<1>3. \A i \in o .. d-1 : \E k \in 1 .. P : i \in a(k) .. b(k)-1
  <2> TAKE i \in o .. d-1
  <2>1. i - o \in 0 .. n-1
    OBVIOUS
  <2>2. PICK k \in 1 .. P : i - o \in PlaceAt(k, m) .. (PlaceAt(k, m) + Size(k, n, m)) - 1
    BY <2>1, PiecesCover
  <2>3. PlaceAt(k, m) \in Nat /\ Size(k, n, m) \in 1 .. m
    BY PiecesCover
  <2>4. i \in a(k) .. b(k)-1
    BY <2>2, <2>3
  <2>5. QED
    BY <2>4
<1>4. \A k \in 1 .. P : RegsCut(rows[k], a(k), b(k), L)
  OBVIOUS
<1>5. rows = [k \in 1 .. P |-> rows[k]]
  OBVIOUS
<1> HIDE DEF P, a, b, d
<1>6. \A k \in 1 .. P : /\ rows[k] \in Seq(RegType) /\ Hit(rows[k]) = a(k) .. b(k)-1
                        /\ \A r \in ToSet(rows[k]) : RegOK(r, L)
  BY <1>4 DEF RegsCut
<1>7. rows \in Seq(Seq(RegType)) /\ Len(rows) = P
  <2>1. rows \in [1 .. P -> Seq(RegType)]
    BY <1>5, <1>6
  <2>2. QED
    BY <1>1, <2>1, SeqOfFunction
<1>8. \A k \in 1 .. P : Hit(rows[k]) \subseteq o .. d-1
  <2> TAKE k \in 1 .. P
  <2>1. a(k) \in Nat /\ b(k) \in Nat /\ o <= a(k) /\ b(k) <= d
    BY <1>1
  <2>2. a(k) .. b(k)-1 \subseteq o .. d-1
    BY <1>2, <2>1
  <2>3. QED
    BY <1>6, <2>2
<1>9. \A k, h \in 1 .. P : k < h => Hit(rows[k]) \cap Hit(rows[h]) = {}
  <2> SUFFICES ASSUME NEW k \in 1 .. P, NEW h \in 1 .. P, k < h
               PROVE  Hit(rows[k]) \cap Hit(rows[h]) = {}
    OBVIOUS
  <2>1. a(k) \in Nat /\ b(k) \in Nat /\ a(h) \in Nat /\ b(h) \in Nat /\ b(k) <= a(h)
    BY <1>1
  <2>2. (a(k) .. b(k)-1) \cap (a(h) .. b(h)-1) = {}
    BY <2>1
  <2>3. QED
    BY <1>6, <2>2
<1>10. \A k, h \in 1 .. P : k # h => Hit(rows[k]) \cap Hit(rows[h]) = {}
  <2>1. \A k, h \in 1 .. P : k # h => k < h \/ h < k
    BY <1>1
  <2>2. QED
    BY <1>9, <2>1
<1>11. \A i \in o .. d-1 : \E k \in 1 .. P : i \in Hit(rows[k])
  BY <1>3, <1>6
<1>12. RowsCut(rows, o, d, L)
  BY <1>6, <1>7, <1>8, <1>10, <1>11 DEF RowsCut
<1>13. QED
  BY <1>12 DEF d

-----------------------------------------------------------------------------
(* Columns.                                                                *)

LEMMA ColumnsAre ==
  ASSUME NEW f \in Nat, NEW m \in Nat, NEW n \in Nat, f + m <= n
  PROVE  /\ ColsOK(Columns(f, m, f, m), n)
         /\ ColSet(Columns(f, m, f, m)) = f .. (f + m) - 1
BY DEF ColsOK, Columns, ColType, ColSet, LastColumn

LEMMA AtOnceCuts ==
  ASSUME NEW n \in Nat, n > 0
  PROVE  ColumnsCut(AtOnce(n), 0 .. n-1, n)
<1> DEFINE s == AtOnce(n)
           q == Columns(0, n, 0, n)
<1>0. 0 + n <= n
  OBVIOUS
<1>1. ColsOK(q, n) /\ ColSet(q) = 0 .. (0 + n) - 1
  BY <1>0, ColumnsAre
<1>2. ColSet(q) = 0 .. n-1
  BY <1>1
<1>3. q \in ColType
  BY <1>1 DEF ColsOK
<1>4. s = <<q>>
  BY DEF AtOnce
<1> HIDE DEF s, q
<1>5. s \in Seq(ColType) /\ Len(s) = 1 /\ s[1] = q
  BY <1>3, <1>4
<1>6. \A j \in 1 .. Len(s) : j = 1 /\ s[j] = q
  BY <1>5
<1>7. 1 \in 1 .. Len(s) /\ Len(s) # 0
  BY <1>5
<1>8. \A g \in 1 .. Len(s) : ColsOK(s[g], n) /\ ColSet(s[g]) \subseteq 0 .. n-1
  BY <1>1, <1>2, <1>6
<1>9. \A g, h \in 1 .. Len(s) : g # h => ColSet(s[g]) \cap ColSet(s[h]) = {}
  BY <1>6
<1>10. \A k \in 0 .. n-1 : \E g \in 1 .. Len(s) : k \in ColSet(s[g])
  BY <1>2, <1>5, <1>7
<1>11. ColumnsCut(s, 0 .. n-1, n)
  BY <1>5, <1>7, <1>8, <1>9, <1>10 DEF ColumnsCut
<1>12. QED
  BY <1>11 DEF s

LEMMA ChunksCut ==
  ASSUME NEW n \in Nat, n > 0, NEW m \in Nat, m > 0
  PROVE  ColumnsCut(Chunks(n, m), 0 .. n-1, n)
<1> DEFINE P == Pieces(n, m)
           a(k) == PlaceAt(k, m)
           b(k) == PlaceAt(k, m) + Size(k, n, m)
           s == Chunks(n, m)
<1>1. /\ P \in Nat
      /\ \A k \in 1 .. P : a(k) \in Nat /\ b(k) \in Nat /\ b(k) <= n
      /\ \A k, h \in 1 .. P : k < h => b(k) <= a(h)
      /\ \A i \in 0 .. n-1 : \E k \in 1 .. P : i \in a(k) .. b(k)-1
  <2>1. /\ P \in Nat
        /\ \A k \in 1 .. P : /\ PlaceAt(k, m) \in Nat /\ Size(k, n, m) \in 1 .. m
                             /\ PlaceAt(k, m) + Size(k, n, m) <= n
        /\ \A k, h \in 1 .. P : k < h => PlaceAt(k, m) + Size(k, n, m) <= PlaceAt(h, m)
        /\ \A i \in 0 .. n-1 : \E k \in 1 .. P : i \in PlaceAt(k, m) .. (PlaceAt(k, m) + Size(k, n, m)) - 1
    BY PiecesCover
  <2>2. \A k \in 1 .. P : b(k) \in Nat
    BY <2>1
  <2>3. QED
    BY <2>1, <2>2
<1>2. s = [k \in 1 .. P |-> Columns(a(k), Size(k, n, m), a(k), Size(k, n, m))]
  BY DEF Chunks, PlaceAt, Size
<1>3. ASSUME NEW k \in 1 .. P
      PROVE  ColsOK(s[k], n) /\ ColSet(s[k]) = a(k) .. b(k)-1
  <2> DEFINE f == a(k)
             z == Size(k, n, m)
  <2>1. f \in Nat /\ z \in Nat /\ f + z <= n /\ b(k) = f + z
    <3>1. z \in 1 .. m /\ f + z <= n
      BY PiecesCover
    <3>2. QED
      BY <1>1, <3>1
  <2>2. s[k] = Columns(f, z, f, z)
    BY <1>2
  <2> HIDE DEF f, z, s, b
  <2>3. QED
    BY <2>1, <2>2, ColumnsAre DEF f
<1> HIDE DEF P, a, b, s
<1>4. \A k \in 1 .. P : s[k] \in ColType
  BY <1>3 DEF ColsOK
<1>5. s \in Seq(ColType) /\ Len(s) = P
  <2>1. s \in [1 .. P -> ColType]
    BY <1>2, <1>4
  <2>2. s \in Seq(ColType)
    BY <1>1, <2>1, SeqDef
  <2>3. Len(s) \in Nat /\ DOMAIN s = 1 .. Len(s) /\ DOMAIN s = 1 .. P
    BY <2>1, <2>2, LenProperties
  <2>4. QED
    BY <1>1, <2>2, <2>3, LenOfDomain
<1>6. P # 0
  BY <1>1
<1>7. \A k \in 1 .. P : ColSet(s[k]) \subseteq 0 .. n-1
  <2> TAKE k \in 1 .. P
  <2>1. a(k) \in Nat /\ b(k) \in Nat /\ b(k) <= n
    BY <1>1
  <2>2. a(k) .. b(k)-1 \subseteq 0 .. n-1
    BY <2>1
  <2>3. QED
    BY <1>3, <2>2
<1>8. \A k, h \in 1 .. P : k < h => ColSet(s[k]) \cap ColSet(s[h]) = {}
  <2> SUFFICES ASSUME NEW k \in 1 .. P, NEW h \in 1 .. P, k < h
               PROVE  ColSet(s[k]) \cap ColSet(s[h]) = {}
    OBVIOUS
  <2>1. a(k) \in Nat /\ b(k) \in Nat /\ a(h) \in Nat /\ b(h) \in Nat /\ b(k) <= a(h)
    BY <1>1
  <2>2. (a(k) .. b(k)-1) \cap (a(h) .. b(h)-1) = {}
    BY <2>1
  <2>3. QED
    BY <1>3, <2>2
<1>9. \A k, h \in 1 .. P : k # h => ColSet(s[k]) \cap ColSet(s[h]) = {}
  <2>1. \A k, h \in 1 .. P : k # h => k < h \/ h < k
    BY <1>1
  <2>2. QED
    BY <1>8, <2>1
<1>10. \A i \in 0 .. n-1 : \E k \in 1 .. P : i \in ColSet(s[k])
  BY <1>1, <1>3
<1>11. ColumnsCut(s, 0 .. n-1, n)
  BY <1>3, <1>5, <1>6, <1>7, <1>9, <1>10 DEF ColumnsCut
<1>12. QED
  BY <1>11 DEF s

(* With no more than NV columns, the first chunk takes them all.           *)
LEMMA LeftoverCuts ==
  ASSUME NEW n \in Nat, n > 0, n <= NV, NV \in Nat
  PROVE  ColumnsCut(Leftover(n), 0 .. n-1, n)
<1>1. Pieces(n, NV) = 1
  BY PieceOne
<1>2. ASSUME NEW k \in 1 .. 1
      PROVE  LET left == n - (k-1)*NV IN
             Columns((k-1)*NV, left, (k-1)*NV, Smaller(NV, left)) = Columns(0, n, 0, n)
  <2>1. k = 1 /\ (k-1)*NV = 0 /\ n - (k-1)*NV = n
    <3>1. k = 1
      OBVIOUS
    <3>2. (k-1)*NV = 0
      BY <3>1
    <3>3. QED
      BY <3>1, <3>2
  <2>2. Smaller(NV, n) = n
    BY DEF Smaller
  <2>3. QED
    BY <2>1, <2>2
<1>3. Leftover(n) = [k \in 1 .. 1 |-> Columns(0, n, 0, n)]
  BY <1>1, <1>2 DEF Leftover
<1>4. [k \in 1 .. 1 |-> Columns(0, n, 0, n)] = <<Columns(0, n, 0, n)>>
  <2> DEFINE q == Columns(0, n, 0, n)
  <2> HIDE DEF q
  <2>1. [k \in 1 .. 1 |-> q] = <<q>>
    OBVIOUS
  <2>2. QED
    BY <2>1 DEF q
<1>5. Leftover(n) = AtOnce(n)
  BY <1>3, <1>4 DEF AtOnce
<1>6. QED
  BY <1>5, AtOnceCuts

-----------------------------------------------------------------------------
(* The rows of the products.                                               *)

LEMMA FullBlocksCut ==
  ASSUME NEW o \in Nat, NEW e \in Nat, NEW f \in Nat, f > 0, NEW w \in Nat, w > 0,
         NEW L \in Nat, o + w*e <= L
  PROVE  RowsCut(FullBlocks(o, w*e, f*w, w), o, o + w*e, L)
<1> DEFINE n == w*e
           m == f*w
           rows == FullBlocks(o, n, m, w)
<1>1. n \in Nat /\ m \in Nat /\ m > 0
  <2>1. m = w*f /\ w*f \in Nat
    OBVIOUS
  <2>2. w*f >= w
    <3>1. f - 1 \in Nat /\ w*f = w + w*(f - 1)
      OBVIOUS
    <3>2. w*(f - 1) \in Nat
      BY <3>1
    <3>3. QED
      BY <3>1, <3>2
  <2> HIDE DEF m
  <2>3. QED
    BY <2>1, <2>2
<1>2. rows = [k \in 1 .. Pieces(n, m) |-> Regs(o + PlaceAt(k, m), Size(k, n, m) \div w, w)]
  BY DEF FullBlocks, Blocks, PlaceAt, Size
<1>3. ASSUME NEW k \in 1 .. Pieces(n, m)
      PROVE  RegsCut(rows[k], o + PlaceAt(k, m), o + PlaceAt(k, m) + Size(k, n, m), L)
  <2> DEFINE a == PlaceAt(k, m)
             z == Size(k, n, m)
  <2>1. a \in Nat /\ z \in 1 .. m /\ a + z <= n /\ k \in Nat
    <3> HIDE DEF n, m
    <3>1. QED
      BY <1>1, PiecesCover
  <2>2. \E q \in Nat : z = w*q
    <3> DEFINE g == (k-1)*f
    <3>1. g \in Nat
      BY <2>1, SMT
    <3>2. a = w*g
      BY <2>1 DEF PlaceAt
    <3>3. z = m \/ z = n - a
      BY DEF Size, Smaller
    <3>4. CASE z = m
      BY <3>4
    <3>5. CASE z = n - a
      <4> HIDE DEF g
      <4>1. z = w*(e - g)
        BY <3>1, <3>2, <3>5
      <4>2. e - g >= 0
        <5>1. ASSUME e - g < 0 PROVE FALSE
          <6>1. (g - e) - 1 \in Nat /\ w*((g - e) - 1) \in Nat
            BY <3>1, <5>1
          <6>2. w*(e - g) = 0 - (w + w*((g - e) - 1))
            BY <3>1
          <6> HIDE DEF z
          <6>3. QED
            BY <2>1, <4>1, <6>1, <6>2
        <5>2. QED
          BY <3>1, <5>1
      <4>3. e - g \in Nat
        BY <3>1, <4>2
      <4>4. QED
        BY <4>1, <4>3
    <3>6. QED
      BY <3>3, <3>4, <3>5
  <2>3. PICK q \in Nat : z = w*q
    BY <2>2
  <2>4. z \div w = q
    <3>1. 0 \in 0 .. w-1 /\ w*q = w*q + 0
      OBVIOUS
    <3>2. (w*q + 0) \div w = q
      BY <3>1, DivUnique
    <3> HIDE DEF z
    <3>3. QED
      BY <2>3, <3>1, <3>2
  <2>5. rows[k] = Regs(o + a, q, w)
    BY <1>2, <2>4
  <2> HIDE DEF a, z, rows, m
  <2> DEFINE p == o + a
  <2>6. p \in Nat /\ p + w*q <= L
    BY <1>1, <2>1, <2>3
  <2> HIDE DEF p
  <2>7. RegsCut(Regs(p, q, w), p, p + w*q, L)
    BY <2>6, RegsWhole
  <2>8. QED
    BY <2>3, <2>5, <2>7 DEF p, a, z
<1>4. rows = [k \in 1 .. Pieces(n, m) |-> rows[k]]
  BY <1>2
<1> HIDE DEF n, m, rows
<1>5. RowsCut(rows, o, o + n, L)
  BY <1>1, <1>3, <1>4, RowsOfPieces
<1>6. QED
  BY <1>5 DEF n, m, rows

(* Whole registers, and one for the rest.                                  *)
LEMMA RegsThenRest ==
  ASSUME NEW p \in Nat, NEW z \in Nat, NEW w \in Nat, w > 0, NEW L \in Nat, p + z <= L, NEW x,
         z % w # 0 => RegOK(x, L) /\ x.off = p + z - (z % w) /\ x.store = z % w
  PROVE  RegsCut(Regs(p, z \div w, w) \o (IF z % w = 0 THEN << >> ELSE <<x>>), p, p + z, L)
<1> DEFINE q == z \div w
           r == z % w
           b == p + w*q
           s == Regs(p, q, w)
           t == IF r = 0 THEN << >> ELSE <<x>>
           d == p + z
<1>1. q \in Nat /\ r \in 0 .. w-1 /\ z = w*q + r
  BY DivMod
<1>2. r # 0 => RegOK(x, L) /\ x.off = d - r /\ x.store = r
  OBVIOUS
<1> HIDE DEF q, r, t
<1>3. w*q \in Nat
  BY <1>1
<1>4. b \in Nat /\ p <= b /\ b <= L /\ d = b + r /\ d \in Nat /\ b <= d
  BY <1>1, <1>3
<1>5. RegsCut(s, p, b, L)
  BY <1>1, <1>4, RegsWhole
<1> HIDE DEF b, d, s
<1>6. RegsCut(t, b, d, L)
  <2>1. CASE r = 0
    <3>1. t = << >> /\ d = b
      BY <1>4, <2>1 DEF t
    <3>2. QED
      BY <1>4, <3>1, RegsNone
  <2>2. CASE r # 0
    <3>1. x.off = b /\ x.off + x.store = d
      BY <1>1, <1>2, <1>4, <2>2
    <3>2. RegsCut(<<x>>, x.off, x.off + x.store, L)
      BY <1>2, <2>2, RegsOne
    <3>3. t = <<x>>
      BY <2>2 DEF t
    <3>4. QED
      BY <3>1, <3>2, <3>3
  <2>3. QED
    BY <2>1, <2>2
<1>7. b <= b
  BY <1>4
<1>8. RegsCut(s \o t, p, d, L)
  BY <1>4, <1>5, <1>6, <1>7, RegsBoth
<1>9. QED
  BY <1>8 DEF s, t, q, r, d

LEMMA SseRowsCut ==
  ASSUME NEW L \in Nat, XMM \in Nat, XMM > 0, BlockRegs \in Nat, BlockRegs > 0
  PROVE  RowsCut(SseRows(L), 0, L, L)
<1> DEFINE m == BlockRegs*XMM
           P == Pieces(L, m)
           rows == SseRows(L)
<1>1. m \in Nat /\ m > 0
  BY SMT
<1>2. rows = [k \in 1 .. P |->
                LET a == PlaceAt(k, m)  z == Size(k, L, m) IN
                Regs(0 + a, z \div XMM, XMM)
                  \o (IF z % XMM = 0 THEN << >> ELSE <<Reg((0 + a) + z - (z % XMM), z % XMM)>>)]
  BY DEF SseRows, Blocks, PlaceAt, Size
<1>3. ASSUME NEW k \in 1 .. P
      PROVE  RegsCut(rows[k], 0 + PlaceAt(k, m), 0 + PlaceAt(k, m) + Size(k, L, m), L)
  <2> DEFINE a == PlaceAt(k, m)
             z == Size(k, L, m)
             p == 0 + a
             y == Reg(p + z - (z % XMM), z % XMM)
  <2>1. a \in Nat /\ z \in 1 .. m /\ a + z <= L
    <3> HIDE DEF m
    <3>1. QED
      BY <1>1, PiecesCover
  <2>2. rows[k] = Regs(p, z \div XMM, XMM) \o (IF z % XMM = 0 THEN << >> ELSE <<y>>)
    BY <1>2
  <2>3. p \in Nat /\ z \in Nat /\ p + z <= L
    BY <1>1, <2>1
  <2> HIDE DEF a, z, p, rows, m
  <2>4. z % XMM # 0 => RegOK(y, L) /\ y.off = p + z - (z % XMM) /\ y.store = z % XMM
    <3> DEFINE r == z % XMM
               f == p + z - r
    <3>1. r \in 0 .. XMM-1 /\ r <= z
      <4>1. z \div XMM \in Nat /\ r \in 0 .. XMM-1 /\ z = XMM*(z \div XMM) + r
        BY <2>3, DivMod
      <4>2. XMM*(z \div XMM) \in Nat
        BY <4>1
      <4> HIDE DEF r
      <4>3. QED
        BY <4>1, <4>2
    <3> HIDE DEF r
    <3>2. f \in Nat /\ f + r <= L /\ r \in Nat
      BY <2>3, <3>1
    <3> HIDE DEF f
    <3>3. RegOK(Reg(f, r), L) /\ Reg(f, r).off = f /\ Reg(f, r).store = r
      BY <3>2, RegOKs
    <3>4. QED
      BY <3>3 DEF f, r
  <2> HIDE DEF y
  <2>5. RegsCut(rows[k], p, p + z, L)
    BY <2>2, <2>3, <2>4, RegsThenRest
  <2>6. QED
    BY <2>5 DEF p, a, z
<1>4. rows = [k \in 1 .. P |-> rows[k]]
  BY <1>2
<1> HIDE DEF m, rows
<1>5. RowsCut(rows, 0, 0 + L, L)
  BY <1>1, <1>3, <1>4, RowsOfPieces
<1>6. QED
  BY <1>5 DEF rows

(* The last register of a block loads beyond the end of its column, and    *)
(* not beyond the end of the next one.                                     *)
LEMMA RaggedOK ==
  ASSUME NEW o \in Nat, NEW w \in Nat, NEW r \in Nat, NEW L \in Nat,
         r <= w, o + r <= L, o + w <= 2*L
  PROVE  /\ RegOK(Ragged(o, w, r), L)
         /\ Ragged(o, w, r).off = o /\ Ragged(o, w, r).store = r
BY DEF RegOK, Ragged, RegType

LEMMA RaggedRowsCut ==
  ASSUME NEW L \in Nat, XMM \in Nat, XMM > 0, NEW g \in Nat, g > 0, 2*L >= XMM
  PROVE  RowsCut(RaggedRows(L, g), 0, L, L)
<1> DEFINE m == g*XMM
           P == Pieces(L, m)
           rows == RaggedRows(L, g)
<1>1. m \in Nat /\ m > 0
  BY SMT
<1>2. rows = [k \in 1 .. P |->
                LET a == PlaceAt(k, m)  z == Size(k, L, m) IN
                Regs(0 + a, z \div XMM, XMM)
                  \o (IF z % XMM = 0 THEN << >> ELSE <<Ragged((0 + a) + z - (z % XMM), XMM, z % XMM)>>)]
  BY DEF RaggedRows, Blocks, PlaceAt, Size
<1>3. ASSUME NEW k \in 1 .. P
      PROVE  RegsCut(rows[k], 0 + PlaceAt(k, m), 0 + PlaceAt(k, m) + Size(k, L, m), L)
  <2> DEFINE a == PlaceAt(k, m)
             z == Size(k, L, m)
             p == 0 + a
             y == Ragged(p + z - (z % XMM), XMM, z % XMM)
  <2>1. a \in Nat /\ z \in 1 .. m /\ a + z <= L /\ k \in Nat /\ k >= 1
    <3> HIDE DEF m
    <3>1. QED
      BY <1>1, PiecesCover
  <2>2. rows[k] = Regs(p, z \div XMM, XMM) \o (IF z % XMM = 0 THEN << >> ELSE <<y>>)
    BY <1>2
  <2>3. p \in Nat /\ z \in Nat /\ p + z <= L /\ p = a
    BY <1>1, <2>1
  <2>4. \E h \in Nat : p = XMM*h
    <3>1. (k-1)*g \in Nat
      BY <2>1, SMT
    <3>2. p = XMM*((k-1)*g)
      BY <2>1, <2>3 DEF PlaceAt
    <3>3. QED
      BY <3>1, <3>2
  <2> HIDE DEF a, z, p, rows, m
  <2>5. z % XMM # 0 => RegOK(y, L) /\ y.off = p + z - (z % XMM) /\ y.store = z % XMM
    <3> DEFINE r == z % XMM
               q == z \div XMM
               f == p + z - r
    <3>1. r \in 0 .. XMM-1 /\ q \in Nat /\ z = XMM*q + r
      BY <2>3, DivMod
    <3> HIDE DEF r, q
    <3>2. XMM*q \in Nat
      BY <3>1
    <3>3. f \in Nat /\ f + r <= L /\ r \in Nat /\ r <= XMM
      BY <2>3, <3>1, <3>2
    <3>4. f = 0 \/ f >= XMM
      <4>1. PICK h \in Nat : p = XMM*h
        BY <2>4
      <4>2. f = XMM*(h + q)
        BY <2>3, <3>1, <4>1
      <4>3. CASE h + q = 0
        BY <4>2, <4>3
      <4>4. CASE h + q # 0
        <5>1. h + q - 1 \in Nat /\ XMM*(h + q) = XMM + XMM*(h + q - 1)
          BY <3>1, <4>4
        <5>2. XMM*(h + q - 1) \in Nat
          BY <5>1
        <5> HIDE DEF f
        <5>3. QED
          BY <4>2, <5>1, <5>2
      <4>5. QED
        BY <4>3, <4>4
    <3> HIDE DEF f
    <3>5. f + XMM <= 2*L
      BY <3>3, <3>4
    <3>6. RegOK(Ragged(f, XMM, r), L) /\ Ragged(f, XMM, r).off = f /\ Ragged(f, XMM, r).store = r
      BY <3>3, <3>5, RaggedOK
    <3>7. QED
      BY <3>6 DEF f, r
  <2> HIDE DEF y
  <2>6. RegsCut(rows[k], p, p + z, L)
    BY <2>2, <2>3, <2>5, RegsThenRest
  <2>7. QED
    BY <2>6 DEF p, a, z
<1>4. rows = [k \in 1 .. P |-> rows[k]]
  BY <1>2
<1> HIDE DEF m, rows
<1>5. RowsCut(rows, 0, 0 + L, L)
  BY <1>1, <1>3, <1>4, RowsOfPieces
<1>6. QED
  BY <1>5 DEF rows

LEMMA SmallRowsCut ==
  ASSUME NEW L \in Nat, L >= XMM, XMM \in Nat, XMM > 0, YMM = 2*XMM
  PROVE  RowsCut(SmallRows(L), 0, L, L)
<1> DEFINE full == (L - 1) \div YMM
           t == (L - 1) % YMM
           o == full*YMM
           x == Ragged(o, YMM, L - o)
           s == Regs(0, full, YMM)
<1>1. YMM \in Nat /\ YMM > 0 /\ L - 1 \in Nat
  OBVIOUS
<1>2. full \in Nat /\ t \in 0 .. YMM-1 /\ L - 1 = YMM*full + t
  BY <1>1, DivMod
<1>3. SmallRows(L) = <<s \o <<x>> >>
  BY DEF SmallRows
<1> HIDE DEF full, t
<1>4. o \in Nat /\ o = YMM*full /\ L = o + t + 1
  <2>1. YMM*full \in Nat /\ full*YMM = YMM*full
    BY <1>1, <1>2
  <2>2. L = YMM*full + t + 1
    BY <1>1, <1>2, <2>1
  <2>3. QED
    BY <2>1, <2>2
<1>5. o = 0 \/ o >= YMM
  <2>1. CASE full = 0
    BY <1>1, <1>4, <2>1
  <2>2. CASE full # 0
    <3>1. full - 1 \in Nat /\ YMM*full = YMM + YMM*(full - 1)
      BY <1>1, <1>2, <2>2
    <3>2. YMM*(full - 1) \in Nat
      BY <1>1, <3>1
    <3>3. QED
      BY <1>1, <1>4, <3>1, <3>2
  <2>3. QED
    BY <2>1, <2>2
<1>6. RegsCut(s, 0, 0 + YMM*full, L)
  <2>1. 0 + YMM*full <= L
    BY <1>1, <1>2, <1>4
  <2> HIDE DEF s, o
  <2>2. QED
    BY <1>1, <1>2, <2>1, RegsWhole DEF s
<1> HIDE DEF o
<1> DEFINE r == L - o
<1>7. r \in Nat /\ r <= YMM /\ o + r <= L /\ o + YMM <= 2*L /\ o <= L
  BY <1>1, <1>2, <1>4, <1>5
<1>8. RegOK(Ragged(o, YMM, r), L) /\ Ragged(o, YMM, r).off = o /\ Ragged(o, YMM, r).store = r
  <2>1. o \in Nat
    BY <1>4
  <2> HIDE DEF r
  <2>2. QED
    BY <1>1, <1>7, <2>1 DEF RegOK, Ragged, RegType
<1>9. x.off = o /\ x.off + x.store = L /\ RegOK(x, L)
  <2>1. o + r = L
    BY <1>4
  <2>2. x = Ragged(o, YMM, r)
    OBVIOUS
  <2> HIDE DEF x, r
  <2>3. QED
    BY <1>8, <2>1, <2>2
<1> HIDE DEF x, s, r
<1>10. RegsCut(<<x>>, x.off, x.off + x.store, L)
  BY <1>9, RegsOne
<1>11. RegsCut(<<x>>, o, L, L) /\ RegsCut(s, 0, o, L)
  <2>1. 0 + YMM*full = o
    BY <1>4
  <2>2. QED
    BY <1>6, <1>9, <1>10, <2>1
<1>12. RegsCut(s \o <<x>>, 0, L, L)
  <2>1. 0 <= o /\ o <= o
    BY <1>4
  <2>2. QED
    BY <1>4, <1>7, <1>11, <2>1, RegsBoth
<1>13. QED
  BY <1>3, <1>12, RowsOne

(* Rows whose length is a multiple of a register, behind a head.           *)
LEMMA HeadThenBlocks ==
  ASSUME NEW L \in Nat, NEW a \in Nat, a <= L, NEW f \in Nat, f > 0, NEW w \in Nat, w > 0,
         NEW e \in Nat, L - a = w*e, NEW head, RowsCut(head, 0, a, L)
  PROVE  RowsCut(head \o FullBlocks(a, L - a, f*w, w), 0, L, L)
<1>1. a + w*e = L /\ a + w*e <= L /\ 0 <= a
  OBVIOUS
<1> DEFINE t == FullBlocks(a, L - a, f*w, w)
<1>2. RowsCut(FullBlocks(a, w*e, f*w, w), a, a + w*e, L)
  BY <1>1, FullBlocksCut
<1>3. t = FullBlocks(a, w*e, f*w, w)
  OBVIOUS
<1> HIDE DEF t
<1>4. RowsCut(t, a, L, L)
  BY <1>1, <1>2, <1>3
<1>5. RowsCut(head \o t, 0, L, L)
  BY <1>1, <1>4, RowsBoth
<1>6. QED
  BY <1>5 DEF t

LEMMA MaddRowsCut ==
  ASSUME NEW L \in Nat, YMM \in Nat, YMM > 0, BlockRegs \in Nat, BlockRegs > 0
  PROVE  RowsCut(MaddRows(L), 0, L, L)
<1> DEFINE rem == L % YMM
           e == L \div YMM
           head == IF rem = 0 THEN << >> ELSE << <<Reg(0, rem)>> >>
<1>1. rem \in 0 .. YMM-1 /\ e \in Nat /\ L = YMM*e + rem
  BY DivMod
<1>2. MaddRows(L) = head \o FullBlocks(rem, L - rem, BlockRegs*YMM, YMM)
  BY DEF MaddRows
<1> HIDE DEF rem, e, head
<1>3. YMM*e \in Nat
  BY <1>1
<1>4. rem \in Nat /\ rem <= L /\ L - rem = YMM*e /\ 0 + rem <= L /\ 0 + rem = rem
  BY <1>1, <1>3
<1>5. RowsCut(head, 0, rem, L)
  <2>1. CASE rem = 0
    <3>1. head = << >>
      BY <2>1 DEF head
    <3>2. QED
      BY <2>1, <3>1, RowsNone
  <2>2. CASE rem # 0
    <3> DEFINE x == Reg(0, rem)
    <3>1. head = << <<x>> >>
      BY <2>2 DEF head
    <3>2. RegOK(x, L) /\ x.off = 0 /\ x.store = rem
      BY <1>4, RegOKs
    <3> HIDE DEF x
    <3>3. RegsCut(<<x>>, x.off, x.off + x.store, L)
      BY <3>2, RegsOne
    <3>4. RegsCut(<<x>>, 0, rem, L)
      BY <1>4, <3>2, <3>3
    <3>5. QED
      BY <3>1, <3>4, RowsOne
  <2>3. QED
    BY <2>1, <2>2
<1>6. RowsCut(head \o FullBlocks(rem, L - rem, BlockRegs*YMM, YMM), 0, L, L)
  BY <1>1, <1>4, <1>5, HeadThenBlocks
<1>7. QED
  BY <1>2, <1>6

(* A first register that overlaps the block behind the remainder.          *)
OverlapRows(L, w, f, F) ==
  LET rem == L % w
      m == IF rem = 0 THEN 0 ELSE Smaller(f*w, L - rem)
  IN  (IF rem = 0 THEN << >> ELSE << <<Reg(0, w)>> \o Regs(rem, m \div w, w) >>)
        \o FullBlocks(rem + m, L - rem - m, F*w, w)

LEMMA OverlapRowsCut ==
  ASSUME NEW L \in Nat, NEW w \in Nat, w > 0, L >= w, NEW f \in Nat, f > 0, NEW F \in Nat, F > 0
  PROVE  RowsCut(OverlapRows(L, w, f, F), 0, L, L)
<1> DEFINE rem == L % w
           e == L \div w
           m == IF rem = 0 THEN 0 ELSE Smaller(f*w, L - rem)
           head == IF rem = 0 THEN << >> ELSE << <<Reg(0, w)>> \o Regs(rem, m \div w, w) >>
           a == rem + m
<1>1. rem \in 0 .. w-1 /\ e \in Nat /\ L = w*e + rem
  BY DivMod
<1>2. OverlapRows(L, w, f, F) = head \o FullBlocks(rem + m, L - rem - m, F*w, w)
  BY DEF OverlapRows
<1>3. m = IF rem = 0 THEN 0 ELSE Smaller(f*w, L - rem)
  OBVIOUS
<1>4. head = IF rem = 0 THEN << >> ELSE << <<Reg(0, w)>> \o Regs(rem, m \div w, w) >>
  OBVIOUS
<1> HIDE DEF rem, e, m, head
<1>5. w*e \in Nat /\ L - rem = w*e /\ rem \in Nat
  BY <1>1
<1>6. \E h \in Nat : m = w*h /\ h <= e /\ (rem # 0 => h > 0)
  <2>1. CASE rem = 0
    <3>1. m = w*0 /\ 0 <= e
      BY <1>1, <1>3, <2>1
    <3>2. QED
      BY <2>1, <3>1
  <2>2. CASE rem # 0
    <3>1. e > 0
      <4>1. ASSUME e = 0 PROVE FALSE
        BY <1>1, <4>1
      <4>2. QED
        BY <1>1, <4>1
    <3>2. m = IF f*w < w*e THEN f*w ELSE w*e
      BY <1>3, <1>5, <2>2 DEF Smaller
    <3>3. CASE f*w < w*e
      <4>1. f <= e
        <5>1. ASSUME f > e PROVE FALSE
          <6>1. f - e \in Nat /\ w*(f - e) \in Nat /\ f*w = w*e + w*(f - e)
            BY <1>1, <5>1
          <6>2. QED
            BY <1>5, <3>3, <6>1
        <5>2. QED
          BY <1>1, <5>1
      <4>2. m = w*f
        BY <3>2, <3>3
      <4>3. QED
        BY <4>1, <4>2
    <3>4. CASE ~(f*w < w*e)
      BY <1>1, <3>1, <3>2, <3>4
    <3>5. QED
      BY <3>3, <3>4
  <2>3. QED
    BY <2>1, <2>2
<1>7. PICK h \in Nat : m = w*h /\ h <= e /\ (rem # 0 => h > 0)
  BY <1>6
<1>8. w*h \in Nat /\ e - h \in Nat /\ w*(e - h) \in Nat /\ w*e = w*h + w*(e - h)
  BY <1>1, <1>7
<1>9. a \in Nat /\ a <= L /\ L - a = w*(e - h) /\ L - rem - m = L - a /\ a = rem + w*h
  BY <1>5, <1>7, <1>8
<1>10. RowsCut(head, 0, a, L)
  <2>1. CASE rem = 0
    <3>1. head = << >> /\ m = 0
      BY <1>3, <1>4, <2>1
    <3>2. a = 0
      BY <2>1, <3>1
    <3> HIDE DEF a
    <3>3. QED
      BY <3>1, <3>2, RowsNone
  <2>2. CASE rem # 0
    <3> DEFINE x == Reg(0, w)
               t == Regs(rem, h, w)
    <3>1. m \div w = h
      <4>1. 0 \in 0 .. w-1 /\ w*h = w*h + 0
        BY <1>8
      <4>2. (w*h + 0) \div w = h
        BY <4>1, DivUnique
      <4>3. QED
        BY <1>7, <4>1, <4>2
    <3>2. head = << <<x>> \o t >>
      BY <1>4, <2>2, <3>1
    <3>3. 0 + w <= L /\ 0 + w = w
      OBVIOUS
    <3>4. RegOK(x, L) /\ x.off = 0 /\ x.store = w
      BY <3>3, RegOKs
    <3> HIDE DEF x
    <3>5. RegsCut(<<x>>, x.off, x.off + x.store, L)
      BY <3>4, RegsOne
    <3>6. RegsCut(<<x>>, 0, w, L)
      BY <3>3, <3>4, <3>5
    <3>7. RegsCut(t, rem, a, L)
      <4>1. rem + w*h <= L
        BY <1>9
      <4> HIDE DEF t, a
      <4>2. RegsCut(t, rem, rem + w*h, L)
        BY <1>5, <4>1, RegsWhole DEF t
      <4>3. QED
        BY <1>9, <4>2
    <3>8. 0 <= rem /\ rem <= w /\ w <= a
      <4>1. h - 1 \in Nat /\ w*h = w + w*(h - 1)
        BY <1>7, <2>2
      <4>2. w*(h - 1) \in Nat
        BY <4>1
      <4>3. QED
        BY <1>1, <1>9, <4>1, <4>2
    <3> HIDE DEF t, a
    <3>9. RegsCut(<<x>> \o t, 0, a, L)
      BY <1>5, <1>9, <3>6, <3>7, <3>8, RegsBoth
    <3>10. QED
      BY <3>2, <3>9, RowsOne
  <2>3. QED
    BY <2>1, <2>2
<1> DEFINE g == e - h
<1>11. g \in Nat /\ L - a = w*g
  BY <1>8, <1>9
<1> HIDE DEF a, g
<1>12. RowsCut(head \o FullBlocks(a, L - a, F*w, w), 0, L, L)
  BY <1>9, <1>10, <1>11, HeadThenBlocks
<1>13. QED
  BY <1>2, <1>9, <1>12 DEF a

(* A column of a few whole registers.                                      *)
LEMMA ShortRowsCut ==
  ASSUME NEW w \in Nat, w > 0, NEW h \in Nat
  PROVE  /\ RowsCut(<<Regs(0, h, w)>>, 0, w*h, w*h)
         /\ (w*h) \div w = h
<1> DEFINE L == w*h
<1>1. L \in Nat /\ 0 + w*h <= L /\ 0 + w*h = L
  OBVIOUS
<1>2. RegsCut(Regs(0, h, w), 0, 0 + w*h, L)
  <2> HIDE DEF L
  <2>1. QED
    BY <1>1, RegsWhole
<1>3. RowsCut(<<Regs(0, h, w)>>, 0, L, L)
  BY <1>1, <1>2, RowsOne
<1>4. (w*h + 0) \div w = h
  <2>1. 0 \in 0 .. w-1
    OBVIOUS
  <2>2. QED
    BY <2>1, DivUnique
<1>5. w*h + 0 = w*h
  OBVIOUS
<1>6. QED
  BY <1>3, <1>4, <1>5

LEMMA RowsOf96 ==
  ASSUME XMM \in Nat, XMM > 0, YMM = 2*XMM
  PROVE  RowsCut(<< <<Reg(0, YMM), Reg(YMM, XMM)>> >>, 0, YMM + XMM, YMM + XMM)
<1> DEFINE L == YMM + XMM
           x == Reg(0, YMM)
           y == Reg(YMM, XMM)
<1>1. L \in Nat /\ YMM \in Nat /\ 0 + YMM <= L /\ YMM + XMM <= L /\ 0 + YMM = YMM /\ 0 <= YMM /\ YMM <= YMM /\ YMM <= L
  OBVIOUS
<1>2. YMM + XMM = L
  OBVIOUS
<1> HIDE DEF L
<1>3. RegOK(x, L) /\ x.off = 0 /\ x.store = YMM
  BY <1>1, RegOKs
<1>4. RegOK(y, L) /\ y.off = YMM /\ y.store = XMM
  BY <1>1, RegOKs
<1> HIDE DEF x, y
<1>5. RegsCut(<<x>>, x.off, x.off + x.store, L) /\ RegsCut(<<y>>, y.off, y.off + y.store, L)
  BY <1>3, <1>4, RegsOne
<1>6. RegsCut(<<x>>, 0, YMM, L) /\ RegsCut(<<y>>, YMM, L, L)
  BY <1>1, <1>2, <1>3, <1>4, <1>5
<1>7. RegsCut(<<x>> \o <<y>>, 0, L, L)
  BY <1>1, <1>6, RegsBoth
<1>8. <<x>> \o <<y>> = <<x, y>>
  BY TwoMoves
<1>9. RowsCut(<< <<x, y>> >>, 0, L, L)
  BY <1>7, <1>8, RowsOne
<1>10. QED
  BY <1>9 DEF L, x, y

(* One column after the other with a vector function.                      *)
LEMMA WholeRowsCut ==
  ASSUME NEW L \in Nat
  PROVE  RowsCut(<< <<Reg(0, L)>> >>, 0, L, L)
<1> DEFINE x == Reg(0, L)
<1>1. 0 + L <= L /\ 0 + L = L
  OBVIOUS
<1>2. RegOK(x, L) /\ x.off = 0 /\ x.store = L
  BY <1>1, RegOKs
<1> HIDE DEF x
<1>3. RegsCut(<<x>>, x.off, x.off + x.store, L)
  BY <1>2, RegsOne
<1>4. RegsCut(<<x>>, 0, L, L)
  BY <1>1, <1>2, <1>3
<1>5. QED
  BY <1>4, RowsOne DEF x

-----------------------------------------------------------------------------
(* The calls of the products.                                              *)

(* One chunk of all the columns: every call takes them all.                *)
LEMMA SweepOnce ==
  ASSUME NEW rows, NEW n, NEW add
  PROVE  Sweep(rows, AtOnce(n), add) = [j \in DOMAIN rows |-> Call(rows[j], Columns(0, n, 0, n), add)]
<1> DEFINE q == Columns(0, n, 0, n)
           u == AtOnce(n)
           S == [i \in DOMAIN u |-> [j \in DOMAIN rows |-> Call(rows[j], u[i], add)]]
<1>1. u = <<q>>
  BY DEF AtOnce
<1>2. DOMAIN u = {1} /\ u[1] = q
  <2> HIDE DEF q, u
  <2>1. Len(u) = 1 /\ u[1] = q /\ u \in Seq({q})
    BY <1>1
  <2>2. DOMAIN u = 1 .. 1
    BY <2>1, LenProperties
  <2>3. QED
    BY <2>1, <2>2
<1> HIDE DEF u, q
<1>3. S[1] = [j \in DOMAIN rows |-> Call(rows[j], q, add)]
  BY <1>2
<1>4. S \in [1 .. 1 -> {S[1]}]
  BY <1>2
<1>5. Len(S) = 1
  <2> HIDE DEF S
  <2>1. QED
    BY <1>4, SeqOfFunction
<1> HIDE DEF S
<1>6. PICK g : IsFlatten(g, S, 1) /\ FlattenSeq(S) = g[1]
  <2>1. Len(S) \in Nat /\ Len(S) # 0
    BY <1>5
  <2>2. \E g : IsFlatten(g, S, Len(S)) /\ FlattenSeq(S) = g[Len(S)]
    BY <2>1, FlattenIs
  <2>3. QED
    BY <1>5, <2>2
<1>7. g[1] = S[1]
  BY <1>6 DEF IsFlatten
<1>8. FlattenSeq(S) = [j \in DOMAIN rows |-> Call(rows[j], q, add)]
  BY <1>3, <1>6, <1>7
<1>9. Sweep(rows, u, add) = FlattenSeq(S)
  BY DEF Sweep, S
<1>10. QED
  BY <1>8, <1>9 DEF u, q

(* Calls that write every byte of B once, from all the columns.            *)
Writes(s, B, L, n) ==
  /\ Takes(s, B, 0 .. n-1, FALSE, L, n)
  /\ \A p \in 1 .. Len(s) : ColSet(s[p].cols) = 0 .. n-1

LEMMA SweepWrites ==
  ASSUME NEW rows, NEW a, NEW b, NEW L, NEW n \in Nat, RowsCut(rows, a, b, L)
  PROVE  Writes(Sweep(rows, AtOnce(n), FALSE), a .. b-1, L, n)
<1> DEFINE q == Columns(0, n, 0, n)
           s == [j \in DOMAIN rows |-> Call(rows[j], q, FALSE)]
<1>1. ColsOK(q, n) /\ ColSet(q) = 0 .. n-1
  <2>1. 0 + n <= n /\ (0 + n) - 1 = n - 1
    OBVIOUS
  <2>2. ColsOK(q, n) /\ ColSet(q) = 0 .. (0 + n) - 1
    BY <2>1, ColumnsAre
  <2>3. QED
    BY <2>1, <2>2
<1>2. \A p \in DOMAIN rows : s[p].cols = q
  BY DEF Call
<1> HIDE DEF q
<1>3. Takes(s, a .. b-1, ColSet(q), FALSE, L, n)
  BY <1>1, RowCalls
<1>4. DOMAIN s = DOMAIN rows
  OBVIOUS
<1> HIDE DEF s
<1>5. DOMAIN s = 1 .. Len(s)
  BY <1>3, LenProperties DEF Takes
<1>6. \A p \in 1 .. Len(s) : ColSet(s[p].cols) = 0 .. n-1
  BY <1>1, <1>2, <1>4, <1>5
<1>7. Writes(s, a .. b-1, L, n)
  BY <1>1, <1>3, <1>6 DEF Writes
<1>8. Sweep(rows, AtOnce(n), FALSE) = s
  <2>1. PICK add : add = FALSE
    OBVIOUS
  <2>2. Sweep(rows, AtOnce(n), add) = [j \in DOMAIN rows |-> Call(rows[j], Columns(0, n, 0, n), add)]
    BY SweepOnce
  <2>3. QED
    BY <2>1, <2>2 DEF s, q
<1>9. QED
  BY <1>7, <1>8

LEMMA WritesNothing ==
  ASSUME NEW L, NEW n
  PROVE  Writes(<< >>, {}, L, n)
<1>1. << >> \in Seq(CallType) /\ Len(<< >>) = 0 /\ 1 .. 0 = {}
  BY EmptySeq
<1>2. QED
  BY <1>1 DEF Writes, Takes

LEMMA WritesBoth ==
  ASSUME NEW B, NEW B1, NEW B2, B = B1 \cup B2, B1 \cap B2 = {}, NEW L, NEW n,
         NEW s, NEW t, Writes(s, B1, L, n), Writes(t, B2, L, n)
  PROVE  Writes(s \o t, B, L, n)
<1> DEFINE C == 0 .. n-1
           r == s \o t
           M == Len(s)
           N == Len(t)
<1>1. Takes(s, B1, C, FALSE, L, n) /\ Takes(t, B2, C, FALSE, L, n)
  BY DEF Writes
<1>2. /\ B1 \subseteq B /\ B2 \subseteq B /\ C \subseteq C
      /\ \A b \in B, k \in C : (b \in B1 /\ k \in C) \/ (b \in B2 /\ k \in C)
  OBVIOUS
<1>3. Takes(r, B, C, FALSE, L, n)
  <2> HIDE DEF C
  <2>1. QED
    BY <1>1, <1>2, TakesBoth
<1>4. /\ M \in Nat /\ N \in Nat /\ Len(r) = M + N
      /\ \A p \in 1 .. M + N : r[p] = IF p <= M THEN s[p] ELSE t[p - M]
  BY <1>1, ConcatProperties, LenProperties DEF Takes
<1>5. (\A p \in 1 .. M : ColSet(s[p].cols) = C) /\ (\A p \in 1 .. N : ColSet(t[p].cols) = C)
  BY DEF Writes
<1> HIDE DEF C, r, M, N
<1>6. ASSUME NEW p \in 1 .. M + N PROVE ColSet(r[p].cols) = C
  <2>1. (p \in 1 .. M /\ r[p] = s[p]) \/ (p - M \in 1 .. N /\ r[p] = t[p - M])
    BY <1>4
  <2>2. QED
    BY <1>5, <2>1
<1>7. QED
  BY <1>3, <1>4, <1>6 DEF Writes, C, r

(* What a product's calls are before the first one: each byte of a column  *)
(* is written by one call and then added to, once from each column.        *)
Plan(s, L, n) ==
  /\ s \in Seq(CallType)
  /\ \A p \in 1 .. Len(s) : CallOK(s[p], L, n)
  /\ \A i \in 0 .. L-1, p \in 1 .. Len(s), q \in 1 .. Len(s) :
       p < q /\ i \in Hit(s[p].regs) /\ i \in Hit(s[q].regs)
         => s[q].add /\ ColSet(s[p].cols) \cap ColSet(s[q].cols) = {}
  /\ \A i \in 0 .. L-1 : \E p \in 1 .. Len(s) : i \in Hit(s[p].regs) /\ ~s[p].add
  /\ \A i \in 0 .. L-1, k \in 0 .. n-1 :
       \E p \in 1 .. Len(s) : i \in Hit(s[p].regs) /\ k \in ColSet(s[p].cols)

LEMMA WritesPlan ==
  ASSUME NEW L \in Nat, NEW n \in Nat, n > 0, NEW s, Writes(s, 0 .. L-1, L, n)
  PROVE  Plan(s, L, n)
<1>1. Takes(s, 0 .. L-1, 0 .. n-1, FALSE, L, n) /\ \A p \in 1 .. Len(s) : ColSet(s[p].cols) = 0 .. n-1
  BY DEF Writes
<1>2. 0 \in 0 .. n-1
  OBVIOUS
<1>3. Len(s) \in Nat
  BY <1>1, LenProperties DEF Takes
<1>4. ASSUME NEW i \in 0 .. L-1, NEW p \in 1 .. Len(s), NEW q \in 1 .. Len(s), p < q,
             i \in Hit(s[p].regs), i \in Hit(s[q].regs)
      PROVE  FALSE
  <2>1. p # q
    BY <1>3, <1>4
  <2>2. ColSet(s[p].cols) \cap ColSet(s[q].cols) = {}
    BY <1>1, <1>4, <2>1 DEF Takes
  <2>3. QED
    BY <1>1, <1>2, <2>2
<1>5. \A i \in 0 .. L-1, k \in 0 .. n-1 :
        \E p \in 1 .. Len(s) : i \in Hit(s[p].regs) /\ k \in ColSet(s[p].cols) /\ ~s[p].add
  BY <1>1 DEF Takes
<1>6. \A i \in 0 .. L-1 : \E p \in 1 .. Len(s) : i \in Hit(s[p].regs) /\ ~s[p].add
  BY <1>2, <1>5
<1>7. s \in Seq(CallType) /\ \A p \in 1 .. Len(s) : CallOK(s[p], L, n)
  BY <1>1 DEF Takes
<1>8. QED
  BY <1>4, <1>5, <1>6, <1>7 DEF Plan

LEMMA SetZeroThenAdds ==
  ASSUME NEW L \in Nat, NEW n \in Nat, NEW t, Takes(t, 0 .. L-1, 0 .. n-1, TRUE, L, n)
  PROVE  Plan(gf256v_set_zero(L) \o t, L, n)
<1> DEFINE x == Reg(0, L)
           z == Call(<<x>>, Columns(0, 0, 0, 0), FALSE)
           s == <<z>> \o t
           N == Len(t)
<1>1. RegOK(x, L) /\ x.off = 0 /\ x.store = L
  <2>1. 0 + L <= L
    OBVIOUS
  <2>2. QED
    BY <2>1, RegOKs
<1>2. <<x>> \in Seq(RegType) /\ ToSet(<<x>>) = {x} /\ Hit(<<x>>) = 0 .. L-1
  <2> HIDE DEF x
  <2>1. x \in RegType
    BY <1>1 DEF RegOK
  <2>2. ToSet(<<x>>) = {x}
    BY ToSetOne
  <2>3. Stored(x) = 0 .. L-1
    <3>1. (0 + L) - 1 = L - 1
      OBVIOUS
    <3>2. QED
      BY <1>1, <3>1 DEF Stored
  <2>4. Hit(<<x>>) = 0 .. L-1
    BY <2>2, <2>3 DEF Hit
  <2>5. <<x>> \in Seq(RegType)
    BY <2>1
  <2>6. QED
    BY <2>2, <2>4, <2>5
<1> HIDE DEF x
<1>3. z.regs = <<x>> /\ z.cols = Columns(0, 0, 0, 0) /\ z.add = FALSE
  BY DEF Call
<1>4. ColsOK(Columns(0, 0, 0, 0), n) /\ ColSet(Columns(0, 0, 0, 0)) = {}
  <2>1. 0 + 0 <= n /\ 0 .. (0 + 0) - 1 = {}
    OBVIOUS
  <2>2. QED
    BY <2>1, ColumnsAre
<1>5. z \in CallType
  <2>1. Columns(0, 0, 0, 0) \in ColType
    BY <1>4 DEF ColsOK
  <2>2. QED
    BY <1>2, <2>1 DEF Call, CallType
<1>6. CallOK(z, L, n) /\ Hit(z.regs) = 0 .. L-1 /\ ColSet(z.cols) = {}
  <2>1. \A r \in ToSet(<<x>>) : RegOK(r, L)
    BY <1>1, <1>2
  <2> HIDE DEF z
  <2>2. QED
    BY <1>2, <1>3, <1>4, <1>5, <2>1 DEF CallOK
<1> HIDE DEF z
<1>7. t \in Seq(CallType) /\ N \in Nat
  BY LenProperties DEF Takes
<1>8. <<z>> \in Seq(CallType) /\ Len(<<z>>) = 1 /\ <<z>>[1] = z
  BY <1>5
<1> DEFINE y == <<z>>
<1>9. y \in Seq(CallType) /\ Len(y) = 1 /\ y[1] = z
  BY <1>8
<1> HIDE DEF y
<1>10. /\ y \o t \in Seq(CallType) /\ Len(y \o t) = 1 + N
       /\ \A p \in 1 .. 1 + N : (y \o t)[p] = IF p <= 1 THEN y[p] ELSE t[p - 1]
  <2>1. /\ y \o t \in Seq(CallType) /\ Len(y \o t) = Len(y) + Len(t)
        /\ \A p \in 1 .. Len(y) + Len(t) : (y \o t)[p] = IF p <= Len(y) THEN y[p] ELSE t[p - Len(y)]
    <3> HIDE DEF N
    <3>1. QED
      BY <1>7, <1>9, ConcatProperties
  <2>2. QED
    BY <1>9, <2>1
<1>11. s = y \o t
  BY DEF y
<1> HIDE DEF s
<1>12. s \in Seq(CallType) /\ Len(s) = N + 1 /\ Len(s) \in Nat /\ s[1] = z /\ 1 \in 1 .. Len(s)
  BY <1>7, <1>9, <1>10, <1>11
<1>13. \A p \in 1 .. N : p + 1 \in 1 .. Len(s) /\ s[p + 1] = t[p]
  <2> TAKE p \in 1 .. N
  <2>1. p + 1 \in 1 .. 1 + N /\ ~(p + 1 <= 1) /\ (p + 1) - 1 = p
    BY <1>7
  <2>2. QED
    BY <1>7, <1>10, <1>11, <1>12, <2>1
<1> HIDE DEF N
<1>14. \A p \in 1 .. Len(s) : p = 1 \/ (p - 1 \in 1 .. N /\ s[p] = t[p - 1])
  <2>1. \A p \in 1 .. Len(s) : p = 1 \/ (p - 1 \in 1 .. N /\ (p - 1) + 1 = p)
    BY <1>7, <1>12
  <2>2. QED
    BY <1>13, <2>1
<1>15. \A p \in 1 .. N : CallOK(t[p], L, n) /\ t[p].add
  BY DEF Takes, N
<1>16. \A p \in 1 .. Len(s) : CallOK(s[p], L, n)
  BY <1>6, <1>12, <1>14, <1>15
<1>17. ASSUME NEW i \in 0 .. L-1, NEW p \in 1 .. Len(s), NEW q \in 1 .. Len(s), p < q,
              i \in Hit(s[p].regs), i \in Hit(s[q].regs)
       PROVE  s[q].add /\ ColSet(s[p].cols) \cap ColSet(s[q].cols) = {}
  <2>1. q # 1 /\ p # q
    BY <1>12, <1>17
  <2>2. q - 1 \in 1 .. N /\ s[q] = t[q - 1]
    BY <1>14, <2>1
  <2>3. CASE p = 1
    BY <1>6, <1>12, <1>15, <2>2, <2>3
  <2>4. CASE p # 1
    <3>1. p - 1 \in 1 .. N /\ s[p] = t[p - 1] /\ p - 1 # q - 1
      BY <1>12, <1>14, <2>1, <2>4
    <3>2. i \in Hit(t[p - 1].regs) /\ i \in Hit(t[q - 1].regs)
      BY <1>17, <2>2, <3>1
    <3>3. ColSet(t[p - 1].cols) \cap ColSet(t[q - 1].cols) = {}
      <4> DEFINE g == p - 1
                 h == q - 1
      <4> HIDE DEF g, h
      <4>1. g \in 1 .. N /\ h \in 1 .. N /\ g # h /\ i \in Hit(t[g].regs) /\ i \in Hit(t[h].regs)
        BY <2>2, <3>1, <3>2 DEF g, h
      <4>2. ColSet(t[g].cols) \cap ColSet(t[h].cols) = {}
        BY <4>1 DEF Takes, N
      <4>3. QED
        BY <4>2 DEF g, h
    <3>4. QED
      BY <1>15, <2>2, <3>1, <3>3
  <2>5. QED
    BY <2>3, <2>4
<1>18. \A i \in 0 .. L-1 : \E p \in 1 .. Len(s) : i \in Hit(s[p].regs) /\ ~s[p].add
  BY <1>3, <1>6, <1>12
<1>19. ASSUME NEW i \in 0 .. L-1, NEW k \in 0 .. n-1
       PROVE  \E p \in 1 .. Len(s) : i \in Hit(s[p].regs) /\ k \in ColSet(s[p].cols)
  <2>1. PICK p \in 1 .. N : i \in Hit(t[p].regs) /\ k \in ColSet(t[p].cols)
    BY DEF Takes, N
  <2>2. QED
    BY <1>13, <2>1
<1>20. Plan(s, L, n)
  BY <1>12, <1>16, <1>17, <1>18, <1>19 DEF Plan
<1>21. gf256v_set_zero(L) = <<z>>
  BY DEF gf256v_set_zero, z, x
<1>22. QED
  BY <1>20, <1>21 DEF s

-----------------------------------------------------------------------------
(* Product by product.                                                     *)

LEMMA MatFacts ==
  /\ XMM \in Nat /\ XMM > 0 /\ YMM \in Nat /\ YMM > 0 /\ YMM = 2*XMM
  /\ NV \in Nat /\ NV > 0 /\ Chunk \in Nat /\ Chunk > 0
  /\ BlockRegs \in Nat /\ BlockRegs > 1 /\ BlockRegs > 0
BY WidthAssumption, MatrixAssumption

LEMMA AddsPlan ==
  ASSUME NEW L \in Nat, NEW n \in Nat, NEW rows, RowsCut(rows, 0, L, L),
         NEW chunks, ColumnsCut(chunks, 0 .. n-1, n)
  PROVE  Plan(gf256v_set_zero(L) \o Sweep(rows, chunks, TRUE), L, n)
<1> DEFINE C == 0 .. n-1
<1>1. PICK add \in BOOLEAN : add = TRUE
  OBVIOUS
<1>2. ColumnsCut(chunks, C, n)
  OBVIOUS
<1> HIDE DEF C
<1>3. Takes(Sweep(rows, chunks, add), 0 .. L-1, C, add, L, n)
  BY <1>2, SweepTakes
<1>4. Takes(Sweep(rows, chunks, TRUE), 0 .. L-1, 0 .. n-1, TRUE, L, n)
  BY <1>1, <1>3 DEF C
<1>5. QED
  BY <1>4, SetZeroThenAdds

LEMMA OncePlan ==
  ASSUME NEW L \in Nat, NEW n \in Nat, n > 0, NEW rows, RowsCut(rows, 0, L, L)
  PROVE  Plan(Sweep(rows, AtOnce(n), FALSE), L, n)
BY SweepWrites, WritesPlan

LEMMA RefPlan ==
  ASSUME NEW L \in Nat, NEW n \in Nat, n > 0
  PROVE  Plan(gf16mat_prod_ref(L, n), L, n) /\ Plan(gf256mat_prod_ref(L, n), L, n)
<1>1. RowsCut(<< <<Reg(0, L)>> >>, 0, L, L)
  BY WholeRowsCut
<1>2. 1 \in Nat /\ 1 > 0
  OBVIOUS
<1>3. ColumnsCut(Chunks(n, 1), 0 .. n-1, n)
  BY <1>2, ChunksCut
<1>4. Plan(gf256v_set_zero(L) \o Sweep(<< <<Reg(0, L)>> >>, Chunks(n, 1), TRUE), L, n)
  BY <1>1, <1>3, AddsPlan
<1>5. QED
  BY <1>4 DEF gf16mat_prod_ref, gf256mat_prod_ref

LEMMA ChunkedPlan ==
  ASSUME NEW L \in Nat, NEW n \in Nat, n > 0, NEW rows, RowsCut(rows, 0, L, L)
  PROVE  /\ Plan(gf256v_set_zero(L) \o Sweep(rows, Chunks(n, Chunk), TRUE), L, n)
         /\ Plan(gf256v_set_zero(L) \o Sweep(rows, Chunks(n, 2*Chunk), TRUE), L, n)
<1>1. Chunk \in Nat /\ Chunk > 0 /\ 2*Chunk \in Nat /\ 2*Chunk > 0
  BY MatFacts
<1>2. ColumnsCut(Chunks(n, Chunk), 0 .. n-1, n)
  BY <1>1, ChunksCut
<1>3. ColumnsCut(Chunks(n, 2*Chunk), 0 .. n-1, n)
  BY <1>1, ChunksCut
<1>4. QED
  BY <1>2, <1>3, AddsPlan

LEMMA SsePlan ==
  ASSUME NEW L \in Nat, NEW n \in Nat, n > 0
  PROVE  Plan(gf16mat_prod_sse(L, n), L, n) /\ Plan(gf256mat_prod_sse(L, n), L, n)
<1>1. RowsCut(SseRows(L), 0, L, L)
  BY MatFacts, SseRowsCut
<1>2. QED
  BY <1>1, ChunkedPlan DEF gf16mat_prod_sse, gf256mat_prod_sse

(* The kernels for 64 and 96 rows.                                         *)
LEMMA Plan64 ==
  ASSUME NEW n \in Nat, n > 0
  PROVE  Plan(Sweep(<<Regs(0, 1, YMM)>>, AtOnce(n), FALSE), YMM, n)
<1>1. YMM \in Nat /\ YMM > 0 /\ 1 \in Nat /\ YMM*1 = YMM
  BY MatFacts
<1>2. RowsCut(<<Regs(0, 1, YMM)>>, 0, YMM*1, YMM*1)
  BY <1>1, ShortRowsCut
<1>3. QED
  BY <1>1, <1>2, OncePlan

LEMMA Plan96 ==
  ASSUME NEW n \in Nat, n > 0
  PROVE  Plan(Sweep(<< <<Reg(0, YMM), Reg(YMM, XMM)>> >>, AtOnce(n), FALSE), YMM + XMM, n)
<1>1. YMM + XMM \in Nat
  BY MatFacts
<1>2. RowsCut(<< <<Reg(0, YMM), Reg(YMM, XMM)>> >>, 0, YMM + XMM, YMM + XMM)
  BY MatFacts, RowsOf96
<1>3. QED
  BY <1>1, <1>2, OncePlan

LEMMA MaddPlan ==
  ASSUME NEW L \in Nat, NEW n \in Nat, n > 0
  PROVE  /\ Plan(gf256v_set_zero(L) \o Sweep(MaddRows(L), Chunks(n, NV), TRUE), L, n)
         /\ Plan(gf256v_set_zero(L) \o Sweep(MaddRows(L), AtOnce(n), TRUE), L, n)
         /\ n <= NV => Plan(gf256v_set_zero(L) \o Sweep(MaddRows(L), Leftover(n), TRUE), L, n)
<1>1. RowsCut(MaddRows(L), 0, L, L)
  BY MatFacts, MaddRowsCut
<1>2. ColumnsCut(Chunks(n, NV), 0 .. n-1, n)
  BY MatFacts, ChunksCut
<1>3. ColumnsCut(AtOnce(n), 0 .. n-1, n)
  BY AtOnceCuts
<1>4. n <= NV => ColumnsCut(Leftover(n), 0 .. n-1, n)
  BY MatFacts, LeftoverCuts
<1>5. QED
  BY <1>1, <1>2, <1>3, <1>4, AddsPlan

LEMMA Avx2Gf16Plan ==
  ASSUME NEW L \in Nat, NEW n \in Nat, n > 0
  PROVE  /\ n <= NV => Plan(gf16mat_prod_avx2(L, n), L, n)
         /\ Plan(gf16mat_prod_multab_avx2(L, n), L, n)
<1>1. L = YMM => Plan(gf16mat_prod_multab_64x_avx2(n), L, n)
  BY Plan64 DEF gf16mat_prod_multab_64x_avx2
<1>2. L = YMM + XMM => Plan(gf16mat_prod_multab_96x_avx2(n), L, n)
  BY Plan96 DEF gf16mat_prod_multab_96x_avx2
<1>3. Plan(gf256v_set_zero(L) \o gf16mat_madd_multab_avx2(L, n), L, n)
  BY MaddPlan DEF gf16mat_madd_multab_avx2
<1>4. n <= NV => Plan(gf256v_set_zero(L) \o Sweep(MaddRows(L), Leftover(n), TRUE), L, n)
  BY MaddPlan
<1>5. QED
  BY <1>1, <1>2, <1>3, <1>4 DEF gf16mat_prod_avx2, gf16mat_prod_multab_avx2

LEMMA GfniGf16Plan ==
  ASSUME NEW L \in Nat, NEW n \in Nat, n > 0
  PROVE  /\ n <= NV => Plan(gf16mat_prod_gfni(L, n), L, n)
         /\ Plan(gf16mat_prod_multab_gfni(L, n), L, n)
<1>1. L = YMM => Plan(gf16mat_prod_multab_64x_gfni(n), L, n)
  BY Plan64 DEF gf16mat_prod_multab_64x_gfni
<1>2. L = YMM + XMM => Plan(gf16mat_prod_multab_96x_gfni(n), L, n)
  BY Plan96 DEF gf16mat_prod_multab_96x_gfni
<1>3. Plan(gf256v_set_zero(L) \o gf16mat_madd_multab_gfni(L, n), L, n)
  BY MaddPlan DEF gf16mat_madd_multab_gfni
<1>4. n <= NV => Plan(gf256v_set_zero(L) \o Sweep(MaddRows(L), Leftover(n), TRUE), L, n)
  BY MaddPlan
<1>5. Plan(gf16mat_prod_multab_gfni(L, n), L, n)
  BY <1>1, <1>2, <1>3 DEF gf16mat_prod_multab_gfni
<1>6. QED
  BY <1>4, <1>5 DEF gf16mat_prod_gfni

LEMMA Avx2Gf256Plan ==
  ASSUME NEW L \in Nat, L >= XMM, NEW n \in Nat, n > 0
  PROVE  Plan(gf256mat_prod_avx2(L, n), L, n) /\ Plan(gf256mat_prod_multab_avx2(L, n), L, n)
<1>1. RowsCut(SmallRows(L), 0, L, L)
  BY MatFacts, SmallRowsCut
<1>2. Plan(Sweep(SmallRows(L), AtOnce(n), FALSE), L, n)
  BY <1>1, OncePlan
<1>3. Plan(gf256mat_prod_small_avx2(L, n), L, n)
  BY <1>1, ChunkedPlan DEF gf256mat_prod_small_avx2
<1>4. CASE L <= 3*YMM
  BY <1>2, <1>3, <1>4 DEF gf256mat_prod_avx2, gf256mat_prod_multab_avx2
<1>5. CASE ~(L <= 3*YMM)
  <2>1. L >= YMM
    BY <1>5, MatFacts
  <2>2. RemBlockRows(L) = OverlapRows(L, YMM, BlockRegs, BlockRegs)
    BY DEF RemBlockRows, OverlapRows
  <2>3. RowsCut(OverlapRows(L, YMM, BlockRegs, BlockRegs), 0, L, L)
    BY <2>1, MatFacts, OverlapRowsCut
  <2>4. RowsCut(RemBlockRows(L), 0, L, L)
    BY <2>2, <2>3
  <2>5. ColumnsCut(AtOnce(n), 0 .. n-1, n)
    BY AtOnceCuts
  <2>6. Plan(gf256v_set_zero(L) \o Sweep(RemBlockRows(L), AtOnce(n), TRUE), L, n)
    BY <2>4, <2>5, AddsPlan
  <2>7. Plan(gf256v_set_zero(L) \o Sweep(RemBlockRows(L), Chunks(n, 2*Chunk), TRUE), L, n)
    BY <2>4, ChunkedPlan
  <2>8. QED
    BY <1>5, <2>6, <2>7 DEF gf256mat_prod_avx2, gf256mat_prod_multab_avx2
<1>6. QED
  BY <1>4, <1>5

(* A head of the remaining bytes, however it is loaded, then whole         *)
(* registers.                                                              *)
LEMMA GfniHeadWrites ==
  ASSUME NEW L \in Nat, NEW n \in Nat, n > 1
  PROVE  Writes(GfniHead(L, n), 0 .. (L % YMM) - 1, L, n)
<1> DEFINE rem == L % YMM
           e == L \div YMM
<1>1. rem \in 0 .. YMM-1 /\ e \in Nat /\ L = YMM*e + rem /\ YMM \in Nat /\ YMM > 0
  BY MatFacts, DivMod
<1> HIDE DEF rem, e
<1>2. rem \in Nat /\ rem <= L /\ rem < YMM
  <2>1. YMM*e \in Nat
    BY <1>1
  <2>2. QED
    BY <1>1, <2>1
<1>3. ASSUME NEW x, RegOK(x, L), x.off = 0, x.store = rem
      PROVE  Writes(Sweep(<< <<x>> >>, AtOnce(n), FALSE), 0 .. rem-1, L, n)
  <2>1. RegsCut(<<x>>, x.off, x.off + x.store, L)
    BY <1>3, RegsOne
  <2>2. RegsCut(<<x>>, 0, rem, L)
    <3>1. 0 + rem = rem
      BY <1>2
    <3>2. QED
      BY <1>3, <2>1, <3>1
  <2>3. RowsCut(<< <<x>> >>, 0, rem, L)
    BY <2>2, RowsOne
  <2>4. QED
    BY <2>3, SweepWrites
<1>4. CASE rem = 0
  <2>1. GfniHead(L, n) = << >>
    BY <1>4 DEF GfniHead, rem
  <2>2. 0 .. rem-1 = {}
    BY <1>4
  <2>3. QED
    BY <2>1, <2>2, WritesNothing DEF rem
<1>5. CASE rem # 0 /\ L < XMM
  <2>1. GfniHead(L, n) = Sweep(<< <<Reg(0, rem)>> >>, AtOnce(n), FALSE)
    BY <1>5 DEF GfniHead, rem
  <2>2. 0 + rem <= L
    BY <1>2
  <2>3. RegOK(Reg(0, rem), L) /\ Reg(0, rem).off = 0 /\ Reg(0, rem).store = rem
    BY <1>2, <2>2, RegOKs
  <2>4. QED
    BY <1>3, <2>1, <2>3 DEF rem
<1>6. CASE rem # 0 /\ L >= XMM /\ L < YMM
  <2>1. GfniHead(L, n) = Sweep(<< <<Ragged(0, YMM, rem)>> >>, AtOnce(n), FALSE)
    <3>1. ~(L < XMM)
      BY <1>6, MatFacts
    <3>2. n # 1
      OBVIOUS
    <3>3. QED
      BY <1>6, <3>1, <3>2 DEF GfniHead, rem
  <2>2. 0 + rem <= L /\ 0 + YMM <= 2*L /\ rem <= YMM
    BY <1>2, <1>6, MatFacts
  <2>3. RegOK(Ragged(0, YMM, rem), L) /\ Ragged(0, YMM, rem).off = 0 /\ Ragged(0, YMM, rem).store = rem
    BY <1>1, <1>2, <2>2, RaggedOK
  <2>4. QED
    BY <1>3, <2>1, <2>3 DEF rem
<1>7. CASE rem # 0 /\ L >= YMM
  <2> DEFINE x == [Reg(0, YMM) EXCEPT !.store = rem]
  <2>1. GfniHead(L, n) = Sweep(<< <<x>> >>, AtOnce(n), FALSE)
    <3>1. ~(L < XMM) /\ ~(L < YMM)
      BY <1>7, MatFacts
    <3>2. QED
      BY <1>7, <3>1 DEF GfniHead, rem
  <2>2. x = [off |-> 0, load |-> YMM, last |-> YMM, store |-> rem]
    BY DEF Reg
  <2>3. RegOK(x, L) /\ x.off = 0 /\ x.store = rem
    BY <1>1, <1>2, <1>7, <2>2 DEF RegOK, RegType
  <2> HIDE DEF x
  <2>4. QED
    BY <1>3, <2>1, <2>3 DEF rem
<1>8. L < XMM \/ (L >= XMM /\ L < YMM) \/ L >= YMM
  BY MatFacts
<1>9. QED
  BY <1>4, <1>5, <1>6, <1>7, <1>8

LEMMA GfniPlan ==
  ASSUME NEW L \in Nat, NEW n \in Nat, n > 1
  PROVE  Plan(gf256mat_prod_avx2_gfni(L, n), L, n)
<1> DEFINE rem == L % YMM
           e == L \div YMM
<1>1. rem \in 0 .. YMM-1 /\ e \in Nat /\ L = YMM*e + rem /\ YMM \in Nat /\ YMM > 0
  BY MatFacts, DivMod
<1>2. Writes(GfniHead(L, n), 0 .. rem - 1, L, n)
  BY GfniHeadWrites
<1>3. GfniRows(L) = FullBlocks(rem, L - rem, 4*YMM, YMM)
  BY DEF GfniRows
<1> HIDE DEF rem, e
<1>4. YMM*e \in Nat
  BY <1>1
<1>5. L - rem = YMM*e /\ rem + YMM*e = L /\ rem + YMM*e <= L /\ rem \in Nat /\ rem <= L
  BY <1>1, <1>4
<1>6. RowsCut(GfniRows(L), rem, L, L)
  <2>1. PICK f \in Nat : f = 4
    OBVIOUS
  <2>2. f > 0
    BY <2>1
  <2>3. RowsCut(FullBlocks(rem, YMM*e, f*YMM, YMM), rem, rem + YMM*e, L)
    BY <1>1, <1>5, <2>2, FullBlocksCut
  <2>4. QED
    BY <1>3, <1>5, <2>1, <2>3
<1>7. Writes(Sweep(GfniRows(L), AtOnce(n), FALSE), rem .. L-1, L, n)
  BY <1>6, SweepWrites
<1>8. 0 .. L-1 = (0 .. rem-1) \cup (rem .. L-1) /\ (0 .. rem-1) \cap (rem .. L-1) = {}
  BY <1>5
<1>9. Writes(GfniHead(L, n) \o Sweep(GfniRows(L), AtOnce(n), FALSE), 0 .. L-1, L, n)
  <2> DEFINE B == 0 .. L-1
             B1 == 0 .. rem-1
             B2 == rem .. L-1
  <2>1. B = B1 \cup B2 /\ B1 \cap B2 = {}
    BY <1>8
  <2>2. Writes(GfniHead(L, n), B1, L, n) /\ Writes(Sweep(GfniRows(L), AtOnce(n), FALSE), B2, L, n)
    BY <1>2, <1>7
  <2> HIDE DEF B, B1, B2
  <2>3. Writes(GfniHead(L, n) \o Sweep(GfniRows(L), AtOnce(n), FALSE), B, L, n)
    BY <2>1, <2>2, WritesBoth
  <2>4. QED
    BY <2>3 DEF B
<1>10. n > 0
  OBVIOUS
<1>11. QED
  BY <1>9, <1>10, WritesPlan DEF gf256mat_prod_avx2_gfni

LEMMA NeonGf16Plan ==
  ASSUME NEW L \in Nat, L >= XMM, NEW n \in Nat, n > 0
  PROVE  Plan(gf16mat_prod_neon(L, n), L, n) /\ Plan(gf16mat_prod_multab_neon(L, n), L, n)
<1>1. NeonRows(L) = OverlapRows(L, XMM, BlockRegs - 1, BlockRegs)
  BY DEF NeonRows, OverlapRows
<1>2. RowsCut(OverlapRows(L, XMM, BlockRegs - 1, BlockRegs), 0, L, L)
  <2> DEFINE f == BlockRegs - 1
  <2>1. f \in Nat /\ f > 0
    BY MatFacts
  <2> HIDE DEF f
  <2>2. RowsCut(OverlapRows(L, XMM, f, BlockRegs), 0, L, L)
    BY <2>1, MatFacts, OverlapRowsCut
  <2>3. QED
    BY <2>2 DEF f
<1>3. Plan(Sweep(NeonRows(L), AtOnce(n), FALSE), L, n)
  BY <1>1, <1>2, OncePlan
<1>4. ASSUME NEW h \in Nat, L = XMM*h
      PROVE  Plan(Sweep(ShortColumns(L), AtOnce(n), FALSE), L, n)
  <2>1. RowsCut(<<Regs(0, h, XMM)>>, 0, XMM*h, XMM*h) /\ (XMM*h) \div XMM = h
    BY MatFacts, ShortRowsCut
  <2>2. ShortColumns(L) = <<Regs(0, h, XMM)>>
    BY <1>4, <2>1 DEF ShortColumns
  <2>3. RowsCut(ShortColumns(L), 0, L, L)
    BY <1>4, <2>1, <2>2
  <2>4. QED
    BY <2>3, OncePlan
<1>5. L \in {XMM, 2*XMM, 3*XMM} => Plan(Sweep(ShortColumns(L), AtOnce(n), FALSE), L, n)
  <2>1. L \in {XMM, 2*XMM, 3*XMM} => L = XMM*1 \/ L = XMM*2 \/ L = XMM*3
    BY MatFacts
  <2>2. 1 \in Nat /\ 2 \in Nat /\ 3 \in Nat
    OBVIOUS
  <2>3. QED
    BY <1>4, <2>1, <2>2
<1>6. QED
  BY <1>3, <1>5 DEF gf16mat_prod_neon, gf16mat_prod_multab_neon, gf16mat_prod_96x_neon,
                    gf16mat_blockmat_prod_neon

LEMMA NeonGf256Plan ==
  ASSUME NEW L \in Nat, 2*L >= XMM, NEW n \in Nat, n > 0
  PROVE  Plan(gf256mat_prod_neon(L, n), L, n) /\ Plan(gf256mat_prod_multab_neon(L, n), L, n)
<1>1. ASSUME NEW g \in Nat, g > 0 PROVE RowsCut(RaggedRows(L, g), 0, L, L)
  BY <1>1, MatFacts, RaggedRowsCut
<1>2. ASSUME NEW g \in Nat, g > 0 PROVE Plan(Sweep(RaggedRows(L, g), AtOnce(n), FALSE), L, n)
  BY <1>1, <1>2, OncePlan
<1>3. 1 \in Nat /\ 1 > 0 /\ 2 \in Nat /\ 2 > 0 /\ 3 \in Nat /\ 3 > 0
  OBVIOUS
<1>4. /\ Plan(gf256mat_prod_16_neon(L, n), L, n) /\ Plan(gf256mat_prod_32_neon(L, n), L, n)
      /\ Plan(Sweep(RaggedRows(L, 3), AtOnce(n), FALSE), L, n)
  BY <1>2, <1>3 DEF gf256mat_prod_16_neon, gf256mat_prod_32_neon
<1>5. ColumnsCut(AtOnce(n), 0 .. n-1, n)
  BY AtOnceCuts
<1>6. RowsCut(RaggedRows(L, 3), 0, L, L)
  BY <1>1, <1>3
<1>7. Plan(gf256v_set_zero(L) \o gf256mat_blockmat_prod_lazy(L, n), L, n)
  BY <1>5, <1>6, AddsPlan DEF gf256mat_blockmat_prod_lazy
<1>8. RowsCut(RaggedRows(L, BlockRegs), 0, L, L)
  BY <1>1, MatFacts
<1>9. Plan(gf256v_set_zero(L) \o Sweep(RaggedRows(L, BlockRegs), Chunks(n, Chunk), TRUE), L, n)
  BY <1>8, ChunkedPlan
<1>10. QED
  BY <1>4, <1>7, <1>9 DEF gf256mat_prod_neon, gf256mat_prod_multab_neon

LEMMA ProductsPlan ==
  ASSUME NEW L \in Nat, NEW n \in Nat, n > 0, NEW f \in DOMAIN Products(L, n), Supported(f, L, n)
  PROVE  Plan(Products(L, n)[f], L, n)
<1> DEFINE ps == Products(L, n)
<1>1. /\ Plan(ps["gf16mat_prod_ref"], L, n) /\ Plan(ps["gf256mat_prod_ref"], L, n)
  BY RefPlan DEF Products
<1>2. /\ Plan(ps["gf16mat_prod_sse"], L, n) /\ Plan(ps["gf16mat_prod_multab_sse"], L, n)
      /\ Plan(ps["gf256mat_prod_sse"], L, n) /\ Plan(ps["gf256mat_prod_multab_sse"], L, n)
  BY SsePlan DEF Products, gf16mat_prod_multab_sse, gf256mat_prod_multab_sse
<1>3. /\ n <= NV => Plan(ps["gf16mat_prod_avx2"], L, n)
      /\ Plan(ps["gf16mat_prod_multab_avx2"], L, n)
  BY Avx2Gf16Plan DEF Products
<1>4. L >= XMM => Plan(ps["gf256mat_prod_avx2"], L, n) /\ Plan(ps["gf256mat_prod_multab_avx2"], L, n)
  BY Avx2Gf256Plan DEF Products
<1>5. /\ n <= NV => Plan(ps["gf16mat_prod_gfni"], L, n)
      /\ Plan(ps["gf16mat_prod_multab_gfni"], L, n)
  BY GfniGf16Plan DEF Products
<1>6. n > 1 => Plan(ps["gf256mat_prod_gfni"], L, n)
  BY GfniPlan DEF Products
<1>7. L >= XMM => Plan(ps["gf16mat_prod_neon"], L, n) /\ Plan(ps["gf16mat_prod_multab_neon"], L, n)
  BY NeonGf16Plan DEF Products
<1>8. 2*L >= XMM => Plan(ps["gf256mat_prod_neon"], L, n) /\ Plan(ps["gf256mat_prod_multab_neon"], L, n)
  BY NeonGf256Plan DEF Products
<1>9. f \in {"gf16mat_prod_ref", "gf256mat_prod_ref", "gf16mat_prod_sse", "gf16mat_prod_multab_sse",
             "gf256mat_prod_sse", "gf256mat_prod_multab_sse", "gf16mat_prod_avx2",
             "gf16mat_prod_multab_avx2", "gf256mat_prod_avx2", "gf256mat_prod_multab_avx2",
             "gf16mat_prod_gfni", "gf16mat_prod_multab_gfni", "gf256mat_prod_gfni",
             "gf16mat_prod_neon", "gf16mat_prod_multab_neon", "gf256mat_prod_neon",
             "gf256mat_prod_multab_neon"}
  BY DEF Products
<1> HIDE DEF ps
<1>10. Plan(ps[f], L, n)
  BY <1>1, <1>2, <1>3, <1>4, <1>5, <1>6, <1>7, <1>8, <1>9 DEF Supported
<1>11. QED
  BY <1>10 DEF ps

-----------------------------------------------------------------------------
(* One kernel call.                                                        *)

(* What the columns in S add to the byte at i.                             *)
MatTerms(i, L, S) == {<<k*L + i, k>> : k \in S}

LEMMA SumIs ==
  ASSUME NEW L, NEW n \in Nat, NEW r, RegOK(r, L), NEW cols, ColsOK(cols, n), NEW i \in Stored(r)
  PROVE  Sum(r, cols, i, L) = MatTerms(i, L, ColSet(cols))
<1>1. /\ r.off \in Nat /\ r.load \in Nat /\ r.last \in Nat /\ r.store \in Nat
      /\ r.store <= r.load /\ r.store <= r.last
  BY DEF RegOK, RegType
<1>2. i \in Nat /\ i - r.off < r.load /\ i - r.off < r.last
  BY <1>1 DEF Stored
<1>3. cols.first \in Nat /\ cols.n \in Nat /\ cols.base = cols.first /\ cols.valid = cols.n
  BY DEF ColsOK, ColType
<1>4. ASSUME NEW k \in ColSet(cols) PROVE Term(r, cols, k, i, L) = <<k*L + i, k>>
  <2>1. k \in Nat /\ k - cols.first < cols.valid
    BY <1>3 DEF ColSet, LastColumn
  <2>2. cols.base + k - cols.first = k
    BY <1>3, <2>1
  <2>3. i - r.off < Loaded(r, cols, k)
    BY <1>2 DEF Loaded
  <2>4. QED
    BY <2>1, <2>2, <2>3 DEF Term
<1>5. Sum(r, cols, i, L) = {Term(r, cols, k, i, L) : k \in ColSet(cols)}
  BY DEF Sum, ColSet
<1>6. QED
  BY <1>4, <1>5 DEF MatTerms

(* A byte that a call stores gets its term from each of the call's columns.*)
LEMMA StoreIs ==
  ASSUME NEW L, NEW n \in Nat, NEW m, CallOK(m, L, n), NEW d, NEW i \in DOMAIN d
  PROVE  Store(m, L, d)[i] =
           IF i \notin Hit(m.regs) THEN d[i]
           ELSE IF m.add THEN Xor(d[i], MatTerms(i, L, ColSet(m.cols)))
           ELSE MatTerms(i, L, ColSet(m.cols))
<1> DEFINE hit == {r \in ToSet(m.regs) : i \in Stored(r)}
           r == CHOOSE r \in hit : \A q \in hit : q.off <= r.off
           s == Sum(r, m.cols, i, L)
<1>1. /\ \A x \in ToSet(m.regs) : RegOK(x, L)
      /\ ColsOK(m.cols, n)
  BY DEF CallOK
<1>2. Store(m, L, d)[i] = IF hit = {} THEN d[i] ELSE IF m.add THEN Xor(d[i], s) ELSE s
  BY DEF Store, Stored
<1>3. i \in Hit(m.regs) <=> hit # {}
  BY DEF Hit
<1>4. ASSUME hit # {} PROVE s = MatTerms(i, L, ColSet(m.cols))
  <2>1. \A x \in hit : RegOK(x, L) /\ i \in Stored(x)
    BY <1>1
  <2>2. \A x \in hit : x.off \in Nat /\ i \in Nat /\ x.off <= i
    <3> TAKE x \in hit
    <3>1. x.off \in Nat /\ x.store \in Nat /\ i \in Stored(x)
      BY <2>1 DEF RegOK, RegType
    <3>2. QED
      BY <3>1 DEF Stored
  <2> HIDE DEF hit
  <2>3. \E x \in hit : \A q \in hit : q.off <= x.off
    <3> DEFINE offs == {x.off : x \in hit}
    <3>1. i \in Nat
      BY <1>4, <2>2
    <3>2. offs \in SUBSET Nat /\ (\A o \in offs : o <= i) /\ offs # {}
      BY <1>4, <2>2
    <3> HIDE DEF offs
    <3>3. PICK o \in offs : \A z \in offs : z <= o
      BY <3>1, <3>2, HasLargest
    <3>4. PICK x \in hit : x.off = o
      BY DEF offs
    <3>5. \A q \in hit : q.off \in offs
      BY DEF offs
    <3>6. QED
      BY <3>3, <3>4, <3>5
  <2>4. r \in hit
    BY <2>3
  <2> HIDE DEF r
  <2>5. QED
    BY <1>1, <2>1, <2>4, SumIs
<1> HIDE DEF hit, s
<1>5. CASE hit = {}
  BY <1>2, <1>3, <1>5
<1>6. CASE hit # {}
  <2>1. s = MatTerms(i, L, ColSet(m.cols))
    BY <1>4, <1>6
  <2>2. QED
    BY <1>2, <1>3, <1>6, <2>1
<1>7. QED
  BY <1>5, <1>6

(* A call reads nothing behind the last column.                            *)
LEMMA ReadsInside ==
  ASSUME NEW L \in Nat, NEW n \in Nat, NEW m, CallOK(m, L, n), NEW d \in ReadEnds(m, L)
  PROVE  d \in Nat /\ d <= L*n
<1>1. PICK k \in ColSet(m.cols), r \in ToSet(m.regs) : d = k*L + r.off + Loaded(r, m.cols, k)
  BY DEF ReadEnds, ColSet
<1>2. /\ r.off \in Nat /\ r.load \in Nat /\ r.last \in Nat
      /\ r.off + r.last <= L /\ r.off + r.load <= 2*L
  BY DEF CallOK, RegOK, RegType
<1>3. /\ m.cols.first \in Nat /\ m.cols.n \in Nat /\ m.cols.first + m.cols.n <= n
  BY DEF CallOK, ColsOK, ColType
<1>4. k \in Nat /\ k <= LastColumn(m.cols) /\ LastColumn(m.cols) < n /\ LastColumn(m.cols) \in Int
  BY <1>3 DEF ColSet, LastColumn
<1>5. k*L \in Nat
  BY <1>4, SMT
<1>6. CASE k = LastColumn(m.cols)
  <2>1. d = k*L + r.off + r.last
    BY <1>1, <1>6 DEF Loaded
  <2>2. n - k - 1 \in Nat /\ L*n = k*L + L + L*(n - k - 1)
    BY <1>4, <1>6
  <2>3. L*(n - k - 1) \in Nat
    BY <2>2
  <2>4. QED
    BY <1>2, <1>5, <2>1, <2>2, <2>3
<1>7. CASE k # LastColumn(m.cols)
  <2>1. d = k*L + r.off + r.load
    BY <1>1, <1>7 DEF Loaded
  <2>2. n - k - 2 \in Nat /\ L*n = k*L + 2*L + L*(n - k - 2)
    BY <1>4, <1>7
  <2>3. L*(n - k - 2) \in Nat
    BY <2>2
  <2>4. QED
    BY <1>2, <1>5, <2>1, <2>2, <2>3
<1>8. QED
  BY <1>6, <1>7

-----------------------------------------------------------------------------
(* The calls that are left.                                                *)

(* A call that is left will store the byte at i, for the first time, or    *)
(* from column k.                                                          *)
Unwritten(s, i) == \E p \in 1 .. Len(s) : i \in Hit(s[p].regs) /\ ~s[p].add
Awaited(s, i, k) == \E p \in 1 .. Len(s) : i \in Hit(s[p].regs) /\ k \in ColSet(s[p].cols)

(* A byte of the result is not written yet, and all its columns are to     *)
(* come, or it has the terms of exactly the columns that are not to come.  *)
MatRuns ==
  LET L == shape[1]  n == shape[2] IN
  /\ L \in Nat /\ n \in Nat
  /\ calls \in Seq(CallType)
  /\ \A p \in 1 .. Len(calls) : CallOK(calls[p], L, n)
  /\ \A i \in 0 .. L-1, p \in 1 .. Len(calls), q \in 1 .. Len(calls) :
       p < q /\ i \in Hit(calls[p].regs) /\ i \in Hit(calls[q].regs)
         => calls[q].add /\ ColSet(calls[p].cols) \cap ColSet(calls[q].cols) = {}
  /\ DOMAIN c = 0 .. L + 2*YMM - 1
  /\ \A i \in DOMAIN c : ~(i < L) => c[i] = Whatever
  /\ \A i \in 0 .. L-1 :
       IF Unwritten(calls, i) THEN \A k \in 0 .. n-1 : Awaited(calls, i, k)
       ELSE c[i] = MatTerms(i, L, {k \in 0 .. n-1 : ~Awaited(calls, i, k)})
  /\ end \in Nat /\ end <= L*n

MatInv == IF mf = "none" THEN MatIdle ELSE MatRuns

LEMMA MatInitInv == MatInit => MatInv
<1> SUFFICES ASSUME MatInit PROVE MatInv
  OBVIOUS
<1> DEFINE L == shape[1]
           n == shape[2]
<1>1. L \in Nat /\ n \in Nat /\ n > 0 /\ end = 0 /\ c = [i \in 0 .. L + 2*YMM - 1 |-> Whatever]
  BY MatrixAssumption DEF MatInit
<1>2. mf \in DOMAIN Products(L, n) /\ Supported(mf, L, n) /\ calls = Products(L, n)[mf]
  BY DEF MatInit
<1>3. mf # "none"
  BY <1>2 DEF Products
<1> HIDE DEF L, n
<1>4. Plan(calls, L, n)
  BY <1>1, <1>2, ProductsPlan
<1>5. \A i \in 0 .. L-1 : Unwritten(calls, i) /\ \A k \in 0 .. n-1 : Awaited(calls, i, k)
  BY <1>4 DEF Plan, Unwritten, Awaited
<1>6. end \in Nat /\ end <= L*n
  <2>1. L*n \in Nat
    BY <1>1, SMT
  <2>2. QED
    BY <1>1, <2>1
<1>7. DOMAIN c = 0 .. L + 2*YMM - 1 /\ \A i \in DOMAIN c : c[i] = Whatever
  BY <1>1
<1>8. MatRuns
  BY <1>1, <1>4, <1>5, <1>6, <1>7 DEF MatRuns, Plan, L, n
<1>9. QED
  BY <1>3, <1>8 DEF MatInv

LEMMA MatStepInv == MatInv /\ MatStep => MatInv'
<1> SUFFICES ASSUME MatInv, MatStep PROVE MatInv'
  OBVIOUS
<1> DEFINE L == shape[1]
           n == shape[2]
           m == Head(calls)
           rest == Tail(calls)
<1>1. MatRuns /\ mf # "none" /\ mf' = mf /\ shape' = shape /\ calls # << >> /\ calls' = rest
  BY DEF MatInv, MatStep
<1>2. /\ c' = Store(m, L, c)
      /\ end' = CHOOSE e \in ReadEnds(m, L) \cup {end} : \A d \in ReadEnds(m, L) \cup {end} : d <= e
  BY DEF MatStep
<1>3. /\ L \in Nat /\ n \in Nat
      /\ calls \in Seq(CallType)
      /\ \A p \in 1 .. Len(calls) : CallOK(calls[p], L, n)
      /\ DOMAIN c = 0 .. L + 2*YMM - 1
      /\ \A i \in DOMAIN c : ~(i < L) => c[i] = Whatever
      /\ end \in Nat /\ end <= L*n
  BY <1>1 DEF MatRuns
<1>4. \A i \in 0 .. L-1, p \in 1 .. Len(calls), q \in 1 .. Len(calls) :
        p < q /\ i \in Hit(calls[p].regs) /\ i \in Hit(calls[q].regs)
          => calls[q].add /\ ColSet(calls[p].cols) \cap ColSet(calls[q].cols) = {}
  BY <1>1 DEF MatRuns
<1>5. \A i \in 0 .. L-1 :
        IF Unwritten(calls, i) THEN \A k \in 0 .. n-1 : Awaited(calls, i, k)
        ELSE c[i] = MatTerms(i, L, {k \in 0 .. n-1 : ~Awaited(calls, i, k)})
  BY <1>1 DEF MatRuns
<1>6. /\ rest \in Seq(CallType) /\ m = calls[1] /\ 1 \in 1 .. Len(calls)
      /\ Len(rest) \in Nat /\ Len(calls) = Len(rest) + 1
      /\ \A k \in 1 .. Len(rest) : k+1 \in 1 .. Len(calls) /\ rest[k] = calls[k+1]
  <2>1. /\ rest \in Seq(CallType) /\ Len(calls) \in Nat /\ Len(calls) >= 1 /\ Len(rest) = Len(calls) - 1
        /\ \A k \in 1 .. Len(rest) : rest[k] = calls[k+1]
    BY <1>1, <1>3, HeadTailProperties, LenProperties, EmptySeq
  <2>2. m = calls[1]
    BY <1>1, <1>3, HeadTailProperties
  <2> HIDE DEF m, rest
  <2>3. QED
    BY <2>1, <2>2
<1> HIDE DEF L, n, m, rest
<1>7. \A p \in 1 .. Len(calls) : p = 1 \/ (p-1 \in 1 .. Len(rest) /\ rest[p-1] = calls[p])
  <2>1. \A p \in 1 .. Len(calls) : p = 1 \/ (p-1 \in 1 .. Len(rest) /\ (p-1)+1 = p)
    BY <1>6
  <2>2. QED
    BY <1>6, <2>1
<1>8. CallOK(m, L, n) /\ \A p \in 1 .. Len(rest) : CallOK(rest[p], L, n)
  BY <1>3, <1>6
<1>9. \A i \in 0 .. L-1, p \in 1 .. Len(rest) :
        i \in Hit(m.regs) /\ i \in Hit(rest[p].regs)
          => rest[p].add /\ ColSet(m.cols) \cap ColSet(rest[p].cols) = {}
  <2> TAKE i \in 0 .. L-1, p \in 1 .. Len(rest)
  <2>1. p+1 \in 1 .. Len(calls) /\ 1 < p+1 /\ rest[p] = calls[p+1]
    BY <1>6
  <2>2. QED
    BY <1>4, <1>6, <2>1
<1>10. \A i \in 0 .. L-1, p \in 1 .. Len(rest), q \in 1 .. Len(rest) :
         p < q /\ i \in Hit(rest[p].regs) /\ i \in Hit(rest[q].regs)
           => rest[q].add /\ ColSet(rest[p].cols) \cap ColSet(rest[q].cols) = {}
  <2> TAKE i \in 0 .. L-1, p \in 1 .. Len(rest), q \in 1 .. Len(rest)
  <2>1. /\ p+1 \in 1 .. Len(calls) /\ q+1 \in 1 .. Len(calls) /\ (p < q => p+1 < q+1)
        /\ rest[p] = calls[p+1] /\ rest[q] = calls[q+1]
    BY <1>6
  <2>2. QED
    BY <1>4, <2>1
<1>11. \A i : Unwritten(calls, i) <=> ((i \in Hit(m.regs) /\ ~m.add) \/ Unwritten(rest, i))
  BY <1>6, <1>7 DEF Unwritten
<1>12. \A i, k : Awaited(calls, i, k) <=> ((i \in Hit(m.regs) /\ k \in ColSet(m.cols)) \/ Awaited(rest, i, k))
  BY <1>6, <1>7 DEF Awaited
<1>13. Hit(m.regs) \subseteq 0 .. L-1
  <2>1. ASSUME NEW r \in ToSet(m.regs) PROVE Stored(r) \subseteq 0 .. L-1
    <3>1. r.off \in Nat /\ r.store \in Nat /\ r.off + r.store <= L
      BY <1>8 DEF CallOK, RegOK, RegType
    <3>2. QED
      BY <1>3, <3>1 DEF Stored
  <2>2. QED
    BY <2>1 DEF Hit
<1>14. ColSet(m.cols) \subseteq 0 .. n-1
  <2>1. m.cols.first \in Nat /\ m.cols.n \in Nat /\ m.cols.first + m.cols.n <= n
    BY <1>8 DEF CallOK, ColsOK, ColType
  <2>2. QED
    BY <1>3, <2>1 DEF ColSet, LastColumn
<1>15. DOMAIN c' = DOMAIN c
  BY <1>2 DEF Store
<1>16. \A i \in DOMAIN c :
         c'[i] = IF i \notin Hit(m.regs) THEN c[i]
                 ELSE IF m.add THEN Xor(c[i], MatTerms(i, L, ColSet(m.cols)))
                 ELSE MatTerms(i, L, ColSet(m.cols))
  BY <1>2, <1>3, <1>8, StoreIs
<1>17. \A i \in DOMAIN c' : ~(i < L) => c'[i] = Whatever
  <2> SUFFICES ASSUME NEW i \in DOMAIN c, ~(i < L) PROVE c'[i] = Whatever
    BY <1>15
  <2>1. i \notin Hit(m.regs)
    BY <1>3, <1>13
  <2>2. QED
    BY <1>3, <1>16, <2>1
<1>18. \A i \in 0 .. L-1 :
         IF Unwritten(rest, i) THEN \A k \in 0 .. n-1 : Awaited(rest, i, k)
         ELSE c'[i] = MatTerms(i, L, {k \in 0 .. n-1 : ~Awaited(rest, i, k)})
  <2> TAKE i \in 0 .. L-1
  <2>1. i \in DOMAIN c
    BY <1>3, WidthFacts
  <2>2. CASE i \notin Hit(m.regs)
    <3>1. Unwritten(rest, i) <=> Unwritten(calls, i)
      BY <1>11, <2>2
    <3>2. \A k : Awaited(rest, i, k) <=> Awaited(calls, i, k)
      BY <1>12, <2>2
    <3>3. c'[i] = c[i]
      BY <1>16, <2>1, <2>2
    <3>4. {k \in 0 .. n-1 : ~Awaited(rest, i, k)} = {k \in 0 .. n-1 : ~Awaited(calls, i, k)}
      BY <3>2
    <3>5. CASE Unwritten(calls, i)
      BY <1>5, <3>1, <3>2, <3>5
    <3>6. CASE ~Unwritten(calls, i)
      BY <1>5, <3>1, <3>3, <3>4, <3>6
    <3>7. QED
      BY <3>5, <3>6
  <2>3. CASE i \in Hit(m.regs)
    <3> DEFINE K == ColSet(m.cols)
               now == {k \in 0 .. n-1 : ~Awaited(calls, i, k)}
               then == {k \in 0 .. n-1 : ~Awaited(rest, i, k)}
    <3>1. ~Unwritten(rest, i)
      BY <1>9, <2>3 DEF Unwritten
    <3>2. \A k \in K : k \in 0 .. n-1 /\ Awaited(calls, i, k) /\ ~Awaited(rest, i, k)
      <4>1. \A k \in K : ~Awaited(rest, i, k)
        BY <1>9, <2>3 DEF Awaited
      <4>2. QED
        BY <1>12, <1>14, <2>3, <4>1
    <3>3. \A k : k \notin K => (Awaited(rest, i, k) <=> Awaited(calls, i, k))
      BY <1>12
    <3>4. then = now \cup K /\ now \cap K = {}
      BY <3>2, <3>3
    <3>5. c'[i] = MatTerms(i, L, then)
      <4>1. CASE m.add
        <5>1. ~Unwritten(calls, i)
          BY <1>11, <3>1, <4>1
        <5>2. c[i] = MatTerms(i, L, now)
          BY <1>5, <5>1
        <5>3. c'[i] = Xor(MatTerms(i, L, now), MatTerms(i, L, K))
          BY <1>16, <2>1, <2>3, <4>1, <5>2
        <5> HIDE DEF now, K, then
        <5>4. MatTerms(i, L, now) \cap MatTerms(i, L, K) = {}
          BY <3>4 DEF MatTerms
        <5>5. MatTerms(i, L, then) = MatTerms(i, L, now) \cup MatTerms(i, L, K)
          BY <3>4 DEF MatTerms
        <5>6. QED
          BY <5>3, <5>4, <5>5 DEF Xor
      <4>2. CASE ~m.add
        <5>1. Unwritten(calls, i)
          BY <1>11, <2>3, <4>2
        <5>2. now = {}
          BY <1>5, <5>1
        <5>3. c'[i] = MatTerms(i, L, K)
          BY <1>16, <2>1, <2>3, <4>2
        <5>4. then = K
          BY <3>4, <5>2
        <5> HIDE DEF then, K
        <5>5. QED
          BY <5>3, <5>4
      <4>3. QED
        BY <4>1, <4>2
    <3>6. QED
      BY <3>1, <3>5
  <2>4. QED
    BY <2>2, <2>3
<1>19. end' \in Nat /\ end' <= L*n
  <2> DEFINE E == ReadEnds(m, L) \cup {end}
             b == L*n
  <2>1. b \in Nat
    BY <1>3, SMT
  <2>2. \A d \in ReadEnds(m, L) : d \in Nat /\ d <= L*n
    BY <1>3, <1>8, ReadsInside
  <2>3. E \in SUBSET Nat /\ E # {} /\ \A d \in E : d <= b
    BY <1>3, <2>2
  <2>4. end' = CHOOSE e \in E : \A d \in E : d <= e
    BY <1>2
  <2> HIDE DEF E, b
  <2>5. \E e \in E : \A d \in E : d <= e
    BY <2>1, <2>3, HasLargest
  <2>6. end' \in E
    BY <2>4, <2>5
  <2>7. QED
    BY <2>3, <2>6 DEF b
<1>20. MatRuns'
  <2>1. shape'[1] = L /\ shape'[2] = n
    BY <1>1 DEF L, n
  <2>2. shape'[1] \in Nat /\ shape'[2] \in Nat /\ calls' \in Seq(CallType)
    BY <1>1, <1>3, <1>6, <2>1
  <2>3. \A p \in 1 .. Len(calls') : CallOK(calls'[p], shape'[1], shape'[2])
    BY <1>1, <1>8, <2>1
  <2>4. \A i \in 0 .. shape'[1] - 1, p \in 1 .. Len(calls'), q \in 1 .. Len(calls') :
          p < q /\ i \in Hit(calls'[p].regs) /\ i \in Hit(calls'[q].regs)
            => calls'[q].add /\ ColSet(calls'[p].cols) \cap ColSet(calls'[q].cols) = {}
    BY <1>1, <1>10, <2>1
  <2>5. DOMAIN c' = 0 .. shape'[1] + 2*YMM - 1
    BY <1>3, <1>15, <2>1
  <2>6. \A i \in DOMAIN c' : ~(i < shape'[1]) => c'[i] = Whatever
    BY <1>17, <2>1
  <2>7. \A i \in 0 .. shape'[1] - 1 :
          IF Unwritten(calls', i) THEN \A k \in 0 .. shape'[2] - 1 : Awaited(calls', i, k)
          ELSE c'[i] = MatTerms(i, shape'[1], {k \in 0 .. shape'[2] - 1 : ~Awaited(calls', i, k)})
    BY <1>1, <1>18, <2>1
  <2>8. end' \in Nat /\ end' <= shape'[1] * shape'[2]
    BY <1>19, <2>1
  <2>9. QED
    BY <2>2, <2>3, <2>4, <2>5, <2>6, <2>7, <2>8 DEF MatRuns
<1>21. QED
  BY <1>1, <1>20 DEF MatInv

LEMMA MatInductive == Spec => []MatInv
<1>1. Init => MatInv
  <2>1. MatIdle => MatInv
    BY DEF MatInv, MatIdle
  <2>2. Init => MatInit \/ MatIdle
    BY DEF Init
  <2>3. QED
    BY <2>1, <2>2, MatInitInv
<1>2. MatInv /\ [Next]_vars => MatInv'
  <2> SUFFICES ASSUME MatInv, [Next]_vars PROVE MatInv'
    OBVIOUS
  <2>1. MatStep \/ UNCHANGED mat_vars
    BY DEF Next, vars
  <2>2. CASE UNCHANGED mat_vars
    BY <2>2 DEF MatInv, MatIdle, MatRuns, mat_vars
  <2>3. QED
    BY <2>1, <2>2, MatStepInv
<1>3. QED
  BY <1>1, <1>2, PTL DEF Spec

(* Every matrix product of every backend, for every shape it is written    *)
(* for and registers, chunks and blocks of any size, adds every byte of    *)
(* the matrix, multiplied by the element of its column, into the byte of   *)
(* its row exactly once, and changes nothing behind the result.            *)
THEOREM MatrixProductsRight == Spec => []ProductRight
<1>1. MatInv => ProductRight
  <2> SUFFICES ASSUME MatInv, calls = << >>, NEW i \in DOMAIN c
               PROVE  c[i] = IF i < shape[1] THEN {<<k*shape[1] + i, k>> : k \in 0 .. shape[2] - 1}
                             ELSE Whatever
    BY DEF ProductRight
  <2>1. CASE mf = "none"
    BY <2>1 DEF MatInv, MatIdle
  <2>2. CASE mf # "none"
    <3> DEFINE L == shape[1]
               n == shape[2]
    <3>1. MatRuns /\ Len(calls) = 0 /\ 1 .. 0 = {}
      BY <2>2 DEF MatInv
    <3>2. ~Unwritten(calls, i) /\ \A k : ~Awaited(calls, i, k)
      BY <3>1 DEF Unwritten, Awaited
    <3>3. /\ L \in Nat /\ i \in 0 .. L + 2*YMM - 1
          /\ ~(i < L) => c[i] = Whatever
          /\ i \in 0 .. L-1 => c[i] = MatTerms(i, L, {k \in 0 .. n-1 : ~Awaited(calls, i, k)})
      BY <3>1, <3>2 DEF MatRuns
    <3>4. {k \in 0 .. n-1 : ~Awaited(calls, i, k)} = 0 .. n-1
      BY <3>2
    <3> HIDE DEF L, n
    <3>5. i < L => c[i] = MatTerms(i, L, 0 .. n-1)
      <4>1. i < L => i \in 0 .. L-1
        BY <3>3, WidthFacts
      <4>2. QED
        BY <3>3, <3>4, <4>1
    <3>6. c[i] = IF i < L THEN {<<k*L + i, k>> : k \in 0 .. n - 1} ELSE Whatever
      BY <3>3, <3>5 DEF MatTerms
    <3>7. QED
      BY <3>6 DEF L, n
  <2>3. QED
    BY <2>1, <2>2
<1>2. QED
  BY <1>1, MatInductive, PTL

(* And it reads no byte behind the matrix, although registers reach into   *)
(* the next column.                                                        *)
THEOREM MatrixProductsReadInside == Spec => []ProductReadsInBounds
<1>1. MatInv => ProductReadsInBounds
  <2> SUFFICES ASSUME MatInv PROVE end <= shape[1] * shape[2]
    BY DEF ProductReadsInBounds
  <2>1. CASE mf = "none"
    BY <2>1 DEF MatInv, MatIdle
  <2>2. CASE mf # "none"
    BY <2>2 DEF MatInv, MatRuns
  <2>3. QED
    BY <2>1, <2>2
<1>2. QED
  BY <1>1, MatInductive, PTL

-----------------------------------------------------------------------------
(* Triangles.                                                              *)

(* Where row i begins.                                                     *)
RowStart(i, n) == ((n + n - i + 1) * i) \div 2

LEMMA IdxIs ==
  ASSUME NEW i, NEW j, NEW n
  PROVE  idx_of_trimat(i, j, n) = RowStart(i, n) + j - i
BY DEF idx_of_trimat, RowStart

LEMMA RowStartNext ==
  ASSUME NEW n \in Nat
  PROVE  /\ RowStart(0, n) = 0
         /\ \A i \in 0 .. n : RowStart(i, n) \in Nat
         /\ \A i \in 0 .. n-1 : RowStart(i + 1, n) = RowStart(i, n) + n - i
<1>1. RowStart(0, n) = 0
  <2>1. (n + n - 0 + 1) * 0 = 0
    OBVIOUS
  <2>2. 0 \div 2 = 0
    OBVIOUS
  <2>3. QED
    BY <2>1, <2>2 DEF RowStart
<1>2. ASSUME NEW i \in 0 .. n PROVE RowStart(i, n) \in Nat
  <2> DEFINE u == (n + n - i + 1) * i
  <2>1. u \in Nat
    <3>1. n + n - i + 1 \in Nat /\ i \in Nat
      OBVIOUS
    <3>2. QED
      BY <3>1, SMT
  <2> HIDE DEF u
  <2>2. u \div 2 \in Nat
    BY <2>1
  <2>3. QED
    BY <2>2 DEF RowStart, u
<1>3. ASSUME NEW i \in 0 .. n-1 PROVE RowStart(i + 1, n) = RowStart(i, n) + n - i
  <2> DEFINE u == (n + n - i + 1) * i
             v == (n + n - (i + 1) + 1) * (i + 1)
             q == u \div 2
             r == u % 2
  <2>1. u \in Nat
    <3>1. n + n - i + 1 \in Nat /\ i \in Nat
      OBVIOUS
    <3>2. QED
      BY <3>1, SMT
  <2>2. v = u + 2*(n - i)
    OBVIOUS
  <2> HIDE DEF u, v
  <2>3. q \in Nat /\ r \in 0 .. 1 /\ u = 2*q + r
    <3>1. u \div 2 \in Nat /\ u % 2 \in 0 .. 2-1 /\ u = 2*(u \div 2) + (u % 2)
      BY <2>1, DivMod
    <3>2. QED
      BY <3>1
  <2>4. RowStart(i, n) = q
    BY DEF RowStart, u
  <2> HIDE DEF q, r
  <2> DEFINE z == q + n - i
  <2>5. z \in Nat /\ v = 2*z + r /\ r \in 0 .. 2-1
    BY <2>2, <2>3
  <2> HIDE DEF z
  <2>6. (2*z + r) \div 2 = z
    BY <2>5, DivUnique
  <2>7. v \div 2 = z
    BY <2>5, <2>6
  <2>8. RowStart(i + 1, n) = v \div 2
    BY DEF RowStart, v
  <2>9. QED
    BY <2>4, <2>7, <2>8 DEF z
<1>4. QED
  BY <1>1, <1>2, <1>3

LEMMA RowStarts ==
  ASSUME NEW n \in Nat, NEW i \in 0 .. n, NEW j \in 0 .. n, i < j
  PROVE  RowStart(i, n) + n - i <= RowStart(j, n)
<1> DEFINE T == {d \in Nat : i + d + 1 <= n => RowStart(i, n) + n - i <= RowStart(i + d + 1, n)}
<1>1. 0 \in T
  <2>1. i + 0 + 1 <= n => i \in 0 .. n-1 /\ i + 0 + 1 = i + 1
    OBVIOUS
  <2>2. \A k \in 0 .. n : RowStart(k, n) \in Nat
    BY RowStartNext
  <2>3. i + 0 + 1 <= n => RowStart(i + 0 + 1, n) = RowStart(i, n) + n - i
    BY <2>1, RowStartNext
  <2>4. QED
    BY <2>2, <2>3
<1>2. ASSUME NEW d \in Nat, d \in T PROVE d + 1 \in T
  <2> SUFFICES ASSUME i + (d + 1) + 1 <= n
               PROVE  RowStart(i, n) + n - i <= RowStart(i + (d + 1) + 1, n)
    OBVIOUS
  <2> DEFINE k == i + d + 1
  <2>1. k \in 0 .. n-1 /\ k \in 0 .. n /\ k + 1 \in 0 .. n /\ k + 1 = i + (d + 1) + 1 /\ i + d + 1 <= n
    OBVIOUS
  <2>2. RowStart(i, n) + n - i <= RowStart(k, n)
    BY <1>2, <2>1
  <2> HIDE DEF k
  <2>3. RowStart(k + 1, n) = RowStart(k, n) + n - k
    BY <2>1, RowStartNext
  <2>4. RowStart(k, n) \in Nat /\ RowStart(i, n) \in Nat
    BY <2>1, RowStartNext
  <2>5. RowStart(i, n) + n - i <= RowStart(k + 1, n)
    BY <2>1, <2>2, <2>3, <2>4
  <2>6. QED
    BY <2>1, <2>5
<1> HIDE DEF T
<1>3. Nat \subseteq T
  BY <1>1, <1>2, NatSetInduction
<1> DEFINE d == j - i - 1
<1>4. d \in Nat /\ i + d + 1 = j /\ i + d + 1 <= n
  OBVIOUS
<1> HIDE DEF d
<1>5. d \in T
  BY <1>3, <1>4
<1>6. QED
  BY <1>4, <1>5 DEF T

LEMMA IdxNat ==
  ASSUME NEW n \in Nat, NEW i \in 0 .. n-1, NEW j \in i .. n-1
  PROVE  /\ idx_of_trimat(i, j, n) \in Nat
         /\ RowStart(i, n) <= idx_of_trimat(i, j, n)
         /\ idx_of_trimat(i, j, n) < RowStart(i, n) + n - i
         /\ idx_of_trimat(i, j, n) < RowStart(n, n)
<1>1. RowStart(i, n) \in Nat /\ RowStart(n, n) \in Nat
  BY RowStartNext
<1>2. RowStart(i, n) + n - i <= RowStart(n, n)
  <2>1. i \in 0 .. n /\ n \in 0 .. n /\ i < n
    OBVIOUS
  <2>2. QED
    BY <2>1, RowStarts
<1>3. idx_of_trimat(i, j, n) = RowStart(i, n) + j - i
  BY IdxIs
<1> DEFINE s == RowStart(i, n)
           t == RowStart(n, n)
<1> HIDE DEF s, t
<1>4. s \in Nat /\ t \in Nat /\ s + n - i <= t
  BY <1>1, <1>2 DEF s, t
<1>5. s + j - i \in Nat /\ s <= s + j - i /\ s + j - i < s + n - i /\ s + j - i < t
  BY <1>4
<1>6. QED
  BY <1>3, <1>5 DEF s, t

LEMMA IdxUnique ==
  ASSUME NEW n \in Nat, NEW p \in 0 .. n-1, NEW q \in p .. n-1, NEW r \in 0 .. n-1, NEW t \in r .. n-1,
         idx_of_trimat(p, q, n) = idx_of_trimat(r, t, n)
  PROVE  p = r /\ q = t
<1>1. ASSUME NEW i \in 0 .. n-1, NEW j \in i .. n-1, NEW k \in 0 .. n-1, NEW l \in k .. n-1, i < k
      PROVE  idx_of_trimat(i, j, n) < idx_of_trimat(k, l, n)
  <2> DEFINE a == RowStart(i, n)
             b == RowStart(k, n)
             x == idx_of_trimat(i, j, n)
             y == idx_of_trimat(k, l, n)
  <2>1. x \in Nat /\ y \in Nat /\ x < a + n - i /\ b <= y
    BY IdxNat
  <2>2. a + n - i <= b
    <3>1. i \in 0 .. n /\ k \in 0 .. n
      OBVIOUS
    <3>2. QED
      BY <1>1, <3>1, RowStarts
  <2>3. a \in Nat /\ b \in Nat
    BY RowStartNext
  <2> HIDE DEF a, b, x, y
  <2>4. x < y
    BY <2>1, <2>2, <2>3
  <2>5. QED
    BY <2>4 DEF x, y
<1>2. idx_of_trimat(p, q, n) \in Nat /\ idx_of_trimat(r, t, n) \in Nat
  BY IdxNat
<1>3. ~(p < r) /\ ~(r < p)
  BY <1>1, <1>2
<1>4. p = r
  BY <1>3
<1>5. idx_of_trimat(p, q, n) = RowStart(p, n) + q - p /\ idx_of_trimat(r, t, n) = RowStart(r, n) + t - r
  BY IdxIs
<1>6. RowStart(p, n) \in Nat
  BY RowStartNext
<1>7. q = t
  BY <1>4, <1>5, <1>6
<1>8. QED
  BY <1>4, <1>7

LEMMA IdxCovers ==
  ASSUME NEW n \in Nat, NEW a \in Nat, a < RowStart(n, n)
  PROVE  \E p \in 0 .. n-1 : \E q \in p .. n-1 : idx_of_trimat(p, q, n) = a
<1> DEFINE T == {m \in Nat : m <= n => \A x \in Nat :
                   x < RowStart(m, n) => \E p \in 0 .. n-1 : \E q \in p .. n-1 : idx_of_trimat(p, q, n) = x}
<1>1. 0 \in T
  <2>1. RowStart(0, n) = 0
    BY RowStartNext
  <2>2. \A x \in Nat : ~(x < 0)
    OBVIOUS
  <2>3. QED
    BY <2>1, <2>2
<1>2. ASSUME NEW m \in Nat, m \in T PROVE m + 1 \in T
  <2> SUFFICES ASSUME m + 1 <= n, NEW x \in Nat, x < RowStart(m + 1, n)
               PROVE  \E p \in 0 .. n-1 : \E q \in p .. n-1 : idx_of_trimat(p, q, n) = x
    OBVIOUS
  <2> DEFINE s == RowStart(m, n)
  <2>1. m \in 0 .. n-1 /\ m <= n
    OBVIOUS
  <2>2. RowStart(m + 1, n) = s + n - m /\ s \in Nat
    BY <2>1, RowStartNext
  <2>3. CASE x < s
    BY <1>2, <2>1, <2>3
  <2>4. CASE ~(x < s)
    <3> DEFINE q == x - s + m
    <3> HIDE DEF s
    <3>1. q \in m .. n-1 /\ s + q - m = x
      BY <2>1, <2>2, <2>4
    <3>2. idx_of_trimat(m, q, n) = s + q - m
      BY IdxIs DEF s
    <3> HIDE DEF q
    <3>3. QED
      BY <2>1, <3>1, <3>2
  <2>5. QED
    BY <2>3, <2>4
<1> HIDE DEF T
<1>3. Nat \subseteq T
  BY <1>1, <1>2, NatSetInduction
<1>4. n \in T /\ n <= n
  BY <1>3
<1>5. QED
  BY <1>4 DEF T

(* Functions that agree at a and whose values follow from the ones before. *)
LEMMA StepByStep ==
  ASSUME NEW a \in Nat, NEW b \in Nat, NEW f, NEW g, f[a] = g[a],
         \A j \in a .. b : j # a /\ f[j-1] = g[j-1] => f[j] = g[j]
  PROVE  \A j \in a .. b : f[j] = g[j]
<1> DEFINE T == {d \in Nat : a + d <= b => f[a + d] = g[a + d]}
<1>1. 0 \in T
  <2>1. a + 0 = a
    OBVIOUS
  <2>2. QED
    BY <2>1
<1>2. ASSUME NEW d \in Nat, d \in T PROVE d + 1 \in T
  <2> SUFFICES ASSUME a + (d + 1) <= b PROVE f[a + (d + 1)] = g[a + (d + 1)]
    OBVIOUS
  <2> DEFINE j == a + (d + 1)
  <2>1. j \in a .. b /\ j # a /\ j - 1 = a + d /\ a + d <= b
    OBVIOUS
  <2>2. f[a + d] = g[a + d]
    BY <1>2, <2>1
  <2> HIDE DEF j
  <2>3. f[j] = g[j]
    BY <2>1, <2>2
  <2>4. QED
    BY <2>3 DEF j
<1> HIDE DEF T
<1>3. Nat \subseteq T
  BY <1>1, <1>2, NatSetInduction
<1>4. TAKE j \in a .. b
<1>5. j - a \in Nat /\ a + (j - a) = j /\ a + (j - a) <= b
  OBVIOUS
<1>6. j - a \in T
  BY <1>3, <1>5
<1>7. QED
  BY <1>5, <1>6 DEF T

(* Walking down a column finds its element of each row.                    *)
LEMMA WalkIs ==
  ASSUME NEW h \in Nat, NEW i \in 0 .. h-1
  PROVE  Walk(i, h) = [j \in 0 .. i |-> idx_of_trimat(j, i, h)]
<1> DEFINE g == [j \in 0 .. i |-> idx_of_trimat(j, i, h)]
           Eq(f) == f = [j \in 0 .. i |-> IF j = 0 THEN i ELSE f[j-1] + h - (j - 1) - 1]
<1>1. \A j \in 0 .. i : idx_of_trimat(j, i, h) \in Nat
  <2> TAKE j \in 0 .. i
  <2>1. j \in 0 .. h-1 /\ i \in j .. h-1
    OBVIOUS
  <2>2. QED
    BY <2>1, IdxNat
<1>2. idx_of_trimat(0, i, h) = i
  <2>1. idx_of_trimat(0, i, h) = 0 + i - 0
    BY IdxIs, RowStartNext
  <2>2. QED
    BY <2>1
<1>3. ASSUME NEW j \in 0 .. i, j # 0
      PROVE  idx_of_trimat(j, i, h) = idx_of_trimat(j - 1, i, h) + h - (j - 1) - 1
  <2> DEFINE k == j - 1
  <2>1. k \in 0 .. h-1 /\ k + 1 = j /\ k \in Nat /\ k \in 0 .. h
    BY <1>3
  <2>2. RowStart(k + 1, h) = RowStart(k, h) + h - k /\ RowStart(k, h) \in Nat
    BY <2>1, RowStartNext
  <2>3. idx_of_trimat(j, i, h) = RowStart(j, h) + i - j /\ idx_of_trimat(k, i, h) = RowStart(k, h) + i - k
    BY IdxIs
  <2> HIDE DEF k
  <2>4. idx_of_trimat(j, i, h) = idx_of_trimat(k, i, h) + h - k - 1
    BY <2>1, <2>2, <2>3
  <2>5. QED
    BY <2>4 DEF k
<1>4. Eq(g)
  <2>1. \A j \in 0 .. i : g[j] = IF j = 0 THEN i ELSE g[j-1] + h - (j - 1) - 1
    <3> TAKE j \in 0 .. i
    <3>1. j # 0 => j - 1 \in 0 .. i
      OBVIOUS
    <3>2. QED
      BY <1>2, <1>3, <3>1
  <2>2. g = [j \in 0 .. i |-> g[j]]
    OBVIOUS
  <2> HIDE DEF g
  <2>3. QED
    BY <2>1, <2>2
<1>5. ASSUME NEW f, Eq(f) PROVE f = g
  <2>1. PICK a \in Nat : a = 0
    OBVIOUS
  <2>2. f = [j \in 0 .. i |-> IF j = 0 THEN i ELSE f[j-1] + h - (j - 1) - 1]
    BY <1>5
  <2>3. g = [j \in 0 .. i |-> IF j = 0 THEN i ELSE g[j-1] + h - (j - 1) - 1]
    BY <1>4
  <2> HIDE DEF g, Eq
  <2>4. f = [j \in a .. i |-> f[j]] /\ g = [j \in a .. i |-> g[j]]
    BY <2>1, <2>2, <2>3
  <2>5. a \in Nat /\ i \in Nat /\ a \in a .. i
    BY <2>1
  <2>6. f[a] = g[a]
    BY <2>1, <2>2, <2>3, <2>5
  <2>7. \A j \in a .. i : j # a /\ f[j-1] = g[j-1] => f[j] = g[j]
    BY <2>1, <2>2, <2>3
  <2>8. \A j \in a .. i : f[j] = g[j]
    BY <2>5, <2>6, <2>7, StepByStep
  <2>9. QED
    BY <2>4, <2>8
<1> HIDE DEF g
<1>6. Walk(i, h) = CHOOSE f : Eq(f)
  BY DEF Walk
<1> HIDE DEF Eq
<1>7. (CHOOSE f : Eq(f)) = g
  BY <1>4, <1>5
<1>8. QED
  BY <1>6, <1>7 DEF g

-----------------------------------------------------------------------------
(* Elements of B.                                                          *)

LEMMA DivSmall ==
  ASSUME NEW h \in Nat, NEW q \in 0 .. h-1
  PROVE  q \div h = 0 /\ q % h = q
<1>1. h > 0 /\ q \in Nat
  OBVIOUS
<1>2. PICK z \in Nat : z = 0
  OBVIOUS
<1>3. (h*z + q) \div h = z /\ (h*z + q) % h = q
  BY <1>1, DivUnique
<1>4. h*z + q = q
  BY <1>1, <1>2
<1>5. QED
  BY <1>2, <1>3, <1>4

LEMMA AtIs ==
  ASSUME NEW h \in Nat, NEW q \in 0 .. h-1, NEW j \in Nat
  PROVE  At(j, q, h) = <<j, q>> /\ At(j, q, h) # NoElement
<1>1. At(j, q, h) = <<j + 0, q>>
  BY DivSmall DEF At
<1>2. j + 0 = j /\ j # -1
  OBVIOUS
<1>3. QED
  BY <1>1, <1>2 DEF NoElement

LEMMA FromColumnIs ==
  ASSUME NEW h \in Nat, NEW i \in Nat, NEW n \in Nat, i + n <= h, NEW j \in Nat
  PROVE  /\ FromColumn(j, i, n, h) = [k \in 1 .. n |-> <<j, i + k - 1>>]
         /\ \A k \in 1 .. n : FromColumn(j, i, n, h)[k] # NoElement
<1>1. \A k \in 1 .. n : At(j, i + k - 1, h) = <<j, i + k - 1>> /\ At(j, i + k - 1, h) # NoElement
  <2> TAKE k \in 1 .. n
  <2>1. i + k - 1 \in 0 .. h-1
    OBVIOUS
  <2>2. QED
    BY <2>1, AtIs
<1>2. FromColumn(j, i, n, h) = [k \in 1 .. n |-> At(j, i + k - 1, h)]
  BY DEF FromColumn
<1>3. QED
  BY <1>1, <1>2

LEMMA ColumnFromTop ==
  ASSUME NEW h \in Nat, NEW n \in Nat, n <= h, NEW j \in Nat
  PROVE  \A k \in 1 .. n : FromColumn(j, 0, n, h)[k] = <<j, k - 1>> /\ FromColumn(j, 0, n, h)[k] # NoElement
<1>1. PICK z \in Nat : z = 0
  OBVIOUS
<1>2. z + n <= h
  BY <1>1
<1>3. /\ FromColumn(j, z, n, h) = [k \in 1 .. n |-> <<j, z + k - 1>>]
      /\ \A k \in 1 .. n : FromColumn(j, z, n, h)[k] # NoElement
  BY <1>2, FromColumnIs
<1>4. \A k \in 1 .. n : z + k - 1 = k - 1
  BY <1>1
<1>5. QED
  BY <1>1, <1>3, <1>4

LEMMA FromRowIs ==
  ASSUME NEW h \in Nat, NEW i \in 0 .. h-1, NEW j \in Nat, NEW form
  PROVE  /\ FromRow(form, j, i, h - i, h) = [k \in 1 .. h - i |-> <<j, i + k - 1>>]
         /\ \A k \in 1 .. h - i : FromRow(form, j, i, h - i, h)[k] # NoElement
<1>1. CASE form = "gf16" /\ i % 2 = 1
  <2>1. i # 0
    <3>1. 0 % 2 = 0
      OBVIOUS
    <3>2. QED
      BY <1>1, <3>1
  <2>2. \A k \in 1 .. h - i :
          LET q == (i - 1) + k - 1 IN
          /\ q % h # h - 1
          /\ At(j, q + 1, h) = <<j, i + k - 1>> /\ At(j, q + 1, h) # NoElement
    <3> TAKE k \in 1 .. h - i
    <3> DEFINE q == (i - 1) + k - 1
    <3>1. q \in 0 .. h-1 /\ q + 1 \in 0 .. h-1 /\ q # h - 1 /\ q + 1 = i + k - 1
      BY <2>1
    <3> HIDE DEF q
    <3>2. q % h = q
      BY <3>1, DivSmall
    <3>3. At(j, q + 1, h) = <<j, q + 1>> /\ At(j, q + 1, h) # NoElement
      BY <3>1, AtIs
    <3>4. QED
      BY <3>1, <3>2, <3>3 DEF q
  <2>3. FromRow(form, j, i, h - i, h) = Shifted(j, i - 1, h - i, h)
    BY <1>1 DEF FromRow
  <2>4. Shifted(j, i - 1, h - i, h) =
          [k \in 1 .. h - i |-> IF ((i - 1) + k - 1) % h = h - 1 THEN NoElement ELSE At(j, ((i - 1) + k - 1) + 1, h)]
    BY DEF Shifted
  <2>5. QED
    BY <2>2, <2>3, <2>4
<1>2. CASE ~(form = "gf16" /\ i % 2 = 1)
  <2>1. FromRow(form, j, i, h - i, h) = FromColumn(j, i, h - i, h)
    BY <1>2 DEF FromRow
  <2> DEFINE n == h - i
  <2>2. i \in Nat /\ n \in Nat /\ i + n <= h
    OBVIOUS
  <2> HIDE DEF n
  <2>3. /\ FromColumn(j, i, n, h) = [k \in 1 .. n |-> <<j, i + k - 1>>]
        /\ \A k \in 1 .. n : FromColumn(j, i, n, h)[k] # NoElement
    BY <2>2, FromColumnIs
  <2>4. QED
    BY <2>1, <2>3 DEF n
<1>3. QED
  BY <1>1, <1>2

(* A product of vectors and elements that are there.                       *)
LEMMA ProdIs ==
  ASSUME NEW cols, NEW elts, \A k \in DOMAIN cols : cols[k] # NoVector => elts[k] # NoElement
  PROVE  Prod(cols, elts) = {<<cols[k], elts[k]>> : k \in {m \in DOMAIN cols : cols[m] # NoVector}}
BY DEF Prod

-----------------------------------------------------------------------------
(* What a row of each product adds.                                        *)

(* The terms of row i and column j from the rows of B in S.                *)
Place(i, k, n) == IF i <= k THEN idx_of_trimat(i, k, n) ELSE idx_of_trimat(k, i, n)
RowTerms(i, j, S, n) == {<<Place(i, k, n), <<j, k>>>> : k \in S}

LEMMA PlaceNat ==
  ASSUME NEW n \in Nat, NEW i \in 0 .. n-1, NEW k \in 0 .. n-1
  PROVE  Place(i, k, n) \in Nat
<1>1. CASE i <= k
  <2>1. k \in i .. n-1
    BY <1>1
  <2>2. QED
    BY <1>1, <2>1, IdxNat DEF Place
<1>2. CASE ~(i <= k)
  <2>1. i \in k .. n-1
    BY <1>2
  <2>2. QED
    BY <1>2, <2>1, IdxNat DEF Place
<1>3. QED
  BY <1>1, <1>2

LEMMA MaddTerms ==
  ASSUME NEW h \in Nat, NEW i \in 0 .. h-1, NEW j \in Nat, NEW form
  PROVE  Prod(RowOfA(RowStart(i, h), h - i), FromRow(form, j, i, h - i, h)) =
           RowTerms(i, j, {k \in 0 .. h-1 : k >= i}, h)
<1> DEFINE s == RowStart(i, h)
           cols == RowOfA(s, h - i)
           elts == FromRow(form, j, i, h - i, h)
<1>1. s \in Nat
  BY RowStartNext
<1> HIDE DEF s
<1>2. cols = [k \in 1 .. h - i |-> s + k - 1] /\ DOMAIN cols = 1 .. h - i
  BY DEF RowOfA
<1>3. elts = [k \in 1 .. h - i |-> <<j, i + k - 1>>] /\ \A k \in 1 .. h - i : elts[k] # NoElement
  BY FromRowIs
<1> HIDE DEF cols, elts
<1>4. \A k \in 1 .. h - i : cols[k] = s + k - 1 /\ cols[k] # NoVector
  BY <1>1, <1>2 DEF NoVector
<1>5. Prod(cols, elts) = {<<cols[k], elts[k]>> : k \in {m \in DOMAIN cols : cols[m] # NoVector}}
  <2>1. \A k \in DOMAIN cols : cols[k] # NoVector => elts[k] # NoElement
    BY <1>2, <1>3
  <2>2. QED
    BY <2>1, ProdIs
<1>6. \A k \in 0 .. h-1 : k >= i => Place(i, k, h) = s + k - i
  <2>1. \A k \in 0 .. h-1 : idx_of_trimat(i, k, h) = s + k - i
    BY IdxIs DEF s
  <2>2. QED
    BY <2>1 DEF Place
<1>7. ASSUME NEW t \in Prod(cols, elts) PROVE t \in RowTerms(i, j, {k \in 0 .. h-1 : k >= i}, h)
  <2>1. PICK k \in 1 .. h - i : t = <<s + k - 1, <<j, i + k - 1>>>>
    BY <1>2, <1>3, <1>4, <1>5, <1>7
  <2> DEFINE m == i + k - 1
  <2>2. m \in 0 .. h-1 /\ m >= i /\ s + m - i = s + k - 1
    BY <1>1
  <2> HIDE DEF m
  <2>3. Place(i, m, h) = s + k - 1
    BY <1>6, <2>2
  <2>4. t = <<Place(i, m, h), <<j, m>>>>
    BY <2>1, <2>3 DEF m
  <2>5. QED
    BY <2>2, <2>4 DEF RowTerms
<1>8. ASSUME NEW t \in RowTerms(i, j, {k \in 0 .. h-1 : k >= i}, h) PROVE t \in Prod(cols, elts)
  <2>1. PICK m \in 0 .. h-1 : m >= i /\ t = <<Place(i, m, h), <<j, m>>>>
    BY <1>8 DEF RowTerms
  <2> DEFINE k == m - i + 1
  <2>2. k \in 1 .. h - i /\ i + k - 1 = m /\ s + k - 1 = s + m - i
    BY <1>1, <2>1
  <2> HIDE DEF k
  <2>3. cols[k] = Place(i, m, h) /\ cols[k] # NoVector /\ k \in DOMAIN cols
    BY <1>2, <1>4, <1>6, <2>1, <2>2
  <2>4. elts[k] = <<j, m>>
    BY <1>3, <2>2
  <2>5. t = <<cols[k], elts[k]>>
    BY <2>1, <2>3, <2>4
  <2>6. QED
    BY <1>5, <2>3, <2>5
<1>9. Prod(cols, elts) = RowTerms(i, j, {k \in 0 .. h-1 : k >= i}, h)
  BY <1>7, <1>8
<1>10. QED
  BY <1>9 DEF cols, elts, s

LEMMA TransposedTerms ==
  ASSUME NEW h \in Nat, NEW i \in 0 .. h-1, NEW j \in Nat
  PROVE  Prod(tmp_Arow(i, h), FromColumn(j, 0, i + 1, h)) = RowTerms(i, j, {k \in 0 .. h-1 : k <= i}, h)
<1> DEFINE cols == tmp_Arow(i, h)
           elts == FromColumn(j, 0, i + 1, h)
<1>1. \A k \in 0 .. i : Walk(i, h)[k] = idx_of_trimat(k, i, h) /\ idx_of_trimat(k, i, h) \in Nat
  <2> TAKE k \in 0 .. i
  <2>1. k \in 0 .. h-1 /\ i \in k .. h-1
    OBVIOUS
  <2>2. idx_of_trimat(k, i, h) \in Nat
    BY <2>1, IdxNat
  <2>3. QED
    BY <2>2, WalkIs
<1>2. DOMAIN cols = 1 .. i + 1 /\ \A k \in 1 .. i + 1 : cols[k] = idx_of_trimat(k - 1, i, h) /\ cols[k] # NoVector
  <2>1. DOMAIN cols = 1 .. i + 1 /\ \A k \in 1 .. i + 1 : cols[k] = Walk(i, h)[k - 1]
    BY DEF tmp_Arow
  <2> HIDE DEF cols
  <2>2. \A k \in 1 .. i + 1 : k - 1 \in 0 .. i
    OBVIOUS
  <2>3. \A k \in 1 .. i + 1 : cols[k] = idx_of_trimat(k - 1, i, h) /\ idx_of_trimat(k - 1, i, h) \in Nat
    BY <1>1, <2>1, <2>2
  <2>4. QED
    BY <2>1, <2>3 DEF NoVector
<1>3. \A k \in 1 .. i + 1 : elts[k] = <<j, k - 1>> /\ elts[k] # NoElement
  <2> DEFINE n == i + 1
  <2>1. n \in Nat /\ n <= h
    OBVIOUS
  <2> HIDE DEF n
  <2>2. \A k \in 1 .. n : FromColumn(j, 0, n, h)[k] = <<j, k - 1>> /\ FromColumn(j, 0, n, h)[k] # NoElement
    BY <2>1, ColumnFromTop
  <2>3. QED
    BY <2>2 DEF n
<1> HIDE DEF cols, elts
<1>4. Prod(cols, elts) = {<<cols[k], elts[k]>> : k \in {m \in DOMAIN cols : cols[m] # NoVector}}
  <2>1. \A k \in DOMAIN cols : cols[k] # NoVector => elts[k] # NoElement
    BY <1>2, <1>3
  <2>2. QED
    BY <2>1, ProdIs
<1>5. \A k \in 0 .. h-1 : k <= i => Place(i, k, h) = idx_of_trimat(k, i, h)
  <2> TAKE k \in 0 .. h-1
  <2>1. k <= i => (i <= k => k = i)
    OBVIOUS
  <2>2. QED
    BY <2>1 DEF Place
<1>6. ASSUME NEW t \in Prod(cols, elts) PROVE t \in RowTerms(i, j, {k \in 0 .. h-1 : k <= i}, h)
  <2>1. PICK k \in 1 .. i + 1 : t = <<cols[k], elts[k]>>
    BY <1>2, <1>4, <1>6
  <2>2. t = <<idx_of_trimat(k - 1, i, h), <<j, k - 1>>>>
    BY <1>2, <1>3, <2>1
  <2>3. k - 1 \in 0 .. h-1 /\ k - 1 <= i
    OBVIOUS
  <2>4. t = <<Place(i, k - 1, h), <<j, k - 1>>>>
    BY <1>5, <2>2, <2>3
  <2>5. QED
    BY <2>3, <2>4 DEF RowTerms
<1>7. ASSUME NEW t \in RowTerms(i, j, {k \in 0 .. h-1 : k <= i}, h) PROVE t \in Prod(cols, elts)
  <2>1. PICK m \in 0 .. h-1 : m <= i /\ t = <<Place(i, m, h), <<j, m>>>>
    BY <1>7 DEF RowTerms
  <2> DEFINE k == m + 1
  <2>2. k \in 1 .. i + 1 /\ k - 1 = m
    BY <2>1
  <2> HIDE DEF k
  <2>3. cols[k] = Place(i, m, h) /\ cols[k] # NoVector /\ k \in DOMAIN cols /\ elts[k] = <<j, m>>
    BY <1>2, <1>3, <1>5, <2>1, <2>2
  <2>4. t = <<cols[k], elts[k]>>
    BY <2>1, <2>3
  <2>5. QED
    BY <1>4, <2>3, <2>4
<1>8. Prod(cols, elts) = RowTerms(i, j, {k \in 0 .. h-1 : k <= i}, h)
  BY <1>6, <1>7
<1>9. QED
  BY <1>8 DEF cols, elts

LEMMA BothTerms ==
  ASSUME NEW h \in Nat, NEW i \in 0 .. h-1, NEW j \in Nat
  PROVE  Prod(tmp_Arow2(i, h), FromColumn(j, 0, h, h)) = RowTerms(i, j, {k \in 0 .. h-1 : k # i}, h)
<1> DEFINE cols == tmp_Arow2(i, h)
           elts == FromColumn(j, 0, h, h)
<1>1. \A k \in 0 .. i : Walk(i, h)[k] = idx_of_trimat(k, i, h)
  BY WalkIs
<1>2. DOMAIN cols = 1 .. h
      /\ \A k \in 1 .. h : cols[k] = IF k <= i THEN Walk(i, h)[k - 1]
                                     ELSE IF k = i + 1 THEN NoVector
                                     ELSE Walk(i, h)[i] + k - i - 1
  BY DEF tmp_Arow2
<1>3. \A k \in 1 .. h : elts[k] = <<j, k - 1>> /\ elts[k] # NoElement
  <2>1. h <= h
    OBVIOUS
  <2>2. QED
    BY <2>1, ColumnFromTop
<1> HIDE DEF cols, elts
<1>4. \A k \in 1 .. h : cols[k] = IF k = i + 1 THEN NoVector ELSE Place(i, k - 1, h)
  <2> TAKE k \in 1 .. h
  <2>1. CASE k <= i
    <3>1. k - 1 \in 0 .. i /\ ~(i <= k - 1) /\ k # i + 1
      BY <2>1
    <3>2. QED
      BY <1>1, <1>2, <2>1, <3>1 DEF Place
  <2>2. CASE k = i + 1
    <3>1. ~(k <= i)
      BY <2>2
    <3>2. QED
      BY <1>2, <2>2, <3>1
  <2>3. CASE k > i + 1
    <3> DEFINE s == RowStart(i, h)
    <3>1. s \in Nat
      BY RowStartNext
    <3>2. idx_of_trimat(i, i, h) = s + i - i /\ idx_of_trimat(i, k - 1, h) = s + (k - 1) - i
      BY IdxIs
    <3> HIDE DEF s
    <3>3. idx_of_trimat(i, i, h) + k - i - 1 = idx_of_trimat(i, k - 1, h)
      BY <3>1, <3>2
    <3>4. ~(k <= i) /\ k # i + 1 /\ i <= k - 1 /\ i \in 0 .. i
      BY <2>3
    <3>5. cols[k] = idx_of_trimat(i, i, h) + k - i - 1
      BY <1>1, <1>2, <3>4
    <3>6. QED
      BY <3>3, <3>4, <3>5 DEF Place
  <2>4. QED
    BY <2>1, <2>2, <2>3
<1>5. \A k \in 1 .. h : cols[k] = NoVector <=> k = i + 1
  <2> TAKE k \in 1 .. h
  <2>1. k - 1 \in 0 .. h-1
    OBVIOUS
  <2>2. Place(i, k - 1, h) \in Nat
    BY <2>1, PlaceNat
  <2>3. Place(i, k - 1, h) # NoVector
    BY <2>2 DEF NoVector
  <2>4. QED
    BY <1>4, <2>3
<1>6. Prod(cols, elts) = {<<cols[k], elts[k]>> : k \in {m \in DOMAIN cols : cols[m] # NoVector}}
  <2>1. \A k \in DOMAIN cols : cols[k] # NoVector => elts[k] # NoElement
    BY <1>2, <1>3
  <2>2. QED
    BY <2>1, ProdIs
<1>7. ASSUME NEW t \in Prod(cols, elts) PROVE t \in RowTerms(i, j, {k \in 0 .. h-1 : k # i}, h)
  <2>1. PICK k \in 1 .. h : t = <<cols[k], elts[k]>> /\ cols[k] # NoVector
    BY <1>2, <1>6, <1>7
  <2>2. k # i + 1
    BY <1>5, <2>1
  <2>3. t = <<Place(i, k - 1, h), <<j, k - 1>>>>
    BY <1>3, <1>4, <2>1, <2>2
  <2>4. k - 1 \in 0 .. h-1 /\ k - 1 # i
    BY <2>2
  <2>5. QED
    BY <2>3, <2>4 DEF RowTerms
<1>8. ASSUME NEW t \in RowTerms(i, j, {k \in 0 .. h-1 : k # i}, h) PROVE t \in Prod(cols, elts)
  <2>1. PICK m \in 0 .. h-1 : m # i /\ t = <<Place(i, m, h), <<j, m>>>>
    BY <1>8 DEF RowTerms
  <2> DEFINE k == m + 1
  <2>2. k \in 1 .. h /\ k - 1 = m /\ k # i + 1
    BY <2>1
  <2> HIDE DEF k
  <2>3. cols[k] = Place(i, m, h) /\ cols[k] # NoVector /\ k \in DOMAIN cols /\ elts[k] = <<j, m>>
    BY <1>2, <1>3, <1>4, <1>5, <2>2
  <2>4. t = <<cols[k], elts[k]>>
    BY <2>1, <2>3
  <2>5. QED
    BY <1>6, <2>3, <2>4
<1>9. Prod(cols, elts) = RowTerms(i, j, {k \in 0 .. h-1 : k # i}, h)
  BY <1>7, <1>8
<1>10. QED
  BY <1>9 DEF cols, elts

(* The product of column q of A and column p of B.                         *)
Entries(p, q, n, w) == {<<k*w + q, <<p, k>>>> : k \in 0 .. n-1}

LEMMA ColumnTerms ==
  ASSUME NEW h \in Nat, NEW w \in Nat, NEW i \in Nat, NEW j \in Nat
  PROVE  Prod([k \in 1 .. h |-> (k - 1)*w + j], FromColumn(i, 0, h, h)) = Entries(i, j, h, w)
<1> DEFINE cols == [k \in 1 .. h |-> (k - 1)*w + j]
           elts == FromColumn(i, 0, h, h)
<1>1. \A k \in 1 .. h : elts[k] = <<i, k - 1>> /\ elts[k] # NoElement
  <2>1. h <= h
    OBVIOUS
  <2>2. QED
    BY <2>1, ColumnFromTop
<1>2. DOMAIN cols = 1 .. h /\ \A k \in 1 .. h : cols[k] = (k - 1)*w + j
  OBVIOUS
<1>3. \A k \in 1 .. h : cols[k] # NoVector
  <2> TAKE k \in 1 .. h
  <2> DEFINE m == k - 1
  <2>1. m \in Nat
    OBVIOUS
  <2> HIDE DEF m
  <2>2. m*w + j \in Nat
    <3>1. m*w \in Nat
      BY <2>1, SMT
    <3>2. QED
      BY <3>1
  <2> HIDE DEF cols
  <2>3. cols[k] = m*w + j
    BY <1>2 DEF m
  <2>4. QED
    BY <2>2, <2>3 DEF NoVector
<1> HIDE DEF cols, elts
<1>4. Prod(cols, elts) = {<<cols[k], elts[k]>> : k \in {m \in DOMAIN cols : cols[m] # NoVector}}
  <2>1. \A k \in DOMAIN cols : cols[k] # NoVector => elts[k] # NoElement
    BY <1>1, <1>2
  <2>2. QED
    BY <2>1, ProdIs
<1>5. ASSUME NEW t \in Prod(cols, elts) PROVE t \in Entries(i, j, h, w)
  <2>1. PICK k \in 1 .. h : t = <<cols[k], elts[k]>>
    BY <1>2, <1>4, <1>5
  <2>2. t = <<(k - 1)*w + j, <<i, k - 1>>>> /\ k - 1 \in 0 .. h-1
    BY <1>1, <1>2, <2>1
  <2>3. QED
    BY <2>2 DEF Entries
<1>6. ASSUME NEW t \in Entries(i, j, h, w) PROVE t \in Prod(cols, elts)
  <2>1. PICK m \in 0 .. h-1 : t = <<m*w + j, <<i, m>>>>
    BY <1>6 DEF Entries
  <2> DEFINE k == m + 1
  <2>2. k \in 1 .. h /\ k - 1 = m
    OBVIOUS
  <2> HIDE DEF k
  <2>3. cols[k] = m*w + j /\ cols[k] # NoVector /\ k \in DOMAIN cols /\ elts[k] = <<i, m>>
    BY <1>1, <1>2, <1>3, <2>2
  <2>4. t = <<cols[k], elts[k]>>
    BY <2>1, <2>3
  <2>5. QED
    BY <1>4, <2>3, <2>4
<1>7. Prod(cols, elts) = Entries(i, j, h, w)
  BY <1>5, <1>6
<1>8. QED
  BY <1>7 DEF cols, elts

-----------------------------------------------------------------------------
(* The quadratic form.                                                     *)

(* Its terms from the rows below i.                                        *)
FormTerm(p, q, n) == <<idx_of_trimat(p, q, n), <<<<0, p>>, <<0, q>>>>>>
FormTerms(i, n) == {FormTerm(p[1], p[2], n) : p \in {q \in (0 .. n-1) \X (0 .. n-1) : q[1] <= q[2] /\ q[1] < i}}

LEMMA FormRowIs ==
  ASSUME NEW i \in 0 .. dims.h - 1, dims.h \in Nat, btriA = RowStart(i, dims.h)
  PROVE  FormRow(i) = {FormTerm(i, k, dims.h) : k \in i .. dims.h - 1}
<1> DEFINE h == dims.h
           z == 0
           T == Prod(RowOfA(RowStart(i, h), h - i), FromRow(bf.form, z, i, h - i, h))
<1>1. h \in Nat /\ z \in Nat /\ i \in 0 .. h-1
  OBVIOUS
<1>2. At(z, i, h) = <<z, i>>
  BY <1>1, AtIs
<1>3. FormRow(i) = TimesX(T, At(z, i, h))
  BY DEF FormRow
<1>4. \A k \in 0 .. h-1 : k >= i => Place(i, k, h) = idx_of_trimat(i, k, h)
  BY <1>1 DEF Place
<1> HIDE DEF h, z
<1>5. T = RowTerms(i, z, {k \in 0 .. h-1 : k >= i}, h)
  BY <1>1, MaddTerms
<1> HIDE DEF T
<1>6. FormRow(i) = {<<t[1], <<<<z, i>>, t[2]>>>> : t \in T}
  BY <1>2, <1>3 DEF TimesX
<1>7. T = {<<idx_of_trimat(i, k, h), <<z, k>>>> : k \in i .. h-1}
  <2>1. {k \in 0 .. h-1 : k >= i} = i .. h-1
    BY <1>1
  <2>2. \A k \in i .. h-1 : Place(i, k, h) = idx_of_trimat(i, k, h)
    BY <1>1, <1>4
  <2>3. QED
    BY <1>5, <2>1, <2>2 DEF RowTerms
<1> DEFINE x == <<z, i>>
<1>8. FormRow(i) = {<<idx_of_trimat(i, k, h), <<x, <<z, k>>>>>> : k \in i .. h-1}
  <2> DEFINE at(k) == idx_of_trimat(i, k, h)
             elt(k) == <<z, k>>
  <2>1. FormRow(i) = {<<t[1], <<x, t[2]>>>> : t \in T}
    BY <1>6
  <2>2. T = {<<at(k), elt(k)>> : k \in i .. h-1}
    BY <1>7
  <2> HIDE DEF at, elt, x
  <2>3. \A k : <<at(k), elt(k)>>[1] = at(k) /\ <<at(k), elt(k)>>[2] = elt(k)
    OBVIOUS
  <2>4. ASSUME NEW f \in FormRow(i) PROVE \E k \in i .. h-1 : f = <<at(k), <<x, elt(k)>>>>
    <3>1. PICK t \in T : f = <<t[1], <<x, t[2]>>>>
      BY <2>1, <2>4
    <3>2. PICK k \in i .. h-1 : t = <<at(k), elt(k)>>
      BY <2>2
    <3>3. QED
      BY <2>3, <3>1, <3>2
  <2>5. ASSUME NEW k \in i .. h-1 PROVE <<at(k), <<x, elt(k)>>>> \in FormRow(i)
    <3> DEFINE t == <<at(k), elt(k)>>
    <3>1. t \in T /\ t[1] = at(k) /\ t[2] = elt(k)
      BY <2>2, <2>3
    <3> HIDE DEF t
    <3>2. QED
      BY <2>1, <3>1
  <2>6. FormRow(i) = {<<at(k), <<x, elt(k)>>>> : k \in i .. h-1}
    BY <2>4, <2>5
  <2>7. QED
    BY <2>6 DEF at, elt
<1>9. QED
  BY <1>8 DEF FormTerm, h, z, x

(* The size of a triangle of m rows, and of the last m rows of one.        *)
LEMMA HalfNext ==
  ASSUME NEW m \in Nat
  PROVE  ((m + 1)*((m + 1) + 1)) \div 2 = (m*(m + 1)) \div 2 + m + 1
<1> DEFINE u == m*(m + 1)
           v == (m + 1)*((m + 1) + 1)
           q == u \div 2
           r == u % 2
           z == q + m + 1
<1>1. u \in Nat
  BY SMT
<1>2. v = u + 2*(m + 1)
  OBVIOUS
<1> HIDE DEF u, v
<1>3. q \in Nat /\ r \in 0 .. 2-1 /\ u = 2*q + r
  BY <1>1, DivMod
<1> HIDE DEF q, r
<1>4. z \in Nat /\ v = 2*z + r
  BY <1>2, <1>3
<1> HIDE DEF z
<1>5. (2*z + r) \div 2 = z
  BY <1>3, <1>4, DivUnique
<1>6. v \div 2 = z
  BY <1>4, <1>5
<1>7. QED
  BY <1>6 DEF v, z, q, u

LEMMA LastRowsSize ==
  ASSUME NEW h \in Nat, NEW m \in Nat, m <= h
  PROVE  RowStart(h, h) = RowStart(h - m, h) + (m*(m + 1)) \div 2 /\ (m*(m + 1)) \div 2 \in Nat
<1> DEFINE T == {d \in Nat : d <= h => /\ RowStart(h, h) = RowStart(h - d, h) + (d*(d + 1)) \div 2
                                       /\ (d*(d + 1)) \div 2 \in Nat}
<1>1. 0 \in T
  <2>1. (0*(0 + 1)) \div 2 = 0 /\ h - 0 = h
    <3>1. 0*(0 + 1) = 0
      OBVIOUS
    <3>2. 0 \div 2 = 0
      OBVIOUS
    <3>3. QED
      BY <3>1, <3>2
  <2>2. RowStart(h, h) \in Nat
    BY RowStartNext
  <2>3. QED
    BY <2>1, <2>2
<1>2. ASSUME NEW d \in Nat, d \in T PROVE d + 1 \in T
  <2> SUFFICES ASSUME d + 1 <= h
               PROVE  /\ RowStart(h, h) = RowStart(h - (d + 1), h) + ((d + 1)*((d + 1) + 1)) \div 2
                      /\ ((d + 1)*((d + 1) + 1)) \div 2 \in Nat
    OBVIOUS
  <2> DEFINE i == h - (d + 1)
             x == (d*(d + 1)) \div 2
             y == ((d + 1)*((d + 1) + 1)) \div 2
  <2>1. i \in 0 .. h-1 /\ i + 1 = h - d /\ h - i = d + 1 /\ d <= h /\ i \in 0 .. h
    OBVIOUS
  <2>2. RowStart(h, h) = RowStart(h - d, h) + x /\ x \in Nat
    BY <1>2, <2>1
  <2>3. y = x + d + 1
    BY HalfNext
  <2> HIDE DEF i, x, y
  <2>4. RowStart(i + 1, h) = RowStart(i, h) + h - i /\ RowStart(i, h) \in Nat
    BY <2>1, RowStartNext
  <2>5. RowStart(h, h) = RowStart(i, h) + y /\ y \in Nat
    BY <2>1, <2>2, <2>3, <2>4
  <2>6. QED
    BY <2>5 DEF i, y
<1> HIDE DEF T
<1>3. Nat \subseteq T
  BY <1>1, <1>2, NatSetInduction
<1>4. m \in T
  BY <1>3
<1>5. QED
  BY <1>4 DEF T

(* The walk over the last rows of a form finds where each of them begins.  *)
LEMMA LastWalkIs ==
  ASSUME NEW h \in Nat, NEW from \in 0 .. h
  PROVE  (CHOOSE f : f = [i \in from .. h |-> IF i = from THEN 0 ELSE f[i-1] + h - (i - 1)]) =
           [i \in from .. h |-> RowStart(i, h) - RowStart(from, h)]
<1> DEFINE g == [i \in from .. h |-> RowStart(i, h) - RowStart(from, h)]
           Eq(f) == f = [i \in from .. h |-> IF i = from THEN 0 ELSE f[i-1] + h - (i - 1)]
<1>1. \A i \in 0 .. h : RowStart(i, h) \in Nat
  BY RowStartNext
<1>2. ASSUME NEW i \in from .. h, i # from
      PROVE  RowStart(i, h) - RowStart(from, h) = (RowStart(i - 1, h) - RowStart(from, h)) + h - (i - 1)
  <2> DEFINE k == i - 1
             s == RowStart(from, h)
  <2>1. k \in 0 .. h-1 /\ k + 1 = i /\ k \in 0 .. h
    BY <1>2
  <2>2. s \in Nat /\ RowStart(k, h) \in Nat
    BY <1>1, <2>1
  <2> HIDE DEF k, s
  <2>3. RowStart(k + 1, h) = RowStart(k, h) + h - k
    BY <2>1, RowStartNext
  <2>4. RowStart(i, h) - s = (RowStart(k, h) - s) + h - k
    BY <2>1, <2>2, <2>3
  <2>5. QED
    BY <2>4 DEF k, s
<1>3. Eq(g)
  <2>1. \A i \in from .. h : g[i] = IF i = from THEN 0 ELSE g[i-1] + h - (i - 1)
    <3> TAKE i \in from .. h
    <3>1. i # from => i - 1 \in from .. h
      OBVIOUS
    <3>2. RowStart(from, h) - RowStart(from, h) = 0
      BY <1>1
    <3>3. QED
      BY <1>2, <3>1, <3>2
  <2>2. g = [i \in from .. h |-> g[i]]
    OBVIOUS
  <2> HIDE DEF g
  <2>3. QED
    BY <2>1, <2>2
<1>4. ASSUME NEW f, Eq(f) PROVE f = g
  <2>1. f = [i \in from .. h |-> IF i = from THEN 0 ELSE f[i-1] + h - (i - 1)]
    BY <1>4
  <2>2. g = [i \in from .. h |-> IF i = from THEN 0 ELSE g[i-1] + h - (i - 1)]
    BY <1>3
  <2> HIDE DEF g, Eq
  <2>3. f = [i \in from .. h |-> f[i]] /\ g = [i \in from .. h |-> g[i]]
    BY <2>1, <2>2
  <2>4. from \in Nat /\ from \in from .. h
    OBVIOUS
  <2>5. f[from] = g[from]
    BY <2>1, <2>2, <2>4
  <2>6. \A i \in from .. h : i # from /\ f[i-1] = g[i-1] => f[i] = g[i]
    BY <2>1, <2>2
  <2>7. \A i \in from .. h : f[i] = g[i]
    BY <2>4, <2>5, <2>6, StepByStep
  <2>8. QED
    BY <2>3, <2>7
<1> HIDE DEF g, Eq
<1>5. (CHOOSE f : Eq(f)) = g
  BY <1>3, <1>4
<1>6. QED
  BY <1>5 DEF g, Eq

(* The product of the last rows has a term for each of their coefficients. *)
LastTerms(h, from, terms) == {<<RowStart(from, h) + k - 1, terms[k]>> : k \in DOMAIN terms}

LEMMA LastTermsAre ==
  ASSUME NEW h \in Nat, LastRows \in Nat, LastRows <= h
  PROVE  LastTerms(h, h - LastRows, quad_terms(h)) =
           {FormTerm(p[1], p[2], h) : p \in {q \in (0 .. h-1) \X (0 .. h-1) : q[1] <= q[2] /\ q[1] >= h - LastRows}}
<1> DEFINE from == h - LastRows
           s == RowStart(from, h)
           N == (LastRows * (LastRows + 1)) \div 2
           g == [i \in from .. h |-> RowStart(i, h) - s]
           rowOf(n) == CHOOSE i \in from .. h-1 : n >= g[i] /\ n < g[i+1]
           term(k) == LET i == rowOf(k - 1) IN <<At(0, i, h), At(0, i + k - 1 - g[i], h)>>
           walk == CHOOSE f : f = [i \in from .. h |-> IF i = from THEN 0 ELSE f[i-1] + h - (i - 1)]
<1>1. from \in 0 .. h /\ s \in Nat
  <2>1. from \in 0 .. h
    OBVIOUS
  <2> HIDE DEF from
  <2>2. QED
    BY <2>1, RowStartNext
<1>2. walk = g
  <2> HIDE DEF from
  <2>1. QED
    BY <1>1, LastWalkIs
<1>3. quad_terms(h) = [k \in 1 .. N |-> term(k)]
  <2>1. quad_terms(h) =
          [k \in 1 .. N |->
             LET i == CHOOSE i \in from .. h-1 : k - 1 >= walk[i] /\ k - 1 < walk[i+1]
             IN  <<At(0, i, h), At(0, i + k - 1 - walk[i], h)>>]
    BY DEF quad_terms
  <2> HIDE DEF walk, g, from, N
  <2>2. QED
    BY <1>2, <2>1
<1>4. N \in Nat /\ RowStart(h, h) = s + N
  BY LastRowsSize
<1>5. \A i \in from .. h : g[i] = RowStart(i, h) - s /\ RowStart(i, h) \in Nat
  <2>1. \A i \in from .. h : i \in 0 .. h
    BY <1>1
  <2>2. QED
    BY <2>1, RowStartNext
<1> HIDE DEF from, s, N, g, walk
<1>6. ASSUME NEW p \in from .. h-1, NEW q \in p .. h-1, NEW k \in Nat, s + k = idx_of_trimat(p, q, h)
      PROVE  k + 1 \in 1 .. N /\ term(k + 1) = <<<<0, p>>, <<0, q>>>>
  <2>1. p \in 0 .. h-1 /\ p + 1 \in from .. h /\ p \in from .. h
    BY <1>1
  <2>2. /\ idx_of_trimat(p, q, h) < RowStart(h, h)
        /\ RowStart(p, h) <= idx_of_trimat(p, q, h)
        /\ idx_of_trimat(p, q, h) < RowStart(p, h) + h - p
    BY <2>1, IdxNat
  <2>3. RowStart(p + 1, h) = RowStart(p, h) + h - p
    BY <2>1, RowStartNext
  <2>4. k >= g[p] /\ k < g[p+1]
    BY <1>1, <1>5, <1>6, <2>1, <2>2, <2>3
  <2>5. ASSUME NEW i \in from .. h-1, k >= g[i], k < g[i+1] PROVE i = p
    <3>1. /\ i + 1 \in from .. h /\ i \in from .. h /\ i \in 0 .. h-1 /\ i \in 0 .. h /\ i + 1 \in 0 .. h
          /\ p \in 0 .. h /\ p + 1 \in 0 .. h
      BY <1>1
    <3>2. RowStart(i, h) <= s + k /\ s + k < RowStart(i + 1, h)
      BY <1>1, <1>5, <2>5, <3>1
    <3>3. RowStart(p, h) <= s + k /\ s + k < RowStart(p + 1, h)
      BY <1>1, <1>5, <2>1, <2>4
    <3>4. RowStart(i + 1, h) = RowStart(i, h) + h - i
      BY <3>1, RowStartNext
    <3>5. i < p => RowStart(i + 1, h) <= RowStart(p, h)
      BY <3>1, <3>4, RowStarts
    <3>6. p < i => RowStart(p + 1, h) <= RowStart(i, h)
      BY <2>3, <3>1, RowStarts
    <3>7. s + k \in Nat /\ RowStart(i, h) \in Nat /\ RowStart(i + 1, h) \in Nat
          /\ RowStart(p, h) \in Nat /\ RowStart(p + 1, h) \in Nat
      BY <1>1, <1>5, <2>1, <3>1
    <3>8. ~(i < p) /\ ~(p < i)
      BY <3>2, <3>3, <3>5, <3>6, <3>7
    <3>9. QED
      BY <1>1, <3>8
  <2>6. \A m : m = k => rowOf(m) = p
    BY <2>4, <2>5
  <2>7. k + 1 - 1 = k
    OBVIOUS
  <2>8. p + (k + 1) - 1 - g[p] = q
    <3>1. g[p] = RowStart(p, h) - s /\ RowStart(p, h) \in Nat
      BY <1>5, <2>1
    <3>2. idx_of_trimat(p, q, h) = RowStart(p, h) + q - p
      BY IdxIs
    <3>3. p \in Nat /\ q \in Nat
      BY <1>1
    <3>4. QED
      BY <1>1, <1>6, <3>1, <3>2, <3>3
  <2>9. term(k + 1) = <<At(0, p, h), At(0, q, h)>>
    <3>1. rowOf((k + 1) - 1) = p
      BY <2>6, <2>7
    <3> HIDE DEF rowOf
    <3>2. QED
      BY <2>8, <3>1
  <2>10. At(0, p, h) = <<0, p>> /\ At(0, q, h) = <<0, q>>
    <3>1. PICK z \in Nat : z = 0
      OBVIOUS
    <3>2. p \in 0 .. h-1 /\ q \in 0 .. h-1
      BY <1>1
    <3>3. At(z, p, h) = <<z, p>> /\ At(z, q, h) = <<z, q>>
      BY <3>2, AtIs
    <3>4. QED
      BY <3>1, <3>3
  <2>11. k + 1 \in 1 .. N
    BY <1>1, <1>4, <1>6, <2>2
  <2>12. QED
    BY <2>9, <2>10, <2>11
<1> HIDE DEF rowOf, term
<1>7. ASSUME NEW p \in from .. h-1, NEW q \in p .. h-1
      PROVE  \E k \in 1 .. N : s + k - 1 = idx_of_trimat(p, q, h) /\ term(k) = <<<<0, p>>, <<0, q>>>>
  <2>1. p \in 0 .. h-1
    BY <1>1
  <2>2. idx_of_trimat(p, q, h) \in Nat /\ RowStart(p, h) <= idx_of_trimat(p, q, h)
    BY <2>1, IdxNat
  <2>3. s <= RowStart(p, h)
    <3>1. p = from \/ (from < p /\ p \in 0 .. h)
      BY <1>1
    <3>2. from < p => s + h - from <= RowStart(p, h)
      BY <1>1, <3>1, RowStarts DEF s
    <3>3. RowStart(p, h) \in Nat
      BY <1>1, RowStartNext
    <3>4. QED
      BY <1>1, <3>1, <3>2, <3>3 DEF s
  <2> DEFINE k == idx_of_trimat(p, q, h) - s
  <2>4. RowStart(p, h) \in Nat
    BY <1>1, RowStartNext
  <2>5. k \in Nat /\ s + k = idx_of_trimat(p, q, h)
    BY <1>1, <2>2, <2>3, <2>4
  <2> HIDE DEF k
  <2>6. k + 1 \in 1 .. N /\ term(k + 1) = <<<<0, p>>, <<0, q>>>>
    BY <1>6, <2>5
  <2>7. s + (k + 1) - 1 = s + k
    BY <1>1, <2>5
  <2>8. QED
    BY <2>5, <2>6, <2>7
<1>8. ASSUME NEW k \in 1 .. N
      PROVE  \E p \in from .. h-1 : \E q \in p .. h-1 :
               s + k - 1 = idx_of_trimat(p, q, h) /\ term(k) = <<<<0, p>>, <<0, q>>>>
  <2> DEFINE a == s + (k - 1)
  <2>1. a \in Nat /\ a < RowStart(h, h) /\ k - 1 \in Nat /\ (k - 1) + 1 = k /\ s + k - 1 = a
    BY <1>1, <1>4
  <2>2. PICK p \in 0 .. h-1 : \E q \in p .. h-1 : idx_of_trimat(p, q, h) = a
    BY <2>1, IdxCovers
  <2>3. PICK q \in p .. h-1 : idx_of_trimat(p, q, h) = a
    BY <2>2
  <2>4. ~(p < from)
    <3>1. p < from => RowStart(p, h) + h - p <= s
      <4>1. p \in 0 .. h
        OBVIOUS
      <4>2. QED
        BY <1>1, <4>1, RowStarts DEF s
    <3>2. idx_of_trimat(p, q, h) < RowStart(p, h) + h - p
      BY IdxNat
    <3>3. RowStart(p, h) \in Nat
      BY RowStartNext
    <3>4. QED
      BY <1>1, <2>1, <2>3, <3>1, <3>2, <3>3
  <2>5. p \in from .. h-1
    BY <1>1, <2>4
  <2> HIDE DEF a
  <2>6. s + (k - 1) = idx_of_trimat(p, q, h)
    BY <2>3 DEF a
  <2> DEFINE m == k - 1
  <2>7. m \in Nat /\ s + m = idx_of_trimat(p, q, h)
    BY <2>1, <2>6
  <2> HIDE DEF m
  <2>8. term(m + 1) = <<<<0, p>>, <<0, q>>>>
    BY <1>6, <2>5, <2>7
  <2>9. m + 1 = k
    BY <2>1 DEF m
  <2>10. QED
    BY <2>1, <2>3, <2>5, <2>8, <2>9
<1> DEFINE terms == quad_terms(h)
<1>9. DOMAIN terms = 1 .. N /\ \A k \in 1 .. N : terms[k] = term(k)
  BY <1>3
<1> HIDE DEF terms
<1> DEFINE P == {q \in (0 .. h-1) \X (0 .. h-1) : q[1] <= q[2] /\ q[1] >= from}
<1>10. ASSUME NEW t \in LastTerms(h, from, terms) PROVE \E p \in P : t = FormTerm(p[1], p[2], h)
  <2>1. PICK k \in 1 .. N : t = <<s + k - 1, term(k)>>
    BY <1>9, <1>10 DEF LastTerms, s
  <2>2. PICK p \in from .. h-1 : \E q \in p .. h-1 :
               s + k - 1 = idx_of_trimat(p, q, h) /\ term(k) = <<<<0, p>>, <<0, q>>>>
    BY <1>8
  <2>3. PICK q \in p .. h-1 : s + k - 1 = idx_of_trimat(p, q, h) /\ term(k) = <<<<0, p>>, <<0, q>>>>
    BY <2>2
  <2>4. t = FormTerm(p, q, h)
    BY <2>1, <2>3 DEF FormTerm
  <2>5. p \in 0 .. h-1 /\ q \in 0 .. h-1 /\ p <= q /\ p >= from
    BY <1>1
  <2>6. <<p, q>> \in P /\ <<p, q>>[1] = p /\ <<p, q>>[2] = q
    BY <2>5
  <2>7. QED
    BY <2>4, <2>6
<1>11. ASSUME NEW p \in P PROVE FormTerm(p[1], p[2], h) \in LastTerms(h, from, terms)
  <2>1. p[1] \in from .. h-1 /\ p[2] \in p[1] .. h-1
    BY <1>1
  <2>2. PICK k \in 1 .. N : s + k - 1 = idx_of_trimat(p[1], p[2], h) /\ term(k) = <<<<0, p[1]>>, <<0, p[2]>>>>
    BY <1>7, <2>1
  <2>3. FormTerm(p[1], p[2], h) = <<s + k - 1, terms[k]>>
    BY <1>9, <2>2 DEF FormTerm
  <2>4. QED
    BY <1>9, <2>3 DEF LastTerms, s
<1>12. LastTerms(h, from, terms) = {FormTerm(p[1], p[2], h) : p \in P}
  BY <1>10, <1>11
<1>13. QED
  BY <1>12 DEF terms, from

-----------------------------------------------------------------------------
(* The batched products.                                                   *)

RowProducts == {"trimat_madd", "trimatTr_madd", "2trimat_madd"}

(* The rows of B that row i of a product multiplies.                       *)
Multiplied(op, i, n) ==
  {k \in 0 .. n-1 : CASE op = "trimat_madd" -> k >= i
                      [] op = "trimatTr_madd" -> k <= i
                      [] op = "2trimat_madd" -> k # i}

(* btriA is where row bi of A begins, as long as there is one.             *)
BatchPlace ==
  /\ bf \in [op : BatchOps, form : BatchForms]
  /\ dims \in [h : BatchHeights, w : BatchWidths]
  /\ bi \in 0 .. OuterRows
  /\ DOMAIN bC = ResultCells(bf.op, dims)
  /\ bf.op \in {"trimat_madd", "quad_trimat_eval"} /\ bi < dims.h => btriA = RowStart(bi, dims.h)
  /\ bf.op = "quad_trimat_eval" /\ bf.form = "gf256" => bi <= dims.h - LastRows \/ bi = dims.h

(* The rows done have the terms of their row of A, the others none.        *)
RowsDone ==
  \A a \in DOMAIN bC :
    bC[a] = {<<a, NoElement>>} \cup
            (IF a \div dims.w < bi
             THEN RowTerms(a \div dims.w, a % dims.w, Multiplied(bf.op, a \div dims.w, dims.h), dims.h) ELSE {})

(* A row done has its products, and in addition the mirror images that are *)
(* in a later row, when that is done.                                      *)
TriangleDone ==
  \A p \in 0 .. dims.w - 1, q \in 0 .. dims.w - 1 :
    p <= q /\ p < bi =>
      bC[idx_of_trimat(p, q, dims.w)] =
        Entries(p, q, dims.h, dims.w) \cup (IF q < bi THEN Entries(q, p, dims.h, dims.w) ELSE {})

FormDone == bC[0] = FormTerms(bi, dims.h)

BatchRuns ==
  /\ BatchPlace
  /\ bf.op \in RowProducts => RowsDone
  /\ bf.op = "upper_matTr_x_mat" => TriangleDone
  /\ bf.op = "quad_trimat_eval" => FormDone

BatchInv == IF bf.op = "none" THEN BatchIdle ELSE BatchRuns

LEMMA BatchFacts ==
  ASSUME dims \in [h : BatchHeights, w : BatchWidths]
  PROVE  /\ dims.h \in Nat /\ dims.h > 0 /\ dims.w \in Nat /\ dims.w > 0
         /\ LastRows \in Nat /\ LastRows > 0 /\ LastRows <= dims.h
<1> DEFINE x == dims.h
           y == dims.w
<1>1. x \in BatchHeights /\ y \in BatchWidths
  OBVIOUS
<1> HIDE DEF x, y
<1>2. x \in Nat \ {0} /\ y \in Nat \ {0} /\ LastRows \in Nat \ {0}
  BY <1>1, BatchAssumption
<1>3. x >= LastRows
  BY <1>1, BatchAssumption
<1>4. x \in Nat /\ x > 0 /\ y \in Nat /\ y > 0 /\ LastRows \in Nat /\ LastRows > 0 /\ LastRows <= x
  BY <1>2, <1>3
<1>5. QED
  BY <1>4 DEF x, y

LEMMA BatchInitInv == BatchInit => BatchInv
<1> SUFFICES ASSUME BatchInit PROVE BatchInv
  OBVIOUS
<1> DEFINE h == dims.h
           w == dims.w
<1>1. /\ bf \in [op : BatchOps, form : BatchForms] /\ dims \in [h : BatchHeights, w : BatchWidths]
      /\ bi = 0 /\ btriA = 0
      /\ bC = [a \in ResultCells(bf.op, dims) |->
                 IF bf.op = "quad_trimat_eval" THEN {} ELSE {<<a, NoElement>>}]
  BY DEF BatchInit
<1>2. h \in Nat /\ h > 0 /\ w \in Nat /\ w > 0 /\ LastRows \in Nat /\ LastRows <= h
  BY <1>1, BatchFacts
<1>3. bf.op \in BatchOps /\ bf.op # "none"
  <2>1. bf.op \in BatchOps
    BY <1>1
  <2>2. QED
    BY <2>1 DEF BatchOps
<1>4. BatchPlace
  <2>1. OuterRows \in Nat
    BY <1>2 DEF OuterRows
  <2>2. RowStart(0, h) = 0
    BY <1>2, RowStartNext
  <2>3. bi \in 0 .. OuterRows
    BY <1>1, <2>1
  <2>4. DOMAIN bC = ResultCells(bf.op, dims)
    BY <1>1
  <2>5. btriA = RowStart(bi, dims.h)
    BY <1>1, <2>2
  <2>6. bi <= dims.h - LastRows
    BY <1>1, <1>2
  <2>7. QED
    BY <1>1, <2>3, <2>4, <2>5, <2>6 DEF BatchPlace
<1>5. ASSUME bf.op \in RowProducts PROVE RowsDone
  <2>1. bf.op # "quad_trimat_eval"
    BY <1>5 DEF RowProducts
  <2>2. DOMAIN bC = 0 .. h*w - 1
    <3>1. ResultCells(bf.op, dims) = 0 .. h*w - 1
      BY <1>5 DEF ResultCells, RowProducts
    <3>2. QED
      BY <1>1, <3>1
  <2>3. \A a \in DOMAIN bC : ~(a \div w < 0)
    <3> TAKE a \in DOMAIN bC
    <3>1. a \in Nat
      BY <1>2, <2>2, SMT
    <3>2. a \div w \in Nat
      BY <1>2, <3>1, DivMod
    <3>3. QED
      BY <3>2
  <2>4. \A a \in DOMAIN bC : bC[a] = {<<a, NoElement>>} \cup {}
    BY <1>1, <2>1
  <2>5. QED
    BY <1>1, <2>3, <2>4 DEF RowsDone
<1>6. TriangleDone
  BY <1>1 DEF TriangleDone
<1>7. ASSUME bf.op = "quad_trimat_eval" PROVE FormDone
  <2>1. ResultCells(bf.op, dims) = 0 .. 0
    BY <1>7 DEF ResultCells
  <2>2. bC[0] = {}
    BY <1>1, <1>7, <2>1
  <2>3. FormTerms(0, h) = {}
    BY DEF FormTerms
  <2>4. QED
    BY <1>1, <2>2, <2>3 DEF FormDone
<1>8. BatchRuns
  BY <1>4, <1>5, <1>6, <1>7 DEF BatchRuns
<1>9. QED
  BY <1>3, <1>8 DEF BatchInv

(* A cell of a result in rows.                                             *)
LEMMA CellOfRow ==
  ASSUME NEW h \in Nat, NEW w \in Nat, w > 0, NEW a \in 0 .. h*w - 1
  PROVE  a \in Nat /\ a \div w \in 0 .. h-1 /\ a % w \in 0 .. w-1
<1>1. h*w \in Nat
  BY SMT
<1>2. a \in Nat /\ a < h*w
  BY <1>1
<1>3. a \div w \in Nat /\ a % w \in 0 .. w-1 /\ a = w * (a \div w) + (a % w)
  BY <1>2, DivMod
<1> DEFINE q == a \div w
           r == a % w
<1> HIDE DEF q, r
<1>4. q \in Nat /\ r \in 0 .. w-1 /\ a = w*q + r
  BY <1>3 DEF q, r
<1>5. q < h
  <2> SUFFICES ASSUME ~(q < h) PROVE FALSE
    OBVIOUS
  <2>1. q - h \in Nat /\ w*q = h*w + w*(q - h)
    BY <1>4
  <2>2. w*(q - h) \in Nat
    <3> DEFINE d == q - h
    <3>1. d \in Nat
      BY <2>1
    <3> HIDE DEF d
    <3>2. w*d \in Nat
      BY <3>1, SMT
    <3>3. QED
      BY <3>2 DEF d
  <2>3. QED
    BY <1>1, <1>2, <1>4, <2>1, <2>2
<1>6. QED
  BY <1>2, <1>4, <1>5 DEF q, r

(* The three products that go by rows.                                     *)
LEMMA RowsStep ==
  ASSUME BatchPlace, RowsDone, BatchStep, bf.op \in RowProducts
  PROVE  bi' = bi + 1 /\ DOMAIN bC' = DOMAIN bC /\ RowsDone'
<1> DEFINE h == dims.h
           w == dims.w
           S(i) == Multiplied(bf.op, i, h)
<1>1. /\ dims \in [h : BatchHeights, w : BatchWidths] /\ bi \in 0 .. OuterRows
      /\ DOMAIN bC = ResultCells(bf.op, dims)
      /\ bf.op \in {"trimat_madd", "quad_trimat_eval"} /\ bi < h => btriA = RowStart(bi, h)
  BY DEF BatchPlace
<1>2. h \in Nat /\ h > 0 /\ w \in Nat /\ w > 0
  BY <1>1, BatchFacts
<1>3. OuterRows = h
  BY DEF OuterRows, RowProducts
<1>4. bi \in 0 .. h-1 /\ dims' = dims /\ bf' = bf
  <2>1. bi < h /\ dims' = dims /\ bf' = bf
    BY <1>3 DEF BatchStep
  <2>2. QED
    BY <1>1, <1>2, <1>3, <2>1
<1>5. DOMAIN bC = 0 .. h*w - 1
  <2>1. ResultCells(bf.op, dims) = 0 .. h*w - 1
    BY DEF ResultCells, RowProducts
  <2>2. QED
    BY <1>1, <2>1
<1>6. \A a \in DOMAIN bC : a \in Nat /\ a \div w \in 0 .. h-1 /\ a % w \in 0 .. w-1 /\ a % w \in Nat
  <2> HIDE DEF h, w
  <2>1. \A a \in 0 .. h*w - 1 : a \in Nat /\ a \div w \in 0 .. h-1 /\ a % w \in 0 .. w-1
    BY <1>2, CellOfRow
  <2>2. QED
    BY <1>2, <1>5, <2>1
<1>7. /\ bi' = bi + 1 /\ DOMAIN bC' = DOMAIN bC
      /\ \A a \in DOMAIN bC :
           bC'[a] = IF a \div w = bi THEN SymDiff(bC[a], RowTerms(bi, a % w, S(bi), h)) ELSE bC[a]
  <2>1. CASE bf.op = "trimat_madd"
    <3>1. bC' = RowAdded(batch_trimat_madd) /\ bi' = bi + 1 /\ btriA = RowStart(bi, h)
      <4>1. bC' = RowAdded(batch_trimat_madd) /\ bi' = bi + 1
        BY <2>1 DEF BatchStep
      <4>2. bi < h
        BY <1>2, <1>4
      <4>3. QED
        BY <1>1, <2>1, <4>1, <4>2
    <3>2. bC' = [a \in DOMAIN bC |-> IF a \div w = bi THEN SymDiff(bC[a], batch_trimat_madd(bi, a % w)) ELSE bC[a]]
      BY <3>1 DEF RowAdded
    <3>3. S(bi) = {k \in 0 .. h-1 : k >= bi}
      BY <2>1 DEF Multiplied
    <3>4. \A a \in DOMAIN bC : batch_trimat_madd(bi, a % w) = RowTerms(bi, a % w, S(bi), h)
      <4> TAKE a \in DOMAIN bC
      <4>1. batch_trimat_madd(bi, a % w) =
              Prod(RowOfA(RowStart(bi, h), h - bi), FromRow(bf.form, a % w, bi, h - bi, h))
        BY <3>1 DEF batch_trimat_madd
      <4> DEFINE j == a % w
                 i == bi
                 form == bf.form
      <4>2. j \in Nat /\ i \in 0 .. h-1
        BY <1>4, <1>6
      <4> HIDE DEF j, i, h, form, S
      <4>3. Prod(RowOfA(RowStart(i, h), h - i), FromRow(form, j, i, h - i, h)) =
              RowTerms(i, j, {k \in 0 .. h-1 : k >= i}, h)
        BY <1>2, <4>2, MaddTerms
      <4>4. QED
        BY <3>3, <4>1, <4>3 DEF i, j, form
    <3>5. QED
      BY <3>1, <3>2, <3>4
  <2>2. CASE bf.op = "trimatTr_madd"
    <3>1. bC' = RowAdded(batch_trimatTr_madd) /\ bi' = bi + 1
      BY <2>2 DEF BatchStep
    <3>2. bC' = [a \in DOMAIN bC |-> IF a \div w = bi THEN SymDiff(bC[a], batch_trimatTr_madd(bi, a % w)) ELSE bC[a]]
      BY <3>1 DEF RowAdded
    <3>3. S(bi) = {k \in 0 .. h-1 : k <= bi}
      BY <2>2 DEF Multiplied
    <3>4. \A a \in DOMAIN bC : batch_trimatTr_madd(bi, a % w) = RowTerms(bi, a % w, S(bi), h)
      <4> TAKE a \in DOMAIN bC
      <4>1. batch_trimatTr_madd(bi, a % w) = Prod(tmp_Arow(bi, h), FromColumn(a % w, 0, bi + 1, h))
        BY DEF batch_trimatTr_madd
      <4> DEFINE j == a % w
                 i == bi
      <4>2. j \in Nat /\ i \in 0 .. h-1
        BY <1>4, <1>6
      <4> HIDE DEF j, i, h, S
      <4>3. Prod(tmp_Arow(i, h), FromColumn(j, 0, i + 1, h)) = RowTerms(i, j, {k \in 0 .. h-1 : k <= i}, h)
        BY <1>2, <4>2, TransposedTerms
      <4>4. QED
        BY <3>3, <4>1, <4>3 DEF i, j
    <3>5. QED
      BY <3>1, <3>2, <3>4
  <2>3. CASE bf.op = "2trimat_madd"
    <3>1. bC' = RowAdded(batch_2trimat_madd) /\ bi' = bi + 1
      BY <2>3 DEF BatchStep
    <3>2. bC' = [a \in DOMAIN bC |-> IF a \div w = bi THEN SymDiff(bC[a], batch_2trimat_madd(bi, a % w)) ELSE bC[a]]
      BY <3>1 DEF RowAdded
    <3>3. S(bi) = {k \in 0 .. h-1 : k # bi}
      BY <2>3 DEF Multiplied
    <3>4. \A a \in DOMAIN bC : batch_2trimat_madd(bi, a % w) = RowTerms(bi, a % w, S(bi), h)
      <4> TAKE a \in DOMAIN bC
      <4>1. batch_2trimat_madd(bi, a % w) = Prod(tmp_Arow2(bi, h), FromColumn(a % w, 0, h, h))
        BY DEF batch_2trimat_madd
      <4> DEFINE j == a % w
                 i == bi
      <4>2. j \in Nat /\ i \in 0 .. h-1
        BY <1>4, <1>6
      <4> HIDE DEF j, i, h, S
      <4>3. Prod(tmp_Arow2(i, h), FromColumn(j, 0, h, h)) = RowTerms(i, j, {k \in 0 .. h-1 : k # i}, h)
        BY <1>2, <4>2, BothTerms
      <4>4. QED
        BY <3>3, <4>1, <4>3 DEF i, j
    <3>5. QED
      BY <3>1, <3>2, <3>4
  <2>4. QED
    BY <2>1, <2>2, <2>3 DEF RowProducts
<1>8. \A a \in DOMAIN bC :
        bC[a] = {<<a, NoElement>>} \cup
                (IF a \div w < bi THEN RowTerms(a \div w, a % w, S(a \div w), h) ELSE {})
  BY DEF RowsDone
<1>9. ASSUME NEW a \in DOMAIN bC
      PROVE  bC'[a] = {<<a, NoElement>>} \cup
                      (IF a \div w < bi + 1 THEN RowTerms(a \div w, a % w, S(a \div w), h) ELSE {})
  <2> DEFINE i == a \div w
             R == RowTerms(i, a % w, S(i), h)
             x == <<a, NoElement>>
  <2>1. bC[a] = {x} \cup (IF i < bi THEN R ELSE {})
    BY <1>8
  <2>2. bC'[a] = IF i = bi THEN SymDiff(bC[a], R) ELSE bC[a]
    BY <1>7
  <2>3. x \notin R
    <3>1. \A k \in S(i) : x # <<Place(i, k, h), <<a % w, k>>>>
      <4> TAKE k \in S(i)
      <4>1. a % w # -1
        BY <1>6
      <4>2. <<a % w, k>> # NoElement
        BY <4>1 DEF NoElement
      <4>3. QED
        BY <4>2
    <3> HIDE DEF x
    <3>2. QED
      BY <3>1 DEF RowTerms
  <2>4. i \in Nat /\ bi \in Nat
    BY <1>4, <1>6
  <2> HIDE DEF i, R, x
  <2>5. CASE i = bi
    <3>1. ~(i < bi) /\ i < bi + 1
      BY <2>4, <2>5
    <3>2. SymDiff({x}, R) = {x} \cup R
      BY <2>3 DEF SymDiff
    <3>3. bC'[a] = {x} \cup R
      BY <2>1, <2>2, <2>5, <3>1, <3>2
    <3>4. QED
      BY <3>1, <3>3 DEF i, R, x
  <2>6. CASE i # bi
    <3>1. i < bi <=> i < bi + 1
      BY <2>4, <2>6
    <3>2. bC'[a] = {x} \cup (IF i < bi + 1 THEN R ELSE {})
      BY <2>1, <2>2, <2>6, <3>1
    <3>3. QED
      BY <3>2 DEF i, R, x
  <2>7. QED
    BY <2>5, <2>6
<1>10. RowsDone'
  BY <1>4, <1>7, <1>9 DEF RowsDone
<1>11. QED
  BY <1>7, <1>10

(* The triangle of transpose(A)*B.                                         *)
LEMMA TriangleStep ==
  ASSUME BatchPlace, TriangleDone, BatchStep, bf.op = "upper_matTr_x_mat"
  PROVE  bi' = bi + 1 /\ DOMAIN bC' = DOMAIN bC /\ TriangleDone'
<1> DEFINE h == dims.h
           w == dims.w
           E(p, q) == Entries(p, q, h, w)
           idx(p, q) == idx_of_trimat(p, q, w)
           trRow == [j \in 0 .. w-1 |-> Prod([k \in 1 .. h |-> (k - 1)*w + j], FromColumn(bi, 0, h, h))]
           ptr == Walk(bi, w)
<1>1. /\ dims \in [h : BatchHeights, w : BatchWidths] /\ bi \in 0 .. OuterRows
      /\ DOMAIN bC = ResultCells(bf.op, dims)
  BY DEF BatchPlace
<1>2. h \in Nat /\ h > 0 /\ w \in Nat /\ w > 0
  BY <1>1, BatchFacts
<1>3. OuterRows = w
  BY DEF OuterRows
<1>4. bi \in 0 .. w-1 /\ dims' = dims /\ bf' = bf /\ bi' = bi + 1 /\ bC' = batch_upper_matTr_x_mat(bi)
  <2>1. bi < w /\ dims' = dims /\ bf' = bf /\ bi' = bi + 1 /\ bC' = batch_upper_matTr_x_mat(bi)
    BY <1>3 DEF BatchStep
  <2>2. bi \in 0 .. w-1
    BY <1>1, <1>2, <1>3, <2>1
  <2>3. QED
    BY <2>1, <2>2
<1>5. bC' = [a \in DOMAIN bC |->
               IF a \in ptr[bi] .. ptr[bi] + w - bi - 1 THEN trRow[bi + a - ptr[bi]]
               ELSE IF \E j \in 0 .. bi-1 : a = ptr[j]
               THEN SymDiff(bC[a], trRow[CHOOSE j \in 0 .. bi-1 : a = ptr[j]])
               ELSE bC[a]]
  BY <1>4 DEF batch_upper_matTr_x_mat
<1>6. \A j \in 0 .. w-1 : trRow[j] = E(bi, j)
  <2> TAKE j \in 0 .. w-1
  <2>1. trRow[j] = Prod([k \in 1 .. h |-> (k - 1)*w + j], FromColumn(bi, 0, h, h))
    OBVIOUS
  <2>2. j \in Nat /\ bi \in Nat
    BY <1>2, <1>4
  <2> HIDE DEF h, w
  <2>3. Prod([k \in 1 .. h |-> (k - 1)*w + j], FromColumn(bi, 0, h, h)) = Entries(bi, j, h, w)
    BY <1>2, <2>2, ColumnTerms
  <2>4. QED
    BY <2>1, <2>3
<1>7. ptr = [j \in 0 .. bi |-> idx(j, bi)]
  <2> HIDE DEF w
  <2>1. QED
    BY <1>2, <1>4, WalkIs
<1>8. \A p \in 0 .. w-1, q \in 0 .. w-1 : p <= q => idx(p, q) \in DOMAIN bC
  <2> TAKE p \in 0 .. w-1, q \in 0 .. w-1
  <2> HAVE p <= q
  <2> DEFINE u == w - 1
  <2>1. ResultCells(bf.op, dims) = 0 .. idx(u, u)
    BY DEF ResultCells
  <2>2. u \in 0 .. w-1 /\ u + 1 = w /\ q \in p .. w-1
    BY <1>2
  <2> HIDE DEF w, u
  <2>3. idx_of_trimat(p, q, w) \in Nat /\ idx_of_trimat(p, q, w) < RowStart(w, w)
    BY <1>2, <2>2, IdxNat
  <2>4. RowStart(u + 1, w) = RowStart(u, w) + w - u /\ RowStart(u, w) \in Nat
    BY <1>2, <2>2, RowStartNext
  <2>5. idx_of_trimat(u, u, w) = RowStart(u, w) + u - u
    BY IdxIs
  <2>6. idx_of_trimat(p, q, w) \in 0 .. idx_of_trimat(u, u, w)
    BY <1>2, <2>2, <2>3, <2>4, <2>5
  <2>7. QED
    BY <1>1, <2>1, <2>6
<1> HIDE DEF trRow, ptr, h, w
<1> DEFINE s == RowStart(bi, w)
<1>9. s \in Nat /\ ptr[bi] = s
  <2>1. s \in Nat
    BY <1>2, <1>4, RowStartNext
  <2>2. idx_of_trimat(bi, bi, w) = s + bi - bi /\ bi \in 0 .. bi
    BY <1>2, <1>4, IdxIs
  <2> HIDE DEF s
  <2>3. s + bi - bi = s
    BY <1>2, <1>4, <2>1
  <2>4. QED
    BY <1>7, <2>1, <2>2, <2>3
<1>10. ASSUME NEW p \in 0 .. w-1, NEW q \in 0 .. w-1, p <= q, p < bi + 1
       PROVE  bC'[idx(p, q)] = E(p, q) \cup (IF q < bi + 1 THEN E(q, p) ELSE {})
  <2> DEFINE a == idx(p, q)
  <2>1. a \in DOMAIN bC
    BY <1>8, <1>10
  <2>2. q \in p .. w-1 /\ p \in Nat /\ q \in Nat /\ bi \in Nat
    BY <1>2, <1>4, <1>10
  <2>3. a = RowStart(p, w) + q - p /\ a \in Nat /\ a < RowStart(p, w) + w - p /\ RowStart(p, w) \in Nat
    <3>1. a \in Nat /\ a < RowStart(p, w) + w - p
      BY <1>2, <2>2, IdxNat
    <3>2. p \in 0 .. w
      BY <1>2
    <3>3. QED
      BY <1>2, <3>1, <3>2, RowStartNext, IdxIs
  <2>4. CASE p = bi
    <3>1. a \in s .. s + w - bi - 1 /\ bi + a - s = q
      BY <1>2, <1>4, <1>9, <2>2, <2>3, <2>4
    <3> HIDE DEF a, s
    <3>2. bC'[a] = trRow[q]
      BY <1>5, <1>9, <2>1, <3>1
    <3>3. trRow[q] = E(p, q)
      BY <1>6, <2>4
    <3>4. q < bi + 1 => q = p
      BY <1>10, <2>2, <2>4
    <3>5. QED
      BY <3>2, <3>3, <3>4 DEF a
  <2>5. CASE p < bi
    <3>1. a \notin s .. s + w - bi - 1
      <4>1. p \in 0 .. w /\ bi \in 0 .. w
        BY <1>2, <1>4
      <4>2. RowStart(p, w) + w - p <= s
        BY <1>2, <2>5, <4>1, RowStarts
      <4> HIDE DEF s, a
      <4>3. a < s
        BY <1>2, <1>9, <2>2, <2>3, <4>2
      <4>4. QED
        BY <1>9, <2>3, <4>3
    <3>2. bC[a] = E(p, q) \cup (IF q < bi THEN E(q, p) ELSE {})
      BY <1>10, <2>5 DEF TriangleDone, h, w
    <3>3. \A j \in 0 .. bi-1 : ptr[j] = idx(j, bi)
      BY <1>4, <1>7, <2>2
    <3>4. CASE q = bi
      <4>1. p \in 0 .. bi-1 /\ a = ptr[p]
        <5>1. p \in 0 .. bi-1
          BY <2>2, <2>5
        <5>2. QED
          BY <3>3, <3>4, <5>1
      <4>2. ASSUME NEW j \in 0 .. bi-1, a = ptr[j] PROVE j = p
        <5>1. idx(j, q) = idx(p, q)
          BY <3>3, <3>4, <4>2
        <5>2. j \in 0 .. w-1 /\ q \in j .. w-1
          BY <1>2, <1>4, <2>2, <3>4
        <5>3. QED
          BY <1>2, <2>2, <5>1, <5>2, IdxUnique
      <4>3. (CHOOSE j \in 0 .. bi-1 : a = ptr[j]) = p
        BY <4>1, <4>2
      <4> HIDE DEF a, s
      <4>4. bC'[a] = SymDiff(bC[a], trRow[CHOOSE j \in 0 .. bi-1 : a = ptr[j]])
        BY <1>5, <1>9, <2>1, <3>1, <4>1
      <4>5. bC'[a] = SymDiff(bC[a], E(q, p))
        BY <1>6, <3>4, <4>3, <4>4
      <4>6. bC[a] = E(p, q)
        <5>1. ~(q < bi)
          BY <2>2, <3>4
        <5>2. QED
          BY <3>2, <5>1
      <4>7. E(p, q) \cap E(q, p) = {}
        <5>1. p # q
          BY <2>2, <2>5, <3>4
        <5>2. QED
          BY <5>1 DEF Entries
      <4>8. q < bi + 1
        BY <2>2, <3>4
      <4>9. bC'[a] = E(p, q) \cup E(q, p)
        <5> HIDE DEF E
        <5>1. QED
          BY <4>5, <4>6, <4>7 DEF SymDiff
      <4>10. QED
        BY <4>8, <4>9 DEF a
    <3>5. CASE q # bi
      <4>1. ~\E j \in 0 .. bi-1 : a = ptr[j]
        <5> SUFFICES ASSUME NEW j \in 0 .. bi-1, a = ptr[j] PROVE FALSE
          OBVIOUS
        <5>1. idx(j, bi) = idx(p, q)
          BY <3>3
        <5>2. j \in 0 .. w-1 /\ bi \in j .. w-1
          BY <1>2, <1>4, <2>2
        <5>3. bi = q
          BY <1>2, <2>2, <5>1, <5>2, IdxUnique
        <5>4. QED
          BY <3>5, <5>3
      <4> HIDE DEF a, s, E
      <4>2. bC'[a] = bC[a]
        BY <1>5, <1>9, <2>1, <3>1, <4>1
      <4>3. q < bi <=> q < bi + 1
        BY <2>2, <3>5
      <4>4. QED
        BY <3>2, <4>2, <4>3 DEF a
    <3>6. QED
      BY <3>4, <3>5
  <2>6. QED
    BY <1>10, <2>2, <2>4, <2>5
<1>11. TriangleDone'
  BY <1>4, <1>10 DEF TriangleDone, h, w
<1>12. QED
  BY <1>4, <1>5, <1>11

(* Terms of the form from rows i to m-1 are not among those below i.       *)
LEMMA FormTermsTo ==
  ASSUME NEW h \in Nat, NEW i \in Nat, NEW m \in Nat, i <= m
  PROVE  SymDiff(FormTerms(i, h),
                 {FormTerm(p[1], p[2], h) :
                    p \in {q \in (0 .. h-1) \X (0 .. h-1) : q[1] <= q[2] /\ q[1] >= i /\ q[1] < m}}) = FormTerms(m, h)
<1> DEFINE pairs == (0 .. h-1) \X (0 .. h-1)
           P == {q \in pairs : q[1] <= q[2] /\ q[1] < i}
           Q == {q \in pairs : q[1] <= q[2] /\ q[1] >= i /\ q[1] < m}
           R == {q \in pairs : q[1] <= q[2] /\ q[1] < m}
           F(S) == {FormTerm(p[1], p[2], h) : p \in S}
<1>1. R = P \cup Q
  <2>1. \A q \in pairs : q[1] \in Nat
    OBVIOUS
  <2> HIDE DEF pairs
  <2>2. \A q \in pairs : q[1] < m <=> (q[1] < i \/ (q[1] >= i /\ q[1] < m))
    BY <2>1
  <2>3. QED
    BY <2>2
<1>2. ASSUME NEW p \in P, NEW q \in Q PROVE FormTerm(p[1], p[2], h) # FormTerm(q[1], q[2], h)
  <2>1. p[1] \in Nat /\ q[1] \in Nat /\ p[1] < i /\ q[1] >= i
    OBVIOUS
  <2> DEFINE x == p[1]
             y == q[1]
             v == p[2]
             z == q[2]
  <2>2. x # y
    BY <2>1
  <2> HIDE DEF x, y, v, z
  <2>3. FormTerm(x, v, h) # FormTerm(y, z, h)
    BY <2>2 DEF FormTerm
  <2>4. QED
    BY <2>3 DEF x, y, v, z
<1> HIDE DEF P, Q, R
<1>3. F(P) \cap F(Q) = {}
  BY <1>2
<1>4. F(R) = F(P) \cup F(Q)
  BY <1>1
<1> HIDE DEF F
<1>5. SymDiff(F(P), F(Q)) = F(R)
  BY <1>3, <1>4 DEF SymDiff
<1>6. QED
  BY <1>5 DEF F, P, Q, R, pairs, FormTerms

LEMMA FormStep ==
  ASSUME BatchPlace, FormDone, BatchStep, bf.op = "quad_trimat_eval"
  PROVE  /\ bi' \in 0 .. dims.h
         /\ bi' < dims.h => btriA' = RowStart(bi', dims.h)
         /\ bf.form = "gf256" => bi' <= dims.h - LastRows \/ bi' = dims.h
         /\ DOMAIN bC' = DOMAIN bC
         /\ FormDone'
<1> DEFINE h == dims.h
           from == h - LastRows
           last == bf.form = "gf256" /\ bi = h - LastRows
           pairs == (0 .. h-1) \X (0 .. h-1)
<1>1. /\ dims \in [h : BatchHeights, w : BatchWidths] /\ bi \in 0 .. OuterRows
      /\ DOMAIN bC = ResultCells(bf.op, dims)
      /\ bi < h => btriA = RowStart(bi, h)
      /\ bf.form = "gf256" => bi <= from \/ bi = h
  BY DEF BatchPlace
<1>2. h \in Nat /\ h > 0 /\ LastRows \in Nat /\ LastRows > 0 /\ LastRows <= h
  BY <1>1, BatchFacts
<1>3. OuterRows = h
  BY DEF OuterRows
<1>4. bi < h /\ dims' = dims /\ btriA' = btriA + h - bi /\ batch_quad_trimat_eval
  BY <1>3 DEF BatchStep
<1>5. bi \in 0 .. h-1 /\ btriA = RowStart(bi, h)
  BY <1>1, <1>2, <1>3, <1>4
<1>6. DOMAIN bC = {0}
  <2>1. ResultCells(bf.op, dims) = 0 .. 0
    BY DEF ResultCells
  <2>2. 0 .. 0 = {0}
    OBVIOUS
  <2>3. QED
    BY <1>1, <2>1, <2>2
<1>7. DOMAIN bC' = {0} /\ bi' = IF last THEN h ELSE bi + 1
  BY <1>4 DEF batch_quad_trimat_eval
<1>8. CASE last
  <2> DEFINE terms == quad_terms(h)
             Q == {q \in pairs : q[1] <= q[2] /\ q[1] >= from}
             R == {q \in pairs : q[1] <= q[2] /\ q[1] >= from /\ q[1] < h}
  <2>1. bC'[0] = SymDiff(bC[0], {<<btriA + k - 1, terms[k]>> : k \in DOMAIN terms})
    BY <1>4, <1>8 DEF batch_quad_trimat_eval
  <2>2. btriA = RowStart(from, h)
    BY <1>5, <1>8
  <2>3. LastTerms(h, from, terms) = {<<btriA + k - 1, terms[k]>> : k \in DOMAIN terms}
    BY <2>2 DEF LastTerms
  <2>4. LastTerms(h, from, terms) = {FormTerm(p[1], p[2], h) : p \in Q}
    <3> HIDE DEF h
    <3>1. QED
      BY <1>2, LastTermsAre
  <2>5. Q = R
    <3>1. \A q \in pairs : q[1] < h
      BY <1>2
    <3> HIDE DEF pairs
    <3>2. QED
      BY <3>1
  <2>6. SymDiff(FormTerms(from, h), {FormTerm(p[1], p[2], h) : p \in R}) = FormTerms(h, h)
    <3>1. from \in Nat /\ from <= h
      BY <1>2
    <3> HIDE DEF from, h
    <3>2. QED
      BY <1>2, <3>1, FormTermsTo
  <2>7. bC[0] = FormTerms(from, h)
    BY <1>8 DEF FormDone
  <2> HIDE DEF Q, R, terms, from
  <2>8. bC'[0] = FormTerms(h, h)
    BY <2>1, <2>3, <2>4, <2>5, <2>6, <2>7
  <2>9. bi' = h
    BY <1>7, <1>8
  <2>10. FormDone'
    BY <1>4, <2>8, <2>9 DEF FormDone
  <2>11. bi' \in 0 .. h /\ ~(bi' < h)
    BY <1>2, <2>9
  <2>12. QED
    BY <1>6, <1>7, <2>9, <2>10, <2>11
<1>9. CASE ~last
  <2> DEFINE R == {q \in pairs : q[1] <= q[2] /\ q[1] >= bi /\ q[1] < bi + 1}
  <2>1. bC'[0] = SymDiff(bC[0], FormRow(bi))
    BY <1>4, <1>9 DEF batch_quad_trimat_eval
  <2>2. FormRow(bi) = {FormTerm(bi, k, h) : k \in bi .. h-1}
    <3> DEFINE i == bi
    <3>1. i \in 0 .. dims.h - 1 /\ dims.h \in Nat /\ btriA = RowStart(i, dims.h)
      BY <1>2, <1>5
    <3> HIDE DEF i
    <3>2. FormRow(i) = {FormTerm(i, k, dims.h) : k \in i .. dims.h - 1}
      BY <3>1, FormRowIs
    <3>3. QED
      BY <3>2 DEF i
  <2>3. {FormTerm(bi, k, h) : k \in bi .. h-1} = {FormTerm(p[1], p[2], h) : p \in R}
    <3>1. ASSUME NEW k \in bi .. h-1 PROVE \E p \in R : FormTerm(bi, k, h) = FormTerm(p[1], p[2], h)
      <4>1. <<bi, k>> \in R /\ <<bi, k>>[1] = bi /\ <<bi, k>>[2] = k
        BY <1>2, <1>5
      <4> HIDE DEF R
      <4>2. QED
        BY <4>1
    <3>2. \A p \in R : p[1] = bi /\ p[2] \in bi .. h-1
      BY <1>2, <1>5
    <3> HIDE DEF R
    <3>3. ASSUME NEW p \in R PROVE \E k \in bi .. h-1 : FormTerm(bi, k, h) = FormTerm(p[1], p[2], h)
      BY <3>2
    <3>4. QED
      BY <3>1, <3>3
  <2>4. SymDiff(FormTerms(bi, h), {FormTerm(p[1], p[2], h) : p \in R}) = FormTerms(bi + 1, h)
    <3> DEFINE i == bi
               m == bi + 1
    <3>1. i \in Nat /\ m \in Nat /\ i <= m
      BY <1>2, <1>5
    <3>2. R = {q \in pairs : q[1] <= q[2] /\ q[1] >= i /\ q[1] < m}
      OBVIOUS
    <3> HIDE DEF i, m, h, R
    <3>3. SymDiff(FormTerms(i, h), {FormTerm(p[1], p[2], h) : p \in R}) = FormTerms(m, h)
      BY <1>2, <3>1, <3>2, FormTermsTo
    <3>4. QED
      BY <3>3 DEF i, m
  <2>5. bC[0] = FormTerms(bi, h)
    BY DEF FormDone
  <2> HIDE DEF R
  <2>6. bC'[0] = FormTerms(bi + 1, h) /\ bi' = bi + 1
    BY <1>7, <1>9, <2>1, <2>2, <2>3, <2>4, <2>5
  <2>7. FormDone'
    BY <1>4, <2>6 DEF FormDone
  <2>8. btriA' = RowStart(bi + 1, h)
    <3> DEFINE i == bi
    <3>1. i \in 0 .. h-1
      BY <1>5
    <3> HIDE DEF i, h
    <3>2. RowStart(i + 1, h) = RowStart(i, h) + h - i
      BY <1>2, <3>1, RowStartNext
    <3>3. QED
      BY <1>4, <1>5, <3>2 DEF i
  <2>9. bi + 1 \in 0 .. h
    BY <1>2, <1>5
  <2>10. bf.form = "gf256" => bi + 1 <= from
    <3>1. bf.form = "gf256" => bi <= from /\ bi # from
      BY <1>1, <1>2, <1>5, <1>9
    <3>2. QED
      BY <1>2, <1>5, <3>1
  <2>11. QED
    BY <1>6, <1>7, <2>6, <2>7, <2>8, <2>9, <2>10
<1>10. QED
  BY <1>8, <1>9

LEMMA BatchStepInv == BatchInv /\ BatchStep => BatchInv'
<1> SUFFICES ASSUME BatchInv, BatchStep PROVE BatchInv'
  OBVIOUS
<1>1. bf' = bf /\ dims' = dims /\ bi < OuterRows
  BY DEF BatchStep
<1>2. bf.op # "none"
  BY DEF BatchStep
<1>3. /\ BatchPlace
      /\ bf.op \in RowProducts => RowsDone
      /\ bf.op = "upper_matTr_x_mat" => TriangleDone
      /\ bf.op = "quad_trimat_eval" => FormDone
  BY <1>2 DEF BatchInv, BatchRuns
<1>4. /\ bf \in [op : BatchOps, form : BatchForms]
      /\ dims \in [h : BatchHeights, w : BatchWidths]
      /\ bi \in 0 .. OuterRows
      /\ DOMAIN bC = ResultCells(bf.op, dims)
      /\ bf.op \in {"trimat_madd", "quad_trimat_eval"} /\ bi < dims.h => btriA = RowStart(bi, dims.h)
  BY <1>3 DEF BatchPlace
<1>5. dims.h \in Nat /\ dims.h > 0 /\ dims.w \in Nat /\ dims.w > 0
  BY <1>4, BatchFacts
<1>6. OuterRows \in Nat /\ OuterRows' = OuterRows
  BY <1>1, <1>5 DEF OuterRows
<1>7. ResultCells(bf.op, dims)' = ResultCells(bf.op, dims)
  BY <1>1 DEF ResultCells
<1>8. bf.op \in RowProducts \cup {"upper_matTr_x_mat", "quad_trimat_eval"}
  BY <1>4 DEF BatchOps, RowProducts
<1>9. ASSUME bi' = bi + 1, bf.op # "quad_trimat_eval", DOMAIN bC' = DOMAIN bC PROVE BatchPlace'
  <2>1. bi' \in 0 .. OuterRows'
    BY <1>1, <1>4, <1>6, <1>9
  <2>2. bf.op = "trimat_madd" => OuterRows = dims.h
    BY DEF OuterRows
  <2>3. bf.op = "trimat_madd" /\ bi' < dims.h => btriA' = RowStart(bi', dims.h)
    <3> SUFFICES ASSUME bf.op = "trimat_madd" PROVE btriA' = RowStart(bi', dims.h)
      OBVIOUS
    <3> DEFINE i == bi
               n == dims.h
    <3>1. i \in 0 .. n-1 /\ btriA = RowStart(i, n)
      BY <1>1, <1>4, <1>5, <2>2
    <3>2. btriA' = btriA + n - i
      BY DEF BatchStep
    <3> HIDE DEF i, n
    <3>3. n \in Nat
      BY <1>5 DEF n
    <3>4. RowStart(i + 1, n) = RowStart(i, n) + n - i
      BY <3>1, <3>3, RowStartNext
    <3>5. QED
      BY <1>9, <3>1, <3>2, <3>4 DEF i, n
  <2>4. DOMAIN bC' = ResultCells(bf.op, dims)'
    BY <1>4, <1>7, <1>9
  <2>5. QED
    BY <1>1, <1>4, <1>9, <2>1, <2>3, <2>4 DEF BatchPlace
<1>10. CASE bf.op \in RowProducts
  <2>1. bf.op # "upper_matTr_x_mat" /\ bf.op # "quad_trimat_eval"
    BY <1>10 DEF RowProducts
  <2>2. bi' = bi + 1 /\ DOMAIN bC' = DOMAIN bC /\ RowsDone'
    BY <1>3, <1>10, RowsStep
  <2>3. BatchPlace'
    BY <1>9, <2>1, <2>2
  <2>4. QED
    BY <1>1, <1>2, <2>1, <2>2, <2>3 DEF BatchInv, BatchRuns
<1>11. CASE bf.op = "upper_matTr_x_mat"
  <2>1. bf.op \notin RowProducts /\ bf.op # "quad_trimat_eval"
    BY <1>11 DEF RowProducts
  <2>2. bi' = bi + 1 /\ DOMAIN bC' = DOMAIN bC /\ TriangleDone'
    BY <1>3, <1>11, TriangleStep
  <2>3. BatchPlace'
    BY <1>9, <2>1, <2>2
  <2>4. QED
    BY <1>1, <1>2, <2>1, <2>2, <2>3 DEF BatchInv, BatchRuns
<1>12. CASE bf.op = "quad_trimat_eval"
  <2>1. bf.op \notin RowProducts /\ bf.op # "upper_matTr_x_mat"
    BY <1>12 DEF RowProducts
  <2>2. /\ bi' \in 0 .. dims.h
        /\ bi' < dims.h => btriA' = RowStart(bi', dims.h)
        /\ bf.form = "gf256" => bi' <= dims.h - LastRows \/ bi' = dims.h
        /\ DOMAIN bC' = DOMAIN bC
        /\ FormDone'
    BY <1>3, <1>12, FormStep
  <2>3. OuterRows' = dims.h
    BY <1>6, <1>12 DEF OuterRows
  <2>4. DOMAIN bC' = ResultCells(bf.op, dims)'
    BY <1>4, <1>7, <2>2
  <2>5. BatchPlace'
    BY <1>1, <1>4, <2>2, <2>3, <2>4 DEF BatchPlace
  <2>6. QED
    BY <1>1, <1>2, <2>1, <2>2, <2>5 DEF BatchInv, BatchRuns
<1>13. QED
  BY <1>8, <1>10, <1>11, <1>12

LEMMA BatchInductive == Spec => []BatchInv
<1>1. Init => BatchInv
  <2>1. BatchIdle => BatchInv
    BY DEF BatchInv, BatchIdle
  <2>2. Init => BatchInit \/ BatchIdle
    BY DEF Init
  <2>3. QED
    BY <2>1, <2>2, BatchInitInv
<1>2. BatchInv /\ [Next]_vars => BatchInv'
  <2> SUFFICES ASSUME BatchInv, [Next]_vars PROVE BatchInv'
    OBVIOUS
  <2>1. BatchStep \/ UNCHANGED batch_vars
    BY DEF Next, vars
  <2>2. CASE UNCHANGED batch_vars
    <3>1. bf' = bf /\ dims' = dims /\ bi' = bi /\ btriA' = btriA /\ bC' = bC
      BY <2>2 DEF batch_vars
    <3>2. BatchIdle' = BatchIdle
      BY <3>1 DEF BatchIdle
    <3>3. BatchPlace' = BatchPlace
      BY <3>1 DEF BatchPlace, OuterRows
    <3>4. RowsDone' = RowsDone /\ TriangleDone' = TriangleDone /\ FormDone' = FormDone
      BY <3>1 DEF RowsDone, TriangleDone, FormDone
    <3>5. QED
      BY <3>1, <3>2, <3>3, <3>4 DEF BatchInv, BatchRuns
  <2>3. QED
    BY <2>1, <2>2, BatchStepInv
<1>3. QED
  BY <1>1, <1>2, PTL DEF Spec

(* Every batched product, for a matrix of any size and in every form of B, *)
(* multiplies the pairs of matrix algebra, each once, wherever the loops   *)
(* find them: row by row, down a column whose stride shrinks, across the   *)
(* diagonal, with odd rows of GF(16) in the middle of a byte, and with the *)
(* last rows of a quadratic form in one product.                           *)
THEOREM BatchedProductsRight == Spec => []BatchRight
<1>1. BatchInv => BatchRight
  <2> SUFFICES ASSUME BatchInv, bi = OuterRows, NEW a \in DOMAIN bC PROVE bC[a] = BatchExpected(a)
    BY DEF BatchRight
  <2> DEFINE h == dims.h
             w == dims.w
  <2>1. CASE bf.op = "none"
    BY <2>1 DEF BatchInv, BatchIdle
  <2>2. CASE bf.op # "none"
    <3>1. /\ BatchPlace
          /\ bf.op \in RowProducts => RowsDone
          /\ bf.op = "upper_matTr_x_mat" => TriangleDone
          /\ bf.op = "quad_trimat_eval" => FormDone
      BY <2>2 DEF BatchInv, BatchRuns
    <3>2. /\ bf \in [op : BatchOps, form : BatchForms] /\ dims \in [h : BatchHeights, w : BatchWidths]
          /\ DOMAIN bC = ResultCells(bf.op, dims)
      BY <3>1 DEF BatchPlace
    <3>3. h \in Nat /\ h > 0 /\ w \in Nat /\ w > 0
      BY <3>2, BatchFacts
    <3>4. bf.op \in RowProducts \cup {"upper_matTr_x_mat", "quad_trimat_eval"}
      BY <3>2 DEF BatchOps, RowProducts
    <3>5. CASE bf.op \in RowProducts
      <4> DEFINE i == a \div w
                 j == a % w
      <4>1. DOMAIN bC = 0 .. h*w - 1
        <5>1. ResultCells(bf.op, dims) = 0 .. h*w - 1
          BY <3>5 DEF ResultCells, RowProducts
        <5>2. QED
          BY <3>2, <5>1
      <4>2. i < bi
        <5>1. bi = h
          BY <3>5 DEF OuterRows, RowProducts
        <5> HIDE DEF h, w
        <5>2. a \div w \in 0 .. h-1
          BY <3>3, <4>1, CellOfRow
        <5>3. QED
          BY <3>3, <5>1, <5>2
      <4>3. bC[a] = {<<a, NoElement>>} \cup RowTerms(i, j, Multiplied(bf.op, i, h), h)
        BY <3>1, <3>5, <4>2 DEF RowsDone
      <4>4. \A k : Tri(i, k) = Place(i, k, h)
        BY DEF Tri, Place
      <4> DEFINE all == 0 .. h-1
                 sum(S) == {<<Tri(i, k), <<j, k>>>> : k \in S}
      <4>5. \A S : RowTerms(i, j, S, h) = sum(S)
        BY <4>4 DEF RowTerms
      <4>6. CASE bf.op = "trimat_madd"
        <5>1. Multiplied(bf.op, i, h) = {k \in all : k >= i}
          BY <4>6 DEF Multiplied
        <5>2. BatchExpected(a) = {<<a, NoElement>>} \cup sum({k \in all : k >= i})
          BY <4>6 DEF BatchExpected
        <5> HIDE DEF sum, all, i, j
        <5>3. QED
          BY <4>3, <4>5, <5>1, <5>2
      <4>7. CASE bf.op = "trimatTr_madd"
        <5>1. Multiplied(bf.op, i, h) = {k \in all : k <= i}
          BY <4>7 DEF Multiplied
        <5>2. BatchExpected(a) = {<<a, NoElement>>} \cup sum({k \in all : k <= i})
          BY <4>7 DEF BatchExpected
        <5> HIDE DEF sum, all, i, j
        <5>3. QED
          BY <4>3, <4>5, <5>1, <5>2
      <4>8. CASE bf.op = "2trimat_madd"
        <5>1. Multiplied(bf.op, i, h) = all \ {i}
          BY <4>8 DEF Multiplied
        <5>2. BatchExpected(a) = {<<a, NoElement>>} \cup sum(all \ {i})
          BY <4>8 DEF BatchExpected
        <5> HIDE DEF sum, all, i, j
        <5>3. QED
          BY <4>3, <4>5, <5>1, <5>2
      <4>9. QED
        BY <3>5, <4>6, <4>7, <4>8 DEF RowProducts
    <3>6. CASE bf.op = "upper_matTr_x_mat"
      <4> DEFINE u == w - 1
                 pairs == (0 .. w-1) \X (0 .. w-1)
                 pair == CHOOSE p \in pairs : p[1] <= p[2] /\ idx_of_trimat(p[1], p[2], w) = a
                 entry(p, q) == {<<k * w + q, <<p, k>>>> : k \in 0 .. h-1}
      <4>1. BatchExpected(a) = entry(pair[1], pair[2]) \cup entry(pair[2], pair[1])
        BY <3>6 DEF BatchExpected
      <4>2. bi = w
        BY <3>6 DEF OuterRows
      <4>3. a \in 0 .. idx_of_trimat(u, u, w)
        BY <3>2, <3>6 DEF ResultCells
      <4>4. u \in 0 .. w-1 /\ u + 1 = w /\ u \in u .. w-1
        BY <3>3
      <4>5. \A p, q : entry(p, q) = Entries(p, q, h, w)
        BY DEF Entries
      <4> HIDE DEF entry, h, w, u
      <4>6. a \in Nat /\ a < RowStart(w, w)
        <5>1. idx_of_trimat(u, u, w) \in Nat /\ idx_of_trimat(u, u, w) < RowStart(w, w)
          BY <3>3, <4>4, IdxNat
        <5>2. RowStart(w, w) \in Nat
          BY <3>3, RowStartNext
        <5>3. QED
          BY <4>3, <5>1, <5>2
      <4>7. PICK p \in 0 .. w-1 : \E q \in p .. w-1 : idx_of_trimat(p, q, w) = a
        BY <3>3, <4>6, IdxCovers
      <4>8. PICK q \in p .. w-1 : idx_of_trimat(p, q, w) = a
        BY <4>7
      <4>9. pair \in pairs /\ pair[1] <= pair[2] /\ idx_of_trimat(pair[1], pair[2], w) = a
        <5> DEFINE x == <<p, q>>
        <5>1. x \in pairs /\ x[1] = p /\ x[2] = q /\ p <= q
          BY <3>3
        <5> HIDE DEF x
        <5>2. \E y \in pairs : y[1] <= y[2] /\ idx_of_trimat(y[1], y[2], w) = a
          BY <4>8, <5>1
        <5>3. QED
          BY <5>2
      <4> HIDE DEF pair
      <4>10. pair[1] = p /\ pair[2] = q
        <5> DEFINE x == pair[1]
                   y == pair[2]
        <5>1. x \in 0 .. w-1 /\ y \in x .. w-1 /\ idx_of_trimat(p, q, w) = idx_of_trimat(x, y, w)
          BY <3>3, <4>8, <4>9
        <5> HIDE DEF x, y
        <5>2. p = x /\ q = y
          BY <3>3, <5>1, IdxUnique
        <5>3. QED
          BY <5>2 DEF x, y
      <4>11. p \in 0 .. w-1 /\ q \in 0 .. w-1 /\ p <= q /\ p < bi /\ q < bi
        BY <3>3, <4>2
      <4>12. bC[a] = Entries(p, q, h, w) \cup Entries(q, p, h, w)
        BY <3>1, <3>6, <4>8, <4>11 DEF TriangleDone, h, w
      <4>13. QED
        BY <4>1, <4>5, <4>10, <4>12
    <3>7. CASE bf.op = "quad_trimat_eval"
      <4> DEFINE pairs == (0 .. h-1) \X (0 .. h-1)
                 P == {q \in pairs : q[1] <= q[2]}
                 R == {q \in pairs : q[1] <= q[2] /\ q[1] < h}
      <4>1. BatchExpected(a) = {<<Tri(p[1], p[2]), <<<<0, p[1]>>, <<0, p[2]>>>>>> : p \in P}
        BY <3>7 DEF BatchExpected
      <4>2. a = 0
        <5>1. ResultCells(bf.op, dims) = 0 .. 0
          BY <3>7 DEF ResultCells
        <5>2. QED
          BY <3>2, <5>1
      <4>3. bC[a] = FormTerms(h, h)
        <5>1. bi = h
          BY <3>7 DEF OuterRows
        <5>2. QED
          BY <3>1, <3>7, <4>2, <5>1 DEF FormDone
      <4>4. P = R
        <5>1. \A q \in pairs : q[1] < h
          BY <3>3
        <5> HIDE DEF pairs
        <5>2. QED
          BY <5>1
      <4>5. \A p \in P : <<Tri(p[1], p[2]), <<<<0, p[1]>>, <<0, p[2]>>>>>> = FormTerm(p[1], p[2], h)
        <5>1. \A p \in P : Tri(p[1], p[2]) = idx_of_trimat(p[1], p[2], h)
          BY DEF Tri
        <5> HIDE DEF P
        <5>2. QED
          BY <5>1 DEF FormTerm
      <4>6. FormTerms(h, h) = {FormTerm(p[1], p[2], h) : p \in R}
        BY DEF FormTerms
      <4> HIDE DEF P, R, h
      <4>7. QED
        BY <4>1, <4>3, <4>4, <4>5, <4>6
    <3>8. QED
      BY <3>4, <3>5, <3>6, <3>7
  <2>3. QED
    BY <2>1, <2>2
<1>2. QED
  BY <1>1, BatchInductive, PTL

-----------------------------------------------------------------------------
(* The rows of a public key: those of the triangle P1, the rectangle P2    *)
(* and the triangle P3.                                                    *)
MapRows == 2*MapV + MapO
VarOf(m) == IF m < MapV THEN m ELSE m - MapV
FirstOf(m) == IF m < MapV THEN m ELSE IF m < 2*MapV THEN MapV ELSE m - MapV
LastOf(m) == IF m < MapV THEN MapV - 1 ELSE PUB_N - 1

(* The coefficients in front of a row, and the monomials of these rows.    *)
KeyRow(m) ==
  IF m < MapV THEN RowStart(m, MapV)
  ELSE IF m < 2*MapV THEN RowStart(MapV, MapV) + (m - MapV)*MapO
  ELSE RowStart(MapV, MapV) + MapV*MapO + RowStart(m - 2*MapV, MapO)
Done(m, p) == (p[2] < MapV /\ p[1] < m) \/ (p[2] >= MapV /\ p[1] < m - MapV)

LEMMA MapFacts ==
  /\ MapV \in Nat /\ MapV > 0 /\ MapO \in Nat /\ MapO > 1
  /\ PUB_N = MapV + MapO /\ PUB_N \in Nat /\ MapRows = 2*MapV + MapO /\ MapRows \in Nat
<1>1. MapV \in Nat /\ MapV > 0 /\ MapO \in Nat /\ MapO > 1
  BY MapAssumption
<1>2. QED
  BY <1>1 DEF PUB_N, MapRows

LEMMA KeyRowNext ==
  ASSUME NEW m \in 0 .. MapRows - 1
  PROVE  /\ KeyRow(m) \in Nat
         /\ FirstOf(m) \in Nat /\ LastOf(m) \in Nat /\ FirstOf(m) <= LastOf(m)
         /\ KeyRow(m + 1) = KeyRow(m) + LastOf(m) - FirstOf(m) + 1
<1> DEFINE V == MapV
           O == MapO
           s == RowStart(V, V)
           r == V*O
<1>1. V \in Nat /\ V > 0 /\ O \in Nat /\ O > 1 /\ PUB_N = V + O /\ m \in Nat /\ m < 2*V + O
  BY MapFacts
<1>2. RowStart(0, O) = 0 /\ s \in Nat
  BY <1>1, RowStartNext
<1>3. r \in Nat
  BY <1>1, SMT
<1>4. CASE m < V
  <2>1. m \in 0 .. V-1 /\ m \in 0 .. V
    BY <1>1, <1>4
  <2> HIDE DEF V, O, s
  <2>2. RowStart(m, V) \in Nat /\ RowStart(m + 1, V) = RowStart(m, V) + V - m
    BY <1>1, <2>1, RowStartNext
  <2>3. KeyRow(m) = RowStart(m, V) /\ FirstOf(m) = m /\ LastOf(m) = V - 1
    BY <1>4 DEF KeyRow, FirstOf, LastOf, V
  <2>4. KeyRow(m + 1) = RowStart(m + 1, V)
    <3>1. CASE m + 1 < V
      BY <3>1 DEF KeyRow, V
    <3>2. CASE m + 1 = V
      <4>1. ~(m + 1 < V) /\ m + 1 < 2*V
        BY <1>1, <3>2
      <4>2. KeyRow(m + 1) = s + ((m + 1) - V)*O
        BY <4>1 DEF KeyRow, V, O, s
      <4>3. ((m + 1) - V)*O = 0
        <5>1. (m + 1) - V = 0
          BY <1>1, <3>2
        <5>2. 0*O = 0
          BY <1>1
        <5>3. QED
          BY <5>1, <5>2
      <4>4. s + 0 = s
        BY <1>2
      <4>5. QED
        BY <3>2, <4>2, <4>3, <4>4 DEF s
    <3>3. QED
      BY <1>1, <1>4, <3>1, <3>2
  <2>5. QED
    BY <1>1, <1>4, <2>2, <2>3, <2>4
<1>5. CASE ~(m < V) /\ m < 2*V
  <2> DEFINE d == m - V
  <2>1. d \in Nat /\ d < V /\ (m + 1) - V = d + 1 /\ m = d + V
    BY <1>1, <1>5
  <2>2. KeyRow(m) = s + d*O /\ FirstOf(m) = V /\ LastOf(m) = V + O - 1
    BY <1>1, <1>5 DEF KeyRow, FirstOf, LastOf
  <2>3. d*O \in Nat /\ (d + 1)*O = d*O + O
    <3> HIDE DEF d, V, O
    <3>1. QED
      BY <1>1, <2>1, SMT
  <2>4. KeyRow(m + 1) = s + (d + 1)*O
    <3>1. ~(m + 1 < V)
      BY <1>1, <1>5
    <3>2. CASE m + 1 < 2*V
      <4>1. KeyRow(m + 1) = s + ((m + 1) - V)*O
        BY <3>1, <3>2 DEF KeyRow
      <4> HIDE DEF d, s, O
      <4>2. QED
        BY <2>1, <4>1
    <3>3. CASE m + 1 = 2*V
      <4>1. ~(m + 1 < 2*V) /\ (m + 1) - 2*V = 0
        BY <1>1, <3>3
      <4>2. KeyRow(m + 1) = s + r + RowStart((m + 1) - 2*V, O)
        BY <3>1, <4>1 DEF KeyRow
      <4>3. RowStart((m + 1) - 2*V, O) = 0
        BY <1>2, <4>1
      <4>4. d + 1 = V
        BY <1>1, <2>1, <3>3
      <4> HIDE DEF d, s, V, O
      <4>5. (d + 1)*O = r
        BY <4>4 DEF r
      <4>6. QED
        BY <1>2, <1>3, <4>2, <4>3, <4>5
    <3>4. QED
      BY <1>1, <1>5, <3>2, <3>3
  <2> HIDE DEF d, s, V, O
  <2>5. V + O - 1 \in Nat /\ V <= V + O - 1 /\ (V + O - 1) - V + 1 = O
    BY <1>1
  <2> DEFINE x == d*O
             y == (d + 1)*O
  <2>6. x \in Nat /\ y = x + O
    BY <2>3
  <2> HIDE DEF x, y
  <2>7. KeyRow(m) = s + x /\ KeyRow(m + 1) = s + y
    BY <2>2, <2>4 DEF x, y
  <2>8. s + x \in Nat /\ s + y = (s + x) + (V + O - 1) - V + 1
    BY <1>1, <1>2, <2>6
  <2>9. QED
    BY <1>1, <2>2, <2>5, <2>7, <2>8
<1>6. CASE ~(m < 2*V)
  <2> DEFINE d == m - 2*V
  <2>1. d \in 0 .. O-1 /\ d \in 0 .. O /\ (m + 1) - 2*V = d + 1 /\ ~(m < V) /\ ~(m + 1 < V) /\ ~(m + 1 < 2*V)
    BY <1>1, <1>6
  <2>2. KeyRow(m) = s + r + RowStart(d, O) /\ FirstOf(m) = m - V /\ LastOf(m) = V + O - 1
    BY <1>1, <1>6, <2>1 DEF KeyRow, FirstOf, LastOf
  <2>3. KeyRow(m + 1) = s + r + RowStart((m + 1) - 2*V, O)
    BY <2>1 DEF KeyRow
  <2>4. m - V = d + V
    BY <1>1
  <2> HIDE DEF s, V, O, d, r
  <2>5. RowStart(d, O) \in Nat /\ RowStart(d + 1, O) = RowStart(d, O) + O - d
    BY <1>1, <2>1, RowStartNext
  <2>6. KeyRow(m + 1) = s + r + (RowStart(d, O) + O - d)
    BY <2>1, <2>3, <2>5
  <2>7. QED
    BY <1>1, <1>2, <1>3, <2>1, <2>2, <2>4, <2>5, <2>6
<1>7. QED
  BY <1>1, <1>4, <1>5, <1>6

(* The triangle of a sum.                                                  *)
LEMMA HalfOfSum ==
  ASSUME NEW a \in Nat, NEW b \in Nat
  PROVE  /\ ((a + b)*((a + b) + 1)) \div 2 = (a*(a + 1)) \div 2 + a*b + (b*(b + 1)) \div 2
         /\ (a*(a + 1)) \div 2 \in Nat /\ (b*(b + 1)) \div 2 \in Nat
<1> DEFINE H(x) == (x*(x + 1)) \div 2
           T == {d \in Nat : H(a + d) = H(a) + a*d + H(d)}
<1>1. \A x \in Nat : H(x) \in Nat
  <2> TAKE x \in Nat
  <2> DEFINE u == x*(x + 1)
  <2>1. u \in Nat
    BY SMT
  <2> HIDE DEF u
  <2>2. u \div 2 \in Nat
    BY <2>1, DivMod
  <2>3. QED
    BY <2>2 DEF u
<1>2. \A x \in Nat : H(x + 1) = H(x) + x + 1
  BY HalfNext
<1>3. H(0) = 0
  <2>1. 0*(0 + 1) = 0 /\ 0 \div 2 = 0
    OBVIOUS
  <2>2. QED
    BY <2>1
<1> HIDE DEF H
<1>4. 0 \in T
  <2>1. a + 0 = a /\ a*0 = 0
    OBVIOUS
  <2>2. QED
    BY <1>1, <1>3, <2>1
<1>5. ASSUME NEW d \in Nat, d \in T PROVE d + 1 \in T
  <2>1. H(a + d) = H(a) + a*d + H(d)
    BY <1>5
  <2>2. a + (d + 1) = (a + d) + 1 /\ a + d \in Nat /\ a*(d + 1) = a*d + a
    OBVIOUS
  <2>3. H((a + d) + 1) = H(a + d) + (a + d) + 1 /\ H(d + 1) = H(d) + d + 1
    BY <1>2, <2>2
  <2>4. a*d \in Nat
    BY SMT
  <2> DEFINE p == a*d
             q == a*(d + 1)
  <2> HIDE DEF p, q
  <2>5. H(a + (d + 1)) = H(a) + q + H(d + 1)
    <3>1. H(a + d) = H(a) + p + H(d) /\ q = p + a /\ p \in Nat
      BY <2>1, <2>2, <2>4 DEF p, q
    <3>2. H(a) \in Nat /\ H(d) \in Nat /\ H(a + d) \in Nat /\ H(d + 1) \in Nat /\ H((a + d) + 1) \in Nat
      BY <1>1, <2>2
    <3>3. QED
      BY <2>2, <2>3, <3>1, <3>2
  <2>6. QED
    BY <2>5 DEF q
<1> HIDE DEF T
<1>6. b \in T
  BY <1>4, <1>5, NatSetInduction
<1>7. QED
  BY <1>1, <1>6 DEF T, H

LEMMA TriangleSize ==
  ASSUME NEW n \in Nat
  PROVE  RowStart(n, n) = (n*(n + 1)) \div 2 /\ RowStart(n, n) \in Nat
<1>1. n <= n /\ n - n = 0
  OBVIOUS
<1>2. RowStart(n, n) = RowStart(n - n, n) + (n*(n + 1)) \div 2 /\ (n*(n + 1)) \div 2 \in Nat
  BY <1>1, LastRowsSize
<1>3. RowStart(0, n) = 0
  BY RowStartNext
<1>4. QED
  BY <1>1, <1>2, <1>3

LEMMA KeyRowLast == KeyRow(MapRows) = Coefficients /\ Coefficients \in Nat
<1> DEFINE V == MapV
           O == MapO
           r == V*O
           x == RowStart(V, V)
           y == RowStart(O, O)
<1>1. V \in Nat /\ V > 0 /\ O \in Nat /\ PUB_N = V + O /\ MapRows = 2*V + O
  BY MapFacts
<1>2. r \in Nat
  BY <1>1, SMT
<1>3. ~(MapRows < V) /\ ~(MapRows < 2*V) /\ MapRows - 2*V = O
  BY <1>1
<1>4. KeyRow(MapRows) = x + r + y
  BY <1>3 DEF KeyRow
<1>5. x = (V*(V + 1)) \div 2 /\ y = (O*(O + 1)) \div 2 /\ x \in Nat /\ y \in Nat
  <2> HIDE DEF V, O
  <2>1. QED
    BY <1>1, TriangleSize
<1>6. ((V + O)*((V + O) + 1)) \div 2 = (V*(V + 1)) \div 2 + r + (O*(O + 1)) \div 2
  <2> HIDE DEF V, O
  <2>1. QED
    BY <1>1, HalfOfSum DEF r
<1>7. Coefficients = ((V + O)*((V + O) + 1)) \div 2
  BY <1>1 DEF Coefficients
<1> DEFINE z == Coefficients
<1> HIDE DEF x, y, r, z
<1>8. z = x + r + y
  BY <1>5, <1>6, <1>7 DEF z
<1>9. QED
  BY <1>2, <1>4, <1>5, <1>8 DEF z

(* No row but the last one has the last coefficient.                       *)
LEMMA KeyRowInside ==
  ASSUME NEW m \in 0 .. MapRows - 1
  PROVE  /\ KeyRow(m + 1) <= Coefficients /\ KeyRow(m + 1) \in Nat
         /\ m # MapRows - 1 => KeyRow(m + 1) + 1 <= Coefficients
<1> DEFINE T == {d \in Nat : m + 1 + d <= MapRows =>
                   KeyRow(m + 1) + d <= KeyRow(m + 1 + d) /\ KeyRow(m + 1) \in Nat /\ KeyRow(m + 1 + d) \in Nat}
<1>1. m \in Nat /\ MapRows \in Nat /\ m < MapRows
  BY MapFacts
<1>2. 0 \in T
  <2>1. KeyRow(m + 1) \in Nat
    BY KeyRowNext
  <2>2. m + 1 + 0 = m + 1
    BY <1>1
  <2>3. QED
    BY <2>1, <2>2
<1>3. ASSUME NEW d \in Nat, d \in T PROVE d + 1 \in T
  <2> SUFFICES ASSUME m + 1 + (d + 1) <= MapRows
               PROVE  KeyRow(m + 1) + (d + 1) <= KeyRow(m + 1 + (d + 1))
                      /\ KeyRow(m + 1) \in Nat /\ KeyRow(m + 1 + (d + 1)) \in Nat
    OBVIOUS
  <2> DEFINE k == m + 1 + d
  <2>1. k \in 0 .. MapRows - 1 /\ m + 1 + (d + 1) = k + 1 /\ m + 1 + d <= MapRows
    BY <1>1
  <2>2. KeyRow(m + 1) + d <= KeyRow(k) /\ KeyRow(m + 1) \in Nat
    BY <1>3, <2>1
  <2> HIDE DEF k
  <2>3. /\ KeyRow(k) \in Nat /\ FirstOf(k) \in Nat /\ LastOf(k) \in Nat /\ FirstOf(k) <= LastOf(k)
        /\ KeyRow(k + 1) = KeyRow(k) + LastOf(k) - FirstOf(k) + 1
    BY <2>1, KeyRowNext
  <2>4. KeyRow(k + 1) \in Nat /\ KeyRow(k) + 1 <= KeyRow(k + 1)
    BY <2>3
  <2>5. KeyRow(m + 1) + (d + 1) <= KeyRow(k + 1)
    BY <2>2, <2>3, <2>4
  <2>6. QED
    BY <2>1, <2>2, <2>4, <2>5
<1> HIDE DEF T
<1>4. Nat \subseteq T
  BY <1>2, <1>3, NatSetInduction
<1> DEFINE d == MapRows - (m + 1)
<1>5. d \in Nat /\ m + 1 + d = MapRows /\ m + 1 + d <= MapRows /\ (m # MapRows - 1 => d >= 1)
  BY <1>1
<1> HIDE DEF d
<1>6. d \in T
  BY <1>4, <1>5
<1>7. KeyRow(m + 1) + d <= Coefficients /\ KeyRow(m + 1) \in Nat /\ Coefficients \in Nat
  BY <1>5, <1>6, KeyRowLast DEF T
<1>8. QED
  BY <1>5, <1>7

-----------------------------------------------------------------------------
(* The order of the coefficients.                                          *)

(* Rows behind each other, once as a pointer finds them and once counted   *)
(* from the end of the row.                                                *)
LEMMA TriIs ==
  ASSUME NEW n \in Nat, NEW i \in 0 .. n
  PROVE  i*n - (i*(i - 1)) \div 2 = RowStart(i, n)
<1> DEFINE H(x) == (x*(x - 1)) \div 2
           T == {d \in Nat : d <= n => d*n - H(d) = RowStart(d, n) /\ H(d) \in Nat}
<1>1. H(0) = 0
  <2>1. 0*(0 - 1) = 0 /\ 0 \div 2 = 0
    OBVIOUS
  <2>2. QED
    BY <2>1
<1>2. \A d \in Nat : H(d) \in Nat => H(d + 1) = H(d) + d
  <2> SUFFICES ASSUME NEW d \in Nat, H(d) \in Nat PROVE H(d + 1) = H(d) + d
    OBVIOUS
  <2>1. CASE d = 0
    <3>1. (0 + 1)*((0 + 1) - 1) = 0 /\ 0 \div 2 = 0
      OBVIOUS
    <3>2. H(d + 1) = 0
      BY <2>1, <3>1
    <3>3. QED
      BY <1>1, <2>1, <3>2
  <2>2. CASE d # 0
    <3> DEFINE e == d - 1
    <3>1. e \in Nat /\ d = e + 1
      BY <2>2
    <3> HIDE DEF e
    <3>2. ((e + 1)*((e + 1) + 1)) \div 2 = (e*(e + 1)) \div 2 + e + 1
      BY <3>1, HalfNext
    <3>3. ((e + 1) + 1)*(((e + 1) + 1) - 1) = (e + 1)*((e + 1) + 1) /\ (e + 1)*((e + 1) - 1) = e*(e + 1)
      BY <3>1
    <3>4. H((e + 1) + 1) = (e*(e + 1)) \div 2 + e + 1 /\ H(e + 1) = (e*(e + 1)) \div 2
      BY <3>2, <3>3
    <3> HIDE DEF H
    <3>5. H(e + 1) \in Nat
      BY <3>1
    <3>6. QED
      BY <3>1, <3>4, <3>5
  <2>3. QED
    BY <2>1, <2>2
<1> HIDE DEF H
<1>3. 0 \in T
  <2>1. 0*n = 0 /\ RowStart(0, n) = 0
    BY RowStartNext
  <2>2. QED
    BY <1>1, <2>1
<1>4. ASSUME NEW d \in Nat, d \in T PROVE d + 1 \in T
  <2> SUFFICES ASSUME d + 1 <= n PROVE (d + 1)*n - H(d + 1) = RowStart(d + 1, n) /\ H(d + 1) \in Nat
    OBVIOUS
  <2>1. d <= n /\ d \in 0 .. n /\ d \in 0 .. n-1
    OBVIOUS
  <2>2. d*n - H(d) = RowStart(d, n) /\ H(d) \in Nat
    BY <1>4, <2>1
  <2>3. RowStart(d + 1, n) = RowStart(d, n) + n - d /\ RowStart(d, n) \in Nat
    BY <2>1, RowStartNext
  <2>4. H(d + 1) = H(d) + d
    BY <1>2, <2>2
  <2> DEFINE p == d*n
             q == (d + 1)*n
  <2>5. q = p + n /\ p \in Nat
    BY SMT
  <2> HIDE DEF p, q
  <2>6. p - H(d) = RowStart(d, n)
    BY <2>2 DEF p
  <2>7. q - H(d + 1) = RowStart(d + 1, n) /\ H(d + 1) \in Nat
    BY <2>2, <2>3, <2>4, <2>5, <2>6
  <2>8. QED
    BY <2>7 DEF q
<1> HIDE DEF T
<1>5. i \in Nat /\ i <= n
  OBVIOUS
<1>6. i \in T
  BY <1>3, <1>4, <1>5, NatSetInduction
<1>7. QED
  BY <1>5, <1>6 DEF T, H

(* The coefficients of a row follow those of the rows before.              *)
LEMMA RowOrder ==
  ASSUME NEW m \in 0 .. MapRows - 1, NEW j \in FirstOf(m) .. LastOf(m)
  PROVE  /\ <<VarOf(m), j>> \in Monomials
         /\ Before(<<VarOf(m), j>>) = KeyRow(m) + j - FirstOf(m)
<1> DEFINE V == MapV
           O == MapO
           s == RowStart(V, V)
           r == V*O
<1>1. V \in Nat /\ V > 0 /\ O \in Nat /\ O > 1 /\ PUB_N = V + O /\ m \in Nat /\ m < 2*V + O
  BY MapFacts
<1>2. s = (V*(V + 1)) \div 2 /\ s \in Nat
  <2> HIDE DEF V
  <2>1. QED
    BY <1>1, TriangleSize DEF s
<1>3. r \in Nat
  BY <1>1, SMT
<1>4. CASE m < V
  <2>1. VarOf(m) = m /\ FirstOf(m) = m /\ LastOf(m) = V - 1 /\ KeyRow(m) = RowStart(m, V)
    BY <1>4 DEF VarOf, FirstOf, LastOf, KeyRow
  <2>2. j \in Nat /\ m <= j /\ j < V /\ m \in 0 .. V
    BY <1>1, <1>4, <2>1
  <2>3. <<m, j>> \in Monomials
    BY <1>1, <2>2 DEF Monomials
  <2>4. Before(<<m, j>>) = m*V - (m*(m - 1)) \div 2 + j - m
    BY <2>2 DEF Before
  <2> HIDE DEF V
  <2>5. m*V - (m*(m - 1)) \div 2 = RowStart(m, V)
    BY <1>1, <2>2, TriIs
  <2>6. QED
    BY <2>1, <2>3, <2>4, <2>5
<1>5. CASE ~(m < V) /\ m < 2*V
  <2>1. VarOf(m) = m - V /\ FirstOf(m) = V /\ LastOf(m) = V + O - 1 /\ KeyRow(m) = s + (m - V)*O
    BY <1>1, <1>5 DEF VarOf, FirstOf, LastOf, KeyRow
  <2>2. j \in Nat /\ V <= j /\ j < V + O /\ m - V \in Nat /\ m - V < V
    BY <1>1, <1>5, <2>1
  <2>3. <<m - V, j>> \in Monomials
    BY <1>1, <2>2 DEF Monomials
  <2>4. Before(<<m - V, j>>) = (V*(V + 1)) \div 2 + (m - V)*O + j - V
    BY <1>1, <2>2 DEF Before
  <2>5. QED
    BY <1>2, <2>1, <2>3, <2>4
<1>6. CASE ~(m < 2*V)
  <2> DEFINE d == m - 2*V
             e == j - V
  <2>1. VarOf(m) = d + V /\ FirstOf(m) = d + V /\ LastOf(m) = V + O - 1 /\ KeyRow(m) = s + r + RowStart(d, O)
    BY <1>1, <1>6 DEF VarOf, FirstOf, LastOf, KeyRow
  <2>2. d \in 0 .. O /\ e \in Nat /\ j \in Nat /\ d <= e /\ e < O /\ j = e + V /\ (d + V) - V = d
    BY <1>1, <1>6, <2>1
  <2>3. <<d + V, j>> \in Monomials
    BY <1>1, <2>2 DEF Monomials
  <2>4. Before(<<d + V, j>>) = s + r + (d*O - (d*(d - 1)) \div 2 + e - d)
    <3>1. ~(j < V) /\ ~(d + V < V)
      BY <1>1, <2>2
    <3> DEFINE g == d + V
    <3>2. g - V = d
      BY <2>2
    <3> HIDE DEF g, d
    <3>3. Before(<<g, j>>) = (V*(V + 1)) \div 2 + V*O + ((g - V)*O - ((g - V)*((g - V) - 1)) \div 2 + (j - V) - (g - V))
      BY <3>1 DEF Before, g
    <3>4. Before(<<g, j>>) = s + r + (d*O - (d*(d - 1)) \div 2 + e - d)
      <4> HIDE DEF s, r, e
      <4>1. j - V = e /\ V*O = r
        BY DEF e, r
      <4>2. QED
        BY <1>2, <3>2, <3>3, <4>1
    <3>5. QED
      BY <3>4 DEF g
  <2> HIDE DEF O, d, e, s, r
  <2>5. d*O - (d*(d - 1)) \div 2 = RowStart(d, O) /\ RowStart(d, O) \in Nat
    BY <1>1, <2>2, TriIs, RowStartNext
  <2>6. Before(<<d + V, j>>) = s + r + (RowStart(d, O) + e - d)
    BY <2>4, <2>5
  <2>7. s + r + (RowStart(d, O) + e - d) = s + r + RowStart(d, O) + j - (d + V)
    BY <1>1, <1>2, <1>3, <2>2, <2>5
  <2>8. QED
    BY <2>1, <2>3, <2>6, <2>7
<1>7. QED
  BY <1>4, <1>5, <1>6

(* The next row is done by its own monomials.                              *)
LEMMA DoneNext ==
  ASSUME NEW m \in 0 .. MapRows - 1, NEW p \in Monomials
  PROVE  Done(m + 1, p) <=> (Done(m, p) \/ (\E j \in FirstOf(m) .. LastOf(m) : p = <<VarOf(m), j>>))
<1> DEFINE V == MapV
<1>1. V \in Nat /\ V > 0 /\ MapO \in Nat /\ MapO > 1 /\ PUB_N = V + MapO /\ m \in Nat /\ m < 2*V + MapO
  BY MapFacts
<1>2. p[1] \in Nat /\ p[2] \in Nat /\ p[1] <= p[2] /\ p[2] < V + MapO /\ p = <<p[1], p[2]>>
  BY <1>1 DEF Monomials
<1>3. (\E j \in FirstOf(m) .. LastOf(m) : p = <<VarOf(m), j>>) <=> (p[1] = VarOf(m) /\ p[2] \in FirstOf(m) .. LastOf(m))
  BY <1>2
<1>4. CASE m < V
  <2>1. VarOf(m) = m /\ FirstOf(m) = m /\ LastOf(m) = V - 1
    BY <1>4 DEF VarOf, FirstOf, LastOf
  <2>2. Done(m + 1, p) <=> (p[2] < V /\ p[1] < m + 1)
    BY <1>1, <1>2, <1>4 DEF Done
  <2>3. Done(m, p) <=> (p[2] < V /\ p[1] < m)
    BY <1>1, <1>2, <1>4 DEF Done
  <2> HIDE DEF V
  <2>4. QED
    BY <1>1, <1>2, <1>3, <2>1, <2>2, <2>3
<1>5. CASE ~(m < V)
  <2>1. VarOf(m) = m - V /\ FirstOf(m) = (IF m < 2*V THEN V ELSE m - V) /\ LastOf(m) = V + MapO - 1
    BY <1>1, <1>5 DEF VarOf, FirstOf, LastOf
  <2>2. Done(m + 1, p) <=> ((p[2] < V /\ p[1] < m + 1) \/ (p[2] >= V /\ p[1] < (m + 1) - V))
    BY DEF Done
  <2>3. Done(m, p) <=> ((p[2] < V /\ p[1] < m) \/ (p[2] >= V /\ p[1] < m - V))
    BY DEF Done
  <2> DEFINE a == p[1]
             b == p[2]
  <2> HIDE DEF V, a, b
  <2>4. a \in Nat /\ b \in Nat /\ a <= b
    BY <1>2 DEF a, b
  <2>5. b \in (IF m < 2*V THEN V ELSE m - V) .. V + MapO - 1 /\ a = m - V <=> b >= V /\ a = m - V
    BY <1>1, <1>2, <1>5, <2>4 DEF b
  <2>6. Done(m + 1, p) <=> (b < V \/ (b >= V /\ a < (m + 1) - V))
    BY <1>1, <1>5, <2>2, <2>4 DEF a, b
  <2>7. Done(m, p) <=> (b < V \/ (b >= V /\ a < m - V))
    BY <1>1, <1>5, <2>3, <2>4 DEF a, b
  <2>8. (p[1] = VarOf(m) /\ p[2] \in FirstOf(m) .. LastOf(m)) <=> (b >= V /\ a = m - V)
    BY <2>1, <2>5 DEF a, b
  <2>9. QED
    BY <1>1, <1>3, <1>5, <2>4, <2>6, <2>7, <2>8
<1>6. QED
  BY <1>4, <1>5

LEMMA DoneEnds ==
  ASSUME NEW p \in Monomials
  PROVE  ~Done(0, p) /\ Done(MapRows, p)
<1>1. MapV \in Nat /\ MapV > 0 /\ MapO \in Nat /\ MapO > 1 /\ PUB_N = MapV + MapO /\ MapRows = 2*MapV + MapO
  BY MapFacts
<1>2. p[1] \in Nat /\ p[2] \in Nat /\ p[1] <= p[2] /\ p[2] < MapV + MapO
  BY <1>1 DEF Monomials
<1>3. QED
  BY <1>1, <1>2 DEF Done

(* Coefficients of rows done lie in front of the next row, one each.       *)
Ordered(m) ==
  /\ \A p \in Monomials : Done(m, p) => Before(p) \in Nat /\ Before(p) < KeyRow(m)
  /\ \A p, q \in Monomials : Done(m, p) /\ Done(m, q) /\ Before(p) = Before(q) => p = q

LEMMA KeyOrdered ==
  ASSUME NEW m \in 0 .. MapRows
  PROVE  Ordered(m)
<1> DEFINE T == {d \in Nat : d <= MapRows => Ordered(d)}
<1>1. m \in Nat /\ MapRows \in Nat /\ m <= MapRows
  BY MapFacts
<1>2. 0 \in T
  BY DoneEnds DEF Ordered
<1>3. ASSUME NEW d \in Nat, d \in T PROVE d + 1 \in T
  <2> SUFFICES ASSUME d + 1 <= MapRows PROVE Ordered(d + 1)
    OBVIOUS
  <2>1. d \in 0 .. MapRows - 1 /\ d <= MapRows
    BY <1>1
  <2>2. Ordered(d)
    BY <1>3, <2>1
  <2>3. /\ KeyRow(d) \in Nat /\ FirstOf(d) \in Nat /\ LastOf(d) \in Nat
        /\ KeyRow(d + 1) = KeyRow(d) + LastOf(d) - FirstOf(d) + 1
    BY <2>1, KeyRowNext
  <2> DEFINE F == FirstOf(d)
             L == LastOf(d)
             K == KeyRow(d)
             new(j) == <<VarOf(d), j>>
  <2>4. \A j \in F .. L : new(j) \in Monomials /\ Before(new(j)) = K + j - F
    BY <2>1, RowOrder
  <2>5. \A p \in Monomials : Done(d + 1, p) <=> (Done(d, p) \/ (\E j \in F .. L : p = new(j)))
    BY <2>1, DoneNext
  <2>6. \A p \in Monomials : Done(d, p) => Before(p) \in Nat /\ Before(p) < K
    BY <2>2 DEF Ordered
  <2>7. \A p, q \in Monomials : Done(d, p) /\ Done(d, q) /\ Before(p) = Before(q) => p = q
    BY <2>2 DEF Ordered
  <2> HIDE DEF F, L, K, new
  <2>8. F \in Nat /\ L \in Nat /\ K \in Nat /\ KeyRow(d + 1) = K + L - F + 1
    BY <2>3 DEF F, L, K
  <2>9. \A p \in Monomials : Done(d + 1, p) => Before(p) \in Nat /\ Before(p) < KeyRow(d + 1)
    <3> SUFFICES ASSUME NEW p \in Monomials, Done(d + 1, p)
                 PROVE  Before(p) \in Nat /\ Before(p) < KeyRow(d + 1)
      OBVIOUS
    <3>1. CASE Done(d, p)
      <4>0. CASE F <= L
        BY <2>6, <2>8, <3>1, <4>0
      <4>1. CASE ~(F <= L)
        <5>1. FirstOf(d) <= LastOf(d)
          BY <2>1, KeyRowNext
        <5>2. QED
          BY <4>1, <5>1 DEF F, L
      <4>2. QED
        BY <4>0, <4>1
    <3>2. CASE ~Done(d, p)
      <4>1. PICK j \in F .. L : p = new(j)
        BY <2>5, <3>2
      <4>2. Before(p) = K + j - F
        BY <2>4, <4>1
      <4>3. QED
        BY <2>8, <4>2
    <3>3. QED
      BY <3>1, <3>2
  <2>10. ASSUME NEW p \in Monomials, NEW q \in Monomials, Done(d + 1, p), Done(d + 1, q), Before(p) = Before(q)
         PROVE  p = q
    <3>1. ASSUME NEW x \in Monomials, NEW y \in Monomials, Done(d, x), ~Done(d, y), Done(d + 1, y)
          PROVE  Before(x) # Before(y)
      <4>1. PICK j \in F .. L : y = new(j)
        BY <2>5, <3>1
      <4>2. Before(y) = K + j - F
        BY <2>4, <4>1
      <4>3. Before(x) \in Nat /\ Before(x) < K
        BY <2>6, <3>1
      <4>4. QED
        BY <2>8, <4>2, <4>3
    <3>2. CASE Done(d, p) /\ Done(d, q)
      BY <2>7, <2>10, <3>2
    <3>3. CASE ~Done(d, p) /\ ~Done(d, q)
      <4>1. PICK j \in F .. L : p = new(j)
        BY <2>5, <2>10, <3>3
      <4>2. PICK k \in F .. L : q = new(k)
        BY <2>5, <2>10, <3>3
      <4>3. Before(p) = K + j - F /\ Before(q) = K + k - F
        BY <2>4, <4>1, <4>2
      <4>4. j = k
        <5>1. K + j - F = K + k - F
          BY <2>10, <4>3
        <5>2. QED
          BY <2>8, <5>1
      <4>5. QED
        BY <4>1, <4>2, <4>4
    <3>4. QED
      BY <2>10, <3>1, <3>2, <3>3
  <2>11. QED
    BY <2>9, <2>10 DEF Ordered
<1> HIDE DEF T
<1>4. m \in T
  BY <1>1, <1>2, <1>3, NatSetInduction
<1>5. QED
  BY <1>1, <1>4 DEF T

-----------------------------------------------------------------------------
(* Numbers of four bits.                                                   *)

LEMMA BitsAre ==
  ASSUME NEW n \in 0 .. 15
  PROVE  /\ 0 \in Bits(n) <=> n % 2 = 1
         /\ 1 \in Bits(n) <=> (n \div 2) % 2 = 1
         /\ 2 \in Bits(n) <=> (n \div 4) % 2 = 1
         /\ 3 \in Bits(n) <=> (n \div 8) % 2 = 1
         /\ Bits(n) \subseteq 0 .. 3
<1>1. 2^0 = 1 /\ 2^1 = 2 /\ 2^2 = 4 /\ 2^3 = 8 /\ 2^4 = 16 /\ 2^5 = 32 /\ 2^6 = 64 /\ 2^7 = 128 /\ 2^8 = 256
  OBVIOUS
<1>2. n \div 1 = n
  OBVIOUS
<1>3. n \div 16 = 0 /\ n \div 32 = 0 /\ n \div 64 = 0 /\ n \div 128 = 0 /\ n \div 256 = 0 /\ 0 % 2 = 0
  OBVIOUS
<1>4. 0 \in Bits(n) <=> (n \div 2^0) % 2 = 1
  BY DEF Bits
<1>5. 1 \in Bits(n) <=> (n \div 2^1) % 2 = 1
  BY DEF Bits
<1>6. 2 \in Bits(n) <=> (n \div 2^2) % 2 = 1
  BY DEF Bits
<1>7. 3 \in Bits(n) <=> (n \div 2^3) % 2 = 1
  BY DEF Bits
<1>8. 4 \notin Bits(n) /\ 5 \notin Bits(n) /\ 6 \notin Bits(n) /\ 7 \notin Bits(n) /\ 8 \notin Bits(n)
  <2>1. 4 \in Bits(n) <=> (n \div 2^4) % 2 = 1
    BY DEF Bits
  <2>2. 5 \in Bits(n) <=> (n \div 2^5) % 2 = 1
    BY DEF Bits
  <2>3. 6 \in Bits(n) <=> (n \div 2^6) % 2 = 1
    BY DEF Bits
  <2>4. 7 \in Bits(n) <=> (n \div 2^7) % 2 = 1
    BY DEF Bits
  <2>5. 8 \in Bits(n) <=> (n \div 2^8) % 2 = 1
    BY DEF Bits
  <2>6. QED
    BY <1>1, <1>3, <2>1, <2>2, <2>3, <2>4, <2>5
<1>9. Bits(n) \subseteq 0 .. 8
  BY DEF Bits
<1>10. Bits(n) \subseteq 0 .. 3
  BY <1>8, <1>9
<1>11. QED
  BY <1>1, <1>2, <1>4, <1>5, <1>6, <1>7, <1>10

LEMMA NumOfBits ==
  ASSUME NEW S \in SUBSET (0 .. 3)
  PROVE  NumOf[S] \in 0 .. 15 /\ Bits(NumOf[S]) = S
<1> DEFINE b0 == IF 0 \in S THEN 1 ELSE 0
           b1 == IF 1 \in S THEN 1 ELSE 0
           b2 == IF 2 \in S THEN 1 ELSE 0
           b3 == IF 3 \in S THEN 1 ELSE 0
           n == b0 + 2*b1 + 4*b2 + 8*b3
<1>1. b0 \in {0, 1} /\ b1 \in {0, 1} /\ b2 \in {0, 1} /\ b3 \in {0, 1}
  OBVIOUS
<1>2. (b0 = 1 <=> 0 \in S) /\ (b1 = 1 <=> 1 \in S) /\ (b2 = 1 <=> 2 \in S) /\ (b3 = 1 <=> 3 \in S)
  OBVIOUS
<1> HIDE DEF b0, b1, b2, b3
<1>3. n \in 0 .. 15
  BY <1>1
<1>4. n % 2 = b0 /\ (n \div 2) % 2 = b1 /\ (n \div 4) % 2 = b2 /\ (n \div 8) % 2 = b3
  BY <1>1
<1> HIDE DEF n
<1>5. Bits(n) = S
  <2>1. Bits(n) \subseteq 0 .. 3
    BY <1>3, BitsAre
  <2>2. (0 \in Bits(n) <=> 0 \in S) /\ (1 \in Bits(n) <=> 1 \in S)
    BY <1>2, <1>3, <1>4, BitsAre
  <2>3. (2 \in Bits(n) <=> 2 \in S) /\ (3 \in Bits(n) <=> 3 \in S)
    BY <1>2, <1>3, <1>4, BitsAre
  <2>4. \A i \in 0 .. 3 : i = 0 \/ i = 1 \/ i = 2 \/ i = 3
    OBVIOUS
  <2>5. \A i \in 0 .. 3 : i \in Bits(n) <=> i \in S
    BY <2>2, <2>3, <2>4
  <2>6. QED
    BY <2>1, <2>5
<1>6. NumOf[S] = CHOOSE m \in 0 .. 15 : Bits(m) = S
  BY DEF NumOf
<1>7. QED
  BY <1>3, <1>5, <1>6

LEMMA BitsOfZero == Bits(0) = {} /\ BitsOf[0] = {}
<1>1. 0 % 2 = 0 /\ 0 \div 2 = 0 /\ 0 \div 4 = 0 /\ 0 \div 8 = 0
  OBVIOUS
<1>2. 0 \in 0 .. 15 /\ 0 \in 0 .. 511
  OBVIOUS
<1>3. Bits(0) \subseteq 0 .. 3 /\ 0 \notin Bits(0) /\ 1 \notin Bits(0) /\ 2 \notin Bits(0) /\ 3 \notin Bits(0)
  BY <1>1, <1>2, BitsAre
<1>4. \A i \in 0 .. 3 : i = 0 \/ i = 1 \/ i = 2 \/ i = 3
  OBVIOUS
<1>5. Bits(0) = {}
  BY <1>3, <1>4
<1>6. BitsOf[0] = Bits(0)
  BY <1>2 DEF BitsOf
<1>7. QED
  BY <1>5, <1>6

(* Products have the bits of their field, and there is no product with 0.  *)
LEMMA ProductBits ==
  ASSUME NEW i, NEW j
  PROVE  /\ gfsize = 16 => _xixj(i, j) \subseteq 0 .. 3
         /\ gfsize # 16 => _xixj(i, j) \subseteq 0 .. 7
         /\ gfsize = 16 /\ x_(i) = 0 => _xixj(i, j) = {}
<1>1. \A a, b : Mul16(a, b) \subseteq 0 .. 3
  BY DEF Mul16, SumOver
<1>2. \A a, b : Mul256(a, b) \subseteq 0 .. 7
  BY DEF Mul256, SumOver
<1>3. \A b : Mul16({}, b) = {}
  <2> TAKE b
  <2>1. ~Odd({})
    BY FS_EmptySet DEF Odd
  <2>2. Clmul({}, b) = {}
    <3>1. \A k \in 0 .. 14 : {h \in b : k - h \in {}} = {}
      OBVIOUS
    <3>2. QED
      BY <2>1, <3>1 DEF Clmul
  <2>3. Mul16({}, b) = SumOver({}, LAMBDA k : Powers16[k], 4)
    BY <2>2 DEF Mul16
  <2>4. QED
    BY <2>3 DEF SumOver
<1>4. QED
  BY <1>1, <1>2, <1>3, BitsOfZero DEF _xixj

-----------------------------------------------------------------------------
(* The reduction of the buckets.                                           *)

(* Byte b of no two of the buckets from 1 to n has the same address.       *)
Apart(bucket, b, n) ==
  \A v, w \in 1 .. n : \A a : a \in bucket[v][b] /\ a \in bucket[w][b] => v = w

Shaped(bucket, b) ==
  /\ DOMAIN bucket = 0 .. 15
  /\ \A v \in 0 .. 15 : b \in DOMAIN bucket[v]

(* One step: what is above n goes into n, and into what it is without n.   *)
LEMMA HalveIs ==
  ASSUME NEW bucket, NEW b, NEW n \in Nat, n > 0, 2*n <= 16, Shaped(bucket, b), Apart(bucket, b, 2*n - 1)
  PROVE  /\ Shaped(Halve(bucket, n), b)
         /\ \A a : a \in Halve(bucket, n)[n][b] <=> \E v \in n .. 2*n - 1 : a \in bucket[v][b]
         /\ \A v \in 1 .. n-1 : Halve(bucket, n)[v][b] = bucket[v][b] \cup bucket[v + n][b]
         /\ \A v \in n+1 .. 15 : Halve(bucket, n)[v][b] = bucket[v][b]
         /\ Apart(Halve(bucket, n), b, n - 1)
<1> DEFINE sum(S) == {a \in UNION {bucket[v][b] : v \in S} : Odd({v \in S : a \in bucket[v][b]})}
           h == Halve(bucket, n)
<1>1. \A v \in 0 .. 15 :
        /\ DOMAIN h[v] = DOMAIN bucket[v]
        /\ h[v][b] = IF v = n THEN sum(n .. 2*n - 1)
                     ELSE IF v \in 1 .. n-1 THEN sum({v, v + n}) ELSE bucket[v][b]
  BY DEF Halve, Shaped
<1>2. DOMAIN h = 0 .. 15
  BY DEF Halve
<1>3. Shaped(h, b)
  BY <1>1, <1>2 DEF Shaped
<1>4. ASSUME NEW S \in SUBSET (1 .. 2*n - 1), NEW a
      PROVE  a \in sum(S) <=> \E v \in S : a \in bucket[v][b]
  <2> DEFINE has == {v \in S : a \in bucket[v][b]}
  <2>1. \A v, w \in has : v = w
    BY DEF Apart
  <2>2. CASE has = {}
    BY <2>2
  <2>3. CASE has # {}
    <3>1. PICK v \in has : TRUE
      BY <2>3
    <3>2. has = {v}
      BY <2>1, <3>1
    <3>3. Cardinality(has) = 1
      BY <3>2, FS_Singleton
    <3>4. Odd(has)
      <4> HIDE DEF has
      <4>1. 1 % 2 = 1
        OBVIOUS
      <4>2. QED
        BY <3>3, <4>1 DEF Odd
    <3>5. QED
      BY <3>1, <3>4
  <2>4. QED
    BY <2>2, <2>3
<1> HIDE DEF sum, h
<1>5. n \in 0 .. 15 /\ n .. 2*n - 1 \subseteq 1 .. 2*n - 1
  OBVIOUS
<1>6. \A a : a \in h[n][b] <=> \E v \in n .. 2*n - 1 : a \in bucket[v][b]
  <2>1. h[n][b] = sum(n .. 2*n - 1)
    BY <1>1, <1>5
  <2>2. QED
    BY <1>4, <1>5, <2>1
<1>7. \A v \in 1 .. n-1 : h[v][b] = bucket[v][b] \cup bucket[v + n][b]
  <2> TAKE v \in 1 .. n-1
  <2>1. v \in 0 .. 15 /\ v # n /\ {v, v + n} \subseteq 1 .. 2*n - 1
    OBVIOUS
  <2>2. h[v][b] = sum({v, v + n})
    BY <1>1, <2>1
  <2>3. \A a : a \in sum({v, v + n}) <=> \E w \in {v, v + n} : a \in bucket[w][b]
    BY <1>4, <2>1
  <2>4. QED
    BY <2>2, <2>3
<1>8. \A v \in n+1 .. 15 : h[v][b] = bucket[v][b]
  <2> TAKE v \in n+1 .. 15
  <2>1. v \in 0 .. 15 /\ v # n /\ v \notin 1 .. n-1
    OBVIOUS
  <2>2. QED
    BY <1>1, <2>1
<1>9. Apart(h, b, n - 1)
  <2> SUFFICES ASSUME NEW v \in 1 .. n-1, NEW w \in 1 .. n-1, NEW a, a \in h[v][b], a \in h[w][b] PROVE v = w
    BY DEF Apart
  <2>1. PICK x \in {v, v + n} : a \in bucket[x][b]
    BY <1>7
  <2>2. PICK y \in {w, w + n} : a \in bucket[y][b]
    BY <1>7
  <2>3. x \in 1 .. 2*n - 1 /\ y \in 1 .. 2*n - 1
    BY <2>1, <2>2
  <2>4. x = y
    BY <2>1, <2>2, <2>3 DEF Apart
  <2>5. QED
    BY <2>1, <2>2, <2>4
<1>10. QED
  BY <1>3, <1>6, <1>7, <1>8, <1>9 DEF h

(* Three steps: bucket 2^k has the addresses of all whose number has bit k.*)
LEMMA ReducedIs ==
  ASSUME NEW bucket, NEW b, Shaped(bucket, b), Apart(bucket, b, 15), NEW a
  PROVE  /\ a \in Reduced(bucket)[1][b] <=> \E v \in 1 .. 15 : 0 \in Bits(v) /\ a \in bucket[v][b]
         /\ a \in Reduced(bucket)[2][b] <=> \E v \in 1 .. 15 : 1 \in Bits(v) /\ a \in bucket[v][b]
         /\ a \in Reduced(bucket)[4][b] <=> \E v \in 1 .. 15 : 2 \in Bits(v) /\ a \in bucket[v][b]
         /\ a \in Reduced(bucket)[8][b] <=> \E v \in 1 .. 15 : 3 \in Bits(v) /\ a \in bucket[v][b]
<1> DEFINE g == Halve(bucket, 8)
           q == Halve(g, 4)
           r == Halve(q, 2)
           in(v) == a \in bucket[v][b]
           of(k) == \E v \in 1 .. 15 : k \in Bits(v) /\ in(v)
<1>1. PICK n8 \in Nat : n8 = 8
  OBVIOUS
<1>2. PICK n4 \in Nat : n4 = 4
  OBVIOUS
<1>3. PICK n2 \in Nat : n2 = 2
  OBVIOUS
<1>4. /\ Shaped(g, b)
      /\ a \in g[8][b] <=> \E v \in 8 .. 15 : in(v)
      /\ \A v \in 1 .. 7 : g[v][b] = bucket[v][b] \cup bucket[v + 8][b]
      /\ Apart(g, b, 7)
  <2>1. Apart(bucket, b, 2*n8 - 1) /\ n8 > 0 /\ 2*n8 <= 16
    BY <1>1
  <2>2. /\ Shaped(Halve(bucket, n8), b)
        /\ \A x : x \in Halve(bucket, n8)[n8][b] <=> \E v \in n8 .. 2*n8 - 1 : x \in bucket[v][b]
        /\ \A v \in 1 .. n8-1 : Halve(bucket, n8)[v][b] = bucket[v][b] \cup bucket[v + n8][b]
        /\ Apart(Halve(bucket, n8), b, n8 - 1)
    BY <2>1, HalveIs
  <2>3. 2*8 - 1 = 15 /\ 8 - 1 = 7
    OBVIOUS
  <2>4. QED
    BY <1>1, <2>2, <2>3
<1>5. /\ Shaped(q, b)
      /\ a \in q[4][b] <=> \E v \in 4 .. 7 : a \in g[v][b]
      /\ \A v \in 1 .. 3 : q[v][b] = g[v][b] \cup g[v + 4][b]
      /\ \A v \in 5 .. 15 : q[v][b] = g[v][b]
      /\ Apart(q, b, 3)
  <2> HIDE DEF g
  <2>1. Apart(g, b, 2*n4 - 1) /\ n4 > 0 /\ 2*n4 <= 16
    BY <1>2, <1>4
  <2>2. /\ Shaped(Halve(g, n4), b)
        /\ \A x : x \in Halve(g, n4)[n4][b] <=> \E v \in n4 .. 2*n4 - 1 : x \in g[v][b]
        /\ \A v \in 1 .. n4-1 : Halve(g, n4)[v][b] = g[v][b] \cup g[v + n4][b]
        /\ \A v \in n4+1 .. 15 : Halve(g, n4)[v][b] = g[v][b]
        /\ Apart(Halve(g, n4), b, n4 - 1)
    BY <1>4, <2>1, HalveIs
  <2>3. 2*4 - 1 = 7 /\ 4 - 1 = 3 /\ 4 + 1 = 5
    OBVIOUS
  <2>4. QED
    BY <1>2, <2>2, <2>3
<1>6. /\ a \in r[2][b] <=> \E v \in 2 .. 3 : a \in q[v][b]
      /\ \A v \in 1 .. 1 : r[v][b] = q[v][b] \cup q[v + 2][b]
      /\ \A v \in 3 .. 15 : r[v][b] = q[v][b]
  <2> HIDE DEF g, q
  <2>1. Apart(q, b, 2*n2 - 1) /\ n2 > 0 /\ 2*n2 <= 16
    BY <1>3, <1>5
  <2>2. /\ Shaped(Halve(q, n2), b)
        /\ \A x : x \in Halve(q, n2)[n2][b] <=> \E v \in n2 .. 2*n2 - 1 : x \in q[v][b]
        /\ \A v \in 1 .. n2-1 : Halve(q, n2)[v][b] = q[v][b] \cup q[v + n2][b]
        /\ \A v \in n2+1 .. 15 : Halve(q, n2)[v][b] = q[v][b]
        /\ Apart(Halve(q, n2), b, n2 - 1)
    BY <1>5, <2>1, HalveIs
  <2>3. 2*2 - 1 = 3 /\ 2 - 1 = 1 /\ 2 + 1 = 3
    OBVIOUS
  <2>4. QED
    BY <1>3, <2>2, <2>3
<1>7. Reduced(bucket) = r
  BY DEF Reduced
<1> HIDE DEF g, q, r
<1>8. /\ a \in g[1][b] <=> in(1) \/ in(9)
      /\ a \in g[2][b] <=> in(2) \/ in(10)
      /\ a \in g[3][b] <=> in(3) \/ in(11)
      /\ a \in g[4][b] <=> in(4) \/ in(12)
      /\ a \in g[5][b] <=> in(5) \/ in(13)
      /\ a \in g[6][b] <=> in(6) \/ in(14)
      /\ a \in g[7][b] <=> in(7) \/ in(15)
  <2>1. 1 + 8 = 9 /\ 2 + 8 = 10 /\ 3 + 8 = 11 /\ 4 + 8 = 12 /\ 5 + 8 = 13 /\ 6 + 8 = 14 /\ 7 + 8 = 15
    OBVIOUS
  <2>2. \A v \in 1 .. 7 : a \in g[v][b] <=> in(v) \/ in(v + 8)
    BY <1>4
  <2> HIDE DEF in
  <2>3. QED
    BY <2>1, <2>2
<1>9. /\ a \in q[1][b] <=> a \in g[1][b] \/ a \in g[5][b]
      /\ a \in q[2][b] <=> a \in g[2][b] \/ a \in g[6][b]
      /\ a \in q[3][b] <=> a \in g[3][b] \/ a \in g[7][b]
      /\ a \in q[4][b] <=> a \in g[4][b] \/ a \in g[5][b] \/ a \in g[6][b] \/ a \in g[7][b]
      /\ a \in q[8][b] <=> a \in g[8][b]
  <2>1. 1 + 4 = 5 /\ 2 + 4 = 6 /\ 3 + 4 = 7 /\ 8 \in 5 .. 15
    OBVIOUS
  <2>2. \A v \in 1 .. 3 : a \in q[v][b] <=> a \in g[v][b] \/ a \in g[v + 4][b]
    BY <1>5
  <2>3. \A v \in 4 .. 7 : v = 4 \/ v = 5 \/ v = 6 \/ v = 7
    OBVIOUS
  <2>4. 4 \in 4 .. 7 /\ 5 \in 4 .. 7 /\ 6 \in 4 .. 7 /\ 7 \in 4 .. 7
    OBVIOUS
  <2>5. a \in q[4][b] <=> a \in g[4][b] \/ a \in g[5][b] \/ a \in g[6][b] \/ a \in g[7][b]
    BY <1>5, <2>3, <2>4
  <2>6. q[8][b] = g[8][b]
    BY <1>5, <2>1
  <2>7. (a \in q[1][b] <=> a \in g[1][b] \/ a \in g[5][b]) /\ (a \in q[2][b] <=> a \in g[2][b] \/ a \in g[6][b])
    BY <2>1, <2>2
  <2>8. a \in q[3][b] <=> a \in g[3][b] \/ a \in g[7][b]
    BY <2>1, <2>2
  <2>9. QED
    BY <2>5, <2>6, <2>7, <2>8
<1>10. /\ a \in r[1][b] <=> a \in q[1][b] \/ a \in q[3][b]
       /\ a \in r[2][b] <=> a \in q[2][b] \/ a \in q[3][b]
       /\ a \in r[4][b] <=> a \in q[4][b]
       /\ a \in r[8][b] <=> a \in q[8][b]
  <2>1. 1 + 2 = 3 /\ 1 \in 1 .. 1 /\ 4 \in 3 .. 15 /\ 8 \in 3 .. 15
    OBVIOUS
  <2>2. \A v \in 2 .. 3 : v = 2 \/ v = 3
    OBVIOUS
  <2>3. 2 \in 2 .. 3 /\ 3 \in 2 .. 3
    OBVIOUS
  <2>4. QED
    BY <1>6, <2>1, <2>2, <2>3
<1>11. a \in g[8][b] <=> in(8) \/ in(9) \/ in(10) \/ in(11) \/ in(12) \/ in(13) \/ in(14) \/ in(15)
  <2>1. \A v \in 8 .. 15 : v = 8 \/ v = 9 \/ v = 10 \/ v = 11 \/ v = 12 \/ v = 13 \/ v = 14 \/ v = 15
    OBVIOUS
  <2>2. \A v \in {8, 9, 10, 11, 12, 13, 14, 15} : v \in 8 .. 15
    OBVIOUS
  <2> HIDE DEF in
  <2>3. QED
    BY <1>4, <2>1, <2>2
<1>12. \A v \in 1 .. 15 :
         /\ 0 \in Bits(v) <=> v \in {1, 3, 5, 7, 9, 11, 13, 15}
         /\ 1 \in Bits(v) <=> v \in {2, 3, 6, 7, 10, 11, 14, 15}
         /\ 2 \in Bits(v) <=> v \in {4, 5, 6, 7, 12, 13, 14, 15}
         /\ 3 \in Bits(v) <=> v \in {8, 9, 10, 11, 12, 13, 14, 15}
  <2> TAKE v \in 1 .. 15
  <2>1. v \in 0 .. 15
    OBVIOUS
  <2>2. (0 \in Bits(v) <=> v % 2 = 1) /\ (1 \in Bits(v) <=> (v \div 2) % 2 = 1)
    BY <2>1, BitsAre
  <2>3. (2 \in Bits(v) <=> (v \div 4) % 2 = 1) /\ (3 \in Bits(v) <=> (v \div 8) % 2 = 1)
    BY <2>1, BitsAre
  <2>4. v % 2 = 1 <=> v \in {1, 3, 5, 7, 9, 11, 13, 15}
    OBVIOUS
  <2>5. (v \div 2) % 2 = 1 <=> v \in {2, 3, 6, 7, 10, 11, 14, 15}
    OBVIOUS
  <2>6. (v \div 4) % 2 = 1 <=> v \in {4, 5, 6, 7, 12, 13, 14, 15}
    OBVIOUS
  <2>7. (v \div 8) % 2 = 1 <=> v \in {8, 9, 10, 11, 12, 13, 14, 15}
    OBVIOUS
  <2>8. QED
    BY <2>2, <2>3, <2>4, <2>5, <2>6, <2>7
<1>13. \A v \in {1, 2, 3, 4, 5, 6, 7, 8, 9, 10, 11, 12, 13, 14, 15} : v \in 1 .. 15
  OBVIOUS
<1>14. of(0) <=> in(1) \/ in(3) \/ in(5) \/ in(7) \/ in(9) \/ in(11) \/ in(13) \/ in(15)
  <2> HIDE DEF in
  <2>1. of(0) <=> \E v \in {1, 3, 5, 7, 9, 11, 13, 15} : in(v)
    BY <1>12, <1>13
  <2> HIDE DEF of
  <2>2. QED
    BY <2>1
<1>15. of(1) <=> in(2) \/ in(3) \/ in(6) \/ in(7) \/ in(10) \/ in(11) \/ in(14) \/ in(15)
  <2> HIDE DEF in
  <2>1. of(1) <=> \E v \in {2, 3, 6, 7, 10, 11, 14, 15} : in(v)
    BY <1>12, <1>13
  <2> HIDE DEF of
  <2>2. QED
    BY <2>1
<1>16. of(2) <=> in(4) \/ in(5) \/ in(6) \/ in(7) \/ in(12) \/ in(13) \/ in(14) \/ in(15)
  <2> HIDE DEF in
  <2>1. of(2) <=> \E v \in {4, 5, 6, 7, 12, 13, 14, 15} : in(v)
    BY <1>12, <1>13
  <2> HIDE DEF of
  <2>2. QED
    BY <2>1
<1>17. of(3) <=> in(8) \/ in(9) \/ in(10) \/ in(11) \/ in(12) \/ in(13) \/ in(14) \/ in(15)
  <2> HIDE DEF in
  <2>1. of(3) <=> \E v \in {8, 9, 10, 11, 12, 13, 14, 15} : in(v)
    BY <1>12, <1>13
  <2> HIDE DEF of
  <2>2. QED
    BY <2>1
<1> HIDE DEF in
<1>18. /\ a \in r[1][b] <=> of(0)
       /\ a \in r[2][b] <=> of(1)
       /\ a \in r[4][b] <=> of(2)
       /\ a \in r[8][b] <=> of(3)
  <2> HIDE DEF of
  <2>1. a \in r[1][b] <=> of(0)
    BY <1>8, <1>9, <1>10, <1>14
  <2>2. a \in r[2][b] <=> of(1)
    BY <1>8, <1>9, <1>10, <1>15
  <2>3. a \in r[4][b] <=> of(2)
    BY <1>8, <1>9, <1>10, <1>16
  <2>4. a \in r[8][b] <=> of(3)
    BY <1>9, <1>10, <1>11, <1>17
  <2>5. QED
    BY <2>1, <2>2, <2>3, <2>4
<1>19. QED
  BY <1>7, <1>18 DEF of, in

-----------------------------------------------------------------------------
(* What the buckets have between two rows.                                 *)

(* The bucket of a monomial: of the low half of its value or of the high.  *)
ValueOf(half, p) == NumOf[IF half = "high" THEN idx_high(_xixj(p[1], p[2])) ELSE idx_low(_xixj(p[1], p[2]))]

(* Byte b of the coefficients of the value v in the rows done.             *)
Sums(half, v, b, m) ==
  {Before(p)*vec_len + b : p \in {q \in Monomials : Done(m, q) /\ ValueOf(half, q) = v}}

Collected(bucket, half, m) ==
  \A v \in 1 .. 15, b \in 0 .. vec_len - 1 : bucket[v][b] = Sums(half, v, b, m)

Inside(bucket) ==
  /\ DOMAIN bucket = 0 .. 15
  /\ \A v \in 0 .. 15 : /\ DOMAIN bucket[v] = 0 .. RoundedUp(vec_len, reg) - 1
                        /\ \A b \in DOMAIN bucket[v] : \A a \in bucket[v][b] : a \in Nat /\ a < Coefficients * vec_len

ResultRight ==
  /\ DOMAIN ymap = 0 .. vec_len - 1
  /\ \A e \in 0 .. vec_len - 1 :
       /\ DOMAIN ymap[e] = (IF gfsize = 16 THEN 0 .. 3 ELSE 0 .. 7)
       /\ \A k \in DOMAIN ymap[e] :
            ymap[e][k] = {Before(p)*vec_len + e : p \in {q \in Monomials : k \in _xixj(q[1], q[2])}}

MapRuns ==
  /\ gfsize \in {16, 256}
  /\ reg \in {YMM, XMM, U64, U32}
  /\ vec_len \in VecLens
  /\ mrow \in 0 .. MapRows
  /\ trimat = KeyRow(mrow)*vec_len
  /\ Inside(accu_low)
  /\ Inside(accu_high)
  /\ Collected(accu_low, "low", mrow)
  /\ gfsize = 256 => Collected(accu_high, "high", mrow)
  /\ ymap # <<>> => ResultRight

MapInv == IF gfsize = 0 THEN MapIdle ELSE MapRuns

(* A bucket after row m.                                                   *)
Gathered(bucket, half, m, n) ==
  LET new(v) == {trimat + (j - FirstOf(m))*vec_len : j \in {k \in FirstOf(m) .. LastOf(m) : ValueOf(half, <<VarOf(m), k>>) = v}}
  IN  [v \in 0 .. 15 |->
         [b \in DOMAIN bucket[v] |-> IF b >= n THEN bucket[v][b] ELSE Add(bucket[v][b], {a + b : a \in new(v)})]]

(* The bits of its number are those of its half of the value.             *)
LEMMA ValueFacts ==
  ASSUME NEW p
  PROVE  /\ ValueOf("low", p) \in 0 .. 15
         /\ \A k \in 0 .. 3 : k \in Bits(ValueOf("low", p)) <=> k \in _xixj(p[1], p[2])
         /\ gfsize = 256 => /\ ValueOf("high", p) \in 0 .. 15
                            /\ \A k \in 4 .. 7 : k - 4 \in Bits(ValueOf("high", p)) <=> k \in _xixj(p[1], p[2])
<1> DEFINE S == _xixj(p[1], p[2])
<1>1. gfsize = 256 => S \subseteq 0 .. 7
  BY ProductBits
<1> HIDE DEF S
<1>2. ValueOf("low", p) = NumOf[S \cap 0 .. 3]
  BY DEF ValueOf, idx_low, Low, S
<1>3. S \cap 0 .. 3 \in SUBSET (0 .. 3)
  OBVIOUS
<1>4. ValueOf("low", p) \in 0 .. 15 /\ Bits(ValueOf("low", p)) = S \cap 0 .. 3
  BY <1>2, <1>3, NumOfBits
<1>5. CASE gfsize = 256
  <2> DEFINE H == {i - 4 : i \in {j \in S : j >= 4}}
  <2>1. ValueOf("high", p) = NumOf[H]
    BY DEF ValueOf, idx_high, Shr, S
  <2>2. H \in SUBSET (0 .. 3)
    BY <1>1, <1>5
  <2>3. \A k \in 4 .. 7 : k - 4 \in H <=> k \in S
    BY <1>1, <1>5
  <2> HIDE DEF H
  <2>4. ValueOf("high", p) \in 0 .. 15 /\ Bits(ValueOf("high", p)) = H
    BY <2>1, <2>2, NumOfBits
  <2>5. QED
    BY <1>4, <2>3, <2>4 DEF S
<1>6. QED
  BY <1>4, <1>5 DEF S

LEMMA VecFacts ==
  ASSUME vec_len \in VecLens, reg \in {YMM, XMM, U64, U32}
  PROVE  /\ vec_len \in Nat /\ vec_len > 0 /\ reg \in Nat /\ reg > 0
         /\ RoundedUp(vec_len, reg) \in Nat /\ vec_len <= RoundedUp(vec_len, reg) /\ RoundedUp(vec_len, reg) <= 2*vec_len
         /\ tmpvec_len \in Nat /\ vec_len <= tmpvec_len /\ tmpvec_len <= RoundedUp(vec_len, reg)
<1> DEFINE n == vec_len
           w == reg
           q == (n + w - 1) \div w
<1>1. n \in Nat /\ n > 0 /\ w \in Nat /\ w > 0
  BY MapAssumption, WidthFacts
<1>2. RoundedUp(n, w) <= 2*n
  BY MapAssumption
<1> HIDE DEF n, w
<1>3. n + w - 1 \in Nat
  BY <1>1
<1>4. q \in Nat /\ (n + w - 1) % w \in 0 .. w-1 /\ n + w - 1 = w*q + ((n + w - 1) % w)
  BY <1>1, <1>3, DivMod
<1>5. RoundedUp(n, w) = q*w
  BY DEF RoundedUp
<1> HIDE DEF q
<1>6. q*w = w*q /\ q*w \in Nat
  BY <1>1, <1>4, SMT
<1>7. RoundedUp(n, w) \in Nat /\ n <= RoundedUp(n, w)
  <2> DEFINE z == q*w
             t == (n + w - 1) % w
  <2>1. z \in Nat /\ t \in 0 .. w-1 /\ n + w - 1 = z + t
    BY <1>4, <1>6
  <2> HIDE DEF z, t
  <2>2. n <= z
    BY <1>1, <2>1
  <2>3. QED
    BY <1>5, <2>1, <2>2 DEF z
<1>8. tmpvec_len = n \/ tmpvec_len = RoundedUp(n, w)
  BY DEF tmpvec_len, n, w
<1>9. QED
  BY <1>1, <1>2, <1>7, <1>8 DEF n, w

(* One row's step of a bucket, as accu_eval_quad and as Gathered writes it.*)
LEMMA AccumulatedIs ==
  ASSUME NEW bucket, NEW n, NEW m
  PROVE  /\ Accumulated(bucket, idx_low, VarOf(m), <<FirstOf(m), LastOf(m)>>, n) = Gathered(bucket, "low", m, n)
         /\ Accumulated(bucket, idx_high, VarOf(m), <<FirstOf(m), LastOf(m)>>, n) = Gathered(bucket, "high", m, n)
<1>1. Accumulated(bucket, idx_low, VarOf(m), <<FirstOf(m), LastOf(m)>>, n) = Gathered(bucket, "low", m, n)
  <2> DEFINE i == VarOf(m)
             F == FirstOf(m)
             L == LastOf(m)
             f == [j \in F .. L |-> NumOf[idx_low(_xixj(i, j))]]
             pairs == {<<j, NumOf[idx_low(_xixj(i, j))]>> : j \in F .. L}
             was(v) == {trimat + (t[1] - F)*vec_len : t \in {u \in pairs : u[2] = v}}
             is(v) == {trimat + (j - F)*vec_len : j \in {k \in F .. L : ValueOf("low", <<i, k>>) = v}}
             A1 == Accumulated(bucket, idx_low, i, <<F, L>>, n)
             G1 == Gathered(bucket, "low", m, n)
  <2>1. \A j \in F .. L : f[j] = ValueOf("low", <<i, j>>) /\ f[j] = NumOf[idx_low(_xixj(i, j))]
    BY DEF ValueOf
  <2>2. A1 = [v \in 0 .. 15 |-> [b \in DOMAIN bucket[v] |->
               IF b >= n THEN bucket[v][b] ELSE Add(bucket[v][b], {a + b : a \in was(v)})]]
    BY DEF Accumulated
  <2>3. G1 = [v \in 0 .. 15 |-> [b \in DOMAIN bucket[v] |->
               IF b >= n THEN bucket[v][b] ELSE Add(bucket[v][b], {a + b : a \in is(v)})]]
    BY DEF Gathered
  <2> HIDE DEF A1, G1, f, i, F, L
  <2>4. pairs = {<<j, f[j]>> : j \in F .. L}
    BY <2>1
  <2> HIDE DEF pairs
  <2>5. ASSUME NEW v PROVE was(v) = is(v)
    <3>1. (\A t \in pairs : t[1] \in F .. L /\ t[2] = f[t[1]]) /\ (\A j \in F .. L : \E t \in pairs : t[1] = j /\ t[2] = f[j])
      <4>1. ASSUME NEW t \in pairs PROVE t[1] \in F .. L /\ t[2] = f[t[1]]
        <5>1. PICK j \in F .. L : t = <<j, f[j]>>
          BY <2>4
        <5>2. t[1] = j /\ t[2] = f[j]
          BY <5>1
        <5>3. QED
          BY <5>2
      <4>2. ASSUME NEW j \in F .. L PROVE \E t \in pairs : t[1] = j /\ t[2] = f[j]
        <5>1. <<j, f[j]>> \in pairs
          BY <2>4
        <5>2. <<j, f[j]>>[1] = j /\ <<j, f[j]>>[2] = f[j]
          OBVIOUS
        <5>3. QED
          BY <5>1, <5>2
      <4>3. QED
        BY <4>1, <4>2
    <3>2. \A z : z \in was(v) <=> \E t \in pairs : t[2] = v /\ z = trimat + (t[1] - F)*vec_len
      OBVIOUS
    <3>3. \A z : z \in is(v) <=> \E j \in F .. L : f[j] = v /\ z = trimat + (j - F)*vec_len
      BY <2>1
    <3> HIDE DEF was, is
    <3>4. ASSUME NEW z \in was(v) PROVE z \in is(v)
      <4>1. PICK t \in pairs : t[2] = v /\ z = trimat + (t[1] - F)*vec_len
        BY <3>2
      <4>2. t[1] \in F .. L /\ f[t[1]] = v
        BY <3>1, <4>1
      <4>3. QED
        BY <3>3, <4>1, <4>2
    <3>5. ASSUME NEW z \in is(v) PROVE z \in was(v)
      <4>1. PICK j \in F .. L : f[j] = v /\ z = trimat + (j - F)*vec_len
        BY <3>3
      <4>2. PICK t \in pairs : t[1] = j /\ t[2] = f[j]
        BY <3>1
      <4>3. QED
        BY <3>2, <4>1, <4>2
    <3>6. QED
      BY <3>4, <3>5
  <2> HIDE DEF was, is
  <2>6. DOMAIN A1 = 0 .. 15 /\ DOMAIN G1 = 0 .. 15
    BY <2>2, <2>3
  <2>7. ASSUME NEW v \in 0 .. 15 PROVE A1[v] = G1[v]
    <3>1. was(v) = is(v)
      BY <2>5
    <3>2. A1[v] = [b \in DOMAIN bucket[v] |->
               IF b >= n THEN bucket[v][b] ELSE Add(bucket[v][b], {a + b : a \in was(v)})]
      BY <2>2
    <3>3. G1[v] = [b \in DOMAIN bucket[v] |->
               IF b >= n THEN bucket[v][b] ELSE Add(bucket[v][b], {a + b : a \in is(v)})]
      BY <2>3
    <3>4. QED
      BY <3>1, <3>2, <3>3
  <2>8. A1 = [v \in 0 .. 15 |-> A1[v]] /\ G1 = [v \in 0 .. 15 |-> G1[v]]
    BY <2>2, <2>3, <2>6
  <2>9. A1 = G1
    BY <2>7, <2>8
  <2>10. QED
    BY <2>9 DEF A1, G1, i, F, L
<1>2. Accumulated(bucket, idx_high, VarOf(m), <<FirstOf(m), LastOf(m)>>, n) = Gathered(bucket, "high", m, n)
  <2> DEFINE i == VarOf(m)
             F == FirstOf(m)
             L == LastOf(m)
             f == [j \in F .. L |-> NumOf[idx_high(_xixj(i, j))]]
             pairs == {<<j, NumOf[idx_high(_xixj(i, j))]>> : j \in F .. L}
             was(v) == {trimat + (t[1] - F)*vec_len : t \in {u \in pairs : u[2] = v}}
             is(v) == {trimat + (j - F)*vec_len : j \in {k \in F .. L : ValueOf("high", <<i, k>>) = v}}
             A1 == Accumulated(bucket, idx_high, i, <<F, L>>, n)
             G1 == Gathered(bucket, "high", m, n)
  <2>1. \A j \in F .. L : f[j] = ValueOf("high", <<i, j>>) /\ f[j] = NumOf[idx_high(_xixj(i, j))]
    BY DEF ValueOf
  <2>2. A1 = [v \in 0 .. 15 |-> [b \in DOMAIN bucket[v] |->
               IF b >= n THEN bucket[v][b] ELSE Add(bucket[v][b], {a + b : a \in was(v)})]]
    BY DEF Accumulated
  <2>3. G1 = [v \in 0 .. 15 |-> [b \in DOMAIN bucket[v] |->
               IF b >= n THEN bucket[v][b] ELSE Add(bucket[v][b], {a + b : a \in is(v)})]]
    BY DEF Gathered
  <2> HIDE DEF A1, G1, f, i, F, L
  <2>4. pairs = {<<j, f[j]>> : j \in F .. L}
    BY <2>1
  <2> HIDE DEF pairs
  <2>5. ASSUME NEW v PROVE was(v) = is(v)
    <3>1. (\A t \in pairs : t[1] \in F .. L /\ t[2] = f[t[1]]) /\ (\A j \in F .. L : \E t \in pairs : t[1] = j /\ t[2] = f[j])
      <4>1. ASSUME NEW t \in pairs PROVE t[1] \in F .. L /\ t[2] = f[t[1]]
        <5>1. PICK j \in F .. L : t = <<j, f[j]>>
          BY <2>4
        <5>2. t[1] = j /\ t[2] = f[j]
          BY <5>1
        <5>3. QED
          BY <5>2
      <4>2. ASSUME NEW j \in F .. L PROVE \E t \in pairs : t[1] = j /\ t[2] = f[j]
        <5>1. <<j, f[j]>> \in pairs
          BY <2>4
        <5>2. <<j, f[j]>>[1] = j /\ <<j, f[j]>>[2] = f[j]
          OBVIOUS
        <5>3. QED
          BY <5>1, <5>2
      <4>3. QED
        BY <4>1, <4>2
    <3>2. \A z : z \in was(v) <=> \E t \in pairs : t[2] = v /\ z = trimat + (t[1] - F)*vec_len
      OBVIOUS
    <3>3. \A z : z \in is(v) <=> \E j \in F .. L : f[j] = v /\ z = trimat + (j - F)*vec_len
      BY <2>1
    <3> HIDE DEF was, is
    <3>4. ASSUME NEW z \in was(v) PROVE z \in is(v)
      <4>1. PICK t \in pairs : t[2] = v /\ z = trimat + (t[1] - F)*vec_len
        BY <3>2
      <4>2. t[1] \in F .. L /\ f[t[1]] = v
        BY <3>1, <4>1
      <4>3. QED
        BY <3>3, <4>1, <4>2
    <3>5. ASSUME NEW z \in is(v) PROVE z \in was(v)
      <4>1. PICK j \in F .. L : f[j] = v /\ z = trimat + (j - F)*vec_len
        BY <3>3
      <4>2. PICK t \in pairs : t[1] = j /\ t[2] = f[j]
        BY <3>1
      <4>3. QED
        BY <3>2, <4>1, <4>2
    <3>6. QED
      BY <3>4, <3>5
  <2> HIDE DEF was, is
  <2>6. DOMAIN A1 = 0 .. 15 /\ DOMAIN G1 = 0 .. 15
    BY <2>2, <2>3
  <2>7. ASSUME NEW v \in 0 .. 15 PROVE A1[v] = G1[v]
    <3>1. was(v) = is(v)
      BY <2>5
    <3>2. A1[v] = [b \in DOMAIN bucket[v] |->
               IF b >= n THEN bucket[v][b] ELSE Add(bucket[v][b], {a + b : a \in was(v)})]
      BY <2>2
    <3>3. G1[v] = [b \in DOMAIN bucket[v] |->
               IF b >= n THEN bucket[v][b] ELSE Add(bucket[v][b], {a + b : a \in is(v)})]
      BY <2>3
    <3>4. QED
      BY <3>1, <3>2, <3>3
  <2>8. A1 = [v \in 0 .. 15 |-> A1[v]] /\ G1 = [v \in 0 .. 15 |-> G1[v]]
    BY <2>2, <2>3, <2>6
  <2>9. A1 = G1
    BY <2>7, <2>8
  <2>10. QED
    BY <2>9 DEF A1, G1, i, F, L
<1>3. QED
  BY <1>1, <1>2

(* Multiples of a length.                                                  *)
LEMMA Multiples ==
  ASSUME NEW w \in Nat, w > 0, NEW x \in Nat, NEW y \in Nat
  PROVE  /\ x*w \in Nat
         /\ x*w + y*w = (x + y)*w
         /\ x <= y => x*w <= y*w
         /\ x < y => x*w < y*w
<1>1. x*w \in Nat /\ y*w \in Nat
  BY SMT
<1>2. x*w + y*w = (x + y)*w
  BY SMT
<1>3. ASSUME x <= y PROVE x*w <= y*w
  <2>1. PICK d \in Nat : y = x + d
    <3>1. y - x \in Nat /\ y = x + (y - x)
      BY <1>3
    <3>2. QED
      BY <3>1
  <2>2. d*w \in Nat /\ x*w + d*w = (x + d)*w
    BY SMT
  <2> DEFINE p == x*w
             q == y*w
             r == d*w
  <2> HIDE DEF p, q, r
  <2>3. q = p + r /\ p \in Nat /\ r \in Nat
    BY <1>1, <2>1, <2>2 DEF p, q, r
  <2>4. p <= q
    BY <2>3
  <2>5. QED
    BY <2>4 DEF p, q
<1>4. ASSUME x < y PROVE x*w < y*w
  <2>1. PICK d \in Nat : y = x + d + 1
    <3>1. y - x - 1 \in Nat /\ y = x + (y - x - 1) + 1
      BY <1>4
    <3>2. QED
      BY <3>1
  <2>2. d*w \in Nat /\ x*w + d*w + w = (x + d + 1)*w
    BY SMT
  <2> DEFINE p == x*w
             q == y*w
             r == d*w
  <2> HIDE DEF p, q, r
  <2>3. q = p + r + w /\ p \in Nat /\ r \in Nat
    BY <1>1, <2>1, <2>2 DEF p, q, r
  <2>4. p < q
    BY <2>3
  <2>5. QED
    BY <2>4 DEF p, q
<1>5. QED
  BY <1>1, <1>2, <1>3, <1>4

(* Where a row's vectors begin.                                            *)
LEMMA RowAddresses ==
  ASSUME NEW m \in 0 .. MapRows - 1, vec_len \in VecLens, reg \in {YMM, XMM, U64, U32}, trimat = KeyRow(m)*vec_len,
         NEW j \in FirstOf(m) .. LastOf(m)
  PROVE  /\ trimat + (j - FirstOf(m))*vec_len = Before(<<VarOf(m), j>>)*vec_len
         /\ Before(<<VarOf(m), j>>) \in Nat /\ KeyRow(m) <= Before(<<VarOf(m), j>>)
         /\ Before(<<VarOf(m), j>>) + 1 <= Coefficients
         /\ m # MapRows - 1 => Before(<<VarOf(m), j>>) + 2 <= Coefficients
<1> DEFINE F == FirstOf(m)
           L == LastOf(m)
           K == KeyRow(m)
           vl == vec_len
           x == Before(<<VarOf(m), j>>)
           N == KeyRow(m + 1)
<1>1. F \in Nat /\ L \in Nat /\ K \in Nat /\ N = K + L - F + 1
  BY KeyRowNext
<1>2. x = K + j - F
  BY RowOrder
<1>3. N <= Coefficients /\ (m # MapRows - 1 => N + 1 <= Coefficients) /\ Coefficients \in Nat
  BY KeyRowInside, KeyRowLast
<1>4. vl \in Nat /\ vl > 0
  BY VecFacts
<1>5. trimat = K*vl /\ j \in F .. L
  OBVIOUS
<1> DEFINE d == j - F
           C == Coefficients
<1> HIDE DEF F, L, K, vl, x, N, C
<1>6. d \in Nat /\ x = K + d /\ x \in Nat /\ K <= x /\ x + 1 <= N
  BY <1>1, <1>2, <1>5
<1> HIDE DEF d
<1>7. K*vl + d*vl = (K + d)*vl
  BY <1>1, <1>4, <1>6, Multiples
<1>8. trimat + d*vl = x*vl
  BY <1>5, <1>6, <1>7
<1>9. N \in Nat
  BY <1>1, <1>5
<1>10. x + 1 <= C /\ (m # MapRows - 1 => x + 2 <= C)
  <2>1. N <= C /\ (m # MapRows - 1 => N + 1 <= C) /\ C \in Nat
    BY <1>3 DEF C
  <2> DEFINE last == m # MapRows - 1
  <2> HIDE DEF last
  <2>2. N <= C /\ (last => N + 1 <= C)
    BY <2>1 DEF last
  <2>3. x + 1 <= C /\ (last => x + 2 <= C)
    BY <1>6, <1>9, <2>1, <2>2
  <2>4. QED
    BY <2>3 DEF last
<1>11. QED
  BY <1>6, <1>8, <1>10 DEF F, K, vl, x, C, d

(* A row keeps the additions inside the key: a rounded-up vector reaches   *)
(* into the next one, which is there but for the last row's.               *)
LEMMA GatheredInside ==
  ASSUME NEW m \in 0 .. MapRows - 1, vec_len \in VecLens, reg \in {YMM, XMM, U64, U32}, trimat = KeyRow(m)*vec_len,
         NEW half, NEW n \in {vec_len, tmpvec_len}, m = MapRows - 1 => n = vec_len,
         NEW bucket, Inside(bucket)
  PROVE  Inside(Gathered(bucket, half, m, n))
<1> DEFINE F == FirstOf(m)
           L == LastOf(m)
           vl == vec_len
           C == Coefficients
           g == Gathered(bucket, half, m, n)
           new(v) == {trimat + (j - F)*vl : j \in {k \in F .. L : ValueOf(half, <<VarOf(m), k>>) = v}}
<1>1. /\ vl \in Nat /\ vl > 0 /\ n \in Nat /\ vl <= n /\ n <= 2*vl
      /\ RoundedUp(vec_len, reg) \in Nat
  BY VecFacts
<1>2. DOMAIN g = 0 .. 15
  BY DEF Gathered
<1>3. \A v \in 0 .. 15 : /\ DOMAIN g[v] = DOMAIN bucket[v]
                         /\ \A b \in DOMAIN bucket[v] :
                              g[v][b] = IF b >= n THEN bucket[v][b] ELSE Add(bucket[v][b], {a + b : a \in new(v)})
  BY DEF Gathered
<1>4. \A v \in 0 .. 15 : DOMAIN bucket[v] = 0 .. RoundedUp(vec_len, reg) - 1
  BY DEF Inside
<1>5. \A v \in 0 .. 15 : \A b \in DOMAIN bucket[v] : \A a \in bucket[v][b] : a \in Nat /\ a < C*vl
  BY DEF Inside
<1>6. C \in Nat
  BY KeyRowLast
<1>7. ASSUME NEW v \in 0 .. 15, NEW b \in Nat, b < n, NEW t \in new(v)
      PROVE  t + b \in Nat /\ t + b < C*vl
  <2>1. PICK j \in F .. L : t = trimat + (j - F)*vl
    OBVIOUS
  <2> DEFINE x == Before(<<VarOf(m), j>>)
             last == m = MapRows - 1
  <2>2. t = x*vl /\ x \in Nat /\ x + 1 <= C /\ (~last => x + 2 <= C)
    BY <2>1, RowAddresses
  <2>3. last => n = vl
    OBVIOUS
  <2> HIDE DEF x, last, vl, C
  <2>4. x + 1 \in Nat /\ x + 2 \in Nat
    BY <2>2
  <2>5. x*vl \in Nat /\ x*vl + 1*vl = (x + 1)*vl /\ (x + 1 <= C => (x + 1)*vl <= C*vl)
    BY <1>1, <1>6, <2>2, <2>4, Multiples
  <2>6. x*vl + 2*vl = (x + 2)*vl /\ (x + 2 <= C => (x + 2)*vl <= C*vl)
    BY <1>1, <1>6, <2>2, <2>4, Multiples
  <2> DEFINE p == x*vl
             q == C*vl
  <2>7. 1*vl = vl
    BY <1>1
  <2>8. C*vl \in Nat
    BY <1>1, <1>6, Multiples
  <2> HIDE DEF p, q
  <2>9. CASE last
    <3>1. p + vl <= q
      BY <2>2, <2>5, <2>7 DEF p, q
    <3>2. b < vl
      BY <2>3, <2>9, <1>7
    <3>3. p \in Nat /\ q \in Nat /\ t = p
      BY <2>2, <2>5, <2>8 DEF p, q
    <3>4. t + b \in Nat /\ t + b < q
      BY <1>1, <3>1, <3>2, <3>3
    <3>5. QED
      BY <3>4 DEF q
  <2>10. CASE ~last
    <3>1. p + 2*vl <= q
      BY <2>2, <2>6, <2>10 DEF p, q
    <3>2. b < 2*vl
      BY <1>1, <1>7
    <3>3. p \in Nat /\ q \in Nat /\ t = p
      BY <2>2, <2>5, <2>8 DEF p, q
    <3>4. t + b \in Nat /\ t + b < q
      BY <1>1, <3>1, <3>2, <3>3
    <3>5. QED
      BY <3>4 DEF q
  <2>11. QED
    BY <2>9, <2>10
<1>8. ASSUME NEW v \in 0 .. 15, NEW b \in DOMAIN bucket[v], NEW a \in g[v][b]
      PROVE  a \in Nat /\ a < C*vl
  <2>1. b \in Nat
    <3> DEFINE R == RoundedUp(vec_len, reg)
    <3>1. b \in 0 .. R - 1 /\ R \in Nat
      BY <1>1, <1>4
    <3> HIDE DEF R
    <3>2. QED
      BY <3>1
  <2>2. CASE b >= n
    BY <1>3, <1>5, <1>8, <2>2
  <2>3. CASE b < n
    <3>1. a \in Add(bucket[v][b], {t + b : t \in new(v)})
      <4>1. ~(b >= n)
        BY <1>1, <2>1, <2>3
      <4> HIDE DEF new, g
      <4>2. QED
        BY <1>3, <1>8, <4>1
    <3> HIDE DEF new
    <3>2. a \in bucket[v][b] \/ \E t \in new(v) : a = t + b
      BY <3>1 DEF Add
    <3>3. QED
      BY <1>5, <1>7, <2>1, <2>3, <3>2
  <2>4. QED
    BY <1>1, <2>1, <2>2, <2>3
<1>9. QED
  BY <1>2, <1>3, <1>4, <1>8 DEF Inside

(* And adds its coefficients to those of the rows before, none twice.      *)
LEMMA GatheredCollects ==
  ASSUME NEW m \in 0 .. MapRows - 1, vec_len \in VecLens, reg \in {YMM, XMM, U64, U32}, trimat = KeyRow(m)*vec_len,
         NEW half, NEW n \in {vec_len, tmpvec_len},
         NEW bucket, Inside(bucket), Collected(bucket, half, m)
  PROVE  Collected(Gathered(bucket, half, m, n), half, m + 1)
<1> DEFINE F == FirstOf(m)
           L == LastOf(m)
           vl == vec_len
           g == Gathered(bucket, half, m, n)
           new(v) == {trimat + (j - F)*vl : j \in {k \in F .. L : ValueOf(half, <<VarOf(m), k>>) = v}}
<1>1. vl \in Nat /\ vl > 0 /\ n \in Nat /\ vl <= n /\ vl <= RoundedUp(vec_len, reg) /\ RoundedUp(vec_len, reg) \in Nat
  BY VecFacts
<1> SUFFICES ASSUME NEW v \in 1 .. 15, NEW b \in 0 .. vl - 1
             PROVE  g[v][b] = Sums(half, v, b, m + 1)
  BY DEF Collected
<1>2. v \in 0 .. 15 /\ b \in DOMAIN bucket[v] /\ ~(b >= n) /\ b \in Nat
  <2> DEFINE R == RoundedUp(vec_len, reg)
  <2>1. R \in Nat /\ vl <= R /\ vl \in Nat /\ n \in Nat /\ vl <= n
    BY <1>1
  <2>2. v \in 0 .. 15
    OBVIOUS
  <2>3. DOMAIN bucket[v] = 0 .. R - 1
    BY <2>2 DEF Inside
  <2> HIDE DEF R, vl
  <2>4. b \in 0 .. R - 1 /\ ~(b >= n) /\ b \in Nat
    BY <2>1
  <2>5. QED
    BY <2>2, <2>3, <2>4
<1>3. g[v][b] = Add(bucket[v][b], {a + b : a \in new(v)})
  BY <1>2 DEF Gathered
<1>4. bucket[v][b] = Sums(half, v, b, m)
  BY DEF Collected
<1> DEFINE mine(j) == <<VarOf(m), j>>
           S == Sums(half, v, b, m)
           T == {a + b : a \in new(v)}
<1>5. \A j \in F .. L : /\ trimat + (j - F)*vl = Before(mine(j))*vl /\ Before(mine(j)) \in Nat
                        /\ KeyRow(m) <= Before(mine(j)) /\ mine(j) \in Monomials
  BY RowAddresses, RowOrder
<1>6. KeyRow(m) \in Nat
  BY KeyRowNext
<1>7. \A p \in Monomials : Done(m, p) => Before(p) \in Nat /\ Before(p) < KeyRow(m)
  <2>1. m \in 0 .. MapRows
    BY MapFacts
  <2>2. QED
    BY <2>1, KeyOrdered DEF Ordered
<1>8. \A p \in Monomials : Done(m + 1, p) <=> (Done(m, p) \/ \E j \in F .. L : p = mine(j))
  BY DoneNext
<1>9. \A a : a \in S <=> \E p \in Monomials : Done(m, p) /\ ValueOf(half, p) = v /\ a = Before(p)*vl + b
  BY DEF Sums
<1>10. \A a : a \in Sums(half, v, b, m + 1) <=>
               \E p \in Monomials : Done(m + 1, p) /\ ValueOf(half, p) = v /\ a = Before(p)*vl + b
  BY DEF Sums
<1>11. \A a : a \in T <=> \E j \in F .. L : ValueOf(half, mine(j)) = v /\ a = Before(mine(j))*vl + b
  <2>1. \A a : a \in T <=> \E j \in F .. L : ValueOf(half, mine(j)) = v /\ a = (trimat + (j - F)*vl) + b
    OBVIOUS
  <2> HIDE DEF T, mine, new, F, L, vl
  <2>2. QED
    BY <1>5, <2>1
<1> HIDE DEF T, S, mine, new, F, L, vl, g
<1>12. ASSUME NEW a, a \in S, a \in T PROVE FALSE
  <2>1. PICK p \in Monomials : Done(m, p) /\ a = Before(p)*vl + b
    BY <1>9, <1>12
  <2>2. PICK j \in F .. L : a = Before(mine(j))*vl + b
    BY <1>11, <1>12
  <2> DEFINE x == Before(p)
             y == Before(mine(j))
  <2>3. x \in Nat /\ y \in Nat /\ x < y
    <3>1. x \in Nat /\ x < KeyRow(m)
      BY <1>7, <2>1
    <3>2. y \in Nat /\ KeyRow(m) <= y
      BY <1>5
    <3> HIDE DEF x, y
    <3>3. QED
      BY <1>6, <3>1, <3>2
  <2> HIDE DEF x, y
  <2>4. x*vl < y*vl /\ x*vl \in Nat
    BY <1>1, <2>3, Multiples
  <2>5. y*vl \in Nat
    BY <1>1, <2>3, Multiples
  <2>6. x*vl + b = y*vl + b
    BY <2>1, <2>2 DEF x, y
  <2>7. QED
    BY <1>2, <2>4, <2>5, <2>6
<1>13. ASSUME NEW a PROVE a \in S \/ a \in T <=> a \in Sums(half, v, b, m + 1)
  <2>1. ASSUME a \in S PROVE a \in Sums(half, v, b, m + 1)
    BY <1>8, <1>9, <1>10, <2>1
  <2>2. ASSUME a \in T PROVE a \in Sums(half, v, b, m + 1)
    <3>1. PICK j \in F .. L : ValueOf(half, mine(j)) = v /\ a = Before(mine(j))*vl + b
      BY <1>11, <2>2
    <3>2. mine(j) \in Monomials /\ Done(m + 1, mine(j))
      BY <1>5, <1>8
    <3>3. QED
      BY <1>10, <3>1, <3>2
  <2>3. ASSUME a \in Sums(half, v, b, m + 1) PROVE a \in S \/ a \in T
    <3>1. PICK p \in Monomials : Done(m + 1, p) /\ ValueOf(half, p) = v /\ a = Before(p)*vl + b
      BY <1>10, <2>3
    <3>2. CASE Done(m, p)
      BY <1>9, <3>1, <3>2
    <3>3. CASE \E j \in F .. L : p = mine(j)
      BY <1>11, <3>1, <3>3
    <3>4. QED
      BY <1>8, <3>1, <3>2, <3>3
  <2>4. QED
    BY <2>1, <2>2, <2>3
<1>14. g[v][b] = Add(S, T)
  BY <1>3, <1>4 DEF S, T
<1>15. QED
  BY <1>12, <1>13, <1>14 DEF Add

(* Rows of a zero, which GF(16) leaves out, add nothing that counts.       *)
LEMMA ZeroRowCollects ==
  ASSUME NEW m \in 0 .. MapRows - 1, gfsize = 16, x_(VarOf(m)) = 0, NEW bucket, Collected(bucket, "low", m)
  PROVE  Collected(bucket, "low", m + 1)
<1> SUFFICES ASSUME NEW v \in 1 .. 15, NEW b \in 0 .. vec_len - 1
             PROVE  bucket[v][b] = Sums("low", v, b, m + 1)
  BY DEF Collected
<1>1. \A p \in Monomials : Done(m + 1, p) <=> (Done(m, p) \/ \E j \in FirstOf(m) .. LastOf(m) : p = <<VarOf(m), j>>)
  BY DoneNext
<1>2. ASSUME NEW j PROVE ValueOf("low", <<VarOf(m), j>>) # v
  <2> DEFINE i == VarOf(m)
             x == ValueOf("low", <<i, j>>)
  <2>1. _xixj(i, j) = {}
    BY ProductBits
  <2>2. idx_low(_xixj(i, j)) = {}
    BY <2>1 DEF idx_low, Low
  <2>3. x = NumOf[{}]
    BY <2>2 DEF ValueOf
  <2>4. x \in 0 .. 15 /\ Bits(x) = {}
    BY <2>3, NumOfBits
  <2> HIDE DEF x
  <2>5. x = 0
    <3>1. x % 2 # 1 /\ (x \div 2) % 2 # 1 /\ (x \div 4) % 2 # 1 /\ (x \div 8) % 2 # 1
      BY <2>4, BitsAre
    <3>2. QED
      BY <2>4, <3>1
  <2>6. v # 0
    OBVIOUS
  <2>7. QED
    BY <2>5, <2>6 DEF x
<1>3. \A p \in Monomials : Done(m + 1, p) /\ ValueOf("low", p) = v <=> Done(m, p) /\ ValueOf("low", p) = v
  BY <1>1, <1>2
<1>4. {q \in Monomials : Done(m + 1, q) /\ ValueOf("low", q) = v} = {q \in Monomials : Done(m, q) /\ ValueOf("low", q) = v}
  BY <1>3
<1>5. Sums("low", v, b, m + 1) = Sums("low", v, b, m)
  BY <1>4 DEF Sums
<1>6. QED
  BY <1>5 DEF Collected

(* The last step.                                                          *)
LEMMA ReducedBucket ==
  ASSUME NEW bucket, NEW half, vec_len \in VecLens, reg \in {YMM, XMM, U64, U32},
         Inside(bucket), Collected(bucket, half, MapRows), NEW e \in 0 .. vec_len - 1
  PROVE  /\ Shaped(bucket, e)
         /\ Apart(bucket, e, 15)
         /\ \A v \in 1 .. 15 : \A a :
              a \in bucket[v][e] <=> \E p \in Monomials : ValueOf(half, p) = v /\ a = Before(p)*vec_len + e
<1> DEFINE vl == vec_len
           R == RoundedUp(vec_len, reg)
<1>1. vl \in Nat /\ vl > 0 /\ R \in Nat /\ vl <= R
  BY VecFacts
<1>2. e \in 0 .. vl - 1 /\ DOMAIN bucket = 0 .. 15 /\ \A v \in 0 .. 15 : DOMAIN bucket[v] = 0 .. R - 1
  BY DEF Inside
<1> HIDE DEF vl, R
<1>3. e \in 0 .. R - 1 /\ e \in Nat
  BY <1>1, <1>2
<1>4. Shaped(bucket, e)
  BY <1>2, <1>3 DEF Shaped
<1>5. MapRows \in 0 .. MapRows
  BY MapFacts
<1>6. \A p \in Monomials : Done(MapRows, p)
  BY DoneEnds
<1>7. \A v \in 1 .. 15 : \A a :
        a \in bucket[v][e] <=> \E p \in Monomials : ValueOf(half, p) = v /\ a = Before(p)*vl + e
  <2>1. \A v \in 1 .. 15 : bucket[v][e] = Sums(half, v, e, MapRows)
    BY <1>2 DEF Collected, vl
  <2>2. \A v, a : a \in Sums(half, v, e, MapRows) <=>
          \E p \in Monomials : Done(MapRows, p) /\ ValueOf(half, p) = v /\ a = Before(p)*vl + e
    BY DEF Sums, vl
  <2>3. QED
    BY <1>6, <2>1, <2>2
<1>8. Apart(bucket, e, 15)
  <2> SUFFICES ASSUME NEW v \in 1 .. 15, NEW w \in 1 .. 15, NEW a, a \in bucket[v][e], a \in bucket[w][e] PROVE v = w
    BY DEF Apart
  <2>1. PICK p \in Monomials : ValueOf(half, p) = v /\ a = Before(p)*vl + e
    BY <1>7
  <2>2. PICK q \in Monomials : ValueOf(half, q) = w /\ a = Before(q)*vl + e
    BY <1>7
  <2> DEFINE x == Before(p)
             y == Before(q)
  <2>3. x \in Nat /\ y \in Nat /\ (x = y => p = q)
    BY <1>5, <1>6, KeyOrdered DEF Ordered
  <2>4. x*vl + e = y*vl + e
    BY <2>1, <2>2
  <2> HIDE DEF x, y
  <2>5. x*vl \in Nat /\ y*vl \in Nat /\ (x < y => x*vl < y*vl) /\ (y < x => y*vl < x*vl)
    BY <1>1, <2>3, Multiples
  <2>6. x*vl = y*vl
    BY <1>3, <2>4, <2>5
  <2>7. x = y
    BY <2>3, <2>5, <2>6
  <2>8. QED
    BY <2>1, <2>2, <2>3, <2>7
<1>9. QED
  BY <1>4, <1>7, <1>8 DEF vl

LEMMA ReducedResult ==
  ASSUME MapRuns, mrow = MapRows
  PROVE  /\ DOMAIN madd_reduce = 0 .. vec_len - 1
         /\ \A e \in 0 .. vec_len - 1 :
              /\ DOMAIN madd_reduce[e] = (IF gfsize = 16 THEN 0 .. 3 ELSE 0 .. 7)
              /\ \A k \in DOMAIN madd_reduce[e] :
                   madd_reduce[e][k] = {Before(p)*vec_len + e : p \in {q \in Monomials : k \in _xixj(q[1], q[2])}}
<1> DEFINE l == Reduced(accu_low)
           h == Reduced(accu_high)
           ks == IF gfsize = 16 THEN 0 .. 3 ELSE 0 .. 7
           is(k, e) == {Before(p)*vec_len + e : p \in {q \in Monomials : k \in _xixj(q[1], q[2])}}
           isbit(half, k, kk) ==
             \A p : ValueOf(half, p) \in 0 .. 15 /\ (k \in Bits(ValueOf(half, p)) <=> kk \in _xixj(p[1], p[2]))
<1>1. madd_reduce = [e \in 0 .. vec_len - 1 |-> [k \in ks |-> IF k < 4 THEN l[2^k][e] ELSE h[2^(k - 4)][e]]]
  BY DEF madd_reduce
<1> HIDE DEF l, h, ks
<1>2. DOMAIN madd_reduce = 0 .. vec_len - 1
  BY <1>1
<1>3. \A e \in 0 .. vec_len - 1 :
        /\ DOMAIN madd_reduce[e] = ks
        /\ \A k \in ks : madd_reduce[e][k] = IF k < 4 THEN l[2^k][e] ELSE h[2^(k - 4)][e]
  BY <1>1
<1>4. 2^0 = 1 /\ 2^1 = 2 /\ 2^2 = 4 /\ 2^3 = 8
  OBVIOUS
<1>5. /\ vec_len \in VecLens /\ reg \in {YMM, XMM, U64, U32} /\ Inside(accu_low) /\ Inside(accu_high)
      /\ Collected(accu_low, "low", MapRows) /\ (gfsize = 256 => Collected(accu_high, "high", MapRows))
      /\ gfsize \in {16, 256}
  BY DEF MapRuns
<1>6. \A k \in 0 .. 3 : k \notin Bits(0)
  BY BitsOfZero
<1>7. ASSUME NEW half, NEW bucket, Inside(bucket), Collected(bucket, half, MapRows),
             NEW e \in 0 .. vec_len - 1, NEW k \in 0 .. 3, NEW kk,
             isbit(half, k, kk)
      PROVE  Reduced(bucket)[2^k][e] = is(kk, e)
  <2>2. /\ Shaped(bucket, e) /\ Apart(bucket, e, 15)
        /\ \A v \in 1 .. 15 : \A a :
             a \in bucket[v][e] <=> \E p \in Monomials : ValueOf(half, p) = v /\ a = Before(p)*vec_len + e
    BY <1>5, <1>7, ReducedBucket
  <2>3. \A a : a \in Reduced(bucket)[2^k][e] <=> \E v \in 1 .. 15 : k \in Bits(v) /\ a \in bucket[v][e]
    <3> TAKE a
    <3>1. /\ a \in Reduced(bucket)[1][e] <=> \E v \in 1 .. 15 : 0 \in Bits(v) /\ a \in bucket[v][e]
          /\ a \in Reduced(bucket)[2][e] <=> \E v \in 1 .. 15 : 1 \in Bits(v) /\ a \in bucket[v][e]
          /\ a \in Reduced(bucket)[4][e] <=> \E v \in 1 .. 15 : 2 \in Bits(v) /\ a \in bucket[v][e]
          /\ a \in Reduced(bucket)[8][e] <=> \E v \in 1 .. 15 : 3 \in Bits(v) /\ a \in bucket[v][e]
      BY <2>2, ReducedIs
    <3>2. k = 0 \/ k = 1 \/ k = 2 \/ k = 3
      OBVIOUS
    <3>3. QED
      BY <1>4, <3>1, <3>2
  <2>4. \A p : ValueOf(half, p) \in 0 .. 15 /\ (k \in Bits(ValueOf(half, p)) <=> kk \in _xixj(p[1], p[2]))
    BY <1>7 DEF isbit
  <2>5. \A a : a \in is(kk, e) <=> \E p \in Monomials : kk \in _xixj(p[1], p[2]) /\ a = Before(p)*vec_len + e
    OBVIOUS
  <2> DEFINE red == Reduced(bucket)[2^k][e]
  <2> HIDE DEF is, red
  <2>6. \A a : a \in red <=> \E v \in 1 .. 15 : k \in Bits(v) /\ a \in bucket[v][e]
    BY <2>3 DEF red
  <2>7. ASSUME NEW a \in red PROVE a \in is(kk, e)
    <3>1. PICK v \in 1 .. 15 : k \in Bits(v) /\ a \in bucket[v][e]
      BY <2>6
    <3>2. PICK p \in Monomials : ValueOf(half, p) = v /\ a = Before(p)*vec_len + e
      BY <2>2, <3>1
    <3>3. QED
      BY <2>4, <2>5, <3>1, <3>2
  <2>8. ASSUME NEW a \in is(kk, e) PROVE a \in red
    <3>1. PICK p \in Monomials : kk \in _xixj(p[1], p[2]) /\ a = Before(p)*vec_len + e
      BY <2>5
    <3> DEFINE v == ValueOf(half, p)
    <3>2. v \in 0 .. 15 /\ k \in Bits(v)
      BY <2>4, <3>1
    <3> HIDE DEF v
    <3>3. v # 0
      BY <1>6, <3>2
    <3>4. v \in 1 .. 15
      BY <3>2, <3>3
    <3>5. a \in bucket[v][e]
      BY <2>2, <3>1, <3>4 DEF v
    <3>6. QED
      BY <2>6, <3>2, <3>4, <3>5
  <2>9. red = is(kk, e)
    BY <2>7, <2>8
  <2>10. QED
    BY <2>9 DEF red
<1> HIDE DEF is, isbit
<1>8. ASSUME NEW e \in 0 .. vec_len - 1, NEW k \in ks PROVE madd_reduce[e][k] = is(k, e)
  <2>1. CASE k \in 0 .. 3
    <3>1. madd_reduce[e][k] = l[2^k][e]
      BY <1>3, <2>1
    <3>2. Reduced(accu_low)[2^k][e] = is(k, e)
      <4>1. isbit("low", k, k)
        BY <2>1, ValueFacts DEF isbit
      <4>2. Inside(accu_low) /\ Collected(accu_low, "low", MapRows)
        BY <1>5
      <4>3. QED
        BY <1>7, <2>1, <4>1, <4>2
    <3>3. QED
      BY <3>1, <3>2 DEF l
  <2>2. CASE k \notin 0 .. 3
    <3> DEFINE d == k - 4
    <3>1. gfsize = 256 /\ k \in 4 .. 7
      BY <1>5, <2>2 DEF ks
    <3>2. d \in 0 .. 3 /\ k = d + 4 /\ ~(k < 4)
      BY <3>1
    <3>3. madd_reduce[e][k] = h[2^d][e]
      BY <1>3, <3>2
    <3> HIDE DEF d
    <3>4. Reduced(accu_high)[2^d][e] = is(d + 4, e)
      <4>1. isbit("high", d, d + 4)
        <5>1. d + 4 \in 4 .. 7 /\ (d + 4) - 4 = d
          BY <3>2
        <5>2. QED
          BY <3>1, <5>1, ValueFacts DEF isbit
      <4>2. Inside(accu_high) /\ Collected(accu_high, "high", MapRows)
        BY <1>5, <3>1
      <4>3. QED
        BY <1>7, <3>2, <4>1, <4>2
    <3>5. QED
      BY <3>2, <3>3, <3>4 DEF h
  <2>3. QED
    BY <2>1, <2>2
<1>9. QED
  BY <1>2, <1>3, <1>8 DEF ks, is

LEMMA MapInitInv == MapInit => MapInv
<1> SUFFICES ASSUME MapInit PROVE MapInv
  OBVIOUS
<1>1. /\ gfsize \in {16, 256} /\ reg \in {YMM, XMM, U64, U32} /\ vec_len \in VecLens
      /\ trimat = 0 /\ mrow = 0 /\ ymap = <<>>
      /\ accu_low = NoBuckets(RoundedUp(vec_len, reg)) /\ accu_high = NoBuckets(RoundedUp(vec_len, reg))
  BY DEF MapInit
<1>2. vec_len \in Nat /\ RoundedUp(vec_len, reg) \in Nat /\ vec_len <= RoundedUp(vec_len, reg)
  BY <1>1, VecFacts
<1>3. 0 \in 0 .. MapRows
  BY MapFacts
<1>4. trimat = KeyRow(mrow)*vec_len
  <2>1. RowStart(0, MapV) = 0 /\ MapV > 0
    BY MapFacts, RowStartNext
  <2>2. KeyRow(0) = 0
    BY <2>1 DEF KeyRow
  <2>3. 0*vec_len = 0
    BY <1>2
  <2>4. QED
    BY <1>1, <2>2, <2>3
<1>5. ASSUME NEW bucket, bucket = NoBuckets(RoundedUp(vec_len, reg)), NEW half
      PROVE  Inside(bucket) /\ Collected(bucket, half, mrow)
  <2> DEFINE R == RoundedUp(vec_len, reg)
  <2>1. DOMAIN bucket = 0 .. 15 /\ \A v \in 0 .. 15 : DOMAIN bucket[v] = 0 .. R - 1 /\ \A b \in 0 .. R - 1 : bucket[v][b] = {}
    BY <1>5 DEF NoBuckets
  <2>2. Inside(bucket)
    BY <2>1 DEF Inside
  <2>3. ASSUME NEW v \in 1 .. 15, NEW b \in 0 .. vec_len - 1 PROVE bucket[v][b] = Sums(half, v, b, mrow)
    <3> DEFINE n == vec_len
    <3>1. b \in 0 .. n - 1 /\ n \in Nat /\ R \in Nat /\ n <= R
      BY <1>2
    <3>2. bucket[v][b] = {}
      <4> HIDE DEF n, R
      <4>1. b \in 0 .. R - 1 /\ v \in 0 .. 15
        BY <3>1
      <4>2. QED
        BY <2>1, <4>1
    <3>3. \A p \in Monomials : ~Done(mrow, p)
      BY <1>1, DoneEnds
    <3>4. Sums(half, v, b, mrow) = {}
      BY <3>3 DEF Sums
    <3>5. QED
      BY <3>2, <3>4
  <2>4. QED
    BY <2>2, <2>3 DEF Collected
<1>6. MapRuns
  BY <1>1, <1>3, <1>4, <1>5 DEF MapRuns
<1>7. gfsize # 0
  BY <1>1
<1>8. QED
  BY <1>6, <1>7 DEF MapInv

(* The three loops are one: a row, and how much of its vectors is added.   *)
RowDone(n) ==
  /\ gfsize = 16 => /\ accu_low' = IF x_(VarOf(mrow)) = 0 THEN accu_low ELSE Gathered(accu_low, "low", mrow, n)
                    /\ accu_high' = accu_high
  /\ gfsize = 256 => /\ accu_low' = Gathered(accu_low, "low", mrow, n)
                     /\ accu_high' = Gathered(accu_high, "high", mrow, n)
  /\ trimat' = trimat + (LastOf(mrow) - FirstOf(mrow) + 1) * vec_len
  /\ mrow' = mrow + 1
  /\ UNCHANGED <<gfsize, reg, vec_len, xs, ymap>>

LEMMA RowSteps ==
  ASSUME MapRuns, MapStep
  PROVE  \/ ReduceStep
         \/ /\ mrow \in 0 .. MapRows - 1
            /\ \E n \in {vec_len, tmpvec_len} : (mrow = MapRows - 1 => n = vec_len) /\ RowDone(n)
<1>1. MapV \in Nat /\ MapV > 0 /\ MapO \in Nat /\ MapO > 1 /\ PUB_N = MapV + MapO /\ MapRows = 2*MapV + MapO
  BY MapFacts
<1>2. mrow \in Nat
  BY <1>1 DEF MapRuns
<1>3. ASSUME NEW i, NEW js, NEW n, accu_eval_quad(i, js, n), i = VarOf(mrow), js = <<FirstOf(mrow), LastOf(mrow)>>
      PROVE  RowDone(n)
  <2>1. js[1] = FirstOf(mrow) /\ js[2] = LastOf(mrow)
    BY <1>3
  <2>2. /\ Accumulated(accu_low, idx_low, i, js, n) = Gathered(accu_low, "low", mrow, n)
        /\ Accumulated(accu_high, idx_high, i, js, n) = Gathered(accu_high, "high", mrow, n)
    BY <1>3, AccumulatedIs
  <2>3. /\ \/ /\ gfsize = 16
              /\ accu_low' = IF x_(i) = 0 THEN accu_low ELSE Accumulated(accu_low, idx_low, i, js, n)
              /\ accu_high' = accu_high
           \/ /\ gfsize = 256
              /\ accu_low' = Accumulated(accu_low, idx_low, i, js, n)
              /\ accu_high' = Accumulated(accu_high, idx_high, i, js, n)
        /\ trimat' = trimat + (js[2] - js[1] + 1) * vec_len
        /\ mrow' = mrow + 1
        /\ UNCHANGED <<gfsize, reg, vec_len, xs, ymap>>
    BY <1>3 DEF accu_eval_quad
  <2> DEFINE al == Accumulated(accu_low, idx_low, i, js, n)
             ah == Accumulated(accu_high, idx_high, i, js, n)
             gl == Gathered(accu_low, "low", mrow, n)
             gh == Gathered(accu_high, "high", mrow, n)
  <2>4. al = gl /\ ah = gh
    BY <2>2
  <2>5. \/ gfsize = 16 /\ accu_low' = (IF x_(i) = 0 THEN accu_low ELSE al) /\ accu_high' = accu_high
        \/ gfsize = 256 /\ accu_low' = al /\ accu_high' = ah
    BY <2>3
  <2> HIDE DEF al, ah, gl, gh
  <2>6. \/ gfsize = 16 /\ accu_low' = (IF x_(i) = 0 THEN accu_low ELSE gl) /\ accu_high' = accu_high
        \/ gfsize = 256 /\ accu_low' = gl /\ accu_high' = gh
    BY <2>4, <2>5
  <2>7. 16 # 256
    OBVIOUS
  <2>8. /\ gfsize = 16 => accu_low' = (IF x_(VarOf(mrow)) = 0 THEN accu_low ELSE gl) /\ accu_high' = accu_high
        /\ gfsize = 256 => accu_low' = gl /\ accu_high' = gh
    BY <1>3, <2>6, <2>7
  <2>9. trimat' = trimat + (LastOf(mrow) - FirstOf(mrow) + 1) * vec_len
    BY <2>1, <2>3
  <2>10. mrow' = mrow + 1 /\ UNCHANGED <<gfsize, reg, vec_len, xs, ymap>>
    BY <2>3
  <2>11. QED
    BY <2>8, <2>9, <2>10 DEF RowDone, gl, gh
<1>4. CASE P1Step
  <2>1. mrow < MapV /\ accu_eval_quad(mrow, <<mrow, MapV - 1>>, tmpvec_len)
    BY <1>4 DEF P1Step
  <2>2. mrow = VarOf(mrow) /\ <<mrow, MapV - 1>> = <<FirstOf(mrow), LastOf(mrow)>>
    BY <2>1 DEF VarOf, FirstOf, LastOf
  <2>3. RowDone(tmpvec_len)
    BY <1>3, <2>1, <2>2
  <2>4. mrow \in 0 .. MapRows - 1 /\ mrow # MapRows - 1
    BY <1>1, <1>2, <2>1
  <2>5. QED
    BY <2>3, <2>4
<1>5. CASE P2Step
  <2>1. mrow \in MapV .. 2*MapV - 1 /\ accu_eval_quad(mrow - MapV, <<MapV, PUB_N - 1>>, tmpvec_len)
    BY <1>5 DEF P2Step
  <2>2. ~(mrow < MapV) /\ mrow < 2*MapV
    BY <1>1, <2>1
  <2>3. mrow - MapV = VarOf(mrow) /\ <<MapV, PUB_N - 1>> = <<FirstOf(mrow), LastOf(mrow)>>
    BY <2>2 DEF VarOf, FirstOf, LastOf
  <2>4. RowDone(tmpvec_len)
    BY <1>3, <2>1, <2>3
  <2>5. mrow \in 0 .. MapRows - 1 /\ mrow # MapRows - 1
    BY <1>1, <1>2, <2>2
  <2>6. QED
    BY <2>4, <2>5
<1>6. CASE P3Step
  <2> DEFINE n == IF mrow - MapV = PUB_N - 1 THEN vec_len ELSE tmpvec_len
  <2>1. /\ mrow \in 2*MapV .. 2*MapV + MapO - 1
        /\ accu_eval_quad(mrow - MapV, <<mrow - MapV, PUB_N - 1>>, n)
    BY <1>6 DEF P3Step
  <2>2. ~(mrow < MapV) /\ ~(mrow < 2*MapV)
    BY <1>1, <2>1
  <2>3. mrow - MapV = VarOf(mrow) /\ <<mrow - MapV, PUB_N - 1>> = <<FirstOf(mrow), LastOf(mrow)>>
    BY <2>2 DEF VarOf, FirstOf, LastOf
  <2>4. n \in {vec_len, tmpvec_len} /\ (mrow = MapRows - 1 => n = vec_len)
    <3>1. mrow = MapRows - 1 => mrow - MapV = PUB_N - 1
      BY <1>1, <1>2
    <3>2. QED
      BY <3>1
  <2> HIDE DEF n
  <2>5. RowDone(n)
    BY <1>3, <2>1, <2>3
  <2>6. mrow \in 0 .. MapRows - 1
    BY <1>1, <1>2, <2>1
  <2>7. QED
    BY <2>4, <2>5, <2>6
<1>7. QED
  BY <1>4, <1>5, <1>6 DEF MapStep

LEMMA MapStepInv == MapInv /\ MapStep => MapInv'
<1> SUFFICES ASSUME MapInv, MapStep PROVE MapInv'
  OBVIOUS
<1>1. CASE gfsize = 0
  <2>1. MapIdle
    BY <1>1 DEF MapInv
  <2>2. mrow = 0 /\ MapV > 0 /\ MapV \in Nat /\ MapO \in Nat
    BY <2>1, MapFacts DEF MapIdle
  <2>3. gfsize # 16 /\ gfsize # 256
    BY <1>1
  <2>4. ~P1Step /\ ~P2Step /\ ~P3Step
    BY <2>3 DEF P1Step, P2Step, P3Step, accu_eval_quad
  <2>5. ~ReduceStep
    BY <2>2 DEF ReduceStep
  <2>6. QED
    BY <2>4, <2>5 DEF MapStep
<1>2. CASE gfsize # 0
  <2>1. MapRuns
    BY <1>2 DEF MapInv
  <2>2. ReduceStep \/ (mrow \in 0 .. MapRows - 1 /\ \E n \in {vec_len, tmpvec_len} : (mrow = MapRows - 1 => n = vec_len) /\ RowDone(n))
    BY <2>1, RowSteps
  <2>3. CASE ReduceStep
    <3>1. mrow = MapRows /\ ymap' = madd_reduce /\ UNCHANGED <<gfsize, reg, vec_len, xs, trimat, mrow, accu_low, accu_high>>
      BY <2>3, MapFacts DEF ReduceStep, MapRows
    <3>2. \A i, j : _xixj(i, j)' = _xixj(i, j)
      BY <3>1 DEF _xixj, x_
    <3>3. \A half, p : ValueOf(half, p)' = ValueOf(half, p)
      BY <3>2 DEF ValueOf
    <3>4. MapRuns'
      <4>1. gfsize' \in {16, 256} /\ reg' \in {YMM, XMM, U64, U32} /\ vec_len' \in VecLens
        BY <2>1, <3>1 DEF MapRuns
      <4>2. mrow' \in 0 .. MapRows /\ trimat' = KeyRow(mrow')*vec_len'
        BY <2>1, <3>1 DEF MapRuns
      <4>3. Inside(accu_low)'
        BY <2>1, <3>1 DEF MapRuns, Inside
      <4>4. Inside(accu_high)'
        BY <2>1, <3>1 DEF MapRuns, Inside
      <4>5. Collected(accu_low, "low", mrow)'
        BY <2>1, <3>1, <3>3 DEF MapRuns, Collected, Sums
      <4>6. gfsize' = 256 => Collected(accu_high, "high", mrow)'
        BY <2>1, <3>1, <3>3 DEF MapRuns, Collected, Sums
      <4>7. ResultRight'
        <5>1. /\ DOMAIN madd_reduce = 0 .. vec_len - 1
              /\ \A e \in 0 .. vec_len - 1 :
                   /\ DOMAIN madd_reduce[e] = (IF gfsize = 16 THEN 0 .. 3 ELSE 0 .. 7)
                   /\ \A k \in DOMAIN madd_reduce[e] :
                        madd_reduce[e][k] = {Before(p)*vec_len + e : p \in {q \in Monomials : k \in _xixj(q[1], q[2])}}
          BY <2>1, <3>1, ReducedResult
        <5>2. QED
          BY <3>1, <3>2, <5>1 DEF ResultRight
      <4>8. QED
        BY <4>1, <4>2, <4>3, <4>4, <4>5, <4>6, <4>7 DEF MapRuns
    <3>5. gfsize' # 0
      BY <1>2, <3>1
    <3>6. QED
      BY <3>4, <3>5 DEF MapInv
  <2>4. ASSUME mrow \in 0 .. MapRows - 1, NEW n \in {vec_len, tmpvec_len}, mrow = MapRows - 1 => n = vec_len, RowDone(n)
        PROVE  MapInv'
    <3>1. /\ trimat' = trimat + (LastOf(mrow) - FirstOf(mrow) + 1) * vec_len
          /\ mrow' = mrow + 1
          /\ gfsize' = gfsize /\ reg' = reg /\ vec_len' = vec_len /\ xs' = xs /\ ymap' = ymap
      BY <2>4 DEF RowDone
    <3>2. \A i, j : _xixj(i, j)' = _xixj(i, j)
      BY <3>1 DEF _xixj, x_
    <3>3. \A half, p : ValueOf(half, p)' = ValueOf(half, p)
      BY <3>2 DEF ValueOf
    <3>4. /\ vec_len \in VecLens /\ reg \in {YMM, XMM, U64, U32} /\ trimat = KeyRow(mrow)*vec_len /\ gfsize \in {16, 256}
          /\ Inside(accu_low) /\ Inside(accu_high) /\ Collected(accu_low, "low", mrow)
          /\ (gfsize = 256 => Collected(accu_high, "high", mrow)) /\ (ymap # <<>> => ResultRight)
      BY <2>1 DEF MapRuns
    <3>5. /\ Inside(accu_low') /\ Inside(accu_high') /\ Collected(accu_low', "low", mrow + 1)
          /\ (gfsize = 256 => Collected(accu_high', "high", mrow + 1))
      <4>1. Inside(Gathered(accu_low, "low", mrow, n)) /\ Inside(Gathered(accu_high, "high", mrow, n))
        BY <2>4, <3>4, GatheredInside
      <4>2. Collected(Gathered(accu_low, "low", mrow, n), "low", mrow + 1)
        BY <2>4, <3>4, GatheredCollects
      <4>3. CASE gfsize = 16 /\ gfsize # 256
        <5>1. accu_low' = (IF x_(VarOf(mrow)) = 0 THEN accu_low ELSE Gathered(accu_low, "low", mrow, n)) /\ accu_high' = accu_high
          BY <2>4, <4>3 DEF RowDone
        <5>2. CASE x_(VarOf(mrow)) = 0
          <6>1. accu_low' = accu_low
            BY <5>1, <5>2
          <6>2. Collected(accu_low, "low", mrow + 1)
            BY <2>4, <3>4, <4>3, <5>2, ZeroRowCollects
          <6>3. QED
            BY <3>4, <4>3, <5>1, <6>1, <6>2
        <5>3. CASE x_(VarOf(mrow)) # 0
          <6>1. accu_low' = Gathered(accu_low, "low", mrow, n)
            BY <5>1, <5>3
          <6>2. QED
            BY <3>4, <4>1, <4>2, <4>3, <5>1, <6>1
        <5>4. QED
          BY <5>2, <5>3
      <4>4. CASE gfsize = 256
        <5>1. accu_low' = Gathered(accu_low, "low", mrow, n) /\ accu_high' = Gathered(accu_high, "high", mrow, n)
          BY <2>4, <4>4 DEF RowDone
        <5>2. Collected(Gathered(accu_high, "high", mrow, n), "high", mrow + 1)
          BY <2>4, <3>4, <4>4, GatheredCollects
        <5>3. QED
          BY <4>1, <4>2, <5>1, <5>2
      <4>5. gfsize = 16 => gfsize # 256
        OBVIOUS
      <4>6. QED
        BY <3>4, <4>3, <4>4, <4>5
    <3>6. trimat' = KeyRow(mrow')*vec_len'
      <4> DEFINE d == LastOf(mrow) - FirstOf(mrow) + 1
                 K == KeyRow(mrow)
      <4>1. K \in Nat /\ d \in Nat /\ KeyRow(mrow + 1) = K + d
        <5>1. /\ KeyRow(mrow) \in Nat /\ FirstOf(mrow) \in Nat /\ LastOf(mrow) \in Nat /\ FirstOf(mrow) <= LastOf(mrow)
              /\ KeyRow(mrow + 1) = KeyRow(mrow) + LastOf(mrow) - FirstOf(mrow) + 1
          BY <2>4, KeyRowNext
        <5>2. QED
          BY <5>1
      <4>2. vec_len \in Nat /\ vec_len > 0
        BY <3>4, VecFacts
      <4> HIDE DEF d, K
      <4>3. K*vec_len + d*vec_len = (K + d)*vec_len
        BY <4>1, <4>2, Multiples
      <4>4. trimat' = K*vec_len + d*vec_len
        BY <3>1, <3>4 DEF d, K
      <4>5. QED
        BY <3>1, <4>1, <4>3, <4>4
    <3>7. MapRuns'
      <4>1. gfsize' \in {16, 256} /\ reg' \in {YMM, XMM, U64, U32} /\ vec_len' \in VecLens
        BY <3>1, <3>4
      <4>2. mrow' \in 0 .. MapRows
        BY <2>4, <3>1, MapFacts
      <4>3. Inside(accu_low)'
        BY <3>1, <3>5 DEF Inside
      <4>4. Inside(accu_high)'
        BY <3>1, <3>5 DEF Inside
      <4>5. Collected(accu_low, "low", mrow)'
        BY <3>1, <3>3, <3>5 DEF Collected, Sums
      <4>6. gfsize' = 256 => Collected(accu_high, "high", mrow)'
        BY <3>1, <3>3, <3>5 DEF Collected, Sums
      <4>7. ymap' # <<>> => ResultRight'
        BY <3>1, <3>2, <3>4 DEF ResultRight
      <4>8. QED
        BY <3>6, <4>1, <4>2, <4>3, <4>4, <4>5, <4>6, <4>7 DEF MapRuns
    <3>8. QED
      BY <1>2, <3>1, <3>7 DEF MapInv
  <2>5. QED
    BY <2>2, <2>3, <2>4
<1>3. QED
  BY <1>1, <1>2

LEMMA MapInductive == Spec => []MapInv
<1>1. Init => MapInv
  <2>1. MapIdle => MapInv
    BY DEF MapInv, MapIdle
  <2>2. Init => MapInit \/ MapIdle
    BY DEF Init
  <2>3. QED
    BY <2>1, <2>2, MapInitInv
<1>2. MapInv /\ [Next]_vars => MapInv'
  <2> SUFFICES ASSUME MapInv, [Next]_vars PROVE MapInv'
    OBVIOUS
  <2>1. MapStep \/ UNCHANGED map_vars
    BY DEF Next, vars
  <2>2. CASE UNCHANGED map_vars
    <3>1. /\ gfsize' = gfsize /\ reg' = reg /\ vec_len' = vec_len /\ xs' = xs /\ trimat' = trimat /\ mrow' = mrow
          /\ accu_low' = accu_low /\ accu_high' = accu_high /\ ymap' = ymap
      BY <2>2 DEF map_vars
    <3>2. MapIdle' = MapIdle
      BY <3>1 DEF MapIdle
    <3>3. \A i, j : _xixj(i, j)' = _xixj(i, j)
      BY <3>1 DEF _xixj, x_
    <3>4. \A half, p : ValueOf(half, p)' = ValueOf(half, p)
      BY <3>3 DEF ValueOf
    <3>5. MapRuns => MapRuns'
      <4> SUFFICES ASSUME MapRuns PROVE MapRuns'
        OBVIOUS
      <4>1. gfsize' \in {16, 256} /\ reg' \in {YMM, XMM, U64, U32} /\ vec_len' \in VecLens
        BY <3>1 DEF MapRuns
      <4>2. mrow' \in 0 .. MapRows /\ trimat' = KeyRow(mrow')*vec_len'
        BY <3>1 DEF MapRuns
      <4>3. Inside(accu_low)'
        BY <3>1 DEF MapRuns, Inside
      <4>4. Inside(accu_high)'
        BY <3>1 DEF MapRuns, Inside
      <4>5. Collected(accu_low, "low", mrow)'
        BY <3>1, <3>4 DEF MapRuns, Collected, Sums
      <4>6. gfsize' = 256 => Collected(accu_high, "high", mrow)'
        BY <3>1, <3>4 DEF MapRuns, Collected, Sums
      <4>7. ymap' # <<>> => ResultRight'
        BY <3>1, <3>3 DEF MapRuns, ResultRight
      <4>8. QED
        BY <4>1, <4>2, <4>3, <4>4, <4>5, <4>6, <4>7 DEF MapRuns
    <3>6. QED
      BY <3>1, <3>2, <3>5 DEF MapInv
  <2>3. QED
    BY <2>1, <2>2, MapStepInv
<1>3. QED
  BY <1>1, <1>2, PTL DEF Spec

(* The public map in bytes, for every number of variables, every length of *)
(* a vector and every register: the result has exactly the products of the *)
(* quadratic form, whichever loop and bucket they went through, and the    *)
(* additions of rounded-up vectors read no byte behind the key.            *)
THEOREM PublicMapInBytesRight == Spec => []PublicMapRight
<1>1. MapInv => PublicMapRight
  <2> SUFFICES ASSUME MapInv PROVE PublicMapRight
    OBVIOUS
  <2>1. CASE gfsize = 0
    <3>1. MapIdle
      BY <2>1 DEF MapInv
    <3>2. ymap = <<>> /\ accu_low = <<>> /\ accu_high = <<>>
      BY <3>1 DEF MapIdle
    <3>3. DOMAIN <<>> = {}
      OBVIOUS
    <3>4. QED
      BY <3>2, <3>3 DEF PublicMapRight
  <2>2. CASE gfsize # 0
    <3>1. MapRuns
      BY <2>2 DEF MapInv
    <3>2. \A bucket \in {accu_low, accu_high} : \A v \in DOMAIN bucket : \A b \in DOMAIN bucket[v] :
            \A a \in bucket[v][b] : a < Coefficients * vec_len
      <4>1. \A bucket \in {accu_low, accu_high} : Inside(bucket)
        BY <3>1 DEF MapRuns
      <4>2. QED
        BY <4>1 DEF Inside
    <3>3. ASSUME ymap # <<>>, NEW e \in DOMAIN ymap, NEW k \in DOMAIN ymap[e]
          PROVE  ymap[e][k] =
                   {Before(t[1])*vec_len + e : t \in {u \in {<<p, _xixj(p[1], p[2])>> : p \in Monomials} : k \in u[2]}}
      <4> DEFINE products == {<<p, _xixj(p[1], p[2])>> : p \in Monomials}
                 were == {Before(p)*vec_len + e : p \in {q \in Monomials : k \in _xixj(q[1], q[2])}}
                 is == {Before(t[1])*vec_len + e : t \in {u \in products : k \in u[2]}}
      <4>1. ymap[e][k] = were
        BY <3>1, <3>3 DEF MapRuns, ResultRight
      <4>2. \A a : a \in were <=> \E p \in Monomials : k \in _xixj(p[1], p[2]) /\ a = Before(p)*vec_len + e
        OBVIOUS
      <4>3. \A a : a \in is <=> \E t \in products : k \in t[2] /\ a = Before(t[1])*vec_len + e
        OBVIOUS
      <4>4. ASSUME NEW t \in products PROVE t[1] \in Monomials /\ t[2] = _xixj(t[1][1], t[1][2])
        <5>1. PICK p \in Monomials : t = <<p, _xixj(p[1], p[2])>>
          OBVIOUS
        <5>2. t[1] = p /\ t[2] = _xixj(p[1], p[2])
          BY <5>1
        <5>3. QED
          BY <5>2
      <4>5. ASSUME NEW p \in Monomials PROVE \E t \in products : t[1] = p /\ t[2] = _xixj(p[1], p[2])
        <5> DEFINE t == <<p, _xixj(p[1], p[2])>>
        <5>1. t \in products /\ t[1] = p /\ t[2] = _xixj(p[1], p[2])
          OBVIOUS
        <5>2. QED
          BY <5>1
      <4> HIDE DEF products, were, is
      <4>6. ASSUME NEW a \in were PROVE a \in is
        <5>1. PICK p \in Monomials : k \in _xixj(p[1], p[2]) /\ a = Before(p)*vec_len + e
          BY <4>2
        <5>2. PICK t \in products : t[1] = p /\ t[2] = _xixj(p[1], p[2])
          BY <4>5
        <5>3. QED
          BY <4>3, <5>1, <5>2
      <4>7. ASSUME NEW a \in is PROVE a \in were
        <5>1. PICK t \in products : k \in t[2] /\ a = Before(t[1])*vec_len + e
          BY <4>3
        <5>2. t[1] \in Monomials /\ k \in _xixj(t[1][1], t[1][2])
          BY <4>4, <5>1
        <5>3. QED
          BY <4>2, <5>1, <5>2
      <4>8. were = is
        BY <4>6, <4>7
      <4>9. QED
        BY <4>1, <4>8 DEF is, products
    <3>4. QED
      BY <3>2, <3>3 DEF PublicMapRight
  <2>3. QED
    BY <2>1, <2>2
<1>2. QED
  BY <1>1, MapInductive, PTL
=============================================================================
