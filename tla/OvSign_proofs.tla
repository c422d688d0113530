--------------------------- MODULE OvSign_proofs ---------------------------
(***************************************************************************)
(* Signing, and the algebra of UovMap it rests on, for every finite field  *)
(* of characteristic two, every number of variables and equations, every   *)
(* seed and every bound on the attempts that the counter's byte can count. *)
(*                                                                         *)
(* The algebra: a sum over a set of terms does not depend on the order in  *)
(* which they are added, and each coordinate of a sum of vectors is the    *)
(* sum of the coordinates.  So everything is reduced to sums of field      *)
(* elements, and sums within sums are exchanged.                           *)
(*                                                                         *)
(* That a signature verifies rests on what a round that succeeded leaves   *)
(* behind, which the steps after it keep: vinegar values, and oil values   *)
(* that solve their system, whose constants are the target.                *)
(***************************************************************************)
EXTENDS OvSign, FiniteSetTheorems, TLAPS

-----------------------------------------------------------------------------
(* The field.                                                              *)

LEMMA Field ==
  /\ 0 \in GF /\ 1 \in GF
  /\ \A a \in GF : GFAdd(a, 0) = a /\ GFAdd(a, a) = 0 /\ GFMul(a, 1) = a
  /\ \A a, b \in GF : /\ GFAdd(a, b) \in GF /\ GFAdd(a, b) = GFAdd(b, a)
                      /\ GFMul(a, b) \in GF /\ GFMul(a, b) = GFMul(b, a)
  /\ \A a, b, c \in GF : /\ GFAdd(GFAdd(a, b), c) = GFAdd(a, GFAdd(b, c))
                         /\ GFMul(GFMul(a, b), c) = GFMul(a, GFMul(b, c))
                         /\ GFMul(a, GFAdd(b, c)) = GFAdd(GFMul(a, b), GFMul(a, c))
BY FieldAssumption

LEMMA AddType == ASSUME NEW a \in GF, NEW b \in GF PROVE GFAdd(a, b) \in GF
BY Field

LEMMA MulType == ASSUME NEW a \in GF, NEW b \in GF PROVE GFMul(a, b) \in GF
BY Field

LEMMA AddSwap == ASSUME NEW a \in GF, NEW b \in GF PROVE GFAdd(a, b) = GFAdd(b, a)
BY Field

LEMMA MulSwap == ASSUME NEW a \in GF, NEW b \in GF PROVE GFMul(a, b) = GFMul(b, a)
BY Field

LEMMA AddGroup ==
  ASSUME NEW a \in GF, NEW b \in GF, NEW c \in GF
  PROVE  GFAdd(GFAdd(a, b), c) = GFAdd(a, GFAdd(b, c))
BY Field

LEMMA MulGroup ==
  ASSUME NEW a \in GF, NEW b \in GF, NEW c \in GF
  PROVE  GFMul(GFMul(a, b), c) = GFMul(a, GFMul(b, c))
BY Field

LEMMA Distributes ==
  ASSUME NEW a \in GF, NEW b \in GF, NEW c \in GF
  PROVE  GFMul(a, GFAdd(b, c)) = GFAdd(GFMul(a, b), GFMul(a, c))
BY Field

LEMMA TimesZero == \A a \in GF : GFMul(a, 0) = 0 /\ GFMul(0, a) = 0
<1> TAKE a \in GF
<1>1. GFAdd(0, 0) = 0
  BY Field
<1>2. GFMul(a, 0) = GFAdd(GFMul(a, 0), GFMul(a, 0))
  BY <1>1, Field
<1>3. GFMul(a, 0) = 0
  BY <1>2, Field
<1>4. QED
  BY <1>3, Field

LEMMA AddFour ==
  ASSUME NEW a \in GF, NEW b \in GF, NEW c \in GF, NEW d \in GF
  PROVE  GFAdd(GFAdd(a, b), GFAdd(c, d)) = GFAdd(GFAdd(a, c), GFAdd(b, d))
<1>1. GFAdd(GFAdd(a, b), GFAdd(c, d)) = GFAdd(a, GFAdd(b, GFAdd(c, d)))
  BY Field
<1>2. GFAdd(b, GFAdd(c, d)) = GFAdd(c, GFAdd(b, d))
  <2>1. GFAdd(b, GFAdd(c, d)) = GFAdd(GFAdd(b, c), d)
    BY Field
  <2>2. GFAdd(c, GFAdd(b, d)) = GFAdd(GFAdd(c, b), d)
    BY Field
  <2>3. GFAdd(b, c) = GFAdd(c, b)
    BY Field
  <2>4. QED
    BY <2>1, <2>2, <2>3
<1>3. GFAdd(GFAdd(a, c), GFAdd(b, d)) = GFAdd(a, GFAdd(c, GFAdd(b, d)))
  BY Field
<1>4. QED
  BY <1>1, <1>2, <1>3

(* What is added twice is not there.                                       *)
LEMMA AddTwice ==
  ASSUME NEW a \in GF, NEW b \in GF
  PROVE  GFAdd(a, GFAdd(a, b)) = b /\ GFAdd(GFAdd(b, a), a) = b
<1>1. GFAdd(a, GFAdd(a, b)) = GFAdd(GFAdd(a, a), b)
  BY Field
<1>2. GFAdd(GFAdd(b, a), a) = GFAdd(b, GFAdd(a, a))
  BY Field
<1>3. GFAdd(0, b) = b
  BY Field
<1>4. QED
  BY <1>1, <1>2, <1>3, Field

-----------------------------------------------------------------------------
(* Induction.                                                              *)

(* A set of numbers that has 0 and the successor of each of its members    *)
(* has them all.                                                           *)
LEMMA NatSetInduction ==
  ASSUME NEW T, 0 \in T, \A n \in Nat : n \in T => n + 1 \in T
  PROVE  Nat \subseteq T
<1> DEFINE D == Nat \ T
           R == OpToRel(<, Nat)
<1> SUFFICES ASSUME D # {} PROVE FALSE
  OBVIOUS
<1>1. IsWellFoundedOn(R, Nat)
  BY NatLessThanWellFounded
<1>2. D \subseteq Nat
  OBVIOUS
<1>3. \A x \in Nat, yy \in Nat : yy < x => <<yy, x>> \in R
  BY DEF OpToRel
<1> HIDE DEF D, R
<1>4. PICK x \in D : \A yy \in D : ~(<<yy, x>> \in R)
  BY <1>1, <1>2, WFMin
<1>5. \A yy \in D : ~(yy < x)
  BY <1>2, <1>3, <1>4
<1>6. x \in Nat /\ x # 0 /\ x \notin T
  BY <1>2 DEF D
<1>7. x - 1 \in Nat /\ x - 1 < x /\ (x - 1) + 1 = x
  BY <1>6
<1>8. x - 1 \in T
  BY <1>5, <1>7 DEF D
<1>9. QED
  BY <1>6, <1>8, <1>7

(* A set of subsets of S that has {} and, with each of its members, the    *)
(* member and one element more, has them all.                              *)
LEMMA SubsetInduction ==
  ASSUME NEW S, IsFiniteSet(S), NEW T, {} \in T,
         \A s \in SUBSET S, x \in S : s \in T /\ x \notin s => s \cup {x} \in T
  PROVE  \A s \in SUBSET S : s \in T
<1> DEFINE N == {n \in Nat : \A s \in SUBSET S : Cardinality(s) = n => s \in T}
<1>0. \A s \in SUBSET S : IsFiniteSet(s) /\ Cardinality(s) \in Nat
  BY FS_Subset, FS_CardinalityType
<1>1. 0 \in N
  BY <1>0, FS_EmptySet
<1>2. ASSUME NEW n \in Nat, n \in N
      PROVE  n + 1 \in N
  <2>1. SUFFICES ASSUME NEW s \in SUBSET S, Cardinality(s) = n + 1 PROVE s \in T
    OBVIOUS
  <2>2. s # {}
    BY <2>1, FS_EmptySet
  <2>3. PICK x \in s : TRUE
    BY <2>2
  <2>4. Cardinality(s \ {x}) = n
    <3>1. Cardinality(s \ {x}) = Cardinality(s) - 1
      BY <1>0, FS_RemoveElement
    <3>2. QED
      BY <2>1, <3>1
  <2>5. s \ {x} \in T
    BY <1>2, <2>4
  <2>6. s = (s \ {x}) \cup {x}
    OBVIOUS
  <2>7. QED
    BY <2>5, <2>6
<1> HIDE DEF N
<1>3. Nat \subseteq N
  BY <1>1, <1>2, NatSetInduction
<1>4. QED
  BY <1>0, <1>3 DEF N

-----------------------------------------------------------------------------
(* Sums of field elements.                                                 *)

Pick(T) == CHOOSE t \in T : TRUE

LEMMA PickIn == ASSUME NEW s, s # {} PROVE Pick(s) \in s
BY DEF Pick

LEMMA PickInduction ==
  ASSUME NEW S, IsFiniteSet(S), NEW T, {} \in T,
         \A s \in SUBSET S : s # {} /\ s \ {Pick(s)} \in T => s \in T
  PROVE  \A s \in SUBSET S : s \in T
<1> DEFINE N == {n \in Nat : \A s \in SUBSET S : Cardinality(s) = n => s \in T}
<1>0. \A s \in SUBSET S : IsFiniteSet(s) /\ Cardinality(s) \in Nat
  BY FS_Subset, FS_CardinalityType
<1>1. 0 \in N
  BY <1>0, FS_EmptySet
<1>2. ASSUME NEW n \in Nat, n \in N
      PROVE  n + 1 \in N
  <2>1. SUFFICES ASSUME NEW s \in SUBSET S, Cardinality(s) = n + 1 PROVE s \in T
    OBVIOUS
  <2>2. s # {}
    BY <2>1, FS_EmptySet
  <2> DEFINE x == Pick(s)
  <2>3. x \in s
    BY <2>2, PickIn
  <2> HIDE DEF x
  <2>4. Cardinality(s \ {x}) = n
    <3>1. Cardinality(s \ {x}) = Cardinality(s) - 1
      BY <1>0, <2>3, FS_RemoveElement
    <3>2. QED
      BY <2>1, <3>1
  <2>5. s \ {x} \in T
    BY <1>2, <2>4
  <2>6. QED
    BY <2>2, <2>5 DEF x
<1> HIDE DEF N
<1>3. Nat \subseteq N
  BY <1>1, <1>2, NatSetInduction
<1>4. QED
  BY <1>0, <1>3 DEF N

(* g adds the terms of f, one subset of S after the other.                 *)
IsFold(g, f, S) ==
  g = [s \in SUBSET S |-> IF s = {} THEN 0 ELSE GFAdd(f[Pick(s)], g[s \ {Pick(s)}])]

Small(S, n) == {s \in SUBSET S : Cardinality(s) <= n}

IsSmallFold(g, f, S, n) ==
  g = [s \in Small(S, n) |-> IF s = {} THEN 0 ELSE GFAdd(f[Pick(s)], g[s \ {Pick(s)}])]

LEMMA SmallFoldExists ==
  ASSUME NEW S, IsFiniteSet(S), NEW f
  PROVE  \A n \in Nat : \E g : IsSmallFold(g, f, S, n)
<1> DEFINE N == {n \in Nat : \E g : IsSmallFold(g, f, S, n)}
<1>0. \A s \in SUBSET S : IsFiniteSet(s) /\ Cardinality(s) \in Nat
  BY FS_Subset, FS_CardinalityType
<1>1. 0 \in N
  <2> DEFINE g == [s \in Small(S, 0) |-> 0]
  <2>1. \A s \in Small(S, 0) : s = {}
    BY <1>0, FS_EmptySet DEF Small
  <2>2. g = [s \in Small(S, 0) |-> IF s = {} THEN 0 ELSE GFAdd(f[Pick(s)], g[s \ {Pick(s)}])]
    BY <2>1
  <2> HIDE DEF g
  <2>3. IsSmallFold(g, f, S, 0)
    BY <2>2 DEF IsSmallFold
  <2>4. QED
    BY <2>3
<1>2. ASSUME NEW n \in Nat, n \in N
      PROVE  n + 1 \in N
  <2>1. PICK g : IsSmallFold(g, f, S, n)
    BY <1>2
  <2>2. \A s \in Small(S, n) : g[s] = IF s = {} THEN 0 ELSE GFAdd(f[Pick(s)], g[s \ {Pick(s)}])
    BY <2>1 DEF IsSmallFold
  <2> DEFINE h == [s \in Small(S, n + 1) |-> IF s = {} THEN 0 ELSE GFAdd(f[Pick(s)], g[s \ {Pick(s)}])]
  <2>3. Small(S, n) \subseteq Small(S, n + 1)
    BY <1>0 DEF Small
  <2>4. \A s \in Small(S, n) : h[s] = g[s]
    BY <2>2, <2>3
  <2>5. \A s \in Small(S, n + 1) : s # {} => s \ {Pick(s)} \in Small(S, n)
    <3>1. SUFFICES ASSUME NEW s \in Small(S, n + 1), s # {} PROVE s \ {Pick(s)} \in Small(S, n)
      OBVIOUS
    <3> DEFINE x == Pick(s)
    <3>2. x \in s /\ s \in SUBSET S /\ Cardinality(s) <= n + 1
      BY <3>1, PickIn DEF Small
    <3> HIDE DEF x
    <3>3. Cardinality(s \ {x}) = Cardinality(s) - 1 /\ Cardinality(s) \in Nat
      BY <1>0, <3>2, FS_RemoveElement
    <3>4. s \ {x} \in Small(S, n)
      BY <3>2, <3>3 DEF Small
    <3>5. QED
      BY <3>4 DEF x
  <2>6. h = [s \in Small(S, n + 1) |-> IF s = {} THEN 0 ELSE GFAdd(f[Pick(s)], h[s \ {Pick(s)}])]
    BY <2>4, <2>5
  <2> HIDE DEF h
  <2>7. IsSmallFold(h, f, S, n + 1)
    BY <2>6 DEF IsSmallFold
  <2>8. QED
    BY <2>7
<1> HIDE DEF N
<1>3. Nat \subseteq N
  BY <1>1, <1>2, NatSetInduction
<1>4. QED
  BY <1>3 DEF N

LEMMA FoldExists ==
  ASSUME NEW S, IsFiniteSet(S), NEW f
  PROVE  \E g : IsFold(g, f, S)
<1> DEFINE n == Cardinality(S)
<1>1. n \in Nat
  BY FS_CardinalityType
<1>2. Small(S, n) = SUBSET S
  BY FS_Subset DEF Small
<1> HIDE DEF n
<1>3. PICK g : IsSmallFold(g, f, S, n)
  BY <1>1, SmallFoldExists
<1>4. IsFold(g, f, S)
  BY <1>2, <1>3 DEF IsFold, IsSmallFold
<1>5. QED
  BY <1>4

(* The sum of f[k] for k in S.                                             *)
Sum(f, S) == (CHOOSE g : IsFold(g, f, S))[S]

LEMMA FoldIsSum ==
  ASSUME NEW S, IsFiniteSet(S), NEW f, NEW g, IsFold(g, f, S)
  PROVE  \A s \in SUBSET S : g[s] = Sum(f, s)
<1>1. ASSUME NEW U \in SUBSET S, NEW h, IsFold(h, f, U)
      PROVE  \A s \in SUBSET U : h[s] = g[s]
  <2> DEFINE T == {s \in SUBSET U : h[s] = g[s]}
  <2>1. \A s \in SUBSET U : h[s] = IF s = {} THEN 0 ELSE GFAdd(f[Pick(s)], h[s \ {Pick(s)}])
    BY <1>1 DEF IsFold
  <2>2. \A s \in SUBSET U : g[s] = IF s = {} THEN 0 ELSE GFAdd(f[Pick(s)], g[s \ {Pick(s)}])
    BY DEF IsFold
  <2>3. {} \in T
    BY <2>1, <2>2
  <2>4. \A s \in SUBSET U : s # {} /\ s \ {Pick(s)} \in T => s \in T
    BY <2>1, <2>2
  <2>5. IsFiniteSet(U)
    BY FS_Subset
  <2> HIDE DEF T
  <2>6. \A s \in SUBSET U : s \in T
    BY <2>3, <2>4, <2>5, PickInduction
  <2>7. QED
    BY <2>6 DEF T
<1>2. TAKE s \in SUBSET S
<1>3. \E h : IsFold(h, f, s)
  BY FS_Subset, FoldExists
<1> DEFINE h == CHOOSE h : IsFold(h, f, s)
<1>4. IsFold(h, f, s)
  BY <1>3
<1>5. Sum(f, s) = h[s]
  BY DEF Sum
<1> HIDE DEF h
<1>6. QED
  BY <1>1, <1>4, <1>5

(* A sum is empty, or begins with a term.                                  *)
LEMMA SumPick ==
  ASSUME NEW S, IsFiniteSet(S), NEW f
  PROVE  /\ Sum(f, {}) = 0
         /\ \A s \in SUBSET S : s # {} => Sum(f, s) = GFAdd(f[Pick(s)], Sum(f, s \ {Pick(s)}))
<1>1. PICK g : IsFold(g, f, S)
  BY FoldExists
<1>2. \A s \in SUBSET S : g[s] = Sum(f, s)
  BY <1>1, FoldIsSum
<1>3. \A s \in SUBSET S : g[s] = IF s = {} THEN 0 ELSE GFAdd(f[Pick(s)], g[s \ {Pick(s)}])
  BY <1>1 DEF IsFold
<1>4. Sum(f, {}) = 0
  BY <1>2, <1>3
<1>5. ASSUME NEW s \in SUBSET S, s # {}
      PROVE  Sum(f, s) = GFAdd(f[Pick(s)], Sum(f, s \ {Pick(s)}))
  <2>1. s \ {Pick(s)} \in SUBSET S
    OBVIOUS
  <2>2. QED
    BY <1>2, <1>3, <1>5, <2>1
<1>6. QED
  BY <1>4, <1>5

(* The terms are field elements.                                           *)
Terms(f, S) == \A k \in S : f[k] \in GF

LEMMA SumType ==
  ASSUME NEW S, IsFiniteSet(S), NEW f, Terms(f, S)
  PROVE  \A s \in SUBSET S : Sum(f, s) \in GF
<1> DEFINE T == {s \in SUBSET S : Sum(f, s) \in GF}
<1>1. {} \in T
  BY SumPick, Field
<1>2. ASSUME NEW s \in SUBSET S, s # {}, s \ {Pick(s)} \in T
      PROVE  s \in T
  <2>1. Sum(f, s) = GFAdd(f[Pick(s)], Sum(f, s \ {Pick(s)}))
    BY <1>2, SumPick
  <2>2. f[Pick(s)] \in GF
    BY <1>2, PickIn DEF Terms
  <2>3. Sum(f, s) \in GF
    BY <1>2, <2>1, <2>2, AddType
  <2>4. QED
    BY <2>3
<1> HIDE DEF T
<1>3. \A s \in SUBSET S : s \in T
  BY <1>1, <1>2, PickInduction
<1>4. QED
  BY <1>3 DEF T

(* Any term may be taken out first.                                        *)
LEMMA SumTake ==
  ASSUME NEW S, IsFiniteSet(S), NEW f, Terms(f, S)
  PROVE  \A s \in SUBSET S : \A x \in s : Sum(f, s) = GFAdd(f[x], Sum(f, s \ {x}))
<1> DEFINE N == {n \in Nat : \A s \in SUBSET S : Cardinality(s) = n =>
                               \A x \in s : Sum(f, s) = GFAdd(f[x], Sum(f, s \ {x}))}
<1>0. \A s \in SUBSET S : IsFiniteSet(s) /\ Cardinality(s) \in Nat
  BY FS_Subset, FS_CardinalityType
<1>1. 0 \in N
  BY <1>0, FS_EmptySet
<1>2. ASSUME NEW n \in Nat, n \in N
      PROVE  n + 1 \in N
  <2>1. SUFFICES ASSUME NEW s \in SUBSET S, Cardinality(s) = n + 1, NEW x \in s
                 PROVE  Sum(f, s) = GFAdd(f[x], Sum(f, s \ {x}))
    OBVIOUS
  <2> DEFINE p == Pick(s)
  <2>2. p \in s
    BY PickIn
  <2>3. Sum(f, s) = GFAdd(f[p], Sum(f, s \ {p}))
    BY SumPick
  <2> HIDE DEF p
  <2>4. ASSUME NEW yy \in s
        PROVE  /\ s \ {yy} \in SUBSET S
               /\ \A z \in s \ {yy} : Sum(f, s \ {yy}) = GFAdd(f[z], Sum(f, (s \ {yy}) \ {z}))
    <3>1. Cardinality(s \ {yy}) = Cardinality(s) - 1
      BY <1>0, FS_RemoveElement
    <3>2. Cardinality(s \ {yy}) = n /\ s \ {yy} \in SUBSET S
      BY <2>1, <3>1
    <3>3. QED
      BY <1>2, <3>2
  <2>5. CASE x = p
    BY <2>3, <2>5
  <2>6. CASE x # p
    <3> DEFINE t == (s \ {p}) \ {x}
               r == Sum(f, t)
    <3>1. t = (s \ {x}) \ {p} /\ t \in SUBSET S
      OBVIOUS
    <3>2. Sum(f, s \ {p}) = GFAdd(f[x], r) /\ Sum(f, s \ {x}) = GFAdd(f[p], r)
      BY <2>2, <2>4, <2>6, <3>1
    <3>3. r \in GF /\ f[x] \in GF /\ f[p] \in GF
      BY <2>2, <3>1, SumType DEF Terms
    <3> HIDE DEF r, t
    <3>4. GFAdd(f[p], GFAdd(f[x], r)) = GFAdd(f[x], GFAdd(f[p], r))
      <4>1. GFAdd(f[p], GFAdd(f[x], r)) = GFAdd(GFAdd(f[p], f[x]), r)
        BY <3>3, AddGroup
      <4>2. GFAdd(f[x], GFAdd(f[p], r)) = GFAdd(GFAdd(f[x], f[p]), r)
        BY <3>3, AddGroup
      <4>3. GFAdd(f[p], f[x]) = GFAdd(f[x], f[p])
        BY <3>3, AddSwap
      <4>4. QED
        BY <4>1, <4>2, <4>3
    <3>5. QED
      BY <2>3, <3>2, <3>4
  <2>7. QED
    BY <2>5, <2>6
<1> HIDE DEF N
<1>3. Nat \subseteq N
  BY <1>1, <1>2, NatSetInduction
<1>4. QED
  BY <1>0, <1>3 DEF N

(* One term more.                                                          *)
LEMMA SumMore ==
  ASSUME NEW S, IsFiniteSet(S), NEW f, Terms(f, S)
  PROVE  \A s \in SUBSET S, x \in S :
           x \notin s => Sum(f, s \cup {x}) = GFAdd(f[x], Sum(f, s))
<1> TAKE s \in SUBSET S, x \in S
<1>1. HAVE x \notin s
<1> DEFINE t == s \cup {x}
<1>2. t \in SUBSET S /\ x \in t /\ t \ {x} = s
  BY <1>1
<1> HIDE DEF t
<1>3. Sum(f, t) = GFAdd(f[x], Sum(f, t \ {x}))
  BY <1>2, SumTake
<1>4. QED
  BY <1>2, <1>3 DEF t

LEMMA SumSame ==
  ASSUME NEW S, IsFiniteSet(S), NEW f, NEW g, \A k \in S : f[k] = g[k]
  PROVE  Sum(f, S) = Sum(g, S)
<1> DEFINE T == {s \in SUBSET S : Sum(f, s) = Sum(g, s)}
<1>1. {} \in T
  BY SumPick
<1>2. ASSUME NEW s \in SUBSET S, s # {}, s \ {Pick(s)} \in T
      PROVE  s \in T
  <2>1. f[Pick(s)] = g[Pick(s)]
    BY <1>2, PickIn
  <2>2. Sum(f, s) = GFAdd(f[Pick(s)], Sum(f, s \ {Pick(s)}))
    BY <1>2, SumPick
  <2>3. Sum(g, s) = GFAdd(g[Pick(s)], Sum(g, s \ {Pick(s)}))
    BY <1>2, SumPick
  <2>4. QED
    BY <1>2, <2>1, <2>2, <2>3
<1> HIDE DEF T
<1>3. \A s \in SUBSET S : s \in T
  BY <1>1, <1>2, PickInduction
<1>4. QED
  BY <1>3 DEF T

LEMMA SumZero ==
  ASSUME NEW S, IsFiniteSet(S), NEW f, \A k \in S : f[k] = 0
  PROVE  Sum(f, S) = 0
<1> DEFINE T == {s \in SUBSET S : Sum(f, s) = 0}
<1>1. {} \in T
  BY SumPick
<1>2. ASSUME NEW s \in SUBSET S, s # {}, s \ {Pick(s)} \in T
      PROVE  s \in T
  <2>1. f[Pick(s)] = 0
    BY <1>2, PickIn
  <2>2. Sum(f, s) = GFAdd(f[Pick(s)], Sum(f, s \ {Pick(s)}))
    BY <1>2, SumPick
  <2>3. QED
    BY <1>2, <2>1, <2>2, Field
<1> HIDE DEF T
<1>3. \A s \in SUBSET S : s \in T
  BY <1>1, <1>2, PickInduction
<1>4. QED
  BY <1>3 DEF T

(* Terms added in pairs, or scaled.                                        *)
LEMMA SumAdd ==
  ASSUME NEW S, IsFiniteSet(S), NEW f, NEW g, Terms(f, S), Terms(g, S),
         NEW h, \A k \in S : h[k] = GFAdd(f[k], g[k])
  PROVE  Sum(h, S) = GFAdd(Sum(f, S), Sum(g, S))
<1> DEFINE T == {s \in SUBSET S : Sum(h, s) = GFAdd(Sum(f, s), Sum(g, s))}
<1>1. {} \in T
  BY SumPick, Field
<1>2. ASSUME NEW s \in SUBSET S, s # {}, s \ {Pick(s)} \in T
      PROVE  s \in T
  <2> DEFINE p == Pick(s)
             t == s \ {p}
  <2>1. p \in S /\ t \in SUBSET S
    BY <1>2, PickIn
  <2>2. /\ Sum(f, s) = GFAdd(f[p], Sum(f, t))
        /\ Sum(g, s) = GFAdd(g[p], Sum(g, t))
        /\ Sum(h, s) = GFAdd(h[p], Sum(h, t))
    <3>1. \A d : Sum(d, s) = GFAdd(d[p], Sum(d, t))
      BY <1>2, SumPick
    <3>2. QED
      BY <3>1
  <2>3. Sum(h, t) = GFAdd(Sum(f, t), Sum(g, t))
    BY <1>2
  <2> HIDE DEF p, t
  <2>4. f[p] \in GF /\ g[p] \in GF /\ Sum(f, t) \in GF /\ Sum(g, t) \in GF /\ h[p] = GFAdd(f[p], g[p])
    BY <2>1, SumType DEF Terms
  <2>5. GFAdd(GFAdd(f[p], g[p]), GFAdd(Sum(f, t), Sum(g, t)))
          = GFAdd(GFAdd(f[p], Sum(f, t)), GFAdd(g[p], Sum(g, t)))
    BY <2>4, AddFour
  <2>6. Sum(h, s) = GFAdd(Sum(f, s), Sum(g, s))
    BY <2>2, <2>3, <2>4, <2>5
  <2>7. QED
    BY <2>6
<1> HIDE DEF T
<1>3. \A s \in SUBSET S : s \in T
  BY <1>1, <1>2, PickInduction
<1>4. QED
  BY <1>3 DEF T

LEMMA SumScale ==
  ASSUME NEW S, IsFiniteSet(S), NEW c \in GF, NEW f, Terms(f, S),
         NEW h, \A k \in S : h[k] = GFMul(c, f[k])
  PROVE  Sum(h, S) = GFMul(c, Sum(f, S))
<1> DEFINE T == {s \in SUBSET S : Sum(h, s) = GFMul(c, Sum(f, s))}
<1>1. {} \in T
  BY SumPick, TimesZero
<1>2. ASSUME NEW s \in SUBSET S, s # {}, s \ {Pick(s)} \in T
      PROVE  s \in T
  <2> DEFINE p == Pick(s)
             t == s \ {p}
  <2>1. p \in S /\ t \in SUBSET S
    BY <1>2, PickIn
  <2>2. /\ Sum(f, s) = GFAdd(f[p], Sum(f, t))
        /\ Sum(h, s) = GFAdd(h[p], Sum(h, t))
    <3>1. \A d : Sum(d, s) = GFAdd(d[p], Sum(d, t))
      BY <1>2, SumPick
    <3>2. QED
      BY <3>1
  <2>3. Sum(h, t) = GFMul(c, Sum(f, t))
    BY <1>2
  <2> HIDE DEF p, t
  <2>4. f[p] \in GF /\ Sum(f, t) \in GF /\ h[p] = GFMul(c, f[p])
    BY <2>1, SumType DEF Terms
  <2>5. Sum(h, s) = GFMul(c, Sum(f, s))
    BY <2>2, <2>3, <2>4, Distributes
  <2>6. QED
    BY <2>5
<1> HIDE DEF T
<1>3. \A s \in SUBSET S : s \in T
  BY <1>1, <1>2, PickInduction
<1>4. QED
  BY <1>3 DEF T

(* Terms outside of a subset that are zero can be left out.                *)
LEMMA SumRestrict ==
  ASSUME NEW S, IsFiniteSet(S), NEW f, Terms(f, S), NEW U \in SUBSET S,
         \A k \in S \ U : f[k] = 0
  PROVE  Sum(f, S) = Sum(f, U)
<1> DEFINE T == {s \in SUBSET S : Sum(f, s) = Sum(f, s \cap U)}
<1>1. {} \in T
  <2>1. {} \cap U = {}
    OBVIOUS
  <2>2. QED
    BY <2>1
<1>2. ASSUME NEW s \in SUBSET S, NEW x \in S, s \in T, x \notin s
      PROVE  s \cup {x} \in T
  <2>1. Sum(f, s \cup {x}) = GFAdd(f[x], Sum(f, s))
    BY <1>2, SumMore
  <2>2. CASE x \in U
    <3>1. (s \cup {x}) \cap U = (s \cap U) \cup {x} /\ s \cap U \in SUBSET S /\ x \notin s \cap U
      BY <1>2, <2>2
    <3>2. Sum(f, (s \cap U) \cup {x}) = GFAdd(f[x], Sum(f, s \cap U))
      BY <3>1, SumMore
    <3>3. QED
      BY <1>2, <2>1, <3>1, <3>2
  <2>3. CASE x \notin U
    <3>1. (s \cup {x}) \cap U = s \cap U
      BY <2>3
    <3>2. f[x] = 0 /\ Sum(f, s) \in GF
      BY <2>3, SumType
    <3>3. QED
      BY <1>2, <2>1, <3>1, <3>2, Field
  <2>4. QED
    BY <2>2, <2>3
<1> HIDE DEF T
<1>3. \A s \in SUBSET S : s \in T
  BY <1>1, <1>2, SubsetInduction
<1>4. S \cap U = U
  OBVIOUS
<1>5. S \in T
  BY <1>3
<1>6. QED
  BY <1>4, <1>5 DEF T

LEMMA SumSingle ==
  ASSUME NEW f, NEW x, f[x] \in GF
  PROVE  Sum(f, {x}) = f[x]
<1>1. IsFiniteSet({x}) /\ Terms(f, {x})
  BY FS_Singleton DEF Terms
<1>2. {} \in SUBSET {x} /\ x \in {x} /\ x \notin {} /\ {} \cup {x} = {x}
  OBVIOUS
<1>3. Sum(f, {} \cup {x}) = GFAdd(f[x], Sum(f, {}))
  BY <1>1, <1>2, SumMore
<1>4. Sum(f, {}) = 0
  BY <1>1, SumPick
<1>5. QED
  BY <1>2, <1>3, <1>4, Field

(* Two sets of terms that have none in common.                             *)
LEMMA SumUnion ==
  ASSUME NEW S, IsFiniteSet(S), NEW f, Terms(f, S), NEW t \in SUBSET S
  PROVE  \A s \in SUBSET S : s \cap t = {} => Sum(f, s \cup t) = GFAdd(Sum(f, s), Sum(f, t))
<1> DEFINE T == {s \in SUBSET S : s \cap t = {} => Sum(f, s \cup t) = GFAdd(Sum(f, s), Sum(f, t))}
<1>1. {} \in T
  <2>1. {} \cup t = t /\ Sum(f, t) \in GF /\ Sum(f, {}) = 0
    BY SumType, SumPick
  <2>2. GFAdd(0, Sum(f, t)) = Sum(f, t)
    BY <2>1, Field
  <2>3. QED
    BY <2>1, <2>2
<1>2. ASSUME NEW s \in SUBSET S, NEW x \in S, s \in T, x \notin s
      PROVE  s \cup {x} \in T
  <2>1. SUFFICES ASSUME (s \cup {x}) \cap t = {}
                 PROVE  Sum(f, (s \cup {x}) \cup t) = GFAdd(Sum(f, s \cup {x}), Sum(f, t))
    OBVIOUS
  <2> DEFINE u == s \cup t
  <2>2. (s \cup {x}) \cup t = u \cup {x} /\ u \in SUBSET S /\ x \notin u /\ s \cap t = {}
    BY <1>2, <2>1
  <2>3. Sum(f, u \cup {x}) = GFAdd(f[x], Sum(f, u))
    BY <2>2, SumMore
  <2>4. Sum(f, s \cup {x}) = GFAdd(f[x], Sum(f, s))
    BY <1>2, SumMore
  <2>5. Sum(f, u) = GFAdd(Sum(f, s), Sum(f, t))
    BY <1>2, <2>2
  <2>6. f[x] \in GF /\ Sum(f, s) \in GF /\ Sum(f, t) \in GF
    BY SumType DEF Terms
  <2>7. GFAdd(GFAdd(f[x], Sum(f, s)), Sum(f, t)) = GFAdd(f[x], GFAdd(Sum(f, s), Sum(f, t)))
    BY <2>6, AddGroup
  <2>8. QED
    BY <2>2, <2>3, <2>4, <2>5, <2>7
<1> HIDE DEF T
<1>3. \A s \in SUBSET S : s \in T
  BY <1>1, <1>2, SubsetInduction
<1>4. QED
  BY <1>3 DEF T

-----------------------------------------------------------------------------
(* Sums within sums.                                                       *)

(* A row and a column of terms, and the sum of all by rows, by columns.    *)
Line(F, i, B) == [j \in B |-> F[i, j]]
Stack(F, A, j) == [i \in A |-> F[i, j]]
ByLines(F, A, B) == [i \in A |-> Sum(Line(F, i, B), B)]
ByStacks(F, A, B) == [j \in B |-> Sum(Stack(F, A, j), A)]

Entries(F, A, B) == \A i \in A, j \in B : F[i, j] \in GF

LEMMA LinesType ==
  ASSUME NEW A, IsFiniteSet(A), NEW B, IsFiniteSet(B), NEW F, Entries(F, A, B)
  PROVE  /\ \A i \in A : Terms(Line(F, i, B), B)
         /\ \A j \in B : Terms(Stack(F, A, j), A)
         /\ Terms(ByLines(F, A, B), A)
         /\ Terms(ByStacks(F, A, B), B)
<1>1. \A i \in A : Terms(Line(F, i, B), B)
  BY DEF Terms, Line, Entries
<1>2. \A j \in B : Terms(Stack(F, A, j), A)
  BY DEF Terms, Stack, Entries
<1>3. \A i \in A : Sum(Line(F, i, B), B) \in GF
  BY <1>1, SumType
<1>4. \A j \in B : Sum(Stack(F, A, j), A) \in GF
  BY <1>2, SumType
<1>5. Terms(ByLines(F, A, B), A)
  BY <1>3 DEF Terms, ByLines
<1>6. Terms(ByStacks(F, A, B), B)
  BY <1>4 DEF Terms, ByStacks
<1>7. QED
  BY <1>1, <1>2, <1>5, <1>6

LEMMA SumExchange ==
  ASSUME NEW A, IsFiniteSet(A), NEW B, IsFiniteSet(B), NEW F, Entries(F, A, B)
  PROVE  Sum(ByLines(F, A, B), A) = Sum(ByStacks(F, A, B), B)
<1> DEFINE Part(s) == [j \in B |-> Sum(Stack(F, A, j), s)]
           T == {s \in SUBSET A : Sum(ByLines(F, A, B), s) = Sum(Part(s), B)}
<1>1. {} \in T
  <2>1. \A j \in B : Part({})[j] = 0
    BY SumPick
  <2>2. Sum(Part({}), B) = 0
    BY <2>1, SumZero
  <2>3. Sum(ByLines(F, A, B), {}) = 0
    BY SumPick
  <2>4. QED
    BY <2>2, <2>3
<1>2. ASSUME NEW s \in SUBSET A, NEW x \in A, s \in T, x \notin s
      PROVE  s \cup {x} \in T
  <2>1. Sum(ByLines(F, A, B), s \cup {x}) = GFAdd(ByLines(F, A, B)[x], Sum(ByLines(F, A, B), s))
    BY <1>2, LinesType, SumMore
  <2>2. ByLines(F, A, B)[x] = Sum(Line(F, x, B), B)
    BY DEF ByLines
  <2>3. Terms(Line(F, x, B), B)
    BY LinesType
  <2>4. Terms(Part(s), B)
    <3>1. \A j \in B : Sum(Stack(F, A, j), s) \in GF
      BY LinesType, SumType
    <3>2. QED
      BY <3>1 DEF Terms
  <2>5. \A j \in B : Part(s \cup {x})[j] = GFAdd(Line(F, x, B)[j], Part(s)[j])
    <3>1. SUFFICES ASSUME NEW j \in B PROVE Part(s \cup {x})[j] = GFAdd(Line(F, x, B)[j], Part(s)[j])
      OBVIOUS
    <3>2. Terms(Stack(F, A, j), A)
      BY LinesType
    <3>3. Sum(Stack(F, A, j), s \cup {x}) = GFAdd(Stack(F, A, j)[x], Sum(Stack(F, A, j), s))
      BY <1>2, <3>2, SumMore
    <3>4. Stack(F, A, j)[x] = Line(F, x, B)[j]
      BY DEF Stack, Line
    <3>5. QED
      BY <3>3, <3>4
  <2>6. Sum(Part(s), B) = Sum(ByLines(F, A, B), s)
    BY <1>2
  <2> DEFINE p == Part(s)
             q == Part(s \cup {x})
             l == Line(F, x, B)
  <2>7. Terms(p, B) /\ Terms(l, B) /\ \A j \in B : q[j] = GFAdd(l[j], p[j])
    BY <2>3, <2>4, <2>5
  <2> HIDE DEF p, q, l
  <2>8. Sum(q, B) = GFAdd(Sum(l, B), Sum(p, B))
    BY <2>7, SumAdd
  <2>9. Sum(ByLines(F, A, B), s \cup {x}) = Sum(q, B)
    BY <2>1, <2>2, <2>6, <2>8 DEF p, l
  <2>10. QED
    BY <2>9 DEF q
<1> HIDE DEF T
<1>3. \A s \in SUBSET A : s \in T
  BY <1>1, <1>2, SubsetInduction
<1>4. A \in T
  BY <1>3
<1>5. Part(A) = ByStacks(F, A, B)
  BY DEF ByStacks
<1>6. QED
  BY <1>4, <1>5 DEF T

(* A sum over pairs is a sum of sums.                                      *)
LEMMA SumPairs ==
  ASSUME NEW A, IsFiniteSet(A), NEW B, IsFiniteSet(B), NEW F, Entries(F, A, B)
  PROVE  Sum(F, A \X B) = Sum(ByLines(F, A, B), A)
<1>1. IsFiniteSet(A \X B)
  BY FS_Product
<1>2. Terms(F, A \X B)
  <2>1. SUFFICES ASSUME NEW k \in A \X B PROVE F[k] \in GF
    BY DEF Terms
  <2>2. PICK i \in A, j \in B : k = <<i, j>>
    OBVIOUS
  <2>3. F[i, j] \in GF /\ F[i, j] = F[<<i, j>>]
    BY DEF Entries
  <2>4. QED
    BY <2>2, <2>3
<1>3. ASSUME NEW x \in A
      PROVE  Sum(F, {x} \X B) = Sum(Line(F, x, B), B)
  <2> DEFINE T == {s \in SUBSET B : Sum(F, {x} \X s) = Sum(Line(F, x, B), s)}
  <2>1. {} \in T
    <3>1. {x} \X {} = {}
      OBVIOUS
    <3>2. Sum(F, {}) = 0 /\ Sum(Line(F, x, B), {}) = 0
      BY SumPick
    <3>3. QED
      BY <3>1, <3>2
  <2>2. ASSUME NEW s \in SUBSET B, NEW yy \in B, s \in T, yy \notin s
        PROVE  s \cup {yy} \in T
    <3>1. /\ {x} \X (s \cup {yy}) = ({x} \X s) \cup {<<x, yy>>}
          /\ {x} \X s \in SUBSET (A \X B) /\ <<x, yy>> \in A \X B /\ <<x, yy>> \notin {x} \X s
      BY <2>2
    <3>2. Sum(F, ({x} \X s) \cup {<<x, yy>>}) = GFAdd(F[x, yy], Sum(F, {x} \X s))
      <4> DEFINE u == {x} \X s
                 p == <<x, yy>>
                 R == A \X B
      <4>1. u \in SUBSET R /\ p \in R /\ p \notin u
        BY <3>1
      <4>2. F[p] = F[x, yy]
        OBVIOUS
      <4> HIDE DEF u, p, R
      <4>3. Sum(F, u \cup {p}) = GFAdd(F[p], Sum(F, u))
        BY <1>1, <1>2, <4>1, SumMore DEF R
      <4>4. QED
        BY <4>2, <4>3 DEF u, p
    <3>3. Terms(Line(F, x, B), B)
      BY LinesType
    <3>4. Sum(Line(F, x, B), s \cup {yy}) = GFAdd(Line(F, x, B)[yy], Sum(Line(F, x, B), s))
      BY <2>2, <3>3, SumMore
    <3>5. Line(F, x, B)[yy] = F[x, yy]
      BY DEF Line
    <3>6. QED
      BY <2>2, <3>1, <3>2, <3>4, <3>5
  <2> HIDE DEF T
  <2>3. \A s \in SUBSET B : s \in T
    BY <2>1, <2>2, SubsetInduction
  <2>4. QED
    BY <2>3 DEF T
<1> DEFINE T == {s \in SUBSET A : Sum(F, s \X B) = Sum(ByLines(F, A, B), s)}
<1>4. {} \in T
  <2>1. {} \X B = {}
    OBVIOUS
  <2>2. Sum(F, {}) = 0 /\ Sum(ByLines(F, A, B), {}) = 0
    BY SumPick
  <2>3. QED
    BY <2>1, <2>2
<1>5. ASSUME NEW s \in SUBSET A, NEW x \in A, s \in T, x \notin s
      PROVE  s \cup {x} \in T
  <2>1. /\ (s \cup {x}) \X B = ({x} \X B) \cup (s \X B)
        /\ {x} \X B \in SUBSET (A \X B) /\ s \X B \in SUBSET (A \X B)
        /\ ({x} \X B) \cap (s \X B) = {}
    BY <1>5
  <2>2. Sum(F, ({x} \X B) \cup (s \X B)) = GFAdd(Sum(F, {x} \X B), Sum(F, s \X B))
    BY <1>1, <1>2, <2>1, SumUnion
  <2>3. Sum(ByLines(F, A, B), s \cup {x}) = GFAdd(ByLines(F, A, B)[x], Sum(ByLines(F, A, B), s))
    BY <1>5, LinesType, SumMore
  <2>4. ByLines(F, A, B)[x] = Sum(F, {x} \X B)
    BY <1>3 DEF ByLines
  <2>5. QED
    BY <1>5, <2>1, <2>2, <2>3, <2>4
<1> HIDE DEF T
<1>6. \A s \in SUBSET A : s \in T
  BY <1>4, <1>5, SubsetInduction
<1>7. QED
  BY <1>6 DEF T

(* Collected in buckets by their factor, terms are scaled once a bucket.   *)
Bucket(m, F, P, c) == Sum(F, {p \in P : m[p] = c})

LEMMA SumBuckets ==
  ASSUME NEW P, IsFiniteSet(P), NEW m, Terms(m, P), NEW F, Terms(F, P)
  PROVE  Sum([p \in P |-> GFMul(m[p], F[p])], P) = Sum([c \in GF |-> GFMul(c, Bucket(m, F, P, c))], GF)
<1> DEFINE h == [p \in P |-> GFMul(m[p], F[p])]
           Part(s) == [c \in GF |-> GFMul(c, Bucket(m, F, s, c))]
           T == {s \in SUBSET P : Sum(h, s) = Sum(Part(s), GF)}
<1>0. IsFiniteSet(GF)
  BY FieldAssumption
<1>1. Terms(h, P)
  BY MulType DEF Terms
<1>2. {} \in T
  <2>1. \A c \in GF : Part({})[c] = 0
    <3>1. SUFFICES ASSUME NEW c \in GF PROVE Part({})[c] = 0
      OBVIOUS
    <3>2. {p \in {} : m[p] = c} = {}
      OBVIOUS
    <3>3. Bucket(m, F, {}, c) = 0
      BY <3>2, SumPick DEF Bucket
    <3>4. QED
      BY <3>3, TimesZero
  <2> DEFINE q == Part({})
  <2>2. \A c \in GF : q[c] = 0
    BY <2>1
  <2> HIDE DEF q
  <2>3. Sum(q, GF) = 0
    BY <1>0, <2>2, SumZero
  <2>4. Sum(h, {}) = 0
    BY SumPick
  <2>5. QED
    BY <2>3, <2>4 DEF q
<1>3. ASSUME NEW s \in SUBSET P, NEW x \in P, s \in T, x \notin s
      PROVE  s \cup {x} \in T
  <2> DEFINE d == [c \in GF |-> IF c = m[x] THEN GFMul(c, F[x]) ELSE 0]
             p == Part(s)
             q == Part(s \cup {x})
  <2>1. Sum(h, s \cup {x}) = GFAdd(GFMul(m[x], F[x]), Sum(h, s))
    BY <1>1, <1>3, SumMore
  <2>2. \A c \in GF : Bucket(m, F, s, c) \in GF
    <3>1. SUFFICES ASSUME NEW c \in GF PROVE Bucket(m, F, s, c) \in GF
      OBVIOUS
    <3>2. {k \in s : m[k] = c} \in SUBSET P
      OBVIOUS
    <3>3. QED
      BY <3>2, SumType DEF Bucket
  <2>3. Terms(p, GF) /\ Terms(d, GF)
    BY <2>2, MulType, Field DEF Terms
  <2>4. \A c \in GF : q[c] = GFAdd(d[c], p[c])
    <3>1. SUFFICES ASSUME NEW c \in GF PROVE q[c] = GFAdd(d[c], p[c])
      OBVIOUS
    <3> DEFINE b == {k \in s : m[k] = c}
               b2 == {k \in s \cup {x} : m[k] = c}
    <3>2. q[c] = GFMul(c, Sum(F, b2)) /\ p[c] = GFMul(c, Sum(F, b))
      BY DEF Bucket
    <3>3. CASE c = m[x]
      <4>1. b2 = b \cup {x} /\ b \in SUBSET P /\ x \notin b
        BY <1>3, <3>3
      <4>2. Sum(F, b \cup {x}) = GFAdd(F[x], Sum(F, b))
        BY <4>1, SumMore
      <4>3. F[x] \in GF /\ Sum(F, b) \in GF
        BY <4>1, SumType DEF Terms
      <4>4. d[c] = GFMul(c, F[x])
        BY <3>3
      <4> HIDE DEF b, b2, d, q, p
      <4>5. GFMul(c, GFAdd(F[x], Sum(F, b))) = GFAdd(GFMul(c, F[x]), GFMul(c, Sum(F, b)))
        BY <4>3, Distributes
      <4>6. QED
        BY <3>2, <4>1, <4>2, <4>4, <4>5
    <3>4. CASE c # m[x]
      <4>1. b2 = b
        BY <3>4
      <4>2. d[c] = 0 /\ p[c] \in GF
        BY <2>3, <3>4 DEF Terms
      <4> HIDE DEF b, b2, d, q, p
      <4>3. GFAdd(0, p[c]) = p[c]
        BY <4>2, Field
      <4>4. QED
        BY <3>2, <4>1, <4>2, <4>3
    <3>5. QED
      BY <3>3, <3>4
  <2>5. m[x] \in GF /\ F[x] \in GF
    BY DEF Terms
  <2>6. {m[x]} \in SUBSET GF /\ (\A c \in GF \ {m[x]} : d[c] = 0) /\ d[m[x]] = GFMul(m[x], F[x])
    BY <2>5
  <2> HIDE DEF d, p, q
  <2>7. Sum(d, GF) = Sum(d, {m[x]})
    BY <1>0, <2>3, <2>6, SumRestrict
  <2>8. Sum(d, {m[x]}) = GFMul(m[x], F[x])
    <3>1. d[m[x]] \in GF
      BY <2>3, <2>5 DEF Terms
    <3>2. QED
      BY <2>6, <3>1, SumSingle
  <2>9. Sum(q, GF) = GFAdd(Sum(d, GF), Sum(p, GF))
    BY <1>0, <2>3, <2>4, SumAdd
  <2>10. Sum(p, GF) = Sum(h, s)
    BY <1>3 DEF p
  <2>11. Sum(h, s \cup {x}) = Sum(q, GF)
    BY <2>1, <2>7, <2>8, <2>9, <2>10
  <2>12. QED
    BY <2>11 DEF q
<1> HIDE DEF T
<1>4. \A s \in SUBSET P : s \in T
  BY <1>2, <1>3, SubsetInduction
<1>5. QED
  BY <1>4 DEF T

-----------------------------------------------------------------------------
(* The sums of vectors that the code forms, coordinate by coordinate.      *)

IsVFold(g, f, S) ==
  g = [s \in SUBSET S |-> IF s = {} THEN VZero ELSE VAdd(f[Pick(s)], g[s \ {Pick(s)}])]

(* The e-th coordinates of the vectors of f.                               *)
At(f, S, e) == [k \in S |-> f[k][e]]

VTotal(f, S) == [e \in Eq |-> Sum(At(f, S, e), S)]

LEMMA VFoldExists ==
  ASSUME NEW S, IsFiniteSet(S), NEW f
  PROVE  \E g : IsVFold(g, f, S)
<1> DEFINE g == [s \in SUBSET S |-> [e \in Eq |-> Sum(At(f, S, e), s)]]
<1>1. ASSUME NEW s \in SUBSET S
      PROVE  g[s] = IF s = {} THEN VZero ELSE VAdd(f[Pick(s)], g[s \ {Pick(s)}])
  <2>1. CASE s = {}
    <3>1. \A e \in Eq : Sum(At(f, S, e), {}) = 0
      BY SumPick
    <3>2. QED
      BY <2>1, <3>1 DEF VZero
  <2>2. CASE s # {}
    <3> DEFINE p == Pick(s)
               t == s \ {p}
    <3>1. p \in S /\ t \in SUBSET S
      BY <2>2, PickIn
    <3>2. \A e \in Eq : Sum(At(f, S, e), s) = GFAdd(At(f, S, e)[p], Sum(At(f, S, e), t))
      BY <2>2, SumPick
    <3> HIDE DEF p, t
    <3>3. \A e \in Eq : At(f, S, e)[p] = f[p][e]
      BY <3>1 DEF At
    <3>4. \A e \in Eq : g[t][e] = Sum(At(f, S, e), t)
      BY <3>1
    <3>5. VAdd(f[p], g[t]) = [e \in Eq |-> GFAdd(f[p][e], g[t][e])]
      BY DEF VAdd
    <3>6. g[s] = [e \in Eq |-> Sum(At(f, S, e), s)]
      OBVIOUS
    <3> HIDE DEF g
    <3>7. \A e \in Eq : Sum(At(f, S, e), s) = GFAdd(f[p][e], g[t][e])
      BY <3>2, <3>3, <3>4
    <3>8. g[s] = VAdd(f[p], g[t])
      BY <3>5, <3>6, <3>7
    <3>9. QED
      BY <2>2, <3>8 DEF p, t
  <2>3. QED
    BY <2>1, <2>2
<1>2. g = [s \in SUBSET S |-> IF s = {} THEN VZero ELSE VAdd(f[Pick(s)], g[s \ {Pick(s)}])]
  BY <1>1
<1> HIDE DEF g
<1>3. IsVFold(g, f, S)
  BY <1>2 DEF IsVFold
<1>4. QED
  BY <1>3

LEMMA VFoldIsTotal ==
  ASSUME NEW S, IsFiniteSet(S), NEW f, NEW g, IsVFold(g, f, S)
  PROVE  g[S] = VTotal(f, S)
<1> DEFINE Part(s) == [e \in Eq |-> Sum(At(f, S, e), s)]
           T == {s \in SUBSET S : g[s] = Part(s)}
<1>1. \A s \in SUBSET S : g[s] = IF s = {} THEN VZero ELSE VAdd(f[Pick(s)], g[s \ {Pick(s)}])
  BY DEF IsVFold
<1>2. {} \in T
  <2>1. \A e \in Eq : Sum(At(f, S, e), {}) = 0
    BY SumPick
  <2>2. QED
    BY <1>1, <2>1 DEF VZero
<1>3. ASSUME NEW s \in SUBSET S, s # {}, s \ {Pick(s)} \in T
      PROVE  s \in T
  <2> DEFINE p == Pick(s)
             t == s \ {p}
  <2>1. p \in S /\ t \in SUBSET S
    BY <1>3, PickIn
  <2>2. \A e \in Eq : Sum(At(f, S, e), s) = GFAdd(At(f, S, e)[p], Sum(At(f, S, e), t))
    BY <1>3, SumPick
  <2>3. g[s] = VAdd(f[p], g[t])
    BY <1>1, <1>3
  <2>4. g[t] = Part(t)
    BY <1>3
  <2> HIDE DEF p, t
  <2>5. \A e \in Eq : At(f, S, e)[p] = f[p][e] /\ g[t][e] = Sum(At(f, S, e), t)
    BY <2>1, <2>4 DEF At
  <2>6. g[s] = Part(s)
    BY <2>2, <2>3, <2>5 DEF VAdd
  <2>7. QED
    BY <2>6
<1> HIDE DEF T
<1>4. \A s \in SUBSET S : s \in T
  BY <1>2, <1>3, PickInduction
<1>5. S \in T
  BY <1>4
<1>6. QED
  BY <1>5 DEF T, VTotal

LEMMA ProdIsTotal ==
  ASSUME NEW S, IsFiniteSet(S), NEW A, NEW b
  PROVE  gfmat_prod(A, b, S) = VTotal([k \in S |-> VScale(b[k], A[k])], S)
<1> DEFINE f == [k \in S |-> VScale(b[k], A[k])]
           Code(g) == g = [s \in SUBSET S |-> IF s = {} THEN VZero
                                 ELSE VAdd(VScale(b[Pick(s)], A[Pick(s)]), g[s \ {Pick(s)}])]
           c == CHOOSE g : Code(g)
<1>1. gfmat_prod(A, b, S) = c[S]
  BY DEF gfmat_prod, VSum, MapThenFoldSet, Pick
<1>2. \A s \in SUBSET S : s # {} => f[Pick(s)] = VScale(b[Pick(s)], A[Pick(s)])
  BY PickIn
<1>3. PICK g : IsVFold(g, f, S)
  BY VFoldExists
<1>4. Code(g)
  BY <1>2, <1>3 DEF IsVFold
<1>5. Code(c)
  BY <1>4
<1>6. IsVFold(c, f, S)
  BY <1>2, <1>5 DEF IsVFold
<1> HIDE DEF c, f, Code
<1>7. QED
  BY <1>1, <1>6, VFoldIsTotal DEF f

-----------------------------------------------------------------------------
(* The secret matrix.                                                      *)

Triangle == [Upper(V) -> Vec]
Matrix == [Row \X Col -> Vec]
Oil == [Row \X Col -> GF]

LEMMA Indices ==
  /\ IsFiniteSet(Row) /\ IsFiniteSet(Col) /\ IsFiniteSet(Eq)
  /\ \A i \in Row : i \in Nat /\ i < V
BY UovAssumption, FS_Interval DEF Row, Col, Eq

(* The e-th coordinates of a triangle, completed by zeros below.           *)
Tri(A, e) == [p \in Row \X Row |-> IF p[1] <= p[2] THEN A[p][e] ELSE 0]

LEMMA TriType ==
  ASSUME NEW A \in Triangle, NEW e \in Eq
  PROVE  \A i, k \in Row : Tri(A, e)[i, k] \in GF
<1> TAKE i, k \in Row
<1>1. Tri(A, e)[i, k] = IF i <= k THEN A[i, k][e] ELSE 0
  BY DEF Tri
<1>2. i <= k => <<i, k>> \in Upper(V)
  BY DEF Upper, Row
<1>3. i <= k => A[<<i, k>>] \in Vec
  BY <1>2 DEF Triangle
<1>4. i <= k => A[i, k][e] \in GF
  BY <1>3 DEF Vec
<1>5. QED
  BY <1>1, <1>4, Field

(* A row of the triangle, and a column of it, times a column of B.         *)
UpTerms(A, B, i, j, e) == [k \in Row |-> GFMul(B[k, j], Tri(A, e)[i, k])]
DownTerms(A, B, i, j, e) == [k \in Row |-> GFMul(B[k, j], Tri(A, e)[k, i])]

LEMMA TermsType ==
  ASSUME NEW A \in Triangle, NEW B \in Oil, NEW i \in Row, NEW j \in Col, NEW e \in Eq
  PROVE  Terms(UpTerms(A, B, i, j, e), Row) /\ Terms(DownTerms(A, B, i, j, e), Row)
<1>1. \A k \in Row : B[k, j] \in GF
  <2>1. ASSUME NEW k \in Row PROVE B[<<k, j>>] \in GF
    BY DEF Oil
  <2>2. QED
    BY <2>1
<1>2. \A k \in Row : UpTerms(A, B, i, j, e)[k] \in GF /\ DownTerms(A, B, i, j, e)[k] \in GF
  BY <1>1, TriType, MulType DEF UpTerms, DownTerms
<1>3. QED
  BY <1>2 DEF Terms

LEMMA TrimatEntry ==
  ASSUME NEW C, NEW A \in Triangle, NEW B \in Oil, NEW i \in Row, NEW j \in Col, NEW e \in Eq
  PROVE  batch_trimat_madd(C, A, B)[i, j][e]
           = GFAdd(C[i, j][e], Sum(UpTerms(A, B, i, j, e), Row))
<1> DEFINE S == i .. V-1
           a == [k \in S |-> A[i, k]]
           b == [k \in Row |-> B[k, j]]
           f == [k \in S |-> VScale(b[k], a[k])]
           u == UpTerms(A, B, i, j, e)
<1>1. IsFiniteSet(S) /\ S \in SUBSET Row /\ \A k \in Row : k \in S <=> i <= k
  BY UovAssumption, FS_Interval DEF Row
<1>2. batch_trimat_madd(C, A, B)[i, j] = VAdd(C[i, j], gfmat_prod(a, b, S))
  <2>1. <<i, j>> \in Row \X Col
    OBVIOUS
  <2>2. batch_trimat_madd(C, A, B)[<<i, j>>] = VAdd(C[<<i, j>>], gfmat_prod(a, b, S))
    BY <2>1 DEF batch_trimat_madd
  <2>3. QED
    BY <2>2
<1>3. gfmat_prod(a, b, S) = VTotal(f, S)
  BY <1>1, ProdIsTotal
<1>4. VTotal(f, S)[e] = Sum(At(f, S, e), S)
  BY DEF VTotal
<1>5. \A k \in S : At(f, S, e)[k] = u[k]
  <2>1. SUFFICES ASSUME NEW k \in S PROVE At(f, S, e)[k] = u[k]
    OBVIOUS
  <2>2. At(f, S, e)[k] = GFMul(B[k, j], A[i, k][e])
    BY <1>1 DEF At, VScale
  <2>3. Tri(A, e)[i, k] = A[i, k][e]
    BY <1>1 DEF Tri
  <2>4. QED
    BY <1>1, <2>2, <2>3 DEF UpTerms
<1>6. \A k \in Row \ S : u[k] = 0
  <2>1. SUFFICES ASSUME NEW k \in Row \ S PROVE u[k] = 0
    OBVIOUS
  <2>2. Tri(A, e)[i, k] = 0
    BY <1>1 DEF Tri
  <2>3. B[<<k, j>>] \in GF
    BY DEF Oil
  <2>4. QED
    BY <2>2, <2>3, TimesZero DEF UpTerms
<1> DEFINE d == At(f, S, e)
<1>7. Terms(u, Row)
  BY TermsType
<1> HIDE DEF S, f, u, d
<1>8. Sum(d, S) = Sum(u, S)
  BY <1>1, <1>5, SumSame DEF d
<1>9. Sum(u, Row) = Sum(u, S)
  BY <1>1, <1>6, <1>7, Indices, SumRestrict
<1>10. QED
  BY <1>2, <1>3, <1>4, <1>8, <1>9 DEF VAdd, d, u

LEMMA TrimatTrEntry ==
  ASSUME NEW C, NEW A \in Triangle, NEW B \in Oil, NEW i \in Row, NEW j \in Col, NEW e \in Eq
  PROVE  batch_trimatTr_madd(C, A, B)[i, j][e]
           = GFAdd(C[i, j][e], Sum(DownTerms(A, B, i, j, e), Row))
<1> DEFINE S == 0 .. i
           a == [k \in S |-> A[k, i]]
           b == [k \in Row |-> B[k, j]]
           f == [k \in S |-> VScale(b[k], a[k])]
           u == DownTerms(A, B, i, j, e)
<1>1. IsFiniteSet(S) /\ S \in SUBSET Row /\ \A k \in Row : k \in S <=> k <= i
  BY UovAssumption, FS_Interval DEF Row
<1>2. batch_trimatTr_madd(C, A, B)[i, j] = VAdd(C[i, j], gfmat_prod(a, b, S))
  <2>1. <<i, j>> \in Row \X Col
    OBVIOUS
  <2>2. batch_trimatTr_madd(C, A, B)[<<i, j>>] = VAdd(C[<<i, j>>], gfmat_prod(a, b, S))
    BY <2>1 DEF batch_trimatTr_madd
  <2>3. QED
    BY <2>2
<1>3. gfmat_prod(a, b, S) = VTotal(f, S)
  BY <1>1, ProdIsTotal
<1>4. VTotal(f, S)[e] = Sum(At(f, S, e), S)
  BY DEF VTotal
<1>5. \A k \in S : At(f, S, e)[k] = u[k]
  <2>1. SUFFICES ASSUME NEW k \in S PROVE At(f, S, e)[k] = u[k]
    OBVIOUS
  <2>2. At(f, S, e)[k] = GFMul(B[k, j], A[k, i][e])
    BY <1>1 DEF At, VScale
  <2>3. Tri(A, e)[k, i] = A[k, i][e]
    BY <1>1 DEF Tri
  <2>4. QED
    BY <1>1, <2>2, <2>3 DEF DownTerms
<1>6. \A k \in Row \ S : u[k] = 0
  <2>1. SUFFICES ASSUME NEW k \in Row \ S PROVE u[k] = 0
    OBVIOUS
  <2>2. Tri(A, e)[k, i] = 0
    BY <1>1 DEF Tri
  <2>3. B[<<k, j>>] \in GF
    BY DEF Oil
  <2>4. QED
    BY <2>2, <2>3, TimesZero DEF DownTerms
<1> DEFINE d == At(f, S, e)
<1>7. Terms(u, Row)
  BY TermsType
<1> HIDE DEF S, f, u, d
<1>8. Sum(d, S) = Sum(u, S)
  BY <1>1, <1>5, SumSame DEF d
<1>9. Sum(u, Row) = Sum(u, S)
  BY <1>1, <1>6, <1>7, Indices, SumRestrict
<1>10. QED
  BY <1>2, <1>3, <1>4, <1>8, <1>9 DEF VAdd, d, u

LEMMA TwiceTrimatEntry ==
  ASSUME NEW C, NEW A \in Triangle, NEW B \in Oil, NEW i \in Row, NEW j \in Col, NEW e \in Eq
  PROVE  batch_2trimat_madd(C, A, B)[i, j][e]
           = GFAdd(C[i, j][e], GFAdd(Sum(UpTerms(A, B, i, j, e), Row),
                                     Sum(DownTerms(A, B, i, j, e), Row)))
<1> DEFINE a == [k \in Row |-> IF k < i THEN A[k, i] ELSE IF k = i THEN VZero ELSE A[i, k]]
           b == [k \in Row |-> B[k, j]]
           f == [k \in Row |-> VScale(b[k], a[k])]
           u == UpTerms(A, B, i, j, e)
           d == DownTerms(A, B, i, j, e)
           h == At(f, Row, e)
<1>1. batch_2trimat_madd(C, A, B)[i, j] = VAdd(C[i, j], gfmat_prod(a, b, Row))
  <2>1. <<i, j>> \in Row \X Col
    OBVIOUS
  <2>2. batch_2trimat_madd(C, A, B)[<<i, j>>] = VAdd(C[<<i, j>>], gfmat_prod(a, b, Row))
    BY <2>1 DEF batch_2trimat_madd
  <2>3. QED
    BY <2>2
<1>2. gfmat_prod(a, b, Row) = VTotal(f, Row)
  BY Indices, ProdIsTotal
<1>3. VTotal(f, Row)[e] = Sum(h, Row)
  BY DEF VTotal
<1>4. Terms(u, Row) /\ Terms(d, Row)
  BY TermsType
<1>5. \A k \in Row : h[k] = GFAdd(u[k], d[k])
  <2>1. SUFFICES ASSUME NEW k \in Row PROVE h[k] = GFAdd(u[k], d[k])
    OBVIOUS
  <2>2. h[k] = GFMul(B[k, j], a[k][e])
    BY DEF At, VScale
  <2>3. B[k, j] \in GF
    <3>1. B[<<k, j>>] \in GF
      BY DEF Oil
    <3>2. QED
      BY <3>1
  <2> DEFINE x == Tri(A, e)[i, k]
             yy == Tri(A, e)[k, i]
  <2>4. u[k] = GFMul(B[k, j], x) /\ d[k] = GFMul(B[k, j], yy)
    BY DEF UpTerms, DownTerms
  <2>5. x \in GF /\ yy \in GF
    BY TriType
  <2>6. x = (IF i <= k THEN A[i, k][e] ELSE 0) /\ yy = (IF k <= i THEN A[k, i][e] ELSE 0)
    BY DEF Tri
  <2>a. a[k] = IF k < i THEN A[k, i] ELSE IF k = i THEN VZero ELSE A[i, k]
    OBVIOUS
  <2> HIDE DEF x, yy, a
  <2>7. a[k][e] = GFAdd(x, yy)
    <3>0. i \in Nat /\ k \in Nat
      BY Indices
    <3>1. CASE k < i
      <4>1. x = 0 /\ a[k][e] = yy
        <5>1. ~(i <= k) /\ k <= i
          BY <3>0, <3>1
        <5>2. QED
          BY <2>a, <2>6, <3>1, <5>1, Zenon
      <4>2. GFAdd(0, yy) = yy
        BY <2>5, Field
      <4>3. QED
        BY <4>1, <4>2
    <3>2. CASE k = i
      <4>1. x = yy /\ a[k] = VZero
        <5>1. i <= k /\ k <= i /\ ~(k < i)
          BY <3>0, <3>2
        <5>2. QED
          BY <2>a, <2>6, <3>2, <5>1, Zenon
      <4>2. GFAdd(x, yy) = 0
        BY <2>5, <4>1, Field
      <4>3. QED
        BY <4>1, <4>2 DEF VZero
    <3>3. CASE i < k
      <4>1. yy = 0 /\ a[k][e] = x
        <5>1. i <= k /\ ~(k <= i) /\ ~(k < i) /\ k # i
          BY <3>0, <3>3
        <5>2. QED
          BY <2>a, <2>6, <5>1, Zenon
      <4>2. GFAdd(x, 0) = x
        BY <2>5, Field
      <4>3. QED
        BY <4>1, <4>2
    <3>4. QED
      BY <3>0, <3>1, <3>2, <3>3
  <2>8. GFMul(B[k, j], GFAdd(x, yy)) = GFAdd(GFMul(B[k, j], x), GFMul(B[k, j], yy))
    BY <2>3, <2>5, Distributes
  <2>9. QED
    BY <2>2, <2>4, <2>7, <2>8
<1> HIDE DEF u, d, h, f
<1>6. Sum(h, Row) = GFAdd(Sum(u, Row), Sum(d, Row))
  BY <1>4, <1>5, Indices, SumAdd
<1>7. QED
  BY <1>1, <1>2, <1>3, <1>6 DEF VAdd, u, d

(* Key generation and a signer that expands its seed get the same matrix.  *)
LEMMA SameMatrix ==
  ASSUME NEW P1 \in Triangle, NEW P2 \in Matrix, NEW B \in Oil
  PROVE  calculate_F2_P3(P1, P2, B).S = calculate_F2(P1, P2, B)
<1> DEFINE S1 == batch_trimat_madd(P2, P1, B)
           x == batch_trimatTr_madd(S1, P1, B)
           yy == batch_2trimat_madd(P2, P1, B)
<1>1. ASSUME NEW i \in Row, NEW j \in Col, NEW e \in Eq
      PROVE  x[i, j][e] = yy[i, j][e]
  <2> DEFINE c == P2[i, j][e]
             u == Sum(UpTerms(P1, B, i, j, e), Row)
             d == Sum(DownTerms(P1, B, i, j, e), Row)
  <2>1. x[i, j][e] = GFAdd(S1[i, j][e], d)
    BY TrimatTrEntry
  <2>2. S1[i, j][e] = GFAdd(c, u)
    BY TrimatEntry
  <2>3. yy[i, j][e] = GFAdd(c, GFAdd(u, d))
    BY TwiceTrimatEntry
  <2>4. u \in GF /\ d \in GF
    BY Indices, TermsType, SumType
  <2>5. c \in GF
    <3>1. P2[<<i, j>>] \in Vec
      BY DEF Matrix
    <3>2. P2[<<i, j>>][e] \in GF
      BY <3>1 DEF Vec
    <3>3. QED
      BY <3>2
  <2> HIDE DEF c, u, d, x, yy, S1
  <2>6. GFAdd(GFAdd(c, u), d) = GFAdd(c, GFAdd(u, d))
    BY <2>4, <2>5, AddGroup
  <2>7. QED
    BY <2>1, <2>2, <2>3, <2>6
<1>2. \A p \in Row \X Col : \E a, b : x[p] = VAdd(a, b)
  BY DEF batch_trimatTr_madd
<1>3. \A p \in Row \X Col : \E a, b : yy[p] = VAdd(a, b)
  BY DEF batch_2trimat_madd
<1>4. ASSUME NEW i \in Row, NEW j \in Col
      PROVE  x[<<i, j>>] = yy[<<i, j>>]
  <2>1. x[<<i, j>>] = [e \in Eq |-> x[<<i, j>>][e]]
    BY <1>2 DEF VAdd
  <2>2. yy[<<i, j>>] = [e \in Eq |-> yy[<<i, j>>][e]]
    BY <1>3 DEF VAdd
  <2>3. \A e \in Eq : x[<<i, j>>][e] = yy[<<i, j>>][e]
    BY <1>1
  <2> HIDE DEF x, yy
  <2>4. QED
    BY <2>1, <2>2, <2>3
<1>5. x = [p \in Row \X Col |-> x[p]]
  BY DEF batch_trimatTr_madd
<1>6. yy = [p \in Row \X Col |-> yy[p]]
  BY DEF batch_2trimat_madd
<1> HIDE DEF x, yy
<1>7. x = yy
  <2>1. ASSUME NEW p \in Row \X Col PROVE x[p] = yy[p]
    <3>1. PICK i \in Row, j \in Col : p = <<i, j>>
      OBVIOUS
    <3>2. QED
      BY <1>4, <3>1
  <2>2. QED
    BY <1>5, <1>6, <2>1
<1>8. QED
  BY <1>7 DEF x, yy, S1, calculate_F2_P3, calculate_F2

-----------------------------------------------------------------------------
(* Vectors of field elements and matrices.                                 *)

Dot(a, b, A) == Sum([i \in A |-> GFMul(a[i], b[i])], A)

(* The product of the matrix F, with lines in A, and the vector b over B.  *)
Apply(F, b, A, B) == [i \in A |-> Dot(b, Line(F, i, B), B)]

LEMMA DotType ==
  ASSUME NEW A, IsFiniteSet(A), NEW a, Terms(a, A), NEW b, Terms(b, A)
  PROVE  Dot(a, b, A) \in GF
<1> DEFINE f == [i \in A |-> GFMul(a[i], b[i])]
<1>1. Terms(f, A)
  BY MulType DEF Terms
<1> HIDE DEF f
<1>2. Sum(f, A) \in GF
  BY <1>1, SumType
<1>3. QED
  BY <1>2 DEF Dot, f

LEMMA DotSwap ==
  ASSUME NEW A, IsFiniteSet(A), NEW a, Terms(a, A), NEW b, Terms(b, A)
  PROVE  Dot(a, b, A) = Dot(b, a, A)
<1>1. \A i \in A : GFMul(a[i], b[i]) = GFMul(b[i], a[i])
  BY MulSwap DEF Terms
<1>2. [i \in A |-> GFMul(a[i], b[i])] = [i \in A |-> GFMul(b[i], a[i])]
  BY <1>1
<1>3. QED
  BY <1>2 DEF Dot

LEMMA DotSame ==
  ASSUME NEW A, NEW a, NEW b, NEW c, NEW d, \A i \in A : a[i] = c[i] /\ b[i] = d[i]
  PROVE  Dot(a, b, A) = Dot(c, d, A)
<1>1. [i \in A |-> GFMul(a[i], b[i])] = [i \in A |-> GFMul(c[i], d[i])]
  OBVIOUS
<1>2. QED
  BY <1>1 DEF Dot

LEMMA DotAdd ==
  ASSUME NEW A, IsFiniteSet(A), NEW a, Terms(a, A), NEW b, Terms(b, A), NEW c, Terms(c, A),
         NEW d, \A i \in A : d[i] = GFAdd(b[i], c[i])
  PROVE  Dot(a, d, A) = GFAdd(Dot(a, b, A), Dot(a, c, A))
<1> DEFINE f == [i \in A |-> GFMul(a[i], b[i])]
           g == [i \in A |-> GFMul(a[i], c[i])]
           h == [i \in A |-> GFMul(a[i], d[i])]
<1>1. Terms(f, A) /\ Terms(g, A)
  BY MulType DEF Terms
<1>2. \A i \in A : h[i] = GFAdd(f[i], g[i])
  BY Distributes DEF Terms
<1> HIDE DEF f, g, h
<1>3. Sum(h, A) = GFAdd(Sum(f, A), Sum(g, A))
  BY <1>1, <1>2, SumAdd
<1>4. QED
  BY <1>3 DEF Dot, f, g, h

LEMMA ApplyType ==
  ASSUME NEW A, NEW B, IsFiniteSet(B), NEW F, Entries(F, A, B), NEW b, Terms(b, B)
  PROVE  Terms(Apply(F, b, A, B), A)
<1>1. ASSUME NEW i \in A PROVE Dot(b, Line(F, i, B), B) \in GF
  <2>1. Terms(Line(F, i, B), B)
    BY DEF Terms, Line, Entries
  <2>2. QED
    BY <2>1, DotType
<1>2. QED
  BY <1>1 DEF Terms, Apply

(* A product from the left and one from the right.                         *)
LEMMA Through ==
  ASSUME NEW A, IsFiniteSet(A), NEW B, IsFiniteSet(B), NEW F, Entries(F, A, B),
         NEW a, Terms(a, A), NEW b, Terms(b, B)
  PROVE  Dot(b, [j \in B |-> Dot(a, Stack(F, A, j), A)], B) = Dot(a, Apply(F, b, A, B), A)
<1> DEFINE H == [p \in A \X B |-> GFMul(a[p[1]], GFMul(b[p[2]], F[p]))]
           l == ByLines(H, A, B)
           r == ByStacks(H, A, B)
           x == [i \in A |-> GFMul(a[i], Apply(F, b, A, B)[i])]
           c == [j \in B |-> Dot(a, Stack(F, A, j), A)]
           yy == [j \in B |-> GFMul(b[j], c[j])]
<1>1. ASSUME NEW i \in A, NEW j \in B
      PROVE  /\ H[i, j] = GFMul(a[i], GFMul(b[j], F[i, j]))
             /\ H[i, j] = GFMul(b[j], GFMul(a[i], F[i, j]))
             /\ H[i, j] \in GF
  <2>1. <<i, j>> \in A \X B /\ <<i, j>>[1] = i /\ <<i, j>>[2] = j
    OBVIOUS
  <2>2. H[<<i, j>>] = GFMul(a[i], GFMul(b[j], F[<<i, j>>]))
    BY <2>1
  <2> DEFINE f == F[i, j]
             ai == a[i]
             bj == b[j]
  <2>3. H[i, j] = GFMul(ai, GFMul(bj, f))
    BY <2>2
  <2>4. ai \in GF /\ bj \in GF /\ f \in GF
    BY DEF Terms, Entries
  <2> HIDE DEF f, ai, bj, H
  <2>5. GFMul(GFMul(ai, bj), f) = GFMul(ai, GFMul(bj, f)) /\ GFMul(GFMul(bj, ai), f) = GFMul(bj, GFMul(ai, f))
    BY <2>4, MulGroup
  <2>6. GFMul(ai, bj) = GFMul(bj, ai)
    BY <2>4, MulSwap
  <2>7. GFMul(ai, GFMul(bj, f)) \in GF
    BY <2>4, MulType
  <2>8. QED
    BY <2>3, <2>5, <2>6, <2>7 DEF f, ai, bj
<1>2. Entries(H, A, B)
  BY <1>1 DEF Entries
<1> HIDE DEF H
<1>3. Sum(l, A) = Sum(r, B)
  BY <1>2, SumExchange
<1>4. ASSUME NEW i \in A PROVE l[i] = x[i]
  <2> DEFINE f == [j \in B |-> GFMul(b[j], Line(F, i, B)[j])]
             h == Line(H, i, B)
  <2>1. \A j \in B : h[j] = GFMul(a[i], f[j])
    BY <1>1 DEF Line
  <2>2. Terms(f, B)
    BY MulType DEF Terms, Line, Entries
  <2>3. a[i] \in GF
    BY DEF Terms
  <2>4. x[i] = GFMul(a[i], Sum(f, B)) /\ l[i] = Sum(h, B)
    BY DEF Apply, Dot, ByLines
  <2> HIDE DEF f, h, x, l
  <2>5. Sum(h, B) = GFMul(a[i], Sum(f, B))
    BY <2>1, <2>2, <2>3, SumScale
  <2>6. QED
    BY <2>4, <2>5
<1>5. ASSUME NEW j \in B PROVE r[j] = yy[j]
  <2> DEFINE f == [i \in A |-> GFMul(a[i], Stack(F, A, j)[i])]
             h == Stack(H, A, j)
  <2>1. \A i \in A : h[i] = GFMul(b[j], f[i])
    BY <1>1 DEF Stack
  <2>2. Terms(f, A)
    BY MulType DEF Terms, Stack, Entries
  <2>3. b[j] \in GF
    BY DEF Terms
  <2>4. yy[j] = GFMul(b[j], Sum(f, A)) /\ r[j] = Sum(h, A)
    BY DEF Dot, ByStacks
  <2> HIDE DEF f, h, yy, r
  <2>5. Sum(h, A) = GFMul(b[j], Sum(f, A))
    BY <2>1, <2>2, <2>3, SumScale
  <2>6. QED
    BY <2>4, <2>5
<1>6. Dot(a, Apply(F, b, A, B), A) = Sum(x, A)
  BY DEF Dot
<1>7. Dot(b, c, B) = Sum(yy, B)
  BY DEF Dot
<1> HIDE DEF l, r, x, yy, c
<1>8. Sum(l, A) = Sum(x, A) /\ Sum(r, B) = Sum(yy, B)
  BY <1>4, <1>5, SumSame
<1>9. QED
  BY <1>3, <1>6, <1>7, <1>8 DEF c

(* A bilinear form, term by term.                                          *)
FormTerms(F, a, b, A, B) == [p \in A \X B |-> GFMul(GFMul(a[p[1]], b[p[2]]), F[p])]

IsFormTerm(f, F, a, b, i, j) ==
  /\ f = GFMul(GFMul(a[i], b[j]), F[i, j])
  /\ f = GFMul(a[i], GFMul(b[j], F[i, j]))
  /\ f \in GF

LEMMA FormTermsAre ==
  ASSUME NEW A, NEW B, NEW F, Entries(F, A, B), NEW a, Terms(a, A), NEW b, Terms(b, B)
  PROVE  \A i \in A, j \in B : IsFormTerm(FormTerms(F, a, b, A, B)[i, j], F, a, b, i, j)
<1> TAKE i \in A, j \in B
<1>1. <<i, j>> \in A \X B /\ <<i, j>>[1] = i /\ <<i, j>>[2] = j
  OBVIOUS
<1>2. FormTerms(F, a, b, A, B)[<<i, j>>] = GFMul(GFMul(a[i], b[j]), F[<<i, j>>])
  BY <1>1 DEF FormTerms
<1> DEFINE f == F[i, j]
           ai == a[i]
           bj == b[j]
<1>3. FormTerms(F, a, b, A, B)[i, j] = GFMul(GFMul(ai, bj), f)
  BY <1>2
<1>4. ai \in GF /\ bj \in GF /\ f \in GF
  BY DEF Terms, Entries
<1> HIDE DEF f, ai, bj
<1>5. GFMul(GFMul(ai, bj), f) = GFMul(ai, GFMul(bj, f))
  BY <1>4, MulGroup
<1>6. GFMul(ai, GFMul(bj, f)) \in GF
  BY <1>4, MulType
<1>7. QED
  BY <1>3, <1>5, <1>6 DEF f, ai, bj, IsFormTerm

LEMMA FormSum ==
  ASSUME NEW A, IsFiniteSet(A), NEW B, IsFiniteSet(B), NEW F, Entries(F, A, B),
         NEW a, Terms(a, A), NEW b, Terms(b, B)
  PROVE  Sum(FormTerms(F, a, b, A, B), A \X B) = Dot(a, Apply(F, b, A, B), A)
<1> DEFINE H == FormTerms(F, a, b, A, B)
           l == ByLines(H, A, B)
           x == [i \in A |-> GFMul(a[i], Apply(F, b, A, B)[i])]
<1>a. \A i \in A, j \in B : H[i, j] = GFMul(a[i], GFMul(b[j], F[i, j])) /\ H[i, j] \in GF
  <2>1. \A i \in A, j \in B : IsFormTerm(H[i, j], F, a, b, i, j)
    BY FormTermsAre
  <2>2. QED
    BY <2>1 DEF IsFormTerm
<1>1. Entries(H, A, B)
  BY <1>a DEF Entries
<1> HIDE DEF H
<1>2. Sum(H, A \X B) = Sum(l, A)
  BY <1>1, SumPairs
<1>3. ASSUME NEW i \in A PROVE l[i] = x[i]
  <2> DEFINE f == [j \in B |-> GFMul(b[j], Line(F, i, B)[j])]
             h == Line(H, i, B)
  <2>1. \A j \in B : h[j] = GFMul(a[i], f[j])
    BY <1>a DEF Line
  <2>2. Terms(f, B)
    BY MulType DEF Terms, Line, Entries
  <2>3. a[i] \in GF
    BY DEF Terms
  <2>4. x[i] = GFMul(a[i], Sum(f, B)) /\ l[i] = Sum(h, B)
    BY DEF Apply, Dot, ByLines
  <2> HIDE DEF f, h, x, l
  <2>5. Sum(h, B) = GFMul(a[i], Sum(f, B))
    BY <2>1, <2>2, <2>3, SumScale
  <2>6. QED
    BY <2>4, <2>5
<1>4. Dot(a, Apply(F, b, A, B), A) = Sum(x, A)
  BY DEF Dot
<1> HIDE DEF l, x
<1>5. Sum(l, A) = Sum(x, A)
  BY <1>3, SumSame
<1>6. QED
  BY <1>2, <1>4, <1>5 DEF H

-----------------------------------------------------------------------------
(* Other sums that the code forms.                                         *)

LEMMA PlainIsTotal ==
  ASSUME NEW S, IsFiniteSet(S), NEW f
  PROVE  VSum(S, LAMBDA p : f[p]) = VTotal(f, S)
<1> DEFINE Code(g) == g = [s \in SUBSET S |-> IF s = {} THEN VZero
                                 ELSE VAdd(f[Pick(s)], g[s \ {Pick(s)}])]
           c == CHOOSE g : Code(g)
<1>1. VSum(S, LAMBDA p : f[p]) = c[S]
  BY DEF VSum, MapThenFoldSet, Pick
<1>2. PICK g : IsVFold(g, f, S)
  BY VFoldExists
<1>3. Code(g)
  BY <1>2 DEF IsVFold
<1>4. Code(c)
  BY <1>3
<1>5. IsVFold(c, f, S)
  BY <1>4 DEF IsVFold
<1> HIDE DEF c, Code
<1>6. QED
  BY <1>1, <1>5, VFoldIsTotal

LEMMA ReduceIsTotal ==
  ASSUME NEW bucket
  PROVE  madd_reduce(bucket) = VTotal([c \in GF |-> VScale(c, bucket[c])], GF)
<1> DEFINE S == GF
           f == [k \in S |-> VScale(k, bucket[k])]
           Code(g) == g = [s \in SUBSET S |-> IF s = {} THEN VZero
                                 ELSE VAdd(VScale(Pick(s), bucket[Pick(s)]), g[s \ {Pick(s)}])]
           c == CHOOSE g : Code(g)
<1>0. IsFiniteSet(S)
  BY FieldAssumption
<1>1. madd_reduce(bucket) = c[S]
  BY DEF madd_reduce, VSum, MapThenFoldSet, Pick
<1>2. \A s \in SUBSET S : s # {} => f[Pick(s)] = VScale(Pick(s), bucket[Pick(s)])
  BY PickIn
<1> HIDE DEF S
<1>3. PICK g : IsVFold(g, f, S)
  BY <1>0, VFoldExists
<1>4. Code(g)
  BY <1>2, <1>3 DEF IsVFold
<1>5. Code(c)
  BY <1>4
<1>6. IsVFold(c, f, S)
  BY <1>2, <1>5 DEF IsVFold
<1> HIDE DEF c, f, Code
<1>7. c[S] = VTotal(f, S)
  BY <1>0, <1>6, VFoldIsTotal
<1>8. QED
  BY <1>1, <1>7 DEF f, S

LEMMA QuadIsTotal ==
  ASSUME NEW A, NEW x
  PROVE  batch_quad_trimat_eval(A, x)
           = VTotal([i \in Row |-> VScale(x[i], gfmat_prod([j \in i .. V-1 |-> A[i, j]], x, i .. V-1))], Row)
<1> DEFINE S == Row
           v == [i \in S |-> gfmat_prod([j \in i .. V-1 |-> A[i, j]], x, i .. V-1)]
           f == [i \in S |-> VScale(x[i], v[i])]
           Code(g) == g = [s \in SUBSET S |-> IF s = {} THEN VZero
                             ELSE VAdd(VScale(x[Pick(s)], gfmat_prod([j \in Pick(s) .. V-1 |-> A[Pick(s), j]],
                                                                     x, Pick(s) .. V-1)),
                                       g[s \ {Pick(s)}])]
           c == CHOOSE g : Code(g)
<1>0. IsFiniteSet(S)
  BY Indices
<1>1. batch_quad_trimat_eval(A, x) = c[S]
  BY DEF batch_quad_trimat_eval, VSum, MapThenFoldSet, Pick
<1>2. \A s \in SUBSET S : s # {} =>
        f[Pick(s)] = VScale(x[Pick(s)], gfmat_prod([j \in Pick(s) .. V-1 |-> A[Pick(s), j]],
                                                   x, Pick(s) .. V-1))
  BY PickIn
<1> HIDE DEF S
<1>3. PICK g : IsVFold(g, f, S)
  BY <1>0, VFoldExists
<1>4. Code(g)
  BY <1>2, <1>3 DEF IsVFold
<1>5. Code(c)
  BY <1>4
<1>6. IsVFold(c, f, S)
  BY <1>2, <1>5 DEF IsVFold
<1> HIDE DEF c, Code
<1>7. c[S] = VTotal(f, S)
  <2> HIDE DEF f
  <2>1. QED
    BY <1>0, <1>6, VFoldIsTotal
<1>8. f = [i \in S |-> VScale(x[i], gfmat_prod([j \in i .. V-1 |-> A[i, j]], x, i .. V-1))]
  OBVIOUS
<1>9. QED
  BY <1>1, <1>7, <1>8 DEF S

-----------------------------------------------------------------------------
(* The public map: its buckets add up to three quadratic forms.            *)

(* The terms of one of them: a monomial of x times its coefficient.        *)
Scaled(m, M, P, e) == [p \in P |-> GFMul(m[p], M[p][e])]

Mono1(x) == [p \in Upper(V) |-> GFMul(x[p[1]], x[p[2]])]
Mono2(x) == [p \in Row \X Col |-> GFMul(x[p[1]], x[V + p[2]])]
Mono3(x) == [p \in Upper(O) |-> GFMul(x[V + p[1]], x[V + p[2]])]

Variables == 0 .. V+O-1

LEMMA PairsFinite ==
  /\ IsFiniteSet(Upper(V)) /\ IsFiniteSet(Row \X Col) /\ IsFiniteSet(Upper(O))
  /\ IsFiniteSet(Row \X Row) /\ IsFiniteSet(Col \X Col)
  /\ Upper(V) \in SUBSET (Row \X Row) /\ Upper(O) \in SUBSET (Col \X Col)
<1>1. IsFiniteSet(Row \X Row) /\ IsFiniteSet(Row \X Col) /\ IsFiniteSet(Col \X Col)
  BY Indices, FS_Product
<1>2. Upper(V) \in SUBSET (Row \X Row) /\ Upper(O) \in SUBSET (Col \X Col)
  BY DEF Upper, Row, Col
<1>3. QED
  BY <1>1, <1>2, FS_Subset

LEMMA MonosType ==
  ASSUME NEW x \in [Variables -> GF]
  PROVE  Terms(Mono1(x), Upper(V)) /\ Terms(Mono2(x), Row \X Col) /\ Terms(Mono3(x), Upper(O))
<1>0. \A n \in Row : n \in Variables
  BY UovAssumption DEF Row, Variables
<1>1. \A n \in Col : V + n \in Variables
  BY UovAssumption DEF Col, Variables
<1>2. \A p \in Upper(V) : p[1] \in Row /\ p[2] \in Row
  BY DEF Upper, Row
<1>3. \A p \in Upper(O) : p[1] \in Col /\ p[2] \in Col
  BY DEF Upper, Col
<1>4. Terms(Mono1(x), Upper(V))
  BY <1>0, <1>2, MulType DEF Terms, Mono1
<1>5. Terms(Mono2(x), Row \X Col)
  BY <1>0, <1>1, MulType DEF Terms, Mono2
<1>6. Terms(Mono3(x), Upper(O))
  BY <1>1, <1>3, MulType DEF Terms, Mono3
<1>7. QED
  BY <1>4, <1>5, <1>6

(* The buckets of one of the three, reduced.                               *)
Collected(m, M, P, e) == [c \in GF |-> GFMul(c, Sum(At(M, {p \in P : m[p] = c}, e), {p \in P : m[p] = c}))]

IsCollected(m, M, P, e) ==
  /\ Sum(Collected(m, M, P, e), GF) = Sum(Scaled(m, M, P, e), P)
  /\ Terms(Collected(m, M, P, e), GF)

LEMMA CollectedSum ==
  ASSUME NEW P, IsFiniteSet(P), NEW m, Terms(m, P), NEW M \in [P -> Vec], NEW e \in Eq
  PROVE  IsCollected(m, M, P, e)
<1> DEFINE F == [p \in P |-> M[p][e]]
           h == [p \in P |-> GFMul(m[p], F[p])]
           b == [c \in GF |-> GFMul(c, Bucket(m, F, P, c))]
<1>1. Terms(F, P)
  BY DEF Terms, Vec
<1>2. h = Scaled(m, M, P, e)
  BY DEF Scaled
<1>3. ASSUME NEW c \in GF
      PROVE  /\ Sum(At(M, {p \in P : m[p] = c}, e), {p \in P : m[p] = c}) = Bucket(m, F, P, c)
             /\ Bucket(m, F, P, c) \in GF
  <2> DEFINE S == {p \in P : m[p] = c}
             d == At(M, S, e)
  <2>1. S \in SUBSET P /\ \A p \in S : d[p] = F[p]
    BY DEF At
  <2> HIDE DEF S, d, F
  <2>2. IsFiniteSet(S)
    BY <2>1, FS_Subset
  <2>3. Sum(d, S) = Sum(F, S)
    BY <2>1, <2>2, SumSame
  <2>4. Sum(F, S) \in GF
    BY <1>1, <2>1, SumType
  <2>5. QED
    BY <2>3, <2>4 DEF Bucket, d, S
<1>4. Collected(m, M, P, e) = b
  BY <1>3 DEF Collected
<1>5. Terms(b, GF)
  BY <1>3, MulType DEF Terms
<1> HIDE DEF F
<1>6. Sum(h, P) = Sum(b, GF)
  BY <1>1, SumBuckets
<1>7. QED
  BY <1>2, <1>4, <1>5, <1>6 DEF IsCollected

(* A public key.                                                           *)
PublicKey(pk) == pk.P1 \in Triangle /\ pk.P2 \in Matrix /\ pk.P3 \in [Upper(O) -> Vec]

LEMMA PublicMapEntry ==
  ASSUME NEW pk, PublicKey(pk), NEW x \in [Variables -> GF], NEW e \in Eq
  PROVE  ov_publicmap(pk, x)[e]
           = GFAdd(Sum(Scaled(Mono1(x), pk.P1, Upper(V), e), Upper(V)),
                   GFAdd(Sum(Scaled(Mono2(x), pk.P2, Row \X Col, e), Row \X Col),
                         Sum(Scaled(Mono3(x), pk.P3, Upper(O), e), Upper(O))))
<1> DEFINE bucket == accu_eval_quad(pk, x)
           b1 == Collected(Mono1(x), pk.P1, Upper(V), e)
           b2 == Collected(Mono2(x), pk.P2, Row \X Col, e)
           b3 == Collected(Mono3(x), pk.P3, Upper(O), e)
           b23 == [c \in GF |-> GFAdd(b2[c], b3[c])]
           f == [c \in GF |-> VScale(c, bucket[c])]
           d == At(f, GF, e)
<1>1. ov_publicmap(pk, x)[e] = Sum(d, GF)
  BY ReduceIsTotal DEF ov_publicmap, VTotal
<1>2. ASSUME NEW c \in GF
      PROVE  d[c] = GFAdd(b1[c], GFAdd(b2[c], b3[c]))
  <2> DEFINE S1 == {p \in Upper(V) : Mono1(x)[p] = c}
             S2 == {p \in Row \X Col : Mono2(x)[p] = c}
             S3 == {p \in Upper(O) : Mono3(x)[p] = c}
  <2>1. /\ S1 = {p \in Upper(V) : GFMul(x[p[1]], x[p[2]]) = c}
        /\ S2 = {p \in Row \X Col : GFMul(x[p[1]], x[V + p[2]]) = c}
        /\ S3 = {p \in Upper(O) : GFMul(x[V + p[1]], x[V + p[2]]) = c}
    BY DEF Mono1, Mono2, Mono3
  <2>2. IsFiniteSet(S1) /\ IsFiniteSet(S2) /\ IsFiniteSet(S3)
    BY PairsFinite, FS_Subset
  <2>3. bucket[c] = VAdd(VSum(S1, LAMBDA p : pk.P1[p]),
                         VAdd(VSum(S2, LAMBDA p : pk.P2[p]), VSum(S3, LAMBDA p : pk.P3[p])))
    BY <2>1 DEF accu_eval_quad
  <2>4. bucket[c] = VAdd(VTotal(pk.P1, S1), VAdd(VTotal(pk.P2, S2), VTotal(pk.P3, S3)))
    BY <2>2, <2>3, PlainIsTotal
  <2> DEFINE t1 == Sum(At(pk.P1, S1, e), S1)
             t2 == Sum(At(pk.P2, S2, e), S2)
             t3 == Sum(At(pk.P3, S3, e), S3)
  <2>5. d[c] = GFMul(c, bucket[c][e])
    BY DEF At, VScale
  <2>6. b1[c] = GFMul(c, t1) /\ b2[c] = GFMul(c, t2) /\ b3[c] = GFMul(c, t3)
    BY DEF Collected
  <2>7. t1 \in GF /\ t2 \in GF /\ t3 \in GF
    <3>1. Terms(At(pk.P1, S1, e), S1) /\ Terms(At(pk.P2, S2, e), S2) /\ Terms(At(pk.P3, S3, e), S3)
      BY DEF Terms, At, PublicKey, Triangle, Matrix, Vec
    <3>2. QED
      BY <2>2, <3>1, SumType
  <2> HIDE DEF S1, S2, S3, bucket, f
  <2>8. bucket[c][e] = GFAdd(t1, GFAdd(t2, t3))
    BY <2>4 DEF VAdd, VTotal
  <2> HIDE DEF t1, t2, t3, d, b1, b2, b3
  <2>9. GFAdd(t2, t3) \in GF
    BY <2>7, AddType
  <2>10. GFMul(c, GFAdd(t1, GFAdd(t2, t3))) = GFAdd(GFMul(c, t1), GFMul(c, GFAdd(t2, t3)))
    BY <2>7, <2>9, Distributes
  <2>11. GFMul(c, GFAdd(t2, t3)) = GFAdd(GFMul(c, t2), GFMul(c, t3))
    BY <2>7, Distributes
  <2>12. QED
    BY <2>5, <2>6, <2>8, <2>10, <2>11
<1>3. /\ Terms(b1, GF) /\ Sum(b1, GF) = Sum(Scaled(Mono1(x), pk.P1, Upper(V), e), Upper(V))
      /\ Terms(b2, GF) /\ Sum(b2, GF) = Sum(Scaled(Mono2(x), pk.P2, Row \X Col, e), Row \X Col)
      /\ Terms(b3, GF) /\ Sum(b3, GF) = Sum(Scaled(Mono3(x), pk.P3, Upper(O), e), Upper(O))
  <2> DEFINE P1 == Upper(V)
             P2 == Row \X Col
             P3 == Upper(O)
  <2>1. /\ IsFiniteSet(P1) /\ Terms(Mono1(x), P1) /\ pk.P1 \in [P1 -> Vec]
        /\ IsFiniteSet(P2) /\ Terms(Mono2(x), P2) /\ pk.P2 \in [P2 -> Vec]
        /\ IsFiniteSet(P3) /\ Terms(Mono3(x), P3) /\ pk.P3 \in [P3 -> Vec]
    BY PairsFinite, MonosType DEF PublicKey, Triangle, Matrix
  <2> HIDE DEF P1, P2, P3
  <2>2. IsCollected(Mono1(x), pk.P1, P1, e)
    BY <2>1, CollectedSum
  <2>3. IsCollected(Mono2(x), pk.P2, P2, e)
    BY <2>1, CollectedSum
  <2>4. IsCollected(Mono3(x), pk.P3, P3, e)
    BY <2>1, CollectedSum
  <2>5. QED
    BY <2>2, <2>3, <2>4 DEF IsCollected, P1, P2, P3
<1>4. IsFiniteSet(GF)
  BY FieldAssumption
<1> HIDE DEF b1, b2, b3, d
<1>5. Terms(b23, GF) /\ Sum(b23, GF) = GFAdd(Sum(b2, GF), Sum(b3, GF))
  <2>1. \A c \in GF : b23[c] = GFAdd(b2[c], b3[c])
    OBVIOUS
  <2>2. Terms(b23, GF)
    BY <1>3, AddType DEF Terms
  <2> HIDE DEF b23
  <2>3. QED
    BY <1>3, <1>4, <2>1, <2>2, SumAdd
<1>6. \A c \in GF : d[c] = GFAdd(b1[c], b23[c])
  BY <1>2
<1> HIDE DEF b23
<1>7. Sum(d, GF) = GFAdd(Sum(b1, GF), Sum(b23, GF))
  BY <1>3, <1>4, <1>5, <1>6, SumAdd
<1>8. QED
  BY <1>1, <1>3, <1>5, <1>7

-----------------------------------------------------------------------------
(* The three forms over whole matrices.                                    *)

Ent(M, e) == [p \in Row \X Col |-> M[p][e]]

LEMMA EntType ==
  ASSUME NEW M \in Matrix, NEW e \in Eq
  PROVE  /\ Entries(Ent(M, e), Row, Col)
         /\ \A i \in Row, j \in Col : Ent(M, e)[i, j] = M[i, j][e]
<1>1. ASSUME NEW i \in Row, NEW j \in Col
      PROVE  Ent(M, e)[i, j] = M[i, j][e] /\ M[i, j][e] \in GF
  <2>1. <<i, j>> \in Row \X Col
    OBVIOUS
  <2>2. M[<<i, j>>] \in Vec
    BY <2>1 DEF Matrix
  <2>3. M[<<i, j>>][e] \in GF
    BY <2>2 DEF Vec
  <2>4. Ent(M, e)[<<i, j>>] = M[<<i, j>>][e]
    BY <2>1 DEF Ent
  <2>5. QED
    BY <2>3, <2>4
<1>2. QED
  BY <1>1 DEF Entries

LEMMA TriEntries ==
  ASSUME NEW A \in Triangle, NEW e \in Eq
  PROVE  Entries(Tri(A, e), Row, Row)
BY TriType DEF Entries

(* The vinegar and the oil part of the variables.                          *)
VinegarPart(x) == [i \in Row |-> x[i]]
OilPart(x) == [j \in Col |-> x[V + j]]

LEMMA PartsType ==
  ASSUME NEW x \in [Variables -> GF]
  PROVE  Terms(VinegarPart(x), Row) /\ Terms(OilPart(x), Col)
<1>0. \A n \in Row : n \in Variables
  BY UovAssumption DEF Row, Variables
<1>1. \A n \in Col : V + n \in Variables
  BY UovAssumption DEF Col, Variables
<1>2. QED
  BY <1>0, <1>1 DEF Terms, VinegarPart, OilPart

LEMMA FirstForm ==
  ASSUME NEW P1 \in Triangle, NEW x \in [Variables -> GF], NEW e \in Eq
  PROVE  Sum(Scaled(Mono1(x), P1, Upper(V), e), Upper(V))
           = Dot(VinegarPart(x), Apply(Tri(P1, e), VinegarPart(x), Row, Row), Row)
<1> DEFINE T == Tri(P1, e)
           w == VinegarPart(x)
           f == FormTerms(T, w, w, Row, Row)
           g == Scaled(Mono1(x), P1, Upper(V), e)
<1>1. Terms(w, Row) /\ Entries(T, Row, Row)
  BY PartsType, TriEntries
<1>2. \A p \in Row \X Row : f[p] = GFMul(GFMul(w[p[1]], w[p[2]]), T[p])
  BY DEF FormTerms
<1>3. ASSUME NEW p \in Row \X Row
      PROVE  GFMul(w[p[1]], w[p[2]]) \in GF /\ T[p] \in GF
  <2>1. PICK i \in Row, k \in Row : p = <<i, k>>
    OBVIOUS
  <2>2. w[i] \in GF /\ w[k] \in GF
    BY <1>1 DEF Terms
  <2>3. T[i, k] \in GF
    BY <1>1 DEF Entries
  <2>4. p[1] = i /\ p[2] = k /\ T[p] = T[i, k]
    BY <2>1
  <2> HIDE DEF w, T
  <2>5. QED
    BY <2>2, <2>3, <2>4, MulType
<1>4. Terms(f, Row \X Row)
  BY <1>2, <1>3, MulType DEF Terms
<1>5. ASSUME NEW p \in Upper(V) PROVE f[p] = g[p]
  <2>1. p \in Row \X Row /\ p[1] <= p[2] /\ p[1] \in Row /\ p[2] \in Row
    BY DEF Upper, Row
  <2>2. T[p] = P1[p][e]
    BY <2>1 DEF Tri
  <2>3. g[p] = GFMul(Mono1(x)[p], P1[p][e])
    BY DEF Scaled
  <2>4. Mono1(x)[p] = GFMul(w[p[1]], w[p[2]])
    BY <2>1 DEF Mono1, VinegarPart
  <2>5. QED
    BY <1>2, <2>1, <2>2, <2>3, <2>4
<1>6. ASSUME NEW p \in (Row \X Row) \ Upper(V) PROVE f[p] = 0
  <2>1. T[p] = 0
    BY DEF Upper, Row, Tri
  <2>2. GFMul(w[p[1]], w[p[2]]) \in GF
    BY <1>3
  <2>3. QED
    BY <1>2, <2>1, <2>2, TimesZero
<1>7. Sum(f, Row \X Row) = Dot(w, Apply(T, w, Row, Row), Row)
  BY <1>1, Indices, FormSum
<1> DEFINE R == Row \X Row
           U == Upper(V)
<1>8. IsFiniteSet(R) /\ IsFiniteSet(U) /\ U \in SUBSET R
  BY PairsFinite
<1> HIDE DEF f, g, w, T, R, U
<1>9. Sum(f, R) = Sum(f, U)
  BY <1>4, <1>6, <1>8, SumRestrict DEF R, U
<1>10. Sum(f, U) = Sum(g, U)
  BY <1>5, <1>8, SumSame DEF U
<1>11. QED
  BY <1>7, <1>9, <1>10 DEF R, U, f, g, w, T

LEMMA SecondForm ==
  ASSUME NEW P2 \in Matrix, NEW x \in [Variables -> GF], NEW e \in Eq
  PROVE  Sum(Scaled(Mono2(x), P2, Row \X Col, e), Row \X Col)
           = Dot(VinegarPart(x), Apply(Ent(P2, e), OilPart(x), Row, Col), Row)
<1> DEFINE Q == Ent(P2, e)
           w == VinegarPart(x)
           o == OilPart(x)
           f == FormTerms(Q, w, o, Row, Col)
           g == Scaled(Mono2(x), P2, Row \X Col, e)
<1>1. Terms(w, Row) /\ Terms(o, Col) /\ Entries(Q, Row, Col)
  BY PartsType, EntType
<1>2. Sum(f, Row \X Col) = Dot(w, Apply(Q, o, Row, Col), Row)
  BY <1>1, Indices, FormSum
<1>3. \A p \in Row \X Col : f[p] = g[p]
  BY DEF FormTerms, Scaled, Mono2, Ent, VinegarPart, OilPart
<1>4. Sum(f, Row \X Col) = Sum(g, Row \X Col)
  <2> DEFINE R == Row \X Col
  <2>1. IsFiniteSet(R) /\ \A p \in R : f[p] = g[p]
    BY <1>3, PairsFinite
  <2> HIDE DEF R, f, g
  <2>2. Sum(f, R) = Sum(g, R)
    BY <2>1, SumSame
  <2>3. QED
    BY <2>2 DEF R
<1>5. QED
  BY <1>2, <1>4

(* Entries below the diagonal may be added to their mirror images.         *)
IsFolded(g, H) ==
  \A i, j \in Col : i <= j => g[i, j] = IF i = j THEN H[i, j] ELSE GFAdd(H[i, j], H[j, i])

UpperPart(H) == [p \in Col \X Col |-> IF p[1] <= p[2] THEN H[p[1], p[2]] ELSE 0]
LowerPart(H) == [p \in Col \X Col |-> IF p[1] <= p[2] THEN 0 ELSE H[p[1], p[2]]]
Mirrored(H) == [p \in Col \X Col |-> LowerPart(H)[p[2], p[1]]]

IsSplit(g, H, p) ==
  /\ UpperPart(H)[p] \in GF /\ LowerPart(H)[p] \in GF /\ Mirrored(H)[p] \in GF
  /\ H[p] = GFAdd(UpperPart(H)[p], LowerPart(H)[p])
  /\ p \in Upper(O) => g[p] = GFAdd(UpperPart(H)[p], Mirrored(H)[p])
  /\ p \notin Upper(O) => GFAdd(UpperPart(H)[p], Mirrored(H)[p]) = 0

LEMMA SplitEntry ==
  ASSUME NEW H, Entries(H, Col, Col), NEW g, IsFolded(g, H), NEW i \in Col, NEW j \in Col
  PROVE  IsSplit(g, H, <<i, j>>)
<1> DEFINE p == <<i, j>>
           a == H[i, j]
           b == H[j, i]
           u == UpperPart(H)[p]
           l == LowerPart(H)[p]
           m == Mirrored(H)[p]
           s == g[p]
<1>1. i \in Nat /\ j \in Nat
  BY UovAssumption DEF Col
<1>2. a \in GF /\ b \in GF
  BY DEF Entries
<1>3. p \in Upper(O) <=> i <= j
  BY DEF Upper, Col
<1>4. u = (IF i <= j THEN a ELSE 0) /\ l = (IF i <= j THEN 0 ELSE a)
  BY DEF UpperPart, LowerPart
<1>5. m = (IF j <= i THEN 0 ELSE b)
  <2>1. m = LowerPart(H)[j, i]
    BY DEF Mirrored
  <2>2. LowerPart(H)[<<j, i>>] = (IF j <= i THEN 0 ELSE b)
    BY DEF LowerPart
  <2>3. QED
    BY <2>1, <2>2
<1>6. i <= j => s = IF i = j THEN a ELSE GFAdd(a, b)
  BY DEF IsFolded
<1>7. H[p] = a
  OBVIOUS
<1> HIDE DEF p, a, b, u, l, m, s
<1>8. GFAdd(a, 0) = a /\ GFAdd(0, a) = a /\ GFAdd(0, 0) = 0 /\ 0 \in GF
  BY <1>2, Field
<1>9. CASE i < j
  <2>1. i <= j /\ ~(j <= i) /\ i # j
    BY <1>1, <1>9
  <2>2. u = a /\ l = 0 /\ m = b /\ s = GFAdd(a, b)
    BY <1>4, <1>5, <1>6, <2>1, Zenon
  <2>3. QED
    BY <1>2, <1>3, <1>7, <1>8, <2>1, <2>2, Zenon DEF IsSplit, u, l, m, s, p
<1>10. CASE i = j
  <2>1. i <= j /\ j <= i
    BY <1>1, <1>10
  <2>2. u = a /\ l = 0 /\ m = 0 /\ s = a
    BY <1>4, <1>5, <1>6, <1>10, <2>1, Zenon
  <2>3. QED
    BY <1>2, <1>3, <1>7, <1>8, <2>1, <2>2, Zenon DEF IsSplit, u, l, m, s, p
<1>11. CASE j < i
  <2>1. ~(i <= j) /\ j <= i
    BY <1>1, <1>11
  <2>2. u = 0 /\ l = a /\ m = 0
    BY <1>4, <1>5, <2>1, Zenon
  <2>3. QED
    BY <1>2, <1>3, <1>7, <1>8, <2>1, <2>2, Zenon DEF IsSplit, u, l, m, s, p
<1>12. QED
  BY <1>1, <1>9, <1>10, <1>11 DEF p

LEMMA Folded ==
  ASSUME NEW H, Entries(H, Col, Col), NEW g, IsFolded(g, H)
  PROVE  Sum(g, Upper(O)) = Sum(H, Col \X Col)
<1> DEFINE R == Col \X Col
           U == Upper(O)
           hU == UpperPart(H)
           hL == LowerPart(H)
           hM == Mirrored(H)
           G == [p \in R |-> GFAdd(hU[p], hM[p])]
<1>1. \A p \in R : IsSplit(g, H, p)
  BY SplitEntry
<1>2. \A p \in R : hU[p] \in GF /\ hL[p] \in GF /\ hM[p] \in GF
  BY <1>1 DEF IsSplit
<1>3. \A p \in R : H[p] = GFAdd(hU[p], hL[p])
  BY <1>1 DEF IsSplit
<1>4. \A p \in R : G[p] = GFAdd(hU[p], hM[p])
  OBVIOUS
<1>5. \A p \in R : p \in U => G[p] = g[p]
  BY <1>1 DEF IsSplit
<1>6. \A p \in R \ U : G[p] = 0
  BY <1>1 DEF IsSplit
<1>7. IsFiniteSet(R) /\ IsFiniteSet(U) /\ U \in SUBSET R
  BY PairsFinite
<1>8. Sum(hL, R) = Sum(hM, R)
  <2>1. Entries(hL, Col, Col) /\ Entries(hM, Col, Col)
    BY <1>2 DEF Entries
  <2>2. \A j \in Col : Stack(hL, Col, j) = Line(hM, j, Col)
    BY DEF Stack, Line, Mirrored
  <2>3. ByStacks(hL, Col, Col) = ByLines(hM, Col, Col)
    BY <2>2 DEF ByStacks, ByLines
  <2> HIDE DEF hL, hM
  <2>4. Sum(hL, Col \X Col) = Sum(ByLines(hL, Col, Col), Col)
    BY <2>1, Indices, SumPairs
  <2>5. Sum(hM, Col \X Col) = Sum(ByLines(hM, Col, Col), Col)
    BY <2>1, Indices, SumPairs
  <2>6. Sum(ByLines(hL, Col, Col), Col) = Sum(ByStacks(hL, Col, Col), Col)
    BY <2>1, Indices, SumExchange
  <2>7. QED
    BY <2>3, <2>4, <2>5, <2>6
<1> HIDE DEF R, U, hU, hL, hM, G
<1>9. Terms(hU, R) /\ Terms(hL, R) /\ Terms(hM, R)
  BY <1>2 DEF Terms
<1>10. Terms(G, R)
  BY <1>2, <1>4, AddType DEF Terms
<1>11. Sum(H, R) = GFAdd(Sum(hU, R), Sum(hL, R))
  BY <1>3, <1>7, <1>9, SumAdd
<1>12. Sum(G, R) = GFAdd(Sum(hU, R), Sum(hM, R))
  BY <1>4, <1>7, <1>9, SumAdd
<1>13. Sum(G, R) = Sum(G, U)
  BY <1>6, <1>7, <1>10, SumRestrict
<1>14. Sum(G, U) = Sum(g, U)
  <2>1. \A p \in U : G[p] = g[p]
    BY <1>5, <1>7
  <2>2. QED
    BY <1>7, <2>1, SumSame
<1>15. QED
  BY <1>8, <1>11, <1>12, <1>13, <1>14 DEF R, U

(* The upper triangle of the product of the transposed Om and of M.        *)
Gram(Om, M, e) == [p \in Col \X Col |-> Dot(Stack(Om, Row, p[1]), Stack(Ent(M, e), Row, p[2]), Row)]

LEMMA StacksType ==
  ASSUME NEW M \in Matrix, NEW Om \in Oil, NEW e \in Eq
  PROVE  /\ Entries(Om, Row, Col) /\ Entries(Ent(M, e), Row, Col)
         /\ \A j \in Col : Terms(Stack(Om, Row, j), Row) /\ Terms(Stack(Ent(M, e), Row, j), Row)
<1>1. Entries(Om, Row, Col)
  <2>1. ASSUME NEW i \in Row, NEW j \in Col PROVE Om[i, j] \in GF
    <3>1. Om[<<i, j>>] \in GF
      BY DEF Oil
    <3>2. QED
      BY <3>1
  <2>2. QED
    BY <2>1 DEF Entries
<1>2. Entries(Ent(M, e), Row, Col)
  BY EntType
<1>3. QED
  BY <1>1, <1>2 DEF Entries, Terms, Stack

LEMMA GramType ==
  ASSUME NEW M \in Matrix, NEW Om \in Oil, NEW e \in Eq
  PROVE  Entries(Gram(Om, M, e), Col, Col)
<1>1. ASSUME NEW i \in Col, NEW j \in Col PROVE Gram(Om, M, e)[i, j] \in GF
  <2>1. Dot(Stack(Om, Row, i), Stack(Ent(M, e), Row, j), Row) \in GF
    BY StacksType, Indices, DotType
  <2>2. Gram(Om, M, e)[<<i, j>>] = Dot(Stack(Om, Row, i), Stack(Ent(M, e), Row, j), Row)
    BY DEF Gram
  <2>3. QED
    BY <2>1, <2>2
<1>2. QED
  BY <1>1 DEF Entries

LEMMA GramEntry ==
  ASSUME NEW M \in Matrix, NEW Om \in Oil, NEW e \in Eq, NEW i \in Col, NEW j \in Col
  PROVE  gfmat_prod([k \in Row |-> M[k, j]], [k \in Row |-> Om[k, i]], Row)[e] = Gram(Om, M, e)[i, j]
<1> DEFINE A == [k \in Row |-> M[k, j]]
           b == [k \in Row |-> Om[k, i]]
           f == [k \in Row |-> VScale(b[k], A[k])]
           s == Stack(Om, Row, i)
           t == Stack(Ent(M, e), Row, j)
           g == [k \in Row |-> GFMul(s[k], t[k])]
<1>1. gfmat_prod(A, b, Row) = VTotal(f, Row)
  BY Indices, ProdIsTotal
<1>2. VTotal(f, Row)[e] = Sum(At(f, Row, e), Row)
  BY DEF VTotal
<1>3. \A k \in Row : At(f, Row, e)[k] = g[k]
  <2>1. SUFFICES ASSUME NEW k \in Row PROVE At(f, Row, e)[k] = g[k]
    OBVIOUS
  <2>2. At(f, Row, e)[k] = GFMul(Om[k, i], M[k, j][e])
    BY DEF At, VScale
  <2>3. Ent(M, e)[k, j] = M[k, j][e]
    BY EntType
  <2>4. QED
    BY <2>2, <2>3 DEF Stack
<1>4. Gram(Om, M, e)[<<i, j>>] = Dot(s, t, Row)
  BY DEF Gram
<1>5. Dot(s, t, Row) = Sum(g, Row)
  BY DEF Dot
<1> HIDE DEF f, g, s, t
<1>6. Sum(At(f, Row, e), Row) = Sum(g, Row)
  BY <1>3, Indices, SumSame
<1>7. QED
  BY <1>1, <1>2, <1>4, <1>5, <1>6

IsUpperEntry(c, G, i, j) == c = IF i = j THEN G[i, j] ELSE GFAdd(G[i, j], G[j, i])

LEMMA UpperProductEntry ==
  ASSUME NEW M \in Matrix, NEW Om \in Oil, NEW e \in Eq, NEW i \in Col, NEW j \in Col, i <= j
  PROVE  IsUpperEntry(batch_upper_matTr_x_mat(Om, M)[<<i, j>>][e], Gram(Om, M, e), i, j)
<1> DEFINE entry(a, b) == gfmat_prod([k \in Row |-> M[k, b]], [k \in Row |-> Om[k, a]], Row)
<1>1. <<i, j>> \in Upper(O)
  BY DEF Upper, Col
<1>2. batch_upper_matTr_x_mat(Om, M)[<<i, j>>] = IF i = j THEN entry(i, i) ELSE VAdd(entry(i, j), entry(j, i))
  BY <1>1 DEF batch_upper_matTr_x_mat
<1>3. entry(i, j)[e] = Gram(Om, M, e)[i, j] /\ entry(j, i)[e] = Gram(Om, M, e)[j, i]
  BY GramEntry
<1> HIDE DEF entry
<1>4. QED
  BY <1>2, <1>3 DEF VAdd, IsUpperEntry

LEMMA ThirdFolded ==
  ASSUME NEW M \in Matrix, NEW Om \in Oil, NEW e \in Eq, NEW x \in [Variables -> GF]
  PROVE  IsFolded(Scaled(Mono3(x), batch_upper_matTr_x_mat(Om, M), Upper(O), e),
                  FormTerms(Gram(Om, M, e), OilPart(x), OilPart(x), Col, Col))
<1> DEFINE E == Gram(Om, M, e)
           o == OilPart(x)
           H == FormTerms(E, o, o, Col, Col)
           P == batch_upper_matTr_x_mat(Om, M)
           g == Scaled(Mono3(x), P, Upper(O), e)
<1>1. Entries(E, Col, Col) /\ Terms(o, Col)
  BY GramType, PartsType
<1>2. \A i, j \in Col : IsFormTerm(H[i, j], E, o, o, i, j)
  <2> HIDE DEF E, o
  <2>1. QED
    BY <1>1, FormTermsAre
<1>3. ASSUME NEW i \in Col, NEW j \in Col, i <= j
      PROVE  g[i, j] = IF i = j THEN H[i, j] ELSE GFAdd(H[i, j], H[j, i])
  <2> DEFINE a == E[i, j]
             b == E[j, i]
             m == GFMul(o[i], o[j])
             p == P[<<i, j>>][e]
  <2>1. <<i, j>> \in Upper(O)
    BY <1>3 DEF Upper, Col
  <2>2. g[<<i, j>>] = GFMul(Mono3(x)[<<i, j>>], p)
    BY <2>1 DEF Scaled
  <2>3. Mono3(x)[<<i, j>>] = m
    BY <2>1 DEF Mono3, OilPart
  <2>4. p = IF i = j THEN a ELSE GFAdd(a, b)
    <3>1. IsUpperEntry(p, E, i, j)
      BY <1>3, UpperProductEntry
    <3>2. QED
      BY <3>1 DEF IsUpperEntry
  <2>5. H[i, j] = GFMul(m, a) /\ H[j, i] = GFMul(GFMul(o[j], o[i]), b)
    BY <1>2 DEF IsFormTerm
  <2>6. o[i] \in GF /\ o[j] \in GF /\ a \in GF /\ b \in GF
    BY <1>1 DEF Terms, Entries
  <2>7. GFMul(o[j], o[i]) = m /\ m \in GF
    BY <2>6, MulSwap, MulType
  <2> HIDE DEF E, o, H, g, a, b, m, p
  <2>8. GFMul(m, GFAdd(a, b)) = GFAdd(GFMul(m, a), GFMul(m, b))
    BY <2>6, <2>7, Distributes
  <2>9. g[i, j] = GFMul(m, p)
    BY <2>2, <2>3
  <2>10. CASE i = j
    BY <2>4, <2>5, <2>9, <2>10
  <2>11. CASE i # j
    BY <2>4, <2>5, <2>7, <2>8, <2>9, <2>11
  <2>12. QED
    BY <2>10, <2>11
<1> HIDE DEF g, H
<1>4. IsFolded(g, H)
  BY <1>3 DEF IsFolded
<1>5. QED
  BY <1>4 DEF g, H

LEMMA ThirdForm ==
  ASSUME NEW M \in Matrix, NEW Om \in Oil, NEW e \in Eq, NEW x \in [Variables -> GF]
  PROVE  Sum(Scaled(Mono3(x), batch_upper_matTr_x_mat(Om, M), Upper(O), e), Upper(O))
           = Dot(Apply(Om, OilPart(x), Row, Col), Apply(Ent(M, e), OilPart(x), Row, Col), Row)
<1> DEFINE E == Gram(Om, M, e)
           F == Ent(M, e)
           o == OilPart(x)
           H == FormTerms(E, o, o, Col, Col)
           g == Scaled(Mono3(x), batch_upper_matTr_x_mat(Om, M), Upper(O), e)
           s == Apply(F, o, Row, Col)
           u == Apply(Om, o, Row, Col)
           h == [j \in Col |-> Dot(s, Stack(Om, Row, j), Row)]
<1>1. /\ Entries(E, Col, Col) /\ Terms(o, Col) /\ Entries(Om, Row, Col) /\ Entries(F, Row, Col)
      /\ \A j \in Col : Terms(Stack(Om, Row, j), Row)
  BY GramType, PartsType, StacksType
<1>2. IsFolded(g, H)
  BY ThirdFolded
<1>3. Terms(s, Row) /\ Terms(u, Row)
  <2> HIDE DEF F, o
  <2>1. QED
    BY <1>1, Indices, ApplyType
<1>4. ASSUME NEW i \in Col PROVE Apply(E, o, Col, Col)[i] = h[i]
  <2> DEFINE a == Stack(Om, Row, i)
             l == Line(E, i, Col)
             c == [j \in Col |-> Dot(a, Stack(F, Row, j), Row)]
  <2>1. \A j \in Col : l[j] = c[j]
    <3>1. ASSUME NEW j \in Col PROVE l[j] = c[j]
      <4>1. E[<<i, j>>] = Dot(a, Stack(F, Row, j), Row)
        BY DEF Gram
      <4>2. QED
        BY <4>1 DEF Line
    <3>2. QED
      BY <3>1
  <2>2. Apply(E, o, Col, Col)[i] = Dot(o, l, Col)
    BY DEF Apply
  <2>3. Terms(a, Row)
    BY <1>1
  <2>4. h[i] = Dot(s, a, Row)
    OBVIOUS
  <2> HIDE DEF E, F, o, a, l, h
  <2>5. Dot(o, l, Col) = Dot(o, c, Col)
    BY <2>1, DotSame
  <2>6. Dot(o, c, Col) = Dot(a, s, Row)
    BY <1>1, <2>3, Indices, Through
  <2>7. Dot(a, s, Row) = Dot(s, a, Row)
    BY <1>3, <2>3, Indices, DotSwap
  <2>8. QED
    BY <2>2, <2>4, <2>5, <2>6, <2>7
<1> HIDE DEF E, F, o
<1>5. Entries(H, Col, Col)
  <2>1. \A i, j \in Col : IsFormTerm(H[i, j], E, o, o, i, j)
    BY <1>1, FormTermsAre
  <2>2. QED
    BY <2>1 DEF IsFormTerm, Entries
<1>6. Sum(H, Col \X Col) = Dot(o, Apply(E, o, Col, Col), Col)
  BY <1>1, Indices, FormSum
<1> HIDE DEF H, g
<1>7. Sum(g, Upper(O)) = Sum(H, Col \X Col)
  BY <1>2, <1>5, Folded
<1>8. Dot(o, Apply(E, o, Col, Col), Col) = Dot(o, h, Col)
  <2> HIDE DEF h
  <2>1. QED
    BY <1>4, DotSame
<1>9. Dot(o, h, Col) = Dot(s, u, Row)
  <2> HIDE DEF s
  <2>1. QED
    BY <1>1, <1>3, Indices, Through
<1>10. Dot(s, u, Row) = Dot(u, s, Row)
  <2> HIDE DEF s, u
  <2>1. QED
    BY <1>3, Indices, DotSwap
<1>11. QED
  BY <1>6, <1>7, <1>8, <1>9, <1>10 DEF g, o, F

-----------------------------------------------------------------------------
(* The matrices of the code, applied to values of the oil variables.       *)

LEMMA ProdType ==
  ASSUME NEW S, IsFiniteSet(S), NEW A, \A k \in S : A[k] \in Vec, NEW b, Terms(b, S)
  PROVE  gfmat_prod(A, b, S) \in Vec
<1> DEFINE f == [k \in S |-> VScale(b[k], A[k])]
<1>1. gfmat_prod(A, b, S) = VTotal(f, S)
  BY ProdIsTotal
<1>2. ASSUME NEW e \in Eq PROVE Terms(At(f, S, e), S)
  <2>1. \A k \in S : A[k][e] \in GF /\ b[k] \in GF
    BY DEF Vec, Terms
  <2>2. \A k \in S : At(f, S, e)[k] = GFMul(b[k], A[k][e])
    BY DEF At, VScale
  <2> HIDE DEF f
  <2>3. QED
    BY <2>1, <2>2, MulType DEF Terms
<1> HIDE DEF f
<1>3. \A e \in Eq : Sum(At(f, S, e), S) \in GF
  BY <1>2, SumType
<1>4. QED
  BY <1>1, <1>3 DEF VTotal, Vec

LEMMA VAddType == ASSUME NEW a \in Vec, NEW b \in Vec PROVE VAdd(a, b) \in Vec
<1>1. \A e \in Eq : GFAdd(a[e], b[e]) \in GF
  BY AddType DEF Vec
<1>2. QED
  BY <1>1 DEF VAdd, Vec

LEMMA OilEntry == ASSUME NEW Om \in Oil, NEW i \in Row, NEW j \in Col PROVE Om[i, j] \in GF
<1>1. Om[<<i, j>>] \in GF
  BY DEF Oil
<1>2. QED
  BY <1>1

LEMMA MatrixEntry == ASSUME NEW M \in Matrix, NEW i \in Row, NEW j \in Col PROVE M[i, j] \in Vec
<1>1. M[<<i, j>>] \in Vec
  BY DEF Matrix
<1>2. QED
  BY <1>1

LEMMA TriangleEntry ==
  ASSUME NEW A \in Triangle, NEW i \in Row, NEW k \in Row, i <= k
  PROVE  A[i, k] \in Vec
<1>1. <<i, k>> \in Upper(V)
  BY DEF Upper, Row
<1>2. A[<<i, k>>] \in Vec
  BY <1>1 DEF Triangle
<1>3. QED
  BY <1>2

LEMMA TrimatType ==
  ASSUME NEW P1 \in Triangle, NEW P2 \in Matrix, NEW Om \in Oil
  PROVE  batch_trimat_madd(P2, P1, Om) \in Matrix
<1>1. ASSUME NEW i \in Row, NEW j \in Col
      PROVE  batch_trimat_madd(P2, P1, Om)[<<i, j>>] \in Vec
  <2> DEFINE S == i .. V-1
             a == [k \in S |-> P1[i, k]]
             b == [k \in Row |-> Om[k, j]]
             c == gfmat_prod(a, b, S)
  <2>1. IsFiniteSet(S) /\ \A k \in S : k \in Row /\ i <= k
    BY UovAssumption, FS_Interval DEF Row
  <2>2. (\A k \in S : a[k] \in Vec) /\ Terms(b, S)
    BY <2>1, OilEntry, TriangleEntry DEF Terms
  <2>3. batch_trimat_madd(P2, P1, Om)[<<i, j>>] = VAdd(P2[<<i, j>>], c)
    BY DEF batch_trimat_madd
  <2>4. P2[<<i, j>>] \in Vec
    BY DEF Matrix
  <2> HIDE DEF S, a, b
  <2>5. c \in Vec
    BY <2>1, <2>2, ProdType
  <2> HIDE DEF c
  <2>6. QED
    BY <2>3, <2>4, <2>5, VAddType
<1> DEFINE m == batch_trimat_madd(P2, P1, Om)
<1>2. m = [p \in Row \X Col |-> m[p]]
  BY DEF batch_trimat_madd
<1>3. \A p \in Row \X Col : m[p] \in Vec
  BY <1>1
<1> HIDE DEF m
<1>4. m \in Matrix
  BY <1>2, <1>3 DEF Matrix
<1>5. QED
  BY <1>4 DEF m

LEMMA TwiceTrimatType ==
  ASSUME NEW P1 \in Triangle, NEW P2 \in Matrix, NEW Om \in Oil
  PROVE  batch_2trimat_madd(P2, P1, Om) \in Matrix
<1>1. ASSUME NEW i \in Row, NEW j \in Col
      PROVE  batch_2trimat_madd(P2, P1, Om)[<<i, j>>] \in Vec
  <2> DEFINE a == [k \in Row |-> IF k < i THEN P1[k, i] ELSE IF k = i THEN VZero ELSE P1[i, k]]
             b == [k \in Row |-> Om[k, j]]
             c == gfmat_prod(a, b, Row)
  <2>1. Terms(b, Row)
    BY OilEntry DEF Terms
  <2>2. ASSUME NEW k \in Row PROVE a[k] \in Vec
    <3> DEFINE ak == a[k]
    <3>1. ak = IF k < i THEN P1[k, i] ELSE IF k = i THEN VZero ELSE P1[i, k]
      OBVIOUS
    <3>2. VZero \in Vec
      BY Field DEF VZero, Vec
    <3>3. i \in Nat /\ k \in Nat
      BY Indices
    <3> HIDE DEF ak
    <3>4. CASE k < i
      <4>1. k <= i
        BY <3>3, <3>4
      <4>2. P1[k, i] \in Vec
        BY <4>1, TriangleEntry
      <4>3. QED
        BY <3>1, <3>4, <4>2 DEF ak
    <3>5. CASE k = i
      <4>1. ~(k < i)
        BY <3>3, <3>5
      <4>2. QED
        BY <3>1, <3>2, <3>5, <4>1 DEF ak
    <3>6. CASE i < k
      <4>1. i <= k /\ ~(k < i) /\ k # i
        BY <3>3, <3>6
      <4>2. P1[i, k] \in Vec
        BY <4>1, TriangleEntry
      <4>3. QED
        BY <3>1, <4>1, <4>2 DEF ak
    <3>7. k < i \/ k = i \/ i < k
      BY <3>3
    <3>8. QED
      BY <3>4, <3>5, <3>6, <3>7, Zenon
  <2>3. batch_2trimat_madd(P2, P1, Om)[<<i, j>>] = VAdd(P2[<<i, j>>], c)
    BY DEF batch_2trimat_madd
  <2>4. P2[<<i, j>>] \in Vec
    BY DEF Matrix
  <2> HIDE DEF a, b
  <2>5. c \in Vec
    BY <2>1, <2>2, Indices, ProdType
  <2> HIDE DEF c
  <2>6. QED
    BY <2>3, <2>4, <2>5, VAddType
<1> DEFINE m == batch_2trimat_madd(P2, P1, Om)
<1>2. m = [p \in Row \X Col |-> m[p]]
  BY DEF batch_2trimat_madd
<1>3. \A p \in Row \X Col : m[p] \in Vec
  BY <1>1
<1> HIDE DEF m
<1>4. m \in Matrix
  BY <1>2, <1>3 DEF Matrix
<1>5. QED
  BY <1>4 DEF m

(* The oil variables, through Om, as what they add to the vinegar ones.    *)
LEMMA OilThrough ==
  ASSUME NEW Om \in Oil, NEW o, Terms(o, Col), NEW c, Terms(c, Row)
  PROVE  Dot(o, [j \in Col |-> Dot(Stack(Om, Row, j), c, Row)], Col) = Dot(Apply(Om, o, Row, Col), c, Row)
<1> DEFINE u == Apply(Om, o, Row, Col)
           g == [j \in Col |-> Dot(Stack(Om, Row, j), c, Row)]
           h == [j \in Col |-> Dot(c, Stack(Om, Row, j), Row)]
<1>1. Entries(Om, Row, Col) /\ \A j \in Col : Terms(Stack(Om, Row, j), Row)
  BY OilEntry DEF Entries, Terms, Stack
<1>2. \A j \in Col : g[j] = h[j]
  <2>1. ASSUME NEW j \in Col PROVE g[j] = h[j]
    <3> DEFINE s == Stack(Om, Row, j)
    <3>1. g[j] = Dot(s, c, Row) /\ h[j] = Dot(c, s, Row) /\ Terms(s, Row)
      BY <1>1
    <3> HIDE DEF s, g, h
    <3>2. Dot(s, c, Row) = Dot(c, s, Row)
      BY <3>1, Indices, DotSwap
    <3>3. QED
      BY <3>1, <3>2
  <2>2. QED
    BY <2>1
<1>3. Dot(o, h, Col) = Dot(c, u, Row)
  BY <1>1, Indices, Through
<1>4. Terms(u, Row)
  BY <1>1, Indices, ApplyType
<1> HIDE DEF u, g, h
<1>5. Dot(o, g, Col) = Dot(o, h, Col)
  BY <1>2, DotSame
<1>6. Dot(c, u, Row) = Dot(u, c, Row)
  BY <1>4, Indices, DotSwap
<1>7. QED
  BY <1>3, <1>5, <1>6 DEF u, g

LEMMA UpIsDot ==
  ASSUME NEW P1 \in Triangle, NEW Om \in Oil, NEW i \in Row, NEW j \in Col, NEW e \in Eq
  PROVE  /\ Sum(UpTerms(P1, Om, i, j, e), Row) = Dot(Stack(Om, Row, j), Line(Tri(P1, e), i, Row), Row)
         /\ Sum(DownTerms(P1, Om, i, j, e), Row) = Dot(Stack(Om, Row, j), Stack(Tri(P1, e), Row, i), Row)
<1> DEFINE T == Tri(P1, e)
<1>1. UpTerms(P1, Om, i, j, e) = [k \in Row |-> GFMul(Stack(Om, Row, j)[k], Line(T, i, Row)[k])]
  BY DEF UpTerms, Stack, Line
<1>2. DownTerms(P1, Om, i, j, e) = [k \in Row |-> GFMul(Stack(Om, Row, j)[k], Stack(T, Row, i)[k])]
  BY DEF DownTerms, Stack
<1>3. QED
  BY <1>1, <1>2 DEF Dot

LEMMA UpperApplied ==
  ASSUME NEW P1 \in Triangle, NEW P2 \in Matrix, NEW Om \in Oil, NEW o, Terms(o, Col),
         NEW e \in Eq, NEW i \in Row
  PROVE  Apply(Ent(batch_trimat_madd(P2, P1, Om), e), o, Row, Col)[i]
           = GFAdd(Apply(Ent(P2, e), o, Row, Col)[i],
                   Apply(Tri(P1, e), Apply(Om, o, Row, Col), Row, Row)[i])
<1> DEFINE M == batch_trimat_madd(P2, P1, Om)
           F == Ent(M, e)
           Q == Ent(P2, e)
           T == Tri(P1, e)
           u == Apply(Om, o, Row, Col)
           t == Line(T, i, Row)
           q == Line(Q, i, Col)
           d == Line(F, i, Col)
           c == [j \in Col |-> Dot(Stack(Om, Row, j), t, Row)]
<1>1. M \in Matrix
  BY TrimatType
<1>2. Terms(t, Row)
  BY TriType DEF Terms, Line
<1>3. Terms(q, Col)
  BY EntType DEF Terms, Line, Entries
<1>4. Terms(c, Col)
  <2>1. ASSUME NEW j \in Col PROVE Terms(Stack(Om, Row, j), Row)
    BY OilEntry DEF Terms, Stack
  <2> HIDE DEF t
  <2>2. \A j \in Col : Dot(Stack(Om, Row, j), t, Row) \in GF
    BY <1>2, <2>1, Indices, DotType
  <2>3. QED
    BY <2>2 DEF Terms
<1>5. \A j \in Col : d[j] = GFAdd(q[j], c[j])
  <2>1. ASSUME NEW j \in Col PROVE d[j] = GFAdd(q[j], c[j])
    <3>1. F[i, j] = M[i, j][e] /\ Q[i, j] = P2[i, j][e]
      BY <1>1, EntType
    <3>2. M[i, j][e] = GFAdd(P2[i, j][e], Sum(UpTerms(P1, Om, i, j, e), Row))
      BY TrimatEntry
    <3>3. Sum(UpTerms(P1, Om, i, j, e), Row) = c[j]
      BY UpIsDot
    <3> HIDE DEF M, c
    <3>4. QED
      BY <3>1, <3>2, <3>3 DEF Line
  <2>2. QED
    BY <2>1
<1>6. /\ Apply(F, o, Row, Col)[i] = Dot(o, d, Col) /\ Apply(Q, o, Row, Col)[i] = Dot(o, q, Col)
      /\ Apply(T, u, Row, Row)[i] = Dot(u, t, Row)
  BY DEF Apply
<1>7. Dot(o, c, Col) = Dot(u, t, Row)
  <2> HIDE DEF t
  <2>1. QED
    BY <1>2, OilThrough
<1> HIDE DEF M, F, Q, T, u, t, q, d, c
<1>8. Dot(o, d, Col) = GFAdd(Dot(o, q, Col), Dot(o, c, Col))
  BY <1>3, <1>4, <1>5, Indices, DotAdd
<1>9. QED
  BY <1>6, <1>7, <1>8 DEF M, F, Q, T, u

LEMMA SecretApplied ==
  ASSUME NEW P1 \in Triangle, NEW P2 \in Matrix, NEW Om \in Oil, NEW o, Terms(o, Col),
         NEW e \in Eq, NEW i \in Row
  PROVE  Apply(Ent(batch_2trimat_madd(P2, P1, Om), e), o, Row, Col)[i]
           = GFAdd(Apply(Ent(P2, e), o, Row, Col)[i],
                   GFAdd(Apply(Tri(P1, e), Apply(Om, o, Row, Col), Row, Row)[i],
                         Dot(Apply(Om, o, Row, Col), Stack(Tri(P1, e), Row, i), Row)))
<1> DEFINE M == batch_2trimat_madd(P2, P1, Om)
           F == Ent(M, e)
           Q == Ent(P2, e)
           T == Tri(P1, e)
           u == Apply(Om, o, Row, Col)
           t == Line(T, i, Row)
           s == Stack(T, Row, i)
           q == Line(Q, i, Col)
           d == Line(F, i, Col)
           c == [j \in Col |-> Dot(Stack(Om, Row, j), t, Row)]
           b == [j \in Col |-> Dot(Stack(Om, Row, j), s, Row)]
           a == [j \in Col |-> GFAdd(c[j], b[j])]
<1>1. M \in Matrix
  BY TwiceTrimatType
<1>2. Terms(t, Row) /\ Terms(s, Row)
  BY TriType DEF Terms, Line, Stack
<1>3. Terms(q, Col)
  BY EntType DEF Terms, Line, Entries
<1>4. Terms(c, Col) /\ Terms(b, Col)
  <2>1. ASSUME NEW j \in Col PROVE Terms(Stack(Om, Row, j), Row)
    BY OilEntry DEF Terms, Stack
  <2> HIDE DEF t, s
  <2>2. \A j \in Col : Dot(Stack(Om, Row, j), t, Row) \in GF
    BY <1>2, <2>1, Indices, DotType
  <2>3. \A j \in Col : Dot(Stack(Om, Row, j), s, Row) \in GF
    BY <1>2, <2>1, Indices, DotType
  <2>4. QED
    BY <2>2, <2>3 DEF Terms
<1>5. \A j \in Col : d[j] = GFAdd(q[j], a[j])
  <2>1. ASSUME NEW j \in Col PROVE d[j] = GFAdd(q[j], GFAdd(c[j], b[j]))
    <3>1. F[i, j] = M[i, j][e] /\ Q[i, j] = P2[i, j][e]
      BY <1>1, EntType
    <3>2. M[i, j][e] = GFAdd(P2[i, j][e], GFAdd(Sum(UpTerms(P1, Om, i, j, e), Row),
                                                Sum(DownTerms(P1, Om, i, j, e), Row)))
      BY TwiceTrimatEntry
    <3>3. Sum(UpTerms(P1, Om, i, j, e), Row) = c[j] /\ Sum(DownTerms(P1, Om, i, j, e), Row) = b[j]
      BY UpIsDot
    <3> HIDE DEF M, c, b
    <3>4. QED
      BY <3>1, <3>2, <3>3 DEF Line
  <2>2. QED
    BY <2>1
<1>6. /\ Apply(F, o, Row, Col)[i] = Dot(o, d, Col) /\ Apply(Q, o, Row, Col)[i] = Dot(o, q, Col)
      /\ Apply(T, u, Row, Row)[i] = Dot(u, t, Row)
  BY DEF Apply
<1>7. Dot(o, c, Col) = Dot(u, t, Row) /\ Dot(o, b, Col) = Dot(u, s, Row)
  <2> HIDE DEF t, s
  <2>1. QED
    BY <1>2, OilThrough
<1>8. Terms(a, Col)
  <2> HIDE DEF c, b
  <2>1. QED
    BY <1>4, AddType DEF Terms
<1>9. \A j \in Col : a[j] = GFAdd(c[j], b[j])
  OBVIOUS
<1> HIDE DEF M, F, Q, T, u, t, s, q, d, c, b, a
<1>10. Dot(o, d, Col) = GFAdd(Dot(o, q, Col), Dot(o, a, Col))
  BY <1>3, <1>5, <1>8, Indices, DotAdd
<1>11. Dot(o, a, Col) = GFAdd(Dot(o, c, Col), Dot(o, b, Col))
  BY <1>4, <1>9, Indices, DotAdd
<1>12. QED
  BY <1>6, <1>7, <1>10, <1>11 DEF M, F, Q, T, u, s

(* The system of the oil variables, all of it on the left.                 *)
LEMMA SecretForm ==
  ASSUME NEW P1 \in Triangle, NEW P2 \in Matrix, NEW Om \in Oil, NEW o, Terms(o, Col),
         NEW v, Terms(v, Row), NEW e \in Eq
  PROVE  Dot(v, Apply(Ent(batch_2trimat_madd(P2, P1, Om), e), o, Row, Col), Row)
           = GFAdd(Dot(v, Apply(Ent(P2, e), o, Row, Col), Row),
                   GFAdd(Dot(v, Apply(Tri(P1, e), Apply(Om, o, Row, Col), Row, Row), Row),
                         Dot(Apply(Om, o, Row, Col), Apply(Tri(P1, e), v, Row, Row), Row)))
<1> DEFINE F == Ent(batch_2trimat_madd(P2, P1, Om), e)
           T == Tri(P1, e)
           u == Apply(Om, o, Row, Col)
           f == Apply(F, o, Row, Col)
           q == Apply(Ent(P2, e), o, Row, Col)
           t == Apply(T, u, Row, Row)
           s == [i \in Row |-> Dot(u, Stack(T, Row, i), Row)]
           a == [i \in Row |-> GFAdd(t[i], s[i])]
<1>1. Entries(T, Row, Row) /\ Entries(Ent(P2, e), Row, Col) /\ Entries(Om, Row, Col)
  BY TriEntries, StacksType
<1>2. Terms(u, Row)
  BY <1>1, Indices, ApplyType
<1>3. Terms(q, Row)
  BY <1>1, Indices, ApplyType
<1>4. Terms(t, Row)
  <2> HIDE DEF T, u
  <2>1. QED
    BY <1>1, <1>2, Indices, ApplyType
<1>5. Terms(s, Row)
  <2>1. \A i \in Row : Terms(Stack(T, Row, i), Row)
    BY TriType DEF Terms, Stack
  <2> HIDE DEF T, u
  <2>2. \A i \in Row : Dot(u, Stack(T, Row, i), Row) \in GF
    BY <1>2, <2>1, Indices, DotType
  <2>3. QED
    BY <2>2 DEF Terms
<1>6. \A i \in Row : f[i] = GFAdd(q[i], a[i])
  BY SecretApplied
<1>7. \A i \in Row : a[i] = GFAdd(t[i], s[i])
  OBVIOUS
<1>8. Dot(v, s, Row) = Dot(u, Apply(T, v, Row, Row), Row)
  <2> HIDE DEF T, u
  <2>1. QED
    BY <1>1, <1>2, Indices, Through
<1> HIDE DEF f, q, t, s
<1>9. Terms(a, Row)
  BY <1>4, <1>5, AddType DEF Terms
<1> HIDE DEF a
<1>10. Dot(v, f, Row) = GFAdd(Dot(v, q, Row), Dot(v, a, Row))
  BY <1>3, <1>6, <1>9, Indices, DotAdd
<1>11. Dot(v, a, Row) = GFAdd(Dot(v, t, Row), Dot(v, s, Row))
  BY <1>4, <1>5, <1>7, Indices, DotAdd
<1>12. QED
  BY <1>8, <1>10, <1>11 DEF f, q, t

-----------------------------------------------------------------------------
(* What the public map is on a signature: a constant and a linear form in  *)
(* the oil variables, the ones that the signer solves for.                 *)

LEMMA DotAddLeft ==
  ASSUME NEW A, IsFiniteSet(A), NEW a, Terms(a, A), NEW b, Terms(b, A), NEW c, Terms(c, A),
         NEW d, \A i \in A : d[i] = GFAdd(b[i], c[i])
  PROVE  Dot(d, a, A) = GFAdd(Dot(b, a, A), Dot(c, a, A))
<1>1. Terms(d, A)
  BY AddType DEF Terms
<1>2. Dot(a, d, A) = GFAdd(Dot(a, b, A), Dot(a, c, A))
  BY DotAdd
<1>3. Dot(d, a, A) = Dot(a, d, A)
  BY <1>1, DotSwap
<1>4. Dot(b, a, A) = Dot(a, b, A)
  BY DotSwap
<1>5. Dot(c, a, A) = Dot(a, c, A)
  BY DotSwap
<1>6. QED
  BY <1>2, <1>3, <1>4, <1>5

LEMMA Cancel ==
  ASSUME NEW a \in GF, NEW b \in GF, NEW c \in GF, NEW d \in GF, NEW f \in GF, NEW g \in GF
  PROVE  GFAdd(GFAdd(GFAdd(a, b), GFAdd(c, d)), GFAdd(GFAdd(f, g), GFAdd(g, d)))
           = GFAdd(a, GFAdd(f, GFAdd(b, c)))
<1> DEFINE x == GFAdd(GFAdd(a, b), c)
<1>1. GFAdd(GFAdd(f, g), GFAdd(g, d)) = GFAdd(f, d)
  <2>1. GFAdd(GFAdd(f, g), GFAdd(g, d)) = GFAdd(f, GFAdd(g, GFAdd(g, d)))
    BY AddType, AddGroup
  <2>2. GFAdd(g, GFAdd(g, d)) = d
    BY AddTwice
  <2>3. QED
    BY <2>1, <2>2
<1>2. GFAdd(GFAdd(a, b), GFAdd(c, d)) = GFAdd(x, d)
  BY AddType, AddGroup
<1>3. x = GFAdd(a, GFAdd(b, c)) /\ x \in GF
  BY AddType, AddGroup
<1>4. GFAdd(a, GFAdd(f, GFAdd(b, c))) = GFAdd(x, f)
  <2>1. GFAdd(b, c) \in GF
    BY AddType
  <2>2. GFAdd(f, GFAdd(b, c)) = GFAdd(GFAdd(b, c), f)
    BY <2>1, AddSwap
  <2>3. GFAdd(a, GFAdd(GFAdd(b, c), f)) = GFAdd(GFAdd(a, GFAdd(b, c)), f)
    BY <2>1, AddGroup
  <2>4. QED
    BY <1>3, <2>2, <2>3
<1> HIDE DEF x
<1>5. GFAdd(GFAdd(x, d), GFAdd(f, d)) = GFAdd(GFAdd(x, f), GFAdd(d, d))
  BY <1>3, AddFour
<1>6. GFAdd(GFAdd(x, f), GFAdd(d, d)) = GFAdd(x, f)
  <2>1. GFAdd(x, f) \in GF
    BY <1>3, AddType
  <2>2. GFAdd(d, d) = 0 /\ GFAdd(GFAdd(x, f), 0) = GFAdd(x, f)
    BY <2>1, Field
  <2>3. QED
    BY <2>2
<1>7. QED
  BY <1>1, <1>2, <1>4, <1>5, <1>6

(* The forms of the public map, of values w = v + u.                       *)
LEMMA FormOfSum ==
  ASSUME NEW T, Entries(T, Row, Row), NEW v, Terms(v, Row), NEW u, Terms(u, Row),
         NEW w, \A i \in Row : w[i] = GFAdd(v[i], u[i])
  PROVE  Dot(w, Apply(T, w, Row, Row), Row)
           = GFAdd(GFAdd(Dot(v, Apply(T, v, Row, Row), Row), Dot(v, Apply(T, u, Row, Row), Row)),
                   GFAdd(Dot(u, Apply(T, v, Row, Row), Row), Dot(u, Apply(T, u, Row, Row), Row)))
<1> DEFINE a == Apply(T, v, Row, Row)
           b == Apply(T, u, Row, Row)
           c == Apply(T, w, Row, Row)
<1>1. Terms(w, Row)
  BY AddType DEF Terms
<1>2. Terms(a, Row) /\ Terms(b, Row) /\ Terms(c, Row)
  <2>1. Terms(a, Row)
    BY Indices, ApplyType
  <2>2. Terms(b, Row)
    BY Indices, ApplyType
  <2>3. Terms(c, Row)
    BY <1>1, Indices, ApplyType
  <2>4. QED
    BY <2>1, <2>2, <2>3
<1>3. ASSUME NEW i \in Row PROVE c[i] = GFAdd(a[i], b[i])
  <2> DEFINE t == Line(T, i, Row)
  <2>1. Terms(t, Row)
    BY DEF Terms, Line, Entries
  <2>2. a[i] = Dot(v, t, Row) /\ b[i] = Dot(u, t, Row) /\ c[i] = Dot(w, t, Row)
    BY DEF Apply
  <2> HIDE DEF t, a, b, c
  <2>3. Dot(w, t, Row) = GFAdd(Dot(v, t, Row), Dot(u, t, Row))
    BY <2>1, Indices, DotAddLeft
  <2>4. QED
    BY <2>2, <2>3
<1> HIDE DEF a, b, c
<1>4. Dot(w, c, Row) = GFAdd(Dot(v, c, Row), Dot(u, c, Row))
  BY <1>2, Indices, DotAddLeft
<1>5. Dot(v, c, Row) = GFAdd(Dot(v, a, Row), Dot(v, b, Row))
  BY <1>2, <1>3, Indices, DotAdd
<1>6. Dot(u, c, Row) = GFAdd(Dot(u, a, Row), Dot(u, b, Row))
  BY <1>2, <1>3, Indices, DotAdd
<1>7. QED
  BY <1>4, <1>5, <1>6 DEF a, b, c

(* A seed, expanded.                                                       *)
SeedSet == [P1 : Triangle, P2 : Matrix, O : Oil]

LEMMA UpperProductType ==
  ASSUME NEW M \in Matrix, NEW Om \in Oil
  PROVE  batch_upper_matTr_x_mat(Om, M) \in [Upper(O) -> Vec]
<1> DEFINE entry(i, j) == gfmat_prod([k \in Row |-> M[k, j]], [k \in Row |-> Om[k, i]], Row)
           P == batch_upper_matTr_x_mat(Om, M)
<1>1. ASSUME NEW i \in Col, NEW j \in Col PROVE entry(i, j) \in Vec
  <2> DEFINE A == [k \in Row |-> M[k, j]]
             b == [k \in Row |-> Om[k, i]]
  <2>1. (\A k \in Row : A[k] \in Vec) /\ Terms(b, Row)
    BY MatrixEntry, OilEntry DEF Terms
  <2> HIDE DEF A, b
  <2>2. gfmat_prod(A, b, Row) \in Vec
    BY <2>1, Indices, ProdType
  <2>3. QED
    BY <2>2 DEF A, b
<1>2. P = [p \in Upper(O) |-> P[p]]
  BY DEF batch_upper_matTr_x_mat
<1>3. ASSUME NEW p \in Upper(O) PROVE P[p] \in Vec
  <2>1. p[1] \in Col /\ p[2] \in Col
    BY DEF Upper, Col
  <2>2. P[p] = IF p[1] = p[2] THEN entry(p[1], p[1]) ELSE VAdd(entry(p[1], p[2]), entry(p[2], p[1]))
    BY DEF batch_upper_matTr_x_mat
  <2> HIDE DEF entry, P
  <2>3. entry(p[1], p[1]) \in Vec /\ VAdd(entry(p[1], p[2]), entry(p[2], p[1])) \in Vec
    BY <1>1, <2>1, VAddType
  <2>4. QED
    BY <2>2, <2>3
<1> HIDE DEF P
<1>4. P \in [Upper(O) -> Vec]
  BY <1>2, <1>3
<1>5. QED
  BY <1>4 DEF P

LEMMA KeyType ==
  ASSUME NEW sd \in SeedSet
  PROVE  /\ PublicKey(generate_keypair(sd).pk)
         /\ generate_keypair(sd).pk.P1 = sd.P1
         /\ generate_keypair(sd).pk.P2 = sd.P2
         /\ generate_keypair(sd).pk.P3
              = batch_upper_matTr_x_mat(sd.O, batch_trimat_madd(sd.P2, sd.P1, sd.O))
<1> DEFINE P3 == batch_upper_matTr_x_mat(sd.O, batch_trimat_madd(sd.P2, sd.P1, sd.O))
<1>1. sd.P1 \in Triangle /\ sd.P2 \in Matrix /\ sd.O \in Oil
  BY DEF SeedSet
<1>2. generate_keypair(sd).pk = [P1 |-> sd.P1, P2 |-> sd.P2, P3 |-> P3]
  BY DEF generate_keypair, calculate_F2_P3
<1>3. batch_trimat_madd(sd.P2, sd.P1, sd.O) \in Matrix
  BY <1>1, TrimatType
<1>4. P3 \in [Upper(O) -> Vec]
  BY <1>1, <1>3, UpperProductType
<1>5. QED
  BY <1>1, <1>2, <1>4 DEF PublicKey

(* Values of the variables that a signer assembles.                        *)
IsAssembled(x, Om, v, o) ==
  /\ x \in [Variables -> GF]
  /\ VinegarPart(x) = [i \in Row |-> GFAdd(v[i], Apply(Om, o, Row, Col)[i])]
  /\ OilPart(x) = o

LEMMA PublicForm ==
  ASSUME NEW sd \in SeedSet, NEW v, Terms(v, Row), NEW o, Terms(o, Col),
         NEW x, IsAssembled(x, sd.O, v, o), NEW e \in Eq
  PROVE  ov_publicmap(generate_keypair(sd).pk, x)[e]
           = GFAdd(Dot(v, Apply(Tri(sd.P1, e), v, Row, Row), Row),
                   Dot(v, Apply(Ent(batch_2trimat_madd(sd.P2, sd.P1, sd.O), e), o, Row, Col), Row))
<1> DEFINE P1 == sd.P1
           P2 == sd.P2
           Om == sd.O
           S1 == batch_trimat_madd(P2, P1, Om)
           P3 == batch_upper_matTr_x_mat(Om, S1)
           pk == generate_keypair(sd).pk
           T == Tri(P1, e)
           w == VinegarPart(x)
           u == Apply(Om, o, Row, Col)
           q == Apply(Ent(P2, e), o, Row, Col)
           t == Apply(T, u, Row, Row)
           s == Apply(Ent(S1, e), o, Row, Col)
<1>1. P1 \in Triangle /\ P2 \in Matrix /\ Om \in Oil
  BY DEF SeedSet
<1>2. PublicKey(pk) /\ pk.P1 = P1 /\ pk.P2 = P2 /\ pk.P3 = P3
  BY KeyType
<1>3. /\ x \in [Variables -> GF] /\ OilPart(x) = o
      /\ \A i \in Row : w[i] = GFAdd(v[i], u[i])
  BY DEF IsAssembled
<1>4. S1 \in Matrix
  BY <1>1, TrimatType
<1> HIDE DEF P1, P2, Om, S1, P3, pk
<1>5. Entries(T, Row, Row) /\ Entries(Ent(P2, e), Row, Col) /\ Entries(Om, Row, Col)
  BY <1>1, TriEntries, StacksType
<1>6. Terms(u, Row)
  BY <1>5, Indices, ApplyType
<1>7. Terms(q, Row)
  BY <1>5, Indices, ApplyType
<1>8. Terms(t, Row) /\ Terms(Apply(T, v, Row, Row), Row)
  <2> HIDE DEF T, u
  <2>1. Terms(t, Row)
    BY <1>5, <1>6, Indices, ApplyType
  <2>2. Terms(Apply(T, v, Row, Row), Row)
    BY <1>5, Indices, ApplyType
  <2>3. QED
    BY <2>1, <2>2
<1> DEFINE first == Sum(Scaled(Mono1(x), P1, Upper(V), e), Upper(V))
           second == Sum(Scaled(Mono2(x), P2, Row \X Col, e), Row \X Col)
           third == Sum(Scaled(Mono3(x), P3, Upper(O), e), Upper(O))
<1>9. ov_publicmap(pk, x)[e] = GFAdd(first, GFAdd(second, third))
  BY <1>2, <1>3, PublicMapEntry
<1>10. first = Dot(w, Apply(T, w, Row, Row), Row)
  BY <1>1, <1>3, FirstForm
<1>11. second = Dot(w, q, Row)
  BY <1>1, <1>3, SecondForm
<1>12. third = Dot(u, s, Row)
  BY <1>1, <1>3, <1>4, ThirdForm DEF P3
<1>13. \A i \in Row : s[i] = GFAdd(q[i], t[i])
  BY <1>1, UpperApplied DEF S1
<1> DEFINE a == Dot(v, Apply(T, v, Row, Row), Row)
           b == Dot(v, t, Row)
           c == Dot(u, Apply(T, v, Row, Row), Row)
           d == Dot(u, t, Row)
           f == Dot(v, q, Row)
           g == Dot(u, q, Row)
<1>14. Dot(v, Apply(Ent(batch_2trimat_madd(P2, P1, Om), e), o, Row, Col), Row) = GFAdd(f, GFAdd(b, c))
  BY <1>1, SecretForm
<1> HIDE DEF w, u, q, t, s, T, first, second, third
<1>15. Dot(w, Apply(T, w, Row, Row), Row) = GFAdd(GFAdd(a, b), GFAdd(c, d))
  BY <1>3, <1>5, <1>6, FormOfSum DEF t
<1>16. Dot(w, q, Row) = GFAdd(f, g)
  BY <1>3, <1>6, <1>7, Indices, DotAddLeft
<1>17. Dot(u, s, Row) = GFAdd(g, d)
  BY <1>6, <1>7, <1>8, <1>13, Indices, DotAdd
<1>18. a \in GF /\ b \in GF /\ c \in GF /\ d \in GF /\ f \in GF /\ g \in GF
  <2> DEFINE tv == Apply(T, v, Row, Row)
  <2>1. Terms(tv, Row)
    BY <1>8
  <2> HIDE DEF tv
  <2>2. Dot(v, tv, Row) \in GF /\ Dot(u, tv, Row) \in GF
    BY <1>6, <2>1, Indices, DotType
  <2>3. b \in GF /\ d \in GF
    BY <1>6, <1>8, Indices, DotType
  <2>4. f \in GF /\ g \in GF
    BY <1>6, <1>7, Indices, DotType
  <2>5. QED
    BY <2>2, <2>3, <2>4 DEF tv
<1> HIDE DEF a, b, c, d, f, g
<1>19. GFAdd(GFAdd(GFAdd(a, b), GFAdd(c, d)), GFAdd(GFAdd(f, g), GFAdd(g, d))) = GFAdd(a, GFAdd(f, GFAdd(b, c)))
  BY <1>18, Cancel
<1>20. QED
  BY <1>9, <1>10, <1>11, <1>12, <1>14, <1>15, <1>16, <1>17, <1>19 DEF a, T, pk, P1, P2, Om

-----------------------------------------------------------------------------
(* The linear solver.                                                      *)

LinearRow == [0 .. O -> GF]

(* What is left of a row's equation at x: 0 when x solves it.              *)
Residue(r, x) == GFAdd(Dot(x, r, Col), r[O])

Solves(mat, x) == \A k \in Eq : Residue(mat[k], x) = 0

LEMMA RowParts ==
  ASSUME NEW r \in LinearRow
  PROVE  Terms(r, Col) /\ r[O] \in GF /\ \A j \in Col : r[j] \in GF
<1>1. O \in 0 .. O /\ \A j \in Col : j \in 0 .. O
  BY UovAssumption DEF Col
<1>2. QED
  BY <1>1 DEF LinearRow, Terms

LEMMA RowTypes ==
  ASSUME NEW a \in LinearRow, NEW b \in LinearRow, NEW c \in GF
  PROVE  RowAdd(a, b) \in LinearRow /\ RowScale(c, a) \in LinearRow
<1>1. \A j \in 0 .. O : GFAdd(a[j], b[j]) \in GF /\ GFMul(c, a[j]) \in GF
  BY AddType, MulType DEF LinearRow
<1>2. QED
  BY <1>1 DEF RowAdd, RowScale, LinearRow

LEMMA ResidueType ==
  ASSUME NEW r \in LinearRow, NEW x, Terms(x, Col)
  PROVE  Residue(r, x) \in GF
<1>1. Terms(r, Col) /\ r[O] \in GF
  BY RowParts
<1>2. Dot(x, r, Col) \in GF
  BY <1>1, Indices, DotType
<1>3. QED
  BY <1>1, <1>2, AddType DEF Residue

LEMMA ResidueAdd ==
  ASSUME NEW a \in LinearRow, NEW b \in LinearRow, NEW x, Terms(x, Col)
  PROVE  Residue(RowAdd(a, b), x) = GFAdd(Residue(a, x), Residue(b, x))
<1> DEFINE r == RowAdd(a, b)
           p == Dot(x, a, Col)
           q == Dot(x, b, Col)
<1>1. Terms(a, Col) /\ Terms(b, Col) /\ a[O] \in GF /\ b[O] \in GF
  BY RowParts
<1>2. r[O] = GFAdd(a[O], b[O]) /\ \A j \in Col : r[j] = GFAdd(a[j], b[j])
  BY UovAssumption DEF RowAdd, Col
<1> HIDE DEF r
<1>3. Dot(x, r, Col) = GFAdd(p, q)
  BY <1>1, <1>2, Indices, DotAdd
<1>4. p \in GF /\ q \in GF
  BY <1>1, Indices, DotType
<1> HIDE DEF p, q
<1>5. GFAdd(GFAdd(p, q), GFAdd(a[O], b[O])) = GFAdd(GFAdd(p, a[O]), GFAdd(q, b[O]))
  BY <1>1, <1>4, AddFour
<1>6. QED
  BY <1>2, <1>3, <1>5 DEF Residue, r, p, q

LEMMA DotScale ==
  ASSUME NEW A, IsFiniteSet(A), NEW a, Terms(a, A), NEW b, Terms(b, A), NEW c \in GF,
         NEW d, \A i \in A : d[i] = GFMul(c, b[i])
  PROVE  Dot(a, d, A) = GFMul(c, Dot(a, b, A))
<1> DEFINE f == [i \in A |-> GFMul(a[i], b[i])]
           h == [i \in A |-> GFMul(a[i], d[i])]
<1>1. Terms(f, A)
  BY MulType DEF Terms
<1>2. ASSUME NEW i \in A PROVE h[i] = GFMul(c, f[i])
  <2> DEFINE x == a[i]
             yy == b[i]
  <2>1. h[i] = GFMul(x, GFMul(c, yy)) /\ f[i] = GFMul(x, yy)
    OBVIOUS
  <2>2. x \in GF /\ yy \in GF
    BY DEF Terms
  <2> HIDE DEF x, yy, f, h
  <2>3. GFMul(x, GFMul(c, yy)) = GFMul(GFMul(x, c), yy)
    BY <2>2, MulGroup
  <2>4. GFMul(c, GFMul(x, yy)) = GFMul(GFMul(c, x), yy)
    BY <2>2, MulGroup
  <2>5. GFMul(x, c) = GFMul(c, x)
    BY <2>2, MulSwap
  <2>6. QED
    BY <2>1, <2>3, <2>4, <2>5
<1> HIDE DEF f, h
<1>3. Sum(h, A) = GFMul(c, Sum(f, A))
  BY <1>1, <1>2, SumScale
<1>4. QED
  BY <1>3 DEF Dot, f, h

LEMMA ResidueScale ==
  ASSUME NEW a \in LinearRow, NEW c \in GF, NEW x, Terms(x, Col)
  PROVE  Residue(RowScale(c, a), x) = GFMul(c, Residue(a, x))
<1> DEFINE r == RowScale(c, a)
           p == Dot(x, a, Col)
<1>1. Terms(a, Col) /\ a[O] \in GF
  BY RowParts
<1>2. r[O] = GFMul(c, a[O]) /\ \A j \in Col : r[j] = GFMul(c, a[j])
  BY UovAssumption DEF RowScale, Col
<1> HIDE DEF r
<1>3. Dot(x, r, Col) = GFMul(c, p)
  BY <1>1, <1>2, Indices, DotScale
<1>4. p \in GF
  BY <1>1, Indices, DotType
<1> HIDE DEF p
<1>5. GFMul(c, GFAdd(p, a[O])) = GFAdd(GFMul(c, p), GFMul(c, a[O]))
  BY <1>1, <1>4, Distributes
<1>6. QED
  BY <1>2, <1>3, <1>5 DEF Residue, r, p

LEMMA Inverse1 ==
  ASSUME NEW a \in GF
  PROVE  /\ GFInv(a) \in GF
         /\ a # 0 => GFMul(GFInv(a), a) = 1 /\ \A b \in GF : GFMul(GFInv(a), b) = 0 => b = 0
<1> DEFINE c == GFInv(a)
<1>1. c \in GF /\ (a # 0 => GFMul(a, c) = 1)
  BY FieldAssumption
<1> HIDE DEF c
<1>2. GFMul(c, a) = GFMul(a, c)
  BY <1>1, MulSwap
<1>3. ASSUME a # 0, NEW b \in GF, GFMul(c, b) = 0 PROVE b = 0
  <2>1. GFMul(GFMul(a, c), b) = GFMul(a, GFMul(c, b))
    BY <1>1, MulGroup
  <2>2. GFMul(a, 0) = 0
    BY TimesZero
  <2>3. GFMul(1, b) = GFMul(b, 1) /\ GFMul(b, 1) = b
    BY Field
  <2>4. QED
    BY <1>1, <1>3, <2>1, <2>2, <2>3
<1>4. QED
  BY <1>1, <1>2, <1>3 DEF c

(* A nonempty set of numbers has a least one.                              *)
LEMMA LeastExists ==
  ASSUME NEW S, S \subseteq Nat, S # {}
  PROVE  \E j \in S : \A k \in S : j <= k
<1> DEFINE R == OpToRel(<, Nat)
<1>1. IsWellFoundedOn(R, Nat)
  BY NatLessThanWellFounded
<1>2. \A x \in Nat, yy \in Nat : yy < x => <<yy, x>> \in R
  BY DEF OpToRel
<1> HIDE DEF R
<1>3. PICK j \in S : \A k \in S : ~(<<k, j>> \in R)
  BY <1>1, WFMin
<1>4. \A k \in S : ~(k < j)
  BY <1>2, <1>3
<1>5. \A k \in S : j <= k
  BY <1>4
<1>6. QED
  BY <1>5

System == [Eq -> LinearRow]

(* A pivot row is as it was, or has a row below it added.                  *)
IsRepaired(r, m, i) == r = m[i] \/ \E j \in Eq : i < j /\ r = RowAdd(m[i], m[j])

LEMMA RepairIs ==
  ASSUME NEW m \in System, NEW i \in Eq
  PROVE  IsRepaired(RepairPivot(m, i), m, i)
<1> DEFINE usable == {j \in i .. O-1 : m[j][i] # 0}
           first == CHOOSE j \in usable : \A k \in usable : j <= k
<1>1. CASE m[i][i] = 0 /\ usable # {}
  <2>1. usable \subseteq Nat
    BY UovAssumption DEF Eq
  <2>2. \E j \in usable : \A k \in usable : j <= k
    BY <1>1, <2>1, LeastExists
  <2>3. first \in usable
    BY <2>2
  <2>4. RepairPivot(m, i) = RowAdd(m[i], m[first])
    BY <1>1 DEF RepairPivot
  <2> HIDE DEF first
  <2>5. first \in i .. O-1 /\ m[first][i] # 0
    BY <2>3
  <2>6. first # i
    BY <1>1, <2>5
  <2>7. first \in Eq /\ i < first
    BY UovAssumption, <2>5, <2>6 DEF Eq
  <2>8. QED
    BY <2>4, <2>7 DEF IsRepaired
<1>2. CASE ~(m[i][i] = 0 /\ usable # {})
  BY <1>2 DEF RepairPivot, IsRepaired
<1>3. QED
  BY <1>1, <1>2

(* The first n columns are those of a unit upper triangle.                 *)
Triangular(m, n) ==
  \A k \in Eq : k < n => m[k][k] = 1 /\ \A l \in Eq : k < l => m[l][k] = 0

(* One column of the elimination, of a row r that is not zero at i.        *)
IsEliminated(n, m, r, i) ==
  LET p == RowScale(GFInv(r[i]), r)
  IN  \A k \in Eq : /\ k < i => n[k] = m[k]
                    /\ k = i => n[k] = p
                    /\ i < k => n[k] = RowAdd(m[k], RowScale(m[k][i], p))

LEMMA EliminateIs ==
  ASSUME NEW sys, sys.mat \in System, NEW i \in Eq, sys.succ \in BOOLEAN
  PROVE  /\ IsEliminated(EliminateColumn(sys, i).mat, sys.mat, RepairPivot(sys.mat, i), i)
         /\ EliminateColumn(sys, i).succ = (sys.succ /\ RepairPivot(sys.mat, i)[i] # 0)
<1> DEFINE r == RepairPivot(sys.mat, i)
           p == RowScale(GFInv(r[i]), r)
           n == [k \in Eq |-> IF k < i THEN sys.mat[k]
                              ELSE IF k = i THEN p
                              ELSE RowAdd(sys.mat[k], RowScale(sys.mat[k][i], p))]
<1>1. EliminateColumn(sys, i) = [mat |-> n, succ |-> sys.succ /\ r[i] # 0]
  BY DEF EliminateColumn
<1> HIDE DEF r, p
<1>2. ASSUME NEW k \in Eq
      PROVE  /\ k < i => n[k] = sys.mat[k]
             /\ k = i => n[k] = p
             /\ i < k => n[k] = RowAdd(sys.mat[k], RowScale(sys.mat[k][i], p))
  <2>1. k \in Int /\ i \in Int
    BY DEF Eq
  <2>2. QED
    BY <2>1
<1> HIDE DEF n
<1>3. IsEliminated(n, sys.mat, r, i)
  BY <1>2 DEF IsEliminated, p
<1>4. EliminateColumn(sys, i).mat = n /\ EliminateColumn(sys, i).succ = (sys.succ /\ r[i] # 0)
  BY <1>1
<1>5. QED
  BY <1>3, <1>4 DEF r

LEMMA RowEntry ==
  ASSUME NEW m \in System, NEW k \in Eq, NEW i \in Eq
  PROVE  m[k] \in LinearRow /\ m[k][i] \in GF
<1>1. m[k] \in LinearRow
  BY DEF System
<1>2. i \in 0 .. O
  BY UovAssumption DEF Eq
<1>3. QED
  BY <1>1, <1>2 DEF LinearRow

LEMMA RepairedType ==
  ASSUME NEW m \in System, NEW i \in Eq, NEW r, IsRepaired(r, m, i)
  PROVE  r \in LinearRow /\ r[i] \in GF
<1>1. CASE r = m[i]
  BY <1>1, RowEntry
<1>2. ASSUME NEW j \in Eq, r = RowAdd(m[i], m[j]) PROVE r \in LinearRow
  <2>1. m[i] \in LinearRow /\ m[j] \in LinearRow
    BY RowEntry
  <2>2. RowAdd(m[i], m[j]) \in LinearRow
    BY <2>1, Field, RowTypes
  <2>3. QED
    BY <1>2, <2>2
<1>3. r \in LinearRow
  BY <1>1, <1>2, RowEntry DEF IsRepaired
<1>4. i \in 0 .. O
  BY UovAssumption DEF Eq
<1>5. QED
  BY <1>3, <1>4 DEF LinearRow

LEMMA PivotType ==
  ASSUME NEW r \in LinearRow, NEW i \in Eq
  PROVE  /\ r[i] \in GF /\ GFInv(r[i]) \in GF
         /\ RowScale(GFInv(r[i]), r) \in LinearRow
         /\ r[i] # 0 => RowScale(GFInv(r[i]), r)[i] = 1
<1>1. i \in 0 .. O
  BY UovAssumption DEF Eq
<1>2. r[i] \in GF
  BY <1>1 DEF LinearRow
<1>3. GFInv(r[i]) \in GF /\ (r[i] # 0 => GFMul(GFInv(r[i]), r[i]) = 1)
  BY <1>2, Inverse1
<1>4. RowScale(GFInv(r[i]), r) \in LinearRow
  BY <1>3, RowTypes
<1>5. RowScale(GFInv(r[i]), r)[i] = GFMul(GFInv(r[i]), r[i])
  BY <1>1 DEF RowScale
<1>6. QED
  BY <1>2, <1>3, <1>4, <1>5

LEMMA EliminatedType ==
  ASSUME NEW m \in System, NEW i \in Eq, NEW r, IsRepaired(r, m, i), NEW n, IsEliminated(n, m, r, i)
  PROVE  \A k \in Eq : n[k] \in LinearRow
<1> DEFINE p == RowScale(GFInv(r[i]), r)
<1>1. p \in LinearRow
  BY RepairedType, PivotType
<1>2. \A k \in Eq : /\ k < i => n[k] = m[k]
                    /\ k = i => n[k] = p
                    /\ i < k => n[k] = RowAdd(m[k], RowScale(m[k][i], p))
  BY DEF IsEliminated
<1> HIDE DEF p
<1>3. TAKE k \in Eq
<1>4. m[k] \in LinearRow /\ m[k][i] \in GF
  BY RowEntry
<1>5. RowScale(m[k][i], p) \in LinearRow
  BY <1>1, <1>4, RowTypes
<1>6. RowAdd(m[k], RowScale(m[k][i], p)) \in LinearRow
  BY <1>4, <1>5, RowTypes
<1>7. k < i \/ k = i \/ i < k
  BY DEF Eq
<1>8. QED
  BY <1>1, <1>2, <1>4, <1>6, <1>7

(* No solution is added.                                                   *)
LEMMA EliminatedSolves ==
  ASSUME NEW m \in System, NEW i \in Eq, NEW r, IsRepaired(r, m, i), r[i] # 0,
         NEW n, IsEliminated(n, m, r, i), NEW x, Terms(x, Col), Solves(n, x)
  PROVE  Solves(m, x)
<1> DEFINE p == RowScale(GFInv(r[i]), r)
           c == GFInv(r[i])
<1>1. \A k \in Eq : /\ k < i => n[k] = m[k]
                    /\ k = i => n[k] = p
                    /\ i < k => n[k] = RowAdd(m[k], RowScale(m[k][i], p))
  BY DEF IsEliminated
<1>2. r \in LinearRow /\ p \in LinearRow /\ r[i] \in GF /\ c \in GF
  BY RepairedType, PivotType
<1>3. Residue(p, x) = GFMul(c, Residue(r, x))
  BY <1>2, ResidueScale
<1>4. \A b \in GF : GFMul(c, b) = 0 => b = 0
  BY <1>2, Inverse1
<1> HIDE DEF p, c
<1>5. \A k \in Eq : Residue(n[k], x) = 0
  BY DEF Solves
<1>6. Residue(p, x) = 0
  BY <1>1, <1>5
<1>7. Residue(r, x) = 0
  <2>1. Residue(r, x) \in GF
    BY <1>2, ResidueType
  <2>2. QED
    BY <1>3, <1>4, <1>6, <2>1
<1>8. ASSUME NEW k \in Eq, i < k PROVE Residue(m[k], x) = 0
  <2> DEFINE a == m[k][i]
  <2>1. m[k] \in LinearRow /\ a \in GF
    BY RowEntry
  <2>2. n[k] = RowAdd(m[k], RowScale(a, p))
    BY <1>1, <1>8
  <2> HIDE DEF a
  <2>3. RowScale(a, p) \in LinearRow
    BY <1>2, <2>1, RowTypes
  <2>4. Residue(RowAdd(m[k], RowScale(a, p)), x) = GFAdd(Residue(m[k], x), Residue(RowScale(a, p), x))
    BY <2>1, <2>3, ResidueAdd
  <2>5. Residue(RowScale(a, p), x) = GFMul(a, Residue(p, x))
    BY <1>2, <2>1, ResidueScale
  <2>6. GFMul(a, 0) = 0
    BY <2>1, TimesZero
  <2>7. Residue(m[k], x) \in GF
    BY <2>1, ResidueType
  <2>8. GFAdd(Residue(m[k], x), 0) = Residue(m[k], x)
    BY <2>7, Field
  <2>9. Residue(n[k], x) = 0
    BY <1>5
  <2>10. QED
    BY <1>6, <2>2, <2>4, <2>5, <2>6, <2>8, <2>9
<1>9. Residue(m[i], x) = 0
  <2>1. CASE r = m[i]
    BY <1>7, <2>1
  <2>2. ASSUME NEW j \in Eq, i < j, r = RowAdd(m[i], m[j]) PROVE Residue(m[i], x) = 0
    <3>1. m[i] \in LinearRow /\ m[j] \in LinearRow
      BY RowEntry
    <3>2. Residue(RowAdd(m[i], m[j]), x) = GFAdd(Residue(m[i], x), Residue(m[j], x))
      BY <3>1, ResidueAdd
    <3>3. Residue(m[j], x) = 0
      BY <1>8, <2>2
    <3>4. Residue(m[i], x) \in GF
      BY <3>1, ResidueType
    <3>5. GFAdd(Residue(m[i], x), 0) = Residue(m[i], x)
      BY <3>4, Field
    <3>6. QED
      BY <1>7, <2>2, <3>2, <3>3, <3>5
  <2>3. QED
    BY <2>1, <2>2 DEF IsRepaired
<1>10. ASSUME NEW k \in Eq PROVE Residue(m[k], x) = 0
  <2>1. k < i \/ k = i \/ i < k
    BY DEF Eq
  <2>2. k < i => Residue(m[k], x) = 0
    BY <1>1, <1>5
  <2>3. QED
    BY <1>8, <1>9, <2>1, <2>2
<1>11. QED
  BY <1>10 DEF Solves

(* One column more of the triangle.                                        *)
LEMMA EliminatedTriangular ==
  ASSUME NEW m \in System, NEW i \in Eq, NEW r, IsRepaired(r, m, i), r[i] # 0,
         NEW n, IsEliminated(n, m, r, i), Triangular(m, i)
  PROVE  Triangular(n, i + 1)
<1> DEFINE p == RowScale(GFInv(r[i]), r)
           c == GFInv(r[i])
<1>1. \A k \in Eq : /\ k < i => n[k] = m[k]
                    /\ k = i => n[k] = p
                    /\ i < k => n[k] = RowAdd(m[k], RowScale(m[k][i], p))
  BY DEF IsEliminated
<1>2. r \in LinearRow /\ p \in LinearRow /\ r[i] \in GF /\ c \in GF /\ p[i] = 1
  BY RepairedType, PivotType
<1>3. \A k \in Eq : k < i => m[k][k] = 1 /\ \A l \in Eq : k < l => m[l][k] = 0
  BY DEF Triangular
<1>4. \A k \in Eq : k \in 0 .. O /\ k \in Int
  BY UovAssumption DEF Eq
<1>5. \A k \in Eq : p[k] = GFMul(c, r[k])
  BY <1>4 DEF RowScale
<1>6. ASSUME NEW k \in Eq, k < i PROVE r[k] = 0
  <2>1. m[i][k] = 0
    BY <1>3, <1>6
  <2>2. ASSUME NEW j \in Eq, i < j, r = RowAdd(m[i], m[j]) PROVE r[k] = 0
    <3>1. k < j
      BY <1>4, <1>6, <2>2
    <3>2. m[j][k] = 0
      BY <1>3, <1>6, <3>1
    <3>3. r[k] = GFAdd(m[i][k], m[j][k])
      BY <1>4, <2>2 DEF RowAdd
    <3>4. GFAdd(0, 0) = 0
      BY Field
    <3>5. QED
      BY <2>1, <3>2, <3>3, <3>4
  <2>3. QED
    BY <2>1, <2>2 DEF IsRepaired
<1>7. ASSUME NEW k \in Eq, k < i PROVE p[k] = 0
  BY <1>2, <1>5, <1>6, <1>7, TimesZero
<1>8. ASSUME NEW l \in Eq, NEW k \in Eq, i < l
      PROVE  n[l][k] = GFAdd(m[l][k], GFMul(m[l][i], p[k]))
  <2>1. n[l] = RowAdd(m[l], RowScale(m[l][i], p))
    BY <1>1, <1>8
  <2>2. k \in 0 .. O
    BY <1>4
  <2>3. QED
    BY <2>1, <2>2 DEF RowAdd, RowScale
<1> HIDE DEF p, c
<1>9. ASSUME NEW k \in Eq, k < i
      PROVE  n[k][k] = 1 /\ \A l \in Eq : k < l => n[l][k] = 0
  <2>1. n[k][k] = 1
    BY <1>1, <1>3, <1>9
  <2>2. ASSUME NEW l \in Eq, k < l PROVE n[l][k] = 0
    <3>1. m[l][k] = 0 /\ p[k] = 0
      BY <1>3, <1>7, <1>9, <2>2
    <3>2. CASE l < i
      BY <1>1, <3>1, <3>2
    <3>3. CASE l = i
      BY <1>1, <3>1, <3>3
    <3>4. CASE i < l
      <4>1. n[l][k] = GFAdd(0, GFMul(m[l][i], 0))
        BY <1>8, <3>1, <3>4
      <4>2. m[l][i] \in GF
        BY RowEntry
      <4>3. GFMul(m[l][i], 0) = 0 /\ GFAdd(0, 0) = 0
        BY <4>2, TimesZero, Field
      <4>4. QED
        BY <4>1, <4>3
    <3>5. QED
      BY <1>4, <3>2, <3>3, <3>4
  <2>3. QED
    BY <2>1, <2>2
<1>10. n[i][i] = 1
  BY <1>1, <1>2
<1>11. ASSUME NEW l \in Eq, i < l PROVE n[l][i] = 0
  <2> DEFINE a == m[l][i]
  <2>1. n[l][i] = GFAdd(a, GFMul(a, 1))
    BY <1>2, <1>8, <1>11
  <2>2. a \in GF
    BY RowEntry
  <2> HIDE DEF a
  <2>3. GFMul(a, 1) = a /\ GFAdd(a, a) = 0
    BY <2>2, Field
  <2>4. QED
    BY <2>1, <2>3
<1>12. ASSUME NEW k \in Eq, k < i + 1
       PROVE  n[k][k] = 1 /\ \A l \in Eq : k < l => n[l][k] = 0
  <2>1. k < i \/ k = i
    BY <1>4, <1>12
  <2>2. QED
    BY <1>9, <1>10, <1>11, <2>1
<1>13. QED
  BY <1>12 DEF Triangular

Keeps(n, s) == \A x : Terms(x, Col) /\ Solves(n.mat, x) => Solves(s.mat, x)

IsColumn(n, s, i) ==
  /\ n.mat \in System /\ n.succ \in BOOLEAN
  /\ n.succ => s.succ /\ Keeps(n, s)
  /\ n.succ /\ Triangular(s.mat, i) => Triangular(n.mat, i + 1)

LEMMA ColumnIs ==
  ASSUME NEW sys, sys.mat \in System, sys.succ \in BOOLEAN, NEW i \in Eq
  PROVE  IsColumn(EliminateColumn(sys, i), sys, i)
<1> DEFINE n == EliminateColumn(sys, i).mat
           succ == EliminateColumn(sys, i).succ
           m == sys.mat
           r == RepairPivot(m, i)
<1>1. IsEliminated(n, m, r, i) /\ succ = (sys.succ /\ r[i] # 0)
  BY EliminateIs
<1>2. IsRepaired(r, m, i)
  BY RepairIs
<1>3. n = [k \in Eq |-> n[k]]
  BY DEF EliminateColumn
<1>4. m \in System
  OBVIOUS
<1> HIDE DEF n, succ, m, r
<1>5. \A k \in Eq : n[k] \in LinearRow
  BY <1>1, <1>2, <1>4, EliminatedType
<1>6. n \in System
  BY <1>3, <1>5 DEF System
<1>7. ASSUME succ PROVE r[i] # 0 /\ sys.succ
  BY <1>1, <1>7
<1>8. ASSUME succ, NEW x, Terms(x, Col), Solves(n, x) PROVE Solves(m, x)
  BY <1>1, <1>2, <1>4, <1>7, <1>8, EliminatedSolves
<1>9. ASSUME succ, Triangular(m, i) PROVE Triangular(n, i + 1)
  BY <1>1, <1>2, <1>4, <1>7, <1>9, EliminatedTriangular
<1>10. succ \in BOOLEAN
  BY <1>1
<1>11. QED
  BY <1>6, <1>7, <1>8, <1>9, <1>10 DEF IsColumn, Keeps, n, succ, m

(* The system after each of n columns.                                     *)
IsRun(g, first, n) == g = [i \in 0 .. n |-> IF i = 0 THEN first ELSE EliminateColumn(g[i-1], i-1)]

LEMMA RunExists ==
  ASSUME NEW first
  PROVE  \A n \in Nat : \E g : IsRun(g, first, n)
<1> DEFINE N == {n \in Nat : \E g : IsRun(g, first, n)}
<1>1. 0 \in N
  <2> DEFINE g == [i \in 0 .. 0 |-> first]
  <2>1. g = [i \in 0 .. 0 |-> IF i = 0 THEN first ELSE EliminateColumn(g[i-1], i-1)]
    OBVIOUS
  <2> HIDE DEF g
  <2>2. IsRun(g, first, 0)
    BY <2>1 DEF IsRun
  <2>3. QED
    BY <2>2
<1>2. ASSUME NEW n \in Nat, n \in N PROVE n + 1 \in N
  <2>1. PICK g : IsRun(g, first, n)
    BY <1>2
  <2>2. \A i \in 0 .. n : g[i] = IF i = 0 THEN first ELSE EliminateColumn(g[i-1], i-1)
    BY <2>1 DEF IsRun
  <2> DEFINE h == [i \in 0 .. n+1 |-> IF i = 0 THEN first ELSE EliminateColumn(g[i-1], i-1)]
  <2>3. \A i \in 0 .. n : h[i] = g[i]
    <3>1. \A i \in 0 .. n : i \in 0 .. n+1
      OBVIOUS
    <3>2. QED
      BY <2>2, <3>1
  <2>4. \A i \in 0 .. n+1 : i # 0 => i - 1 \in 0 .. n
    OBVIOUS
  <2>5. h = [i \in 0 .. n+1 |-> IF i = 0 THEN first ELSE EliminateColumn(h[i-1], i-1)]
    <3>1. \A i \in 0 .. n+1 : i # 0 => h[i-1] = g[i-1]
      <4> HIDE DEF h
      <4>1. QED
        BY <2>3, <2>4
    <3>2. QED
      BY <3>1
  <2> HIDE DEF h
  <2>6. IsRun(h, first, n + 1)
    BY <2>5 DEF IsRun
  <2>7. QED
    BY <2>6
<1> HIDE DEF N
<1>3. Nat \subseteq N
  BY <1>1, <1>2, NatSetInduction
<1>4. QED
  BY <1>3 DEF N

IsStage(s, first, i) ==
  /\ s.mat \in System /\ s.succ \in BOOLEAN
  /\ s.succ => Triangular(s.mat, i) /\ Keeps(s, first)

LEMMA RunKeeps ==
  ASSUME NEW first, first.mat \in System, first.succ \in BOOLEAN, NEW g, IsRun(g, first, O)
  PROVE  IsStage(g[O], first, O)
<1> DEFINE N == {i \in Nat : i <= O => IsStage(g[i], first, i)}
<1>1. \A i \in 0 .. O : g[i] = IF i = 0 THEN first ELSE EliminateColumn(g[i-1], i-1)
  BY DEF IsRun
<1>2. 0 \in N
  <2>1. g[0] = first
    BY <1>1, UovAssumption
  <2>2. Triangular(first.mat, 0)
    BY DEF Triangular, Eq
  <2>3. Keeps(first, first)
    BY DEF Keeps
  <2>4. IsStage(g[0], first, 0)
    BY <2>1, <2>2, <2>3 DEF IsStage
  <2>5. QED
    BY <2>4
<1>3. ASSUME NEW i \in Nat, i \in N PROVE i + 1 \in N
  <2>1. SUFFICES ASSUME i + 1 <= O PROVE IsStage(g[i+1], first, i + 1)
    OBVIOUS
  <2>2. i + 1 \in 0 .. O /\ i + 1 # 0 /\ (i + 1) - 1 = i /\ i \in Eq /\ i <= O
    BY <2>1, UovAssumption DEF Eq
  <2> DEFINE s == g[i]
             n == g[i+1]
  <2>3. n = EliminateColumn(s, i)
    BY <1>1, <2>2
  <2>4. IsStage(s, first, i)
    BY <1>3, <2>2
  <2> HIDE DEF s, n, N
  <2>5. IsColumn(n, s, i)
    BY <2>2, <2>3, <2>4, ColumnIs DEF IsStage
  <2>6. n.succ => Keeps(n, first)
    BY <2>4, <2>5 DEF IsStage, IsColumn, Keeps
  <2>7. IsStage(n, first, i + 1)
    BY <2>4, <2>5, <2>6 DEF IsStage, IsColumn
  <2>8. QED
    BY <2>7 DEF n
<1> HIDE DEF N
<1>4. Nat \subseteq N
  BY <1>2, <1>3, NatSetInduction
<1>5. O \in Nat /\ O <= O
  BY UovAssumption
<1>6. QED
  BY <1>4, <1>5 DEF N

LEMMA ResidueZero ==
  ASSUME NEW r \in LinearRow, NEW x, Terms(x, Col)
  PROVE  Residue(r, x) = 0 <=> Dot(x, r, Col) = r[O]
<1> DEFINE a == Dot(x, r, Col)
           b == r[O]
<1>1. Terms(r, Col) /\ b \in GF
  BY RowParts
<1>2. a \in GF
  BY <1>1, Indices, DotType
<1>3. Residue(r, x) = GFAdd(a, b)
  BY DEF Residue
<1> HIDE DEF a, b
<1>4. GFAdd(a, GFAdd(a, b)) = b /\ GFAdd(a, 0) = a /\ GFAdd(b, b) = 0
  BY <1>1, <1>2, AddTwice, Field
<1>5. QED
  BY <1>3, <1>4 DEF a, b

Coordinate(cols, e) == [j \in Col |-> cols[j][e]]

IsSolved(s, cols, constant) ==
  \A x : Terms(x, Col) /\ Solves(s.mat, x) => \A e \in Eq : Dot(x, Coordinate(cols, e), Col) = constant[e]

IsEchelon(s, cols, constant) ==
  /\ s.mat \in System /\ s.succ \in BOOLEAN
  /\ s.succ => Triangular(s.mat, O) /\ IsSolved(s, cols, constant)

(* Elimination succeeds with a unit upper triangle, whose solutions solve  *)
(* the system that was loaded.                                             *)
LEMMA EliminationIs ==
  ASSUME NEW cols, \A j \in Col : cols[j] \in Vec, NEW constant \in Vec
  PROVE  IsEchelon(gfmat_gaussian_elim(cols, constant), cols, constant)
<1> DEFINE mat == [e \in Eq |-> [j \in 0 .. O |-> IF j < O THEN cols[j][e] ELSE constant[e]]]
           first == [mat |-> mat, succ |-> TRUE]
           c == CHOOSE g : IsRun(g, first, O)
           s == gfmat_gaussian_elim(cols, constant)
<1>1. s = c[O]
  BY DEF gfmat_gaussian_elim, IsRun
<1>2. IsRun(c, first, O)
  <2> HIDE DEF first
  <2>1. \E g : IsRun(g, first, O)
    BY UovAssumption, RunExists
  <2>2. QED
    BY <2>1
<1>3. first.mat \in System /\ first.succ \in BOOLEAN
  <2>1. ASSUME NEW e \in Eq, NEW j \in 0 .. O PROVE (IF j < O THEN cols[j][e] ELSE constant[e]) \in GF
    <3>1. CASE j < O
      <4>1. j \in Col
        BY <3>1, UovAssumption DEF Col
      <4>2. cols[j] \in Vec
        BY <4>1
      <4>3. QED
        BY <3>1, <4>2 DEF Vec
    <3>2. CASE ~(j < O)
      BY <3>2 DEF Vec
    <3>3. QED
      BY <3>1, <3>2
  <2>2. mat \in System
    BY <2>1 DEF System, LinearRow
  <2>3. QED
    BY <2>2
<1> DEFINE end == c[O]
<1>4. IsStage(end, first, O)
  <2> HIDE DEF first, c
  <2>1. QED
    BY <1>2, <1>3, RunKeeps
<1>5. ASSUME NEW x, Terms(x, Col), Solves(mat, x), NEW e \in Eq
      PROVE  Dot(x, Coordinate(cols, e), Col) = constant[e]
  <2> DEFINE r == mat[e]
  <2>1. Residue(r, x) = 0
    BY <1>5 DEF Solves
  <2>2. r \in LinearRow
    BY <1>3 DEF System
  <2>3. r[O] = constant[e] /\ \A j \in Col : r[j] = Coordinate(cols, e)[j]
    BY UovAssumption DEF Col, Coordinate
  <2> HIDE DEF r
  <2>4. Dot(x, r, Col) = r[O]
    BY <1>5, <2>1, <2>2, ResidueZero
  <2>5. Dot(x, r, Col) = Dot(x, Coordinate(cols, e), Col)
    BY <2>3, DotSame
  <2>6. QED
    BY <2>3, <2>4, <2>5
<1>6. first.mat = mat
  OBVIOUS
<1> HIDE DEF first, c, mat, end
<1>7. end.succ => IsSolved(end, cols, constant)
  BY <1>4, <1>5, <1>6 DEF IsStage, Keeps, IsSolved
<1>8. IsEchelon(end, cols, constant)
  BY <1>4, <1>7 DEF IsStage, IsEchelon
<1>9. QED
  BY <1>1, <1>8 DEF end

-----------------------------------------------------------------------------
(* Back substitution: column by column, from the last to the second.       *)

IsBack(g, mat) ==
  g = [i \in 1 .. O |->
         IF i = O THEN [e \in Eq |-> mat[e][O]]
         ELSE [e \in Eq |-> IF e < i THEN GFAdd(g[i+1][e], GFMul(mat[e][i], g[i+1][i]))
                            ELSE g[i+1][e]]]

BackStep(v, mat, i) == [e \in Eq |-> IF e < i THEN GFAdd(v[e], GFMul(mat[e][i], v[i])) ELSE v[e]]

(* The last n columns.                                                     *)
IsBackFrom(g, mat, n) ==
  g = [i \in O-n .. O |-> IF i = O THEN [e \in Eq |-> mat[e][O]] ELSE BackStep(g[i+1], mat, i)]

LEMMA BackExists ==
  ASSUME NEW mat
  PROVE  \E g : IsBack(g, mat)
<1> DEFINE last == [e \in Eq |-> mat[e][O]]
           N == {n \in Nat : \E g : IsBackFrom(g, mat, n)}
<1> HIDE DEF last
<1>1. 0 \in N
  <2> DEFINE g == [i \in O-0 .. O |-> last]
  <2>1. g = [i \in O-0 .. O |-> IF i = O THEN last ELSE BackStep(g[i+1], mat, i)]
    BY UovAssumption
  <2> HIDE DEF g
  <2>2. IsBackFrom(g, mat, 0)
    BY <2>1 DEF IsBackFrom, last
  <2>3. QED
    BY <2>2
<1>2. ASSUME NEW n \in Nat, n \in N PROVE n + 1 \in N
  <2>1. PICK g : IsBackFrom(g, mat, n)
    BY <1>2
  <2>2. \A i \in O-n .. O : g[i] = IF i = O THEN last ELSE BackStep(g[i+1], mat, i)
    BY <2>1 DEF IsBackFrom, last
  <2> DEFINE h == [i \in O-(n+1) .. O |-> IF i = O THEN last ELSE BackStep(g[i+1], mat, i)]
  <2>3. \A i \in O-n .. O : h[i] = g[i]
    <3>1. \A i \in O-n .. O : i \in O-(n+1) .. O
      BY UovAssumption
    <3>2. QED
      BY <2>2, <3>1
  <2>4. \A i \in O-(n+1) .. O : i # O => i + 1 \in O-n .. O
    BY UovAssumption
  <2>5. \A i \in O-(n+1) .. O : i # O => h[i+1] = g[i+1]
    <3> HIDE DEF h
    <3>1. QED
      BY <2>3, <2>4
  <2>6. h = [i \in O-(n+1) .. O |-> IF i = O THEN last ELSE BackStep(h[i+1], mat, i)]
    BY <2>5
  <2> HIDE DEF h
  <2>7. IsBackFrom(h, mat, n + 1)
    BY <2>6 DEF IsBackFrom, last
  <2>8. QED
    BY <2>7
<1> HIDE DEF N
<1>3. Nat \subseteq N
  BY <1>1, <1>2, NatSetInduction
<1>4. O - 1 \in Nat /\ O - (O - 1) = 1
  BY UovAssumption
<1>5. PICK g : IsBackFrom(g, mat, O - 1)
  BY <1>3, <1>4 DEF N
<1>6. IsBack(g, mat)
  BY <1>4, <1>5 DEF IsBack, IsBackFrom, BackStep
<1>7. QED
  BY <1>6

LEMMA BackSteps ==
  ASSUME NEW mat \in System, NEW g, IsBack(g, mat)
  PROVE  /\ \A e \in Eq : g[O][e] = mat[e][O]
         /\ \A i \in 1 .. O-1, e \in Eq :
              /\ e < i => g[i][e] = GFAdd(g[i+1][e], GFMul(mat[e][i], g[i+1][i]))
              /\ ~(e < i) => g[i][e] = g[i+1][e]
<1>1. \A i \in 1 .. O : g[i] = IF i = O THEN [e \in Eq |-> mat[e][O]] ELSE BackStep(g[i+1], mat, i)
  BY DEF IsBack, BackStep
<1>2. O \in 1 .. O /\ \A i \in 1 .. O-1 : i \in 1 .. O /\ i # O
  BY UovAssumption
<1>3. \A e \in Eq : g[O][e] = mat[e][O]
  BY <1>1, <1>2
<1>4. \A i \in 1 .. O-1 : g[i] = BackStep(g[i+1], mat, i)
  BY <1>1, <1>2
<1>5. ASSUME NEW i \in 1 .. O-1, NEW e \in Eq
      PROVE  /\ e < i => g[i][e] = GFAdd(g[i+1][e], GFMul(mat[e][i], g[i+1][i]))
             /\ ~(e < i) => g[i][e] = g[i+1][e]
  BY <1>4 DEF BackStep
<1>6. QED
  BY <1>3, <1>5

LEMMA BackType ==
  ASSUME NEW mat \in System, NEW g, IsBack(g, mat)
  PROVE  \A i \in 1 .. O, e \in Eq : g[i][e] \in GF
<1> DEFINE N == {n \in Nat : n < O => \A e \in Eq : g[O-n][e] \in GF}
<1>0. \A e \in Eq : mat[e][O] \in GF /\ \A k \in Eq : mat[e][k] \in GF
  <2>1. ASSUME NEW e \in Eq PROVE mat[e] \in LinearRow
    BY DEF System
  <2>2. QED
    BY <2>1, RowParts, RowEntry
<1>1. 0 \in N
  <2>1. O - 0 = O
    BY UovAssumption
  <2>2. QED
    BY <1>0, <2>1, BackSteps
<1>2. ASSUME NEW n \in Nat, n \in N PROVE n + 1 \in N
  <2>1. SUFFICES ASSUME n + 1 < O, NEW e \in Eq PROVE g[O-(n+1)][e] \in GF
    OBVIOUS
  <2> DEFINE i == O - (n + 1)
  <2>2. i \in 1 .. O-1 /\ i + 1 = O - n /\ n < O /\ i \in Eq
    BY UovAssumption, <2>1 DEF Eq
  <2> HIDE DEF i
  <2>3. g[i+1][e] \in GF /\ g[i+1][i] \in GF /\ mat[e][i] \in GF
    BY <1>0, <1>2, <2>2
  <2>4. GFAdd(g[i+1][e], GFMul(mat[e][i], g[i+1][i])) \in GF
    BY <2>3, AddType, MulType
  <2>5. g[i][e] = GFAdd(g[i+1][e], GFMul(mat[e][i], g[i+1][i])) \/ g[i][e] = g[i+1][e]
    BY <2>2, BackSteps
  <2>6. QED
    BY <2>3, <2>4, <2>5 DEF i
<1> HIDE DEF N
<1>3. Nat \subseteq N
  BY <1>1, <1>2, NatSetInduction
<1>4. TAKE i \in 1 .. O, e \in Eq
<1>5. O - i \in Nat /\ O - i < O /\ O - (O - i) = i
  BY UovAssumption
<1>6. QED
  BY <1>3, <1>5 DEF N

(* A value is final once its own column has been reached.                  *)
LEMMA BackStable ==
  ASSUME NEW mat \in System, NEW g, IsBack(g, mat)
  PROVE  \A i \in 1 .. O-1 : g[i+1][i] = g[1][i]
<1> DEFINE N == {n \in Nat : n < O => \A e \in Eq : n <= e => g[n+1][e] = g[1][e]}
<1>1. 0 \in N
  OBVIOUS
<1>2. ASSUME NEW n \in Nat, n \in N PROVE n + 1 \in N
  <2>1. SUFFICES ASSUME n + 1 < O, NEW e \in Eq, n + 1 <= e PROVE g[(n+1)+1][e] = g[1][e]
    OBVIOUS
  <2>2. n + 1 \in 1 .. O-1 /\ n < O /\ n <= e /\ ~(e < n + 1)
    BY UovAssumption, <2>1 DEF Eq
  <2>3. g[n+1][e] = g[1][e]
    BY <1>2, <2>2
  <2>4. g[n+1][e] = g[(n+1)+1][e]
    BY <2>2, BackSteps
  <2>5. QED
    BY <2>3, <2>4
<1> HIDE DEF N
<1>3. Nat \subseteq N
  BY <1>1, <1>2, NatSetInduction
<1>4. TAKE i \in 1 .. O-1
<1>5. i \in Nat /\ i < O /\ i \in Eq /\ i <= i
  BY UovAssumption DEF Eq
<1>6. QED
  BY <1>3, <1>5 DEF N

(* What the columns from i on add to the e-th constant.                    *)
After(e, i) == {j \in Col : i <= j /\ e < j}
Products(x, r) == [j \in Col |-> GFMul(x[j], r[j])]

LEMMA BackSum ==
  ASSUME NEW mat \in System, NEW g, IsBack(g, mat), NEW e \in Eq
  PROVE  g[1][e] = GFAdd(mat[e][O], Sum(Products(g[1], mat[e]), After(e, 1)))
<1> DEFINE x == g[1]
           f == Products(x, mat[e])
           c == mat[e][O]
           N == {n \in Nat : n < O => g[O-n][e] = GFAdd(c, Sum(f, After(e, O-n)))}
<1>0. /\ \A j \in Col : mat[e][j] \in GF /\ x[j] \in GF
      /\ c \in GF
  <2>1. mat[e] \in LinearRow
    BY DEF System
  <2>2. \A j \in Eq : x[j] \in GF
    BY UovAssumption, BackType
  <2>3. Eq = Col
    BY DEF Eq, Col
  <2>4. QED
    BY <2>1, <2>2, <2>3, RowParts
<1>1. Terms(f, Col)
  BY <1>0, MulType DEF Terms, Products
<1>2. \A j \in Col : f[j] = GFMul(x[j], mat[e][j])
  BY DEF Products
<1> HIDE DEF f, c, x
<1>3. 0 \in N
  <2>1. After(e, O - 0) = {}
    BY UovAssumption DEF After, Col
  <2>2. Sum(f, {}) = 0
    BY Indices, SumPick
  <2>3. g[O-0][e] = c
    <3>1. O - 0 = O
      BY UovAssumption
    <3>2. QED
      BY <3>1, BackSteps DEF c
  <2>4. GFAdd(c, 0) = c
    BY <1>0, Field
  <2>5. QED
    BY <2>1, <2>2, <2>3, <2>4
<1>4. ASSUME NEW n \in Nat, n \in N PROVE n + 1 \in N
  <2>1. SUFFICES ASSUME n + 1 < O PROVE g[O-(n+1)][e] = GFAdd(c, Sum(f, After(e, O-(n+1))))
    OBVIOUS
  <2> DEFINE i == O - (n + 1)
             s == After(e, i + 1)
  <2>2. i \in 1 .. O-1 /\ i + 1 = O - n /\ n < O /\ i \in Eq /\ i \in Col /\ i \in Nat /\ e \in Nat
    BY UovAssumption, <2>1 DEF Eq, Col
  <2> HIDE DEF i
  <2>3. g[i+1][e] = GFAdd(c, Sum(f, s))
    BY <1>4, <2>2
  <2>4. s \in SUBSET Col /\ i \notin s
    BY <2>2 DEF After, Col
  <2>5. CASE e < i
    <3>1. After(e, i) = s \cup {i}
      BY <2>2, <2>5 DEF After, Col
    <3>2. Sum(f, s \cup {i}) = GFAdd(f[i], Sum(f, s))
      <4>1. \A a \in SUBSET Col, j \in Col :
              j \notin a => Sum(f, a \cup {j}) = GFAdd(f[j], Sum(f, a))
        BY <1>1, Indices, SumMore
      <4> HIDE DEF s
      <4>2. QED
        BY <2>2, <2>4, <4>1
    <3>3. g[i][e] = GFAdd(g[i+1][e], GFMul(mat[e][i], g[i+1][i]))
      BY <2>2, <2>5, BackSteps
    <3>4. g[i+1][i] = x[i]
      BY <2>2, BackStable DEF x
    <3>5. GFMul(mat[e][i], x[i]) = f[i]
      BY <1>0, <1>2, <2>2, MulSwap
    <3>6. f[i] \in GF /\ Sum(f, s) \in GF
      <4> HIDE DEF s
      <4>1. QED
        BY <1>1, <2>2, <2>4, Indices, SumType DEF Terms
    <3> HIDE DEF s
    <3>7. GFAdd(GFAdd(c, Sum(f, s)), f[i]) = GFAdd(c, GFAdd(Sum(f, s), f[i]))
      BY <1>0, <3>6, AddGroup
    <3>8. GFAdd(Sum(f, s), f[i]) = GFAdd(f[i], Sum(f, s))
      BY <3>6, AddSwap
    <3>9. QED
      BY <2>3, <3>1, <3>2, <3>3, <3>4, <3>5, <3>7, <3>8 DEF i
  <2>6. CASE ~(e < i)
    <3>1. After(e, i) = s
      BY <2>2, <2>6 DEF After, Col
    <3>2. g[i][e] = g[i+1][e]
      BY <2>2, <2>6, BackSteps
    <3>3. QED
      BY <2>3, <3>1, <3>2 DEF i
  <2>7. QED
    BY <2>5, <2>6
<1> HIDE DEF N
<1>5. Nat \subseteq N
  BY <1>3, <1>4, NatSetInduction
<1>6. O - 1 \in Nat /\ O - 1 < O /\ O - (O - 1) = 1
  BY UovAssumption
<1>7. QED
  BY <1>5, <1>6 DEF N, x, f, c

(* Back substitution of a unit upper triangle solves it.                   *)
LEMMA BackSolves ==
  ASSUME NEW mat \in System, Triangular(mat, O)
  PROVE  gfmat_back_substitute(mat) \in [Col -> GF] /\ Solves(mat, gfmat_back_substitute(mat))
<1> DEFINE g == CHOOSE g : IsBack(g, mat)
           x == g[1]
<1>1. gfmat_back_substitute(mat) = x
  BY DEF gfmat_back_substitute, IsBack
<1>2. IsBack(g, mat)
  BY BackExists
<1> HIDE DEF g
<1>3. \A e \in Eq : x[e] \in GF
  BY <1>2, UovAssumption, BackType
<1>4. x = [e \in Eq |-> x[e]]
  <2>1. \A i \in 1 .. O : g[i] = IF i = O THEN [e \in Eq |-> mat[e][O]] ELSE BackStep(g[i+1], mat, i)
    BY <1>2 DEF IsBack, BackStep
  <2>2. 1 \in 1 .. O
    BY UovAssumption
  <2>3. g[1] = IF 1 = O THEN [e \in Eq |-> mat[e][O]] ELSE BackStep(g[1+1], mat, 1)
    BY <2>1, <2>2
  <2>4. QED
    BY <2>3 DEF BackStep
<1>5. Eq = Col
  BY DEF Eq, Col
<1>6. x \in [Col -> GF] /\ Terms(x, Col)
  BY <1>3, <1>4, <1>5 DEF Terms
<1>7. ASSUME NEW e \in Eq PROVE Residue(mat[e], x) = 0
  <2> DEFINE r == mat[e]
             f == Products(x, r)
             s == After(e, 1)
             u == s \cup {e}
  <2>1. r \in LinearRow
    BY DEF System
  <2>2. x[e] = GFAdd(r[O], Sum(f, s))
    BY <1>2, BackSum
  <2>3. \A j \in Col : f[j] = GFMul(x[j], r[j]) /\ r[j] \in GF
    BY <2>1, RowParts DEF Products
  <2>4. Dot(x, r, Col) = Sum(f, Col)
    BY DEF Dot, Products
  <2>5. r[e] = 1 /\ \A j \in Col : j < e => r[j] = 0
    <3>1. \A k \in Eq : k < O
      BY UovAssumption DEF Eq
    <3>2. \A k \in Eq : mat[k][k] = 1 /\ \A l \in Eq : k < l => mat[l][k] = 0
      BY <3>1 DEF Triangular
    <3> HIDE DEF x
    <3>3. QED
      BY <1>5, <3>2
  <2>6. s \in SUBSET Col /\ u \in SUBSET Col /\ e \in Col /\ e \notin s
        /\ \A j \in Col \ u : j < e
    BY <1>5, UovAssumption DEF After, Col
  <2> HIDE DEF f, s, r, x
  <2>7. Terms(f, Col)
    BY <1>6, <2>3, MulType DEF Terms
  <2>8. Sum(f, Col) = Sum(f, u)
    <3>1. \A j \in Col \ u : f[j] = 0
      BY <1>6, <2>3, <2>5, <2>6, TimesZero DEF Terms
    <3> HIDE DEF u
    <3>2. QED
      BY <2>6, <2>7, <3>1, Indices, SumRestrict
  <2>9. Sum(f, u) = GFAdd(f[e], Sum(f, s))
    <3>1. \A a \in SUBSET Col, j \in Col :
            j \notin a => Sum(f, a \cup {j}) = GFAdd(f[j], Sum(f, a))
      BY <2>7, Indices, SumMore
    <3>2. QED
      BY <2>6, <3>1
  <2>10. f[e] = x[e]
    <3>1. f[e] = GFMul(x[e], 1) /\ x[e] \in GF
      BY <1>6, <2>3, <2>5, <2>6 DEF Terms
    <3>2. QED
      BY <3>1, Field
  <2>11. r[O] \in GF /\ Sum(f, s) \in GF
    BY <2>1, <2>6, <2>7, Indices, RowParts, SumType
  <2>12. GFAdd(GFAdd(r[O], Sum(f, s)), Sum(f, s)) = r[O]
    BY <2>11, AddTwice
  <2>13. Dot(x, r, Col) = r[O]
    BY <2>2, <2>4, <2>8, <2>9, <2>10, <2>12
  <2>14. QED
    BY <1>6, <2>1, <2>13, ResidueZero DEF r
<1>8. QED
  BY <1>1, <1>6, <1>7 DEF Solves

-----------------------------------------------------------------------------
(* A signature inverts the public map.                                     *)

(* One row of the quadratic part, and all of it.                           *)
LEMMA QuadRow ==
  ASSUME NEW A \in Triangle, NEW v, Terms(v, Row), NEW i \in Row, NEW e \in Eq
  PROVE  gfmat_prod([j \in i .. V-1 |-> A[i, j]], v, i .. V-1)[e] = Apply(Tri(A, e), v, Row, Row)[i]
<1> DEFINE S == i .. V-1
           a == [j \in S |-> A[i, j]]
           f == [j \in S |-> VScale(v[j], a[j])]
           l == Line(Tri(A, e), i, Row)
           u == [j \in Row |-> GFMul(v[j], l[j])]
           d == At(f, S, e)
<1>1. IsFiniteSet(S) /\ S \in SUBSET Row /\ \A j \in Row : j \in S <=> i <= j
  BY UovAssumption, FS_Interval DEF Row
<1>2. gfmat_prod(a, v, S) = VTotal(f, S)
  BY <1>1, ProdIsTotal
<1>3. VTotal(f, S)[e] = Sum(d, S)
  BY DEF VTotal
<1>4. Apply(Tri(A, e), v, Row, Row)[i] = Sum(u, Row)
  BY DEF Apply, Dot
<1>5. \A j \in Row : l[j] = (IF i <= j THEN A[i, j][e] ELSE 0)
  BY DEF Line, Tri
<1>6. \A j \in S : d[j] = u[j]
  <2>1. \A j \in S : d[j] = GFMul(v[j], A[i, j][e])
    BY DEF At, VScale
  <2>2. \A j \in S : u[j] = GFMul(v[j], A[i, j][e])
    BY <1>1, <1>5
  <2>3. QED
    BY <2>1, <2>2
<1>7. Terms(u, Row)
  <2>1. Terms(l, Row)
    BY TriType DEF Terms, Line
  <2> HIDE DEF l
  <2>2. QED
    BY <2>1, MulType DEF Terms
<1>8. \A j \in Row \ S : u[j] = 0
  <2>1. \A j \in Row \ S : u[j] = GFMul(v[j], 0)
    BY <1>1, <1>5
  <2>2. QED
    BY <2>1, TimesZero DEF Terms
<1> HIDE DEF S, f, u, d, l
<1>9. Sum(d, S) = Sum(u, S)
  BY <1>1, <1>6, SumSame
<1>10. Sum(u, Row) = Sum(u, S)
  BY <1>1, <1>7, <1>8, Indices, SumRestrict
<1>11. QED
  BY <1>2, <1>3, <1>4, <1>9, <1>10 DEF S

LEMMA QuadEntry ==
  ASSUME NEW A \in Triangle, NEW v, Terms(v, Row), NEW e \in Eq
  PROVE  batch_quad_trimat_eval(A, v)[e] = Dot(v, Apply(Tri(A, e), v, Row, Row), Row)
<1> DEFINE p == [i \in Row |-> gfmat_prod([j \in i .. V-1 |-> A[i, j]], v, i .. V-1)]
           f == [i \in Row |-> VScale(v[i], gfmat_prod([j \in i .. V-1 |-> A[i, j]], v, i .. V-1))]
           t == Apply(Tri(A, e), v, Row, Row)
           d == At(f, Row, e)
           u == [i \in Row |-> GFMul(v[i], t[i])]
<1>1. batch_quad_trimat_eval(A, v) = VTotal(f, Row)
  BY QuadIsTotal
<1>2. VTotal(f, Row)[e] = Sum(d, Row)
  BY DEF VTotal
<1>3. Dot(v, t, Row) = Sum(u, Row)
  BY DEF Dot
<1>4. \A i \in Row : p[i][e] = t[i]
  BY QuadRow
<1>5. \A i \in Row : d[i] = GFMul(v[i], p[i][e])
  BY DEF At, VScale
<1> HIDE DEF p, f, t, d
<1>6. \A i \in Row : d[i] = u[i]
  BY <1>4, <1>5
<1> HIDE DEF u
<1>7. Sum(d, Row) = Sum(u, Row)
  BY <1>6, Indices, SumSame
<1>8. QED
  BY <1>1, <1>2, <1>3, <1>7 DEF t

LEMMA ColumnEntry ==
  ASSUME NEW S, NEW v, NEW j \in Col, NEW e \in Eq
  PROVE  gfmat_prod([i \in Row |-> S[i, j]], v, Row)[e] = Dot(v, Stack(Ent(S, e), Row, j), Row)
<1> DEFINE a == [i \in Row |-> S[i, j]]
           f == [i \in Row |-> VScale(v[i], a[i])]
           d == At(f, Row, e)
           s == Stack(Ent(S, e), Row, j)
           u == [i \in Row |-> GFMul(v[i], s[i])]
<1>1. gfmat_prod(a, v, Row) = VTotal(f, Row)
  BY Indices, ProdIsTotal
<1>2. VTotal(f, Row)[e] = Sum(d, Row)
  BY DEF VTotal
<1>3. Dot(v, s, Row) = Sum(u, Row)
  BY DEF Dot
<1>4. ASSUME NEW i \in Row PROVE d[i] = u[i]
  <2>1. d[i] = GFMul(v[i], S[i, j][e])
    BY DEF At, VScale
  <2>2. <<i, j>> \in Row \X Col
    OBVIOUS
  <2>3. Ent(S, e)[<<i, j>>] = S[<<i, j>>][e]
    BY <2>2 DEF Ent
  <2>4. s[i] = S[i, j][e]
    BY <2>3 DEF Stack
  <2> HIDE DEF d, s
  <2>5. QED
    BY <2>1, <2>4
<1> HIDE DEF f, d, s, u
<1>5. Sum(d, Row) = Sum(u, Row)
  BY <1>4, Indices, SumSame
<1>6. QED
  BY <1>1, <1>2, <1>3, <1>5 DEF s

SystemColumns(S, v) == [j \in Col |-> gfmat_prod([i \in Row |-> S[i, j]], v, Row)]
SystemConstant(P1, v, yy) == VAdd(batch_quad_trimat_eval(P1, v), yy)

LEMMA QuadType ==
  ASSUME NEW A \in Triangle, NEW v, Terms(v, Row)
  PROVE  batch_quad_trimat_eval(A, v) \in Vec
<1> DEFINE b == batch_quad_trimat_eval(A, v)
<1>1. b = [e \in Eq |-> b[e]]
  BY QuadIsTotal DEF VTotal
<1>2. ASSUME NEW e \in Eq PROVE b[e] \in GF
  <2> DEFINE t == Apply(Tri(A, e), v, Row, Row)
  <2>1. b[e] = Dot(v, t, Row)
    BY QuadEntry
  <2>2. Terms(t, Row)
    <3>1. Entries(Tri(A, e), Row, Row)
      BY TriEntries
    <3>2. QED
      BY <3>1, Indices, ApplyType
  <2> HIDE DEF b, t
  <2>3. Dot(v, t, Row) \in GF
    BY <2>2, Indices, DotType
  <2>4. QED
    BY <2>1, <2>3
<1> HIDE DEF b
<1>3. b \in Vec
  BY <1>1, <1>2 DEF Vec
<1>4. QED
  BY <1>3 DEF b

LEMMA ColumnsType ==
  ASSUME NEW S \in Matrix, NEW v, Terms(v, Row)
  PROVE  \A j \in Col : SystemColumns(S, v)[j] \in Vec
<1> TAKE j \in Col
<1> DEFINE A == [i \in Row |-> S[i, j]]
<1>1. \A i \in Row : A[i] \in Vec
  BY MatrixEntry
<1>2. SystemColumns(S, v)[j] = gfmat_prod(A, v, Row)
  BY DEF SystemColumns
<1> HIDE DEF A
<1>3. gfmat_prod(A, v, Row) \in Vec
  BY <1>1, Indices, ProdType
<1>4. QED
  BY <1>2, <1>3

(* Oil variables that solve the system of the vinegar ones, assembled with *)
(* them, give the target.                                                  *)
LEMMA SystemInverts ==
  ASSUME NEW sd \in SeedSet, NEW v, Terms(v, Row), NEW o, Terms(o, Col), NEW yy \in Vec,
         NEW S, S = batch_2trimat_madd(sd.P2, sd.P1, sd.O),
         \A e \in Eq : Dot(o, Coordinate(SystemColumns(S, v), e), Col) = SystemConstant(sd.P1, v, yy)[e],
         NEW x, IsAssembled(x, sd.O, v, o)
  PROVE  ov_publicmap(generate_keypair(sd).pk, x) = yy
<1> DEFINE m == ov_publicmap(generate_keypair(sd).pk, x)
<1>1. sd.P1 \in Triangle /\ S \in Matrix
  BY TwiceTrimatType DEF SeedSet
<1>2. ASSUME NEW e \in Eq PROVE m[e] = yy[e]
  <2> DEFINE F == Ent(S, e)
             a == Dot(v, Apply(Tri(sd.P1, e), v, Row, Row), Row)
             c == [j \in Col |-> Dot(v, Stack(F, Row, j), Row)]
             d == Coordinate(SystemColumns(S, v), e)
             b == batch_quad_trimat_eval(sd.P1, v)
  <2>1. m[e] = GFAdd(a, Dot(v, Apply(F, o, Row, Col), Row))
    BY PublicForm
  <2>2. b \in Vec /\ b[e] = a
    BY <1>1, QuadType, QuadEntry
  <2>3. SystemConstant(sd.P1, v, yy)[e] = GFAdd(b[e], yy[e])
    BY DEF SystemConstant, VAdd
  <2>4. ASSUME NEW j \in Col PROVE d[j] = c[j]
    <3> DEFINE k == gfmat_prod([i \in Row |-> S[i, j]], v, Row)
    <3>1. SystemColumns(S, v)[j] = k
      BY DEF SystemColumns
    <3>2. d[j] = SystemColumns(S, v)[j][e]
      BY DEF Coordinate
    <3>3. k[e] = c[j]
      BY ColumnEntry
    <3> HIDE DEF k, c, d
    <3>4. QED
      BY <3>1, <3>2, <3>3
  <2>5. Entries(F, Row, Col)
    BY <1>1, EntType
  <2>6. a \in GF /\ yy[e] \in GF
    BY <2>2 DEF Vec
  <2>7. Dot(o, d, Col) = GFAdd(b[e], yy[e])
    BY <2>3
  <2> HIDE DEF m, F, a, b, d
  <2>8. Dot(o, c, Col) = Dot(v, Apply(F, o, Row, Col), Row)
    BY <2>5, Indices, Through
  <2> HIDE DEF c
  <2>9. Dot(o, d, Col) = Dot(o, c, Col)
    BY <2>4, DotSame
  <2>10. GFAdd(a, GFAdd(a, yy[e])) = yy[e]
    BY <2>6, AddTwice
  <2>11. QED
    BY <2>1, <2>2, <2>7, <2>8, <2>9, <2>10
<1>3. m = [e \in Eq |-> m[e]]
  BY ReduceIsTotal DEF ov_publicmap, VTotal
<1>4. yy = [e \in Eq |-> yy[e]]
  BY DEF Vec
<1> HIDE DEF m
<1>5. m = yy
  BY <1>2, <1>3, <1>4
<1>6. QED
  BY <1>5 DEF m

-----------------------------------------------------------------------------
(* Compressed public keys.                                                 *)

LEMMA ExpandedKey ==
  ASSUME NEW sd
  PROVE  expand_pk(generate_keypair_pkc(sd).pk) = generate_keypair(sd).pk
BY DEF expand_pk, generate_keypair_pkc, generate_keypair

LEMMA ScaledSame ==
  ASSUME NEW P, IsFiniteSet(P), NEW m, Terms(m, P), NEW M \in [P -> Vec], NEW N \in [P -> Vec],
         \A p \in P : m[p] = 0 \/ N[p] = M[p], NEW e \in Eq
  PROVE  Sum(Scaled(m, N, P, e), P) = Sum(Scaled(m, M, P, e), P)
<1> DEFINE f == Scaled(m, N, P, e)
           g == Scaled(m, M, P, e)
<1>1. ASSUME NEW p \in P PROVE f[p] = g[p]
  <2> DEFINE a == M[p][e]
             b == N[p][e]
  <2>1. f[p] = GFMul(m[p], b) /\ g[p] = GFMul(m[p], a)
    BY DEF Scaled
  <2>2. a \in GF /\ b \in GF
    BY DEF Vec
  <2>3. m[p] = 0 \/ b = a
    OBVIOUS
  <2> HIDE DEF a, b, f, g
  <2>4. GFMul(0, a) = 0 /\ GFMul(0, b) = 0
    BY <2>2, TimesZero
  <2>5. QED
    BY <2>1, <2>3, <2>4
<1> HIDE DEF f, g
<1>2. Sum(f, P) = Sum(g, P)
  BY <1>1, SumSame
<1>3. QED
  BY <1>2 DEF f, g

(* The rows of variables that are zero do not count, whatever they hold.   *)
LEMMA PredicateSame ==
  ASSUME NEW sd \in SeedSet, NEW x \in [Variables -> GF], NEW old \in Vec
  PROVE  ov_publicmap(expand_pk_predicate(generate_keypair_pkc(sd).pk, x, old), x)
           = ov_publicmap(generate_keypair(sd).pk, x)
<1> DEFINE pk == generate_keypair(sd).pk
           cpk == generate_keypair_pkc(sd).pk
           qk == expand_pk_predicate(cpk, x, old)
           N1 == [p \in Upper(V) |-> IF x[p[1]] = 0 THEN old ELSE sd.P1[p]]
           N2 == [p \in Row \X Col |-> IF x[p[1]] = 0 THEN old ELSE sd.P2[p]]
           a == ov_publicmap(pk, x)
           b == ov_publicmap(qk, x)
<1>1. PublicKey(pk) /\ pk.P1 = sd.P1 /\ pk.P2 = sd.P2
  BY KeyType
<1>2. cpk.pk_seed.P1 = sd.P1 /\ cpk.pk_seed.P2 = sd.P2 /\ cpk.P3 = pk.P3
  BY DEF generate_keypair_pkc, generate_keypair
<1> HIDE DEF pk, cpk
<1>3. qk.P1 = N1 /\ qk.P2 = N2 /\ qk.P3 = pk.P3
  BY <1>2 DEF expand_pk_predicate
<1> HIDE DEF qk
<1>4. sd.P1 \in Triangle /\ sd.P2 \in Matrix
  BY DEF SeedSet
<1>5. N1 \in Triangle /\ N2 \in Matrix
  BY <1>4 DEF Triangle, Matrix
<1>6. PublicKey(qk)
  BY <1>1, <1>3, <1>5 DEF PublicKey
<1>7. \A p \in Upper(V) : Mono1(x)[p] = 0 \/ N1[p] = sd.P1[p]
  <2>1. ASSUME NEW p \in Upper(V), x[p[1]] = 0 PROVE Mono1(x)[p] = 0
    <3>1. p[2] \in Variables
      BY UovAssumption DEF Upper, Variables
    <3>2. Mono1(x)[p] = GFMul(0, x[p[2]])
      BY <2>1 DEF Mono1
    <3>3. x[p[2]] \in GF
      BY <3>1
    <3>4. QED
      BY <3>2, <3>3, TimesZero
  <2>2. QED
    BY <2>1
<1>8. \A p \in Row \X Col : Mono2(x)[p] = 0 \/ N2[p] = sd.P2[p]
  <2>1. ASSUME NEW p \in Row \X Col, x[p[1]] = 0 PROVE Mono2(x)[p] = 0
    <3>1. V + p[2] \in Variables
      BY UovAssumption DEF Col, Variables
    <3>2. Mono2(x)[p] = GFMul(0, x[V + p[2]])
      BY <2>1 DEF Mono2
    <3>3. x[V + p[2]] \in GF
      BY <3>1
    <3>4. QED
      BY <3>2, <3>3, TimesZero
  <2>2. QED
    BY <2>1
<1>9. Terms(Mono1(x), Upper(V)) /\ Terms(Mono2(x), Row \X Col)
  BY MonosType
<1> HIDE DEF N1, N2
<1>10. ASSUME NEW e \in Eq PROVE a[e] = b[e]
  <2> DEFINE U == Upper(V)
             R == Row \X Col
  <2>1. IsFiniteSet(U) /\ IsFiniteSet(R)
    BY PairsFinite
  <2>2. N1 \in [U -> Vec] /\ sd.P1 \in [U -> Vec] /\ N2 \in [R -> Vec] /\ sd.P2 \in [R -> Vec]
    BY <1>4, <1>5 DEF Triangle, Matrix
  <2>3. a[e] = GFAdd(Sum(Scaled(Mono1(x), pk.P1, U, e), U),
                     GFAdd(Sum(Scaled(Mono2(x), pk.P2, R, e), R),
                           Sum(Scaled(Mono3(x), pk.P3, Upper(O), e), Upper(O))))
    BY <1>1, PublicMapEntry
  <2>4. b[e] = GFAdd(Sum(Scaled(Mono1(x), qk.P1, U, e), U),
                     GFAdd(Sum(Scaled(Mono2(x), qk.P2, R, e), R),
                           Sum(Scaled(Mono3(x), qk.P3, Upper(O), e), Upper(O))))
    BY <1>6, PublicMapEntry
  <2> HIDE DEF a, b
  <2>5. Sum(Scaled(Mono1(x), N1, U, e), U) = Sum(Scaled(Mono1(x), sd.P1, U, e), U)
    <3> HIDE DEF U
    <3>1. Terms(Mono1(x), U) /\ \A p \in U : Mono1(x)[p] = 0 \/ N1[p] = sd.P1[p]
      BY <1>7, <1>9 DEF U
    <3>2. QED
      BY <2>1, <2>2, <3>1, ScaledSame
  <2>6. Sum(Scaled(Mono2(x), N2, R, e), R) = Sum(Scaled(Mono2(x), sd.P2, R, e), R)
    <3> HIDE DEF R
    <3>1. Terms(Mono2(x), R) /\ \A p \in R : Mono2(x)[p] = 0 \/ N2[p] = sd.P2[p]
      BY <1>8, <1>9 DEF R
    <3>2. QED
      BY <2>1, <2>2, <3>1, ScaledSame
  <2>7. QED
    BY <1>1, <1>3, <2>3, <2>4, <2>5, <2>6
<1>11. a = [e \in Eq |-> a[e]] /\ b = [e \in Eq |-> b[e]]
  BY ReduceIsTotal DEF ov_publicmap, VTotal
<1> HIDE DEF a, b
<1>12. a = b
  BY <1>10, <1>11
<1>13. QED
  BY <1>12 DEF a, b, pk, qk, cpk

-----------------------------------------------------------------------------
(* The retry loop.                                                         *)

(* The counters hashed are those below n_attempt, which stops in time.     *)
Counted ==
  /\ n_attempt \in 0 .. MAX_ATTEMPT_VINEGAR
  /\ tried = 0 .. n_attempt - 1

LEMMA Attempts ==
  /\ MAX_ATTEMPT_VINEGAR \in Nat /\ MAX_ATTEMPT_VINEGAR > 0
  /\ CtrMod \in Nat /\ MAX_ATTEMPT_VINEGAR <= CtrMod
BY OvSignAssumption

LEMMA InitCounted == Init => Counted
BY Attempts DEF Init, Counted

LEMMA AttemptCounted == ASSUME Counted, Attempt PROVE Counted'
<1>1. /\ n_attempt \in Nat /\ n_attempt < MAX_ATTEMPT_VINEGAR /\ tried = 0 .. n_attempt - 1
      /\ tried' = tried \cup {Ctr(n_attempt)} /\ n_attempt' = n_attempt + 1
  BY Attempts DEF Counted, Attempt, Round
<1>2. Ctr(n_attempt) = n_attempt
  BY <1>1, Attempts DEF Ctr
<1>3. tried' = 0 .. n_attempt' - 1
  BY <1>1, <1>2
<1>4. QED
  BY <1>1, <1>3, Attempts DEF Counted

LEMMA NextCounted == Counted /\ [Next]_vars => Counted'
<1> SUFFICES ASSUME Counted, [Next]_vars PROVE Counted'
  OBVIOUS
<1>1. CASE Attempt
  BY <1>1, AttemptCounted
<1>2. CASE Expand \/ Free \/ Start \/ RejectDigest \/ GiveUp \/ Finish \/ UNCHANGED vars
  <2>1. UNCHANGED <<n_attempt, tried>>
    BY <1>2 DEF Expand, Free, Start, RejectDigest, GiveUp, Finish, vars
  <2>2. QED
    BY <2>1 DEF Counted
<1>3. QED
  BY <1>1, <1>2 DEF Next

(* No retry repeats the counter of an earlier round, although the counter  *)
(* is a byte: the attempts end before it wraps (_ov_sign_target, ov.c).    *)
THEOREM SignRetriesDiffer == Spec => []RetriesDiffer
<1>1. Counted => RetriesDiffer
  <2>1. SUFFICES ASSUME Counted PROVE Cardinality(0 .. n_attempt - 1) = n_attempt
    BY DEF Counted, RetriesDiffer
  <2>2. n_attempt \in Nat
    BY <2>1 DEF Counted
  <2>3. Cardinality(0 .. n_attempt - 1) = IF 0 > n_attempt - 1 THEN 0 ELSE (n_attempt - 1) - 0 + 1
    <3>1. 0 \in Int /\ n_attempt - 1 \in Int
      BY <2>2
    <3> DEFINE b == n_attempt - 1
    <3> HIDE DEF b
    <3>2. Cardinality(0 .. b) = IF 0 > b THEN 0 ELSE b - 0 + 1
      BY <3>1, FS_Interval DEF b
    <3>3. QED
      BY <3>2 DEF b
  <2>4. QED
    BY <2>2, <2>3
<1>2. QED
  BY <1>1, InitCounted, NextCounted, PTL DEF Spec

-----------------------------------------------------------------------------
(* The secret key.                                                         *)

Seeded == seed \in Seeds

LEMMA SeedParts ==
  ASSUME NEW s \in Seeds
  PROVE  s.P1 \in Triangle /\ s.P2 \in Matrix /\ s.O \in Oil
BY OvSignAssumption DEF Triangle, Matrix, Oil

LEMMA InitSeeded == Init => Seeded
BY DEF Init, Seeded

LEMMA NextSeeded == Seeded /\ [Next]_vars => Seeded'
<1>1. [Next]_vars => UNCHANGED seed
  BY DEF Next, Expand, Free, Start, RejectDigest, Attempt, Round, GiveUp, Finish, vars
<1>2. QED
  BY <1>1 DEF Seeded

(* A signer that expands its seed (calculate_F2, ov_keypair_computation.c) *)
(* uses the secret key of each way of key generation (calculate_F2_P3),    *)
(* and P3 does not depend on whether S is computed along with it.          *)
THEOREM SignSameSecretKey == Spec => []SameSecretKey
<1>1. Seeded => SameSecretKey
  <2>1. SUFFICES ASSUME seed \in Seeds PROVE SameSecretKey
    BY DEF Seeded
  <2>2. calculate_F2_P3(seed.P1, seed.P2, seed.O).S = calculate_F2(seed.P1, seed.P2, seed.O)
    BY <2>1, SeedParts, SameMatrix
  <2>3. expand_sk(seed) = generate_keypair(seed).sk /\ expand_sk(seed) = generate_keypair_pkc(seed).sk
    BY <2>2 DEF expand_sk, generate_keypair, generate_keypair_pkc
  <2>4. calculate_P3(seed.P1, seed.P2, seed.O) = generate_keypair(seed).pk.P3
    BY DEF calculate_P3, calculate_F2_P3, generate_keypair
  <2>5. QED
    BY <2>3, <2>4 DEF SameSecretKey
<1>2. QED
  BY <1>1, InitSeeded, NextSeeded, PTL DEF Spec

-----------------------------------------------------------------------------
(* What a round that succeeds gives.                                       *)

LEMMA OilSum ==
  ASSUME NEW Om, NEW x, NEW n \in Row
  PROVE  MapThenFoldSet(GFAdd, 0, LAMBDA j : GFMul(x[j], Om[n, j]),
                        LAMBDA T : CHOOSE t \in T : TRUE, Col)
           = Apply(Om, x, Row, Col)[n]
<1> DEFINE f == [j \in Col |-> GFMul(x[j], Om[n, j])]
           Code(g) == g = [s \in SUBSET Col |-> IF s = {} THEN 0
                             ELSE GFAdd(GFMul(x[Pick(s)], Om[n, Pick(s)]), g[s \ {Pick(s)}])]
           c == CHOOSE g : Code(g)
           l == Line(Om, n, Col)
<1>1. MapThenFoldSet(GFAdd, 0, LAMBDA j : GFMul(x[j], Om[n, j]),
                     LAMBDA T : CHOOSE t \in T : TRUE, Col) = c[Col]
  BY DEF MapThenFoldSet, Pick
<1>2. \A s \in SUBSET Col : s # {} => f[Pick(s)] = GFMul(x[Pick(s)], Om[n, Pick(s)])
  BY PickIn
<1>3. f = [j \in Col |-> GFMul(x[j], l[j])]
  BY DEF Line
<1>4. Apply(Om, x, Row, Col)[n] = Sum(f, Col)
  BY <1>3 DEF Apply, Dot
<1>5. PICK g : IsFold(g, f, Col)
  <2> HIDE DEF f
  <2>1. QED
    BY Indices, FoldExists
<1>6. Code(g)
  BY <1>2, <1>5 DEF IsFold
<1>7. Code(c)
  BY <1>6
<1>8. IsFold(c, f, Col)
  BY <1>2, <1>7 DEF IsFold
<1> HIDE DEF c, f, Code
<1>9. \A s \in SUBSET Col : c[s] = Sum(f, s)
  BY <1>8, Indices, FoldIsSum
<1>10. QED
  BY <1>1, <1>4, <1>9

LEMMA AssembleIs ==
  ASSUME NEW sk, sk.O \in Oil, NEW v \in [Row -> GF], NEW o \in [Col -> GF]
  PROVE  IsAssembled(Assemble(sk, v, o), sk.O, v, o)
<1> DEFINE x == Assemble(sk, v, o)
           u == Apply(sk.O, o, Row, Col)
<1>1. Row \subseteq Variables /\ \A j \in Col : V + j \in Variables /\ V + j >= V /\ (V + j) - V = j
  BY UovAssumption DEF Row, Col, Variables
<1>2. ASSUME NEW n \in Row PROVE x[n] = GFAdd(v[n], u[n])
  <2>1. n \in 0 .. V+O-1 /\ ~(n >= V)
    BY <1>1, UovAssumption DEF Row, Variables
  <2>2. x[n] = GFAdd(v[n], MapThenFoldSet(GFAdd, 0, LAMBDA j : GFMul(o[j], sk.O[n, j]),
                                          LAMBDA T : CHOOSE t \in T : TRUE, Col))
    BY <2>1 DEF Assemble
  <2>3. QED
    BY <2>2, OilSum
<1>3. ASSUME NEW j \in Col PROVE x[V + j] = o[j]
  <2>1. V + j \in 0 .. V+O-1 /\ V + j >= V
    BY <1>1 DEF Variables
  <2>2. x[V + j] = o[(V + j) - V]
    BY <2>1 DEF Assemble
  <2>3. QED
    BY <1>1, <2>2
<1>4. x = [n \in Variables |-> x[n]]
  BY DEF Assemble, Variables
<1>5. Terms(u, Row)
  <2>1. Entries(sk.O, Row, Col)
    BY OilEntry DEF Entries
  <2>2. Terms(o, Col)
    BY DEF Terms
  <2>3. QED
    BY <2>1, <2>2, Indices, ApplyType
<1> HIDE DEF x, u
<1>6. ASSUME NEW n \in Variables PROVE x[n] \in GF
  <2>1. CASE n \in Row
    <3>1. v[n] \in GF /\ u[n] \in GF
      BY <1>5, <2>1 DEF Terms
    <3>2. QED
      BY <1>2, <2>1, <3>1, AddType
  <2>2. CASE n \notin Row
    <3>1. n - V \in Col /\ V + (n - V) = n
      BY <2>2, UovAssumption DEF Row, Col, Variables
    <3>2. QED
      BY <1>3, <3>1
  <2>3. QED
    BY <2>1, <2>2
<1>7. x \in [Variables -> GF]
  BY <1>4, <1>6
<1>8. VinegarPart(x) = [n \in Row |-> GFAdd(v[n], u[n])]
  BY <1>2 DEF VinegarPart
<1>9. OilPart(x) = o
  <2>1. OilPart(x) = [j \in Col |-> o[j]]
    BY <1>3 DEF OilPart
  <2>2. o = [j \in Col |-> o[j]]
    OBVIOUS
  <2>3. QED
    BY <2>1, <2>2
<1>10. QED
  BY <1>7, <1>8, <1>9 DEF IsAssembled, x, u

(* A key that signs for a seed, wherever it comes from.                    *)
SignsFor(sk, s) ==
  sk.P1 = s.P1 /\ sk.O = s.O /\ sk.S = batch_2trimat_madd(s.P2, s.P1, s.O)

LEMMA SeedType == Seeds \subseteq SeedSet
BY OvSignAssumption DEF SeedSet, Triangle, Matrix, Oil

LEMMA KeysSign ==
  ASSUME NEW s \in Seeds
  PROVE  SignsFor(expand_sk(s), s) /\ SignsFor(generate_keypair(s).sk, s)
<1>1. calculate_F2_P3(s.P1, s.P2, s.O).S = batch_2trimat_madd(s.P2, s.P1, s.O)
  BY SeedParts, SameMatrix DEF calculate_F2
<1>2. QED
  BY <1>1 DEF SignsFor, expand_sk, generate_keypair, calculate_F2

IsInverse(x, s, target) ==
  x \in [Variables -> GF] /\ ov_publicmap(generate_keypair(s).pk, x) = target

LEMMA RoundInverts ==
  ASSUME NEW s \in Seeds, NEW sk, SignsFor(sk, s), NEW v \in Vinegars, NEW target \in Vec,
         OilSystem(sk, target, v).succ
  PROVE  IsInverse(Assemble(sk, v, gfmat_back_substitute(OilSystem(sk, target, v).mat)), s, target)
<1> DEFINE S == sk.S
           cols == SystemColumns(S, v)
           constant == SystemConstant(s.P1, v, target)
           end == OilSystem(sk, target, v)
           o == gfmat_back_substitute(end.mat)
           x == Assemble(sk, v, o)
<1>1. s \in SeedSet /\ s.P1 \in Triangle /\ s.P2 \in Matrix /\ s.O \in Oil
  BY SeedType, SeedParts
<1>2. sk.P1 = s.P1 /\ sk.O = s.O /\ S = batch_2trimat_madd(s.P2, s.P1, s.O)
  BY DEF SignsFor
<1>3. v \in [Row -> GF] /\ Terms(v, Row)
  BY OvSignAssumption DEF Terms
<1>4. end = gfmat_gaussian_elim(cols, constant)
  BY <1>2 DEF OilSystem, SystemColumns, SystemConstant
<1> HIDE DEF S
<1>5. S \in Matrix
  BY <1>1, <1>2, TwiceTrimatType
<1>6. \A j \in Col : cols[j] \in Vec
  BY <1>3, <1>5, ColumnsType
<1>7. constant \in Vec
  BY <1>1, <1>3, QuadType, VAddType DEF SystemConstant
<1> HIDE DEF cols, constant, end
<1>8. IsEchelon(end, cols, constant)
  BY <1>4, <1>6, <1>7, EliminationIs
<1>9. end.mat \in System /\ Triangular(end.mat, O) /\ IsSolved(end, cols, constant)
  BY <1>8 DEF IsEchelon, end
<1>10. o \in [Col -> GF] /\ Solves(end.mat, o)
  BY <1>9, BackSolves
<1> HIDE DEF o
<1>11. Terms(o, Col)
  BY <1>10 DEF Terms
<1>12. \A e \in Eq : Dot(o, Coordinate(cols, e), Col) = constant[e]
  BY <1>9, <1>10, <1>11 DEF IsSolved
<1>13. IsAssembled(x, s.O, v, o)
  BY <1>1, <1>2, <1>3, <1>10, AssembleIs
<1> HIDE DEF x
<1>14. ov_publicmap(generate_keypair(s).pk, x) = target
  BY <1>1, <1>2, <1>3, <1>11, <1>12, <1>13, SystemInverts DEF cols, constant
<1>15. QED
  BY <1>13, <1>14 DEF IsAssembled, IsInverse, x, o, end

-----------------------------------------------------------------------------
(* What the steps after that round keep.                                   *)

Hashed == IF op = "message" THEN Hash(input) ELSE DigestHash(input)

Asked ==
  \/ op = "message" /\ input \in Messages
  \/ op = "digest" /\ input \in Digests

(* The target is the hash of what was to be signed, and a salt.            *)
IsTarget == Hashed \in HashVec /\ \E salt \in SaltVec : y = _build_target_from_hash(Hashed, salt)

Targeted == pc \in {"loop", "after", "free"} \/ (pc = "returned" /\ result = 0) => IsTarget

(* The last round solved its system.                                       *)
Succeeded ==
  /\ vinegar \in Vinegars
  /\ OilSystem(SecretKey, y, vinegar).succ
  /\ x_o1 = gfmat_back_substitute(OilSystem(SecretKey, y, vinegar).mat)

Solved == pc = "after" /\ n_attempt < MAX_ATTEMPT_VINEGAR => Succeeded

Signed ==
  pc \in {"free", "returned"} /\ result = 0 =>
    Succeeded /\ signature = Assemble(SecretKey, vinegar, x_o1)

SInv == Seeded /\ Asked /\ Targeted /\ Solved /\ Signed

LEMMA InitSInv == Init => SInv
<1> SUFFICES ASSUME Init PROVE SInv
  OBVIOUS
<1>1. pc \in {"expand", "start"} /\ seed \in Seeds
  BY DEF Init
<1>2. Asked
  BY DEF Init, Asked
<1>3. QED
  BY <1>1, <1>2 DEF SInv, Seeded, Targeted, Solved, Signed

LEMMA SameCall ==
  ASSUME UNCHANGED <<csk, seed, op, input>>
  PROVE  SecretKey' = SecretKey /\ Hashed' = Hashed /\ (Seeded => Seeded') /\ (Asked => Asked')
<1>1. SecretKey' = SecretKey
  BY DEF SecretKey
<1>2. Hashed' = Hashed
  BY DEF Hashed
<1>3. (Seeded => Seeded') /\ (Asked => Asked')
  BY DEF Seeded, Asked
<1>4. QED
  BY <1>1, <1>2, <1>3

LEMMA SameTarget ==
  ASSUME UNCHANGED <<csk, seed, op, input, y>>
  PROVE  IsTarget => IsTarget'
<1>1. Hashed' = Hashed
  BY SameCall
<1>2. QED
  BY <1>1 DEF IsTarget

LEMMA SameRound ==
  ASSUME UNCHANGED <<csk, seed, op, input, y, vinegar, x_o1>>
  PROVE  Succeeded => Succeeded'
<1>1. SecretKey' = SecretKey
  BY SameCall
<1>2. QED
  BY <1>1 DEF Succeeded

(* The target is built from a hash of full length, whatever is signed.     *)
LEMMA DigestHashType ==
  ASSUME NEW d \in Digests
  PROVE  DigestHash(d) \in HashVec
<1> DEFINE n == HASH_EFFECTIVE_BYTE
           l == DigestLen(d)
<1>1. /\ Hash(d) \in HashVec /\ \A i \in DOMAIN d : d[i] \in GF
      /\ DOMAIN d = 0 .. l-1 /\ l \in Nat
  <2>1. Hash(d) \in HashVec
    BY OvSignAssumption
  <2>2. IsFiniteSet(DOMAIN d) /\ DOMAIN d = 0 .. l-1 /\ \A i \in DOMAIN d : d[i] \in GF
    BY OvSignAssumption DEF DigestLen
  <2>3. l \in Nat
    BY <2>2, FS_CardinalityType DEF DigestLen
  <2>4. QED
    BY <2>1, <2>2, <2>3
<1>2. n \in Nat
  BY OvSignAssumption, UovAssumption DEF HASH_EFFECTIVE_BYTE
<1>3. HashVec = [0 .. n-1 -> GF]
  BY DEF HashVec
<1>4. DigestHash(d) = IF l < n THEN Hash(d) ELSE [i \in 0 .. n-1 |-> d[i]]
  BY DEF DigestHash
<1> HIDE DEF n, l
<1>5. CASE l < n
  BY <1>1, <1>4, <1>5
<1>6. CASE ~(l < n)
  <2>1. \A i \in 0 .. n-1 : i \in 0 .. l-1
    BY <1>1, <1>2, <1>6
  <2>2. [i \in 0 .. n-1 |-> d[i]] \in HashVec
    BY <1>1, <1>3, <2>1
  <2>3. QED
    BY <1>4, <1>6, <2>2
<1>7. QED
  BY <1>5, <1>6

LEMMA SaltsType ==
  ASSUME NEW user_salt \in UserSalts \cup {NoSalt}
  PROVE  Salts(user_salt) \subseteq SaltVec
BY OvSignAssumption DEF Salts

LEMMA StartTargets == ASSUME Asked, Start PROVE IsTarget'
<1>1. PICK user_salt \in UserSalts \cup {NoSalt} :
        \E salt \in Salts(user_salt) : SignMessage(salt) \/ SignDigest(salt)
  BY DEF Start
<1>2. PICK salt \in SaltVec : SignMessage(salt) \/ SignDigest(salt)
  BY <1>1, SaltsType
<1>3. UNCHANGED <<csk, seed, op, input>>
  BY DEF Start
<1>4. Hashed' = Hashed
  BY <1>3, SameCall
<1>5. CASE SignMessage(salt)
  <2>1. op = "message" /\ input \in Messages /\ y' = _build_target_from_hash(Hash(input), salt)
    BY <1>5 DEF SignMessage, Asked
  <2>2. Hash(input) \in HashVec
    BY <2>1, OvSignAssumption
  <2>3. Hashed = Hash(input)
    BY <2>1 DEF Hashed
  <2>4. QED
    BY <1>2, <1>4, <2>1, <2>2, <2>3 DEF IsTarget
<1>6. CASE SignDigest(salt)
  <2>1. /\ op = "digest" /\ input \in Digests /\ DigestLen(input) <= HASH_EFFECTIVE_BYTE
        /\ y' = _build_target_from_hash(DigestHash(input), salt)
    BY <1>6 DEF SignDigest, Asked
  <2>2. DigestHash(input) \in HashVec
    BY <2>1, DigestHashType
  <2>3. Hashed = DigestHash(input)
    BY <2>1 DEF Hashed
  <2>4. QED
    BY <1>2, <1>4, <2>1, <2>2, <2>3 DEF IsTarget
<1>7. QED
  BY <1>2, <1>5, <1>6

LEMMA AttemptSInv == ASSUME SInv, Attempt PROVE SInv'
<1>1. pc = "loop" /\ UNCHANGED <<csk, seed, op, input, y, signature, result>>
  BY DEF Attempt, Round
<1>2. SecretKey' = SecretKey /\ Seeded' /\ Asked'
  BY <1>1, SameCall DEF SInv
<1>3. IsTarget'
  <2>1. IsTarget
    BY <1>1 DEF SInv, Targeted
  <2>2. QED
    BY <1>1, <2>1, SameTarget
<1>4. \/ pc' = "loop"
      \/ pc' = "after" /\ Succeeded'
  <2>1. PICK v \in Vinegars :
          /\ vinegar' = v
          /\ \/ /\ OilSystem(SecretKey, y, v).succ
                /\ x_o1' = gfmat_back_substitute(OilSystem(SecretKey, y, v).mat)
                /\ pc' = "after"
             \/ /\ ~OilSystem(SecretKey, y, v).succ
                /\ UNCHANGED <<x_o1, pc>>
    BY DEF Attempt, Round
  <2>2. CASE pc' = "after"
    <3>1. /\ OilSystem(SecretKey, y, v).succ
          /\ x_o1' = gfmat_back_substitute(OilSystem(SecretKey, y, v).mat)
      BY <1>1, <2>1, <2>2
    <3>2. Succeeded'
      BY <1>1, <1>2, <2>1, <3>1 DEF Succeeded
    <3>3. QED
      BY <2>2, <3>2
  <2>3. CASE pc' # "after"
    BY <1>1, <2>1, <2>3
  <2>4. QED
    BY <2>2, <2>3
<1>5. Targeted'
  BY <1>3 DEF Targeted
<1>6. Solved' /\ Signed'
  BY <1>4 DEF Solved, Signed
<1>7. QED
  BY <1>2, <1>5, <1>6 DEF SInv

LEMMA NextSInv == SInv /\ [Next]_vars => SInv'
<1> SUFFICES ASSUME SInv, [Next]_vars PROVE SInv'
  OBVIOUS
<1>1. CASE Attempt
  BY <1>1, AttemptSInv
<1>2. CASE Start
  <2>1. pc' = "loop" /\ UNCHANGED <<csk, seed, op, input>>
    BY <1>2 DEF Start
  <2>2. Seeded' /\ Asked'
    BY <2>1, SameCall DEF SInv
  <2>3. IsTarget'
    BY <1>2, StartTargets DEF SInv
  <2>4. Targeted' /\ Solved' /\ Signed'
    BY <2>1, <2>3 DEF Targeted, Solved, Signed
  <2>5. QED
    BY <2>2, <2>4 DEF SInv
<1>3. CASE Expand
  <2>1. /\ UNCHANGED <<csk, seed, op, input>>
        /\ pc' = "start" \/ (pc' = "returned" /\ result' = -1)
    BY <1>3 DEF Expand
  <2>2. Seeded' /\ Asked'
    BY <2>1, SameCall DEF SInv
  <2>3. Targeted' /\ Solved' /\ Signed'
    BY <2>1 DEF Targeted, Solved, Signed
  <2>4. QED
    BY <2>2, <2>3 DEF SInv
<1>4. CASE RejectDigest
  <2>1. /\ UNCHANGED <<csk, seed, op, input>>
        /\ pc' = "returned" /\ result' = -2
    BY <1>4 DEF RejectDigest
  <2>2. Seeded' /\ Asked'
    BY <2>1, SameCall DEF SInv
  <2>3. Targeted' /\ Solved' /\ Signed'
    BY <2>1 DEF Targeted, Solved, Signed
  <2>4. QED
    BY <2>2, <2>3 DEF SInv
<1>5. CASE GiveUp
  <2>1. /\ UNCHANGED <<csk, seed, op, input, y, n_attempt>>
        /\ pc = "loop" /\ pc' = "after" /\ n_attempt = MAX_ATTEMPT_VINEGAR
    BY <1>5 DEF GiveUp
  <2>2. Seeded' /\ Asked'
    BY <2>1, SameCall DEF SInv
  <2>3. IsTarget'
    BY <2>1, SameTarget DEF SInv, Targeted
  <2>4. ~(n_attempt' < MAX_ATTEMPT_VINEGAR)
    BY <2>1, Attempts
  <2>5. Targeted' /\ Solved' /\ Signed'
    BY <2>1, <2>3, <2>4 DEF Targeted, Solved, Signed
  <2>6. QED
    BY <2>2, <2>5 DEF SInv
<1>6. CASE Finish
  <2>1. /\ UNCHANGED <<csk, seed, op, input, y, vinegar, x_o1>>
        /\ pc = "after" /\ pc' \in {"free", "returned"}
        /\ \/ result' = -1
           \/ /\ MAX_ATTEMPT_VINEGAR > n_attempt
              /\ signature' = Assemble(SecretKey, vinegar, x_o1)
    BY <1>6 DEF Finish
  <2>2. Seeded' /\ Asked' /\ SecretKey' = SecretKey
    BY <2>1, SameCall DEF SInv
  <2>3. IsTarget'
    BY <2>1, SameTarget DEF SInv, Targeted
  <2>4. result' = 0 => Succeeded' /\ signature' = Assemble(SecretKey, vinegar, x_o1)'
    <3>1. SUFFICES ASSUME result' = 0 PROVE Succeeded' /\ signature' = Assemble(SecretKey, vinegar, x_o1)'
      OBVIOUS
    <3>2. MAX_ATTEMPT_VINEGAR > n_attempt /\ signature' = Assemble(SecretKey, vinegar, x_o1)
      BY <2>1, <3>1
    <3>3. n_attempt < MAX_ATTEMPT_VINEGAR
      BY <3>2
    <3>4. Succeeded
      BY <2>1, <3>3 DEF SInv, Solved
    <3>5. Succeeded'
      BY <2>1, <3>4, SameRound
    <3>6. QED
      BY <2>1, <2>2, <3>2, <3>5
  <2>5. Targeted' /\ Solved' /\ Signed'
    BY <2>1, <2>3, <2>4 DEF Targeted, Solved, Signed
  <2>6. QED
    BY <2>2, <2>5 DEF SInv
<1>7. CASE Free \/ UNCHANGED vars
  <2>1. /\ UNCHANGED <<csk, seed, op, input, y, n_attempt, vinegar, x_o1, signature, result>>
        /\ pc' = pc \/ (pc = "free" /\ pc' = "returned")
    BY <1>7 DEF Free, vars
  <2>2. Seeded' /\ Asked' /\ SecretKey' = SecretKey
    BY <2>1, SameCall DEF SInv
  <2>3. IsTarget => IsTarget'
    BY <2>1, SameTarget
  <2>4. Succeeded => Succeeded'
    BY <2>1, SameRound
  <2>5. Targeted'
    BY <2>1, <2>3 DEF SInv, Targeted
  <2>6. Solved'
    BY <2>1, <2>4 DEF SInv, Solved
  <2>7. Signed'
    BY <2>1, <2>2, <2>4 DEF SInv, Signed
  <2>8. QED
    BY <2>2, <2>5, <2>6, <2>7 DEF SInv
<1>8. QED
  BY <1>1, <1>2, <1>3, <1>4, <1>5, <1>6, <1>7 DEF Next

(* The verifier, on values that give the target.                           *)
Accepts(expected, target) == _ov_verify_hash(expected, target) <=> expected = Hashed

LEMMA TargetType == IsTarget => y \in Vec
<1> SUFFICES ASSUME IsTarget PROVE y \in Vec
  OBVIOUS
<1> DEFINE n == HASH_EFFECTIVE_BYTE
           h == Hashed
<1>1. PICK salt \in SaltVec : y = _build_target_from_hash(h, salt)
  BY DEF IsTarget
<1>2. n \in Nat /\ O - n = SALT_BYTE /\ O \in Nat /\ SALT_BYTE \in Nat
  BY OvSignAssumption, UovAssumption DEF HASH_EFFECTIVE_BYTE
<1>3. h \in [0 .. n-1 -> GF] /\ salt \in [0 .. SALT_BYTE-1 -> GF]
  BY DEF IsTarget, HashVec, SaltVec
<1>4. y = [e \in Eq |-> IF e < n THEN h[e] ELSE salt[e - n]]
  BY <1>1 DEF _build_target_from_hash
<1> HIDE DEF n, h
<1>5. ASSUME NEW e \in Eq PROVE (IF e < n THEN h[e] ELSE salt[e - n]) \in GF
  <2>1. CASE e < n
    <3>1. e \in 0 .. n-1
      BY <1>2, <2>1 DEF Eq
    <3>2. QED
      BY <1>3, <2>1, <3>1
  <2>2. CASE ~(e < n)
    <3>1. e - n \in 0 .. SALT_BYTE-1
      BY <1>2, <2>2 DEF Eq
    <3>2. QED
      BY <1>3, <2>2, <3>1
  <2>3. QED
    BY <2>1, <2>2
<1>6. QED
  BY <1>4, <1>5 DEF Vec

LEMMA HashCompared ==
  ASSUME IsTarget, NEW expected \in HashVec
  PROVE  Accepts(expected, y)
<1> DEFINE n == HASH_EFFECTIVE_BYTE
           h == Hashed
<1>1. PICK salt \in SaltVec : y = _build_target_from_hash(h, salt)
  BY DEF IsTarget
<1>2. n \in Nat /\ n <= O /\ O \in Nat
  BY OvSignAssumption, UovAssumption DEF HASH_EFFECTIVE_BYTE
<1>3. h \in [0 .. n-1 -> GF] /\ expected \in [0 .. n-1 -> GF]
  BY DEF IsTarget, HashVec
<1>4. y = [e \in Eq |-> IF e < n THEN h[e] ELSE salt[e - n]]
  BY <1>1 DEF _build_target_from_hash
<1>5. _ov_verify_hash(expected, y) <=> \A e \in 0 .. n-1 : y[e] = expected[e]
  BY DEF _ov_verify_hash
<1> HIDE DEF n, h
<1>6. \A e \in 0 .. n-1 : y[e] = h[e]
  BY <1>2, <1>4 DEF Eq
<1>7. (\A e \in 0 .. n-1 : y[e] = expected[e]) <=> expected = h
  <2>1. ASSUME \A e \in 0 .. n-1 : y[e] = expected[e] PROVE expected = h
    <3>1. \A e \in 0 .. n-1 : h[e] = expected[e]
      BY <1>6, <2>1
    <3>2. h = [e \in 0 .. n-1 |-> h[e]] /\ expected = [e \in 0 .. n-1 |-> expected[e]]
      BY <1>3
    <3>3. [e \in 0 .. n-1 |-> h[e]] = [e \in 0 .. n-1 |-> expected[e]]
      BY <3>1
    <3>4. QED
      BY <3>2, <3>3, Zenon
  <2>2. expected = h => \A e \in 0 .. n-1 : y[e] = expected[e]
    BY <1>6
  <2>3. QED
    BY <2>1, <2>2
<1>8. QED
  BY <1>5, <1>7 DEF Accepts, h

LEMMA SignedInverts ==
  ASSUME SInv, pc = "returned", result = 0
  PROVE  IsInverse(signature, seed, y) /\ IsTarget
<1> DEFINE s == OilSystem(SecretKey, y, vinegar)
<1>1. IsTarget
  BY DEF SInv, Targeted
<1>2. /\ seed \in Seeds /\ vinegar \in Vinegars /\ s.succ
      /\ signature = Assemble(SecretKey, vinegar, gfmat_back_substitute(s.mat))
  BY DEF SInv, Seeded, Signed, Succeeded
<1>3. y \in Vec
  BY <1>1, TargetType
<1>4. SignsFor(SecretKey, seed)
  BY <1>2, KeysSign DEF SecretKey
<1>5. IsInverse(Assemble(SecretKey, vinegar, gfmat_back_substitute(s.mat)), seed, y)
  BY <1>2, <1>3, <1>4, RoundInverts
<1>6. QED
  BY <1>1, <1>2, <1>5

(* What a signer returns inverts the public map at the target, hash and    *)
(* salt, and is accepted for the messages and digests that have that hash  *)
(* and for no others: by the verifier with the public key, and by those    *)
(* that expand a compressed one, all of it or only the rows that the       *)
(* signature does not multiply by zero (_ov_sign_target, ov_verify,        *)
(* ov_verify_digest and ov_expand_and_verify, ov.c).                       *)
THEOREM SignedVerifies == Spec => []SignatureVerifies
<1>1. SInv => SignatureVerifies
  <2>1. SUFFICES ASSUME SInv, pc = "returned", result = 0 PROVE SignatureVerifies
    BY DEF SignatureVerifies
  <2> DEFINE pk == generate_keypair(seed).pk
             cpk == generate_keypair_pkc(seed).pk
  <2>2. IsTarget /\ signature \in [Variables -> GF] /\ ov_publicmap(pk, signature) = y
    BY <2>1, SignedInverts DEF IsInverse
  <2>3. seed \in SeedSet
    BY <2>1, SeedType DEF SInv, Seeded
  <2>4. expand_pk(cpk) = pk
    BY ExpandedKey
  <2>5. ASSUME NEW a \in GF
        PROVE  ov_publicmap(expand_pk_predicate(cpk, signature, [e \in Eq |-> a]), signature) = y
    <3> DEFINE old == [e \in Eq |-> a]
    <3>1. old \in Vec
      BY DEF Vec
    <3> HIDE DEF old
    <3>2. ov_publicmap(expand_pk_predicate(cpk, signature, old), signature) = ov_publicmap(pk, signature)
      BY <2>2, <2>3, <3>1, PredicateSame
    <3>3. QED
      BY <2>2, <3>2 DEF old
  <2> HIDE DEF pk, cpk
  <2>6. ASSUME NEW m \in Messages
        PROVE  /\ ov_verify(pk, signature, m) <=> Hash(m) = Hashed
               /\ ov_expand_and_verify(cpk, signature, m) <=> Hash(m) = Hashed
               /\ \A a \in GF : ov_expand_and_verify_some(cpk, signature, m, [e \in Eq |-> a])
                                  <=> Hash(m) = Hashed
    <3>1. Hash(m) \in HashVec
      BY OvSignAssumption
    <3>2. _ov_verify_hash(Hash(m), y) <=> Hash(m) = Hashed
      BY <2>2, <3>1, HashCompared DEF Accepts
    <3>3. ov_verify(pk, signature, m) <=> Hash(m) = Hashed
      BY <2>2, <3>2 DEF ov_verify
    <3>4. ov_expand_and_verify(cpk, signature, m) <=> Hash(m) = Hashed
      BY <2>4, <3>3 DEF ov_expand_and_verify
    <3>5. ASSUME NEW a \in GF
          PROVE  ov_expand_and_verify_some(cpk, signature, m, [e \in Eq |-> a]) <=> Hash(m) = Hashed
      BY <2>5, <3>2 DEF ov_expand_and_verify_some, ov_verify
    <3>6. QED
      BY <3>3, <3>4, <3>5
  <2>7. ASSUME NEW d \in Digests
        PROVE  ov_verify_digest(pk, signature, d) <=> DigestHash(d) = Hashed
    <3>1. DigestHash(d) \in HashVec
      BY DigestHashType
    <3>2. _ov_verify_hash(DigestHash(d), y) <=> DigestHash(d) = Hashed
      BY <2>2, <3>1, HashCompared DEF Accepts
    <3>3. QED
      BY <2>2, <3>2 DEF ov_verify_digest
  <2>8. QED
    BY <2>2, <2>6, <2>7 DEF SignatureVerifies, pk, cpk, Hashed
<1>2. QED
  BY <1>1, InitSInv, NextSInv, PTL DEF Spec
=============================================================================
