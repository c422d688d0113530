---------------------------- MODULE LinearSolvers ----------------------------
(***************************************************************************)
(* Gaussian elimination and back substitution in every backend of pqov:    *)
(* the solution of A x = b, where A comes column by column and leaves row  *)
(* by row.  The backends differ in where a row lies in its padded memory,  *)
(* from which element on a row operation works, in whether the pivot is    *)
(* read again while it is repaired, in how a matrix is transposed, and in  *)
(* where the constants are between the two halves.                         *)
(*                                                                         *)
(* Elements are those of GF(4), the smallest field in which a pivot other  *)
(* than one has to be inverted; the field itself is in FieldArith.  One    *)
(* step is one pivot of the elimination or one column of the substitution. *)
(***************************************************************************)
EXTENDS Integers, Sequences

CONSTANTS
  Wide,         \* bytes of an AVX2 register: 32
  Narrow,       \* bytes of a NEON register: 16
  Systems,      \* records of n, a and b: a system of n equations
  EarlyStops,   \* rows tried for a pivot; more than any n when the build has no limit
  Paddings      \* what memory that is not initialised holds

Elements == 0 .. 3

ASSUME SolverAssumption ==
  /\ Wide = 2*Narrow /\ Narrow \in Nat \ {0}
  /\ EarlyStops \subseteq Nat \ {0, 1} /\ Paddings \subseteq Elements
  /\ \A s \in Systems : /\ s.n \in Nat \ {0}
                        /\ s.a \in [0 .. s.n*s.n - 1 -> Elements]
                        /\ s.b \in [0 .. s.n - 1 -> Elements]

VARIABLES
  sf,       \* the backend, "none" when another part runs
  sys,      \* the system: n, a (sqmat_a as it comes), b, stop, pad
  phase,    \* "eliminate", "substitute", "solved" or "singular"
  row,      \* the pivot or the column that is next
  mat,      \* the matrix on the stack, row by row
  ok,       \* whether every pivot was other than zero: r8
  column,   \* the buffer of a column of the matrix
  constant  \* the right hand side, at last the solution

sol_vars == <<sf, sys, phase, row, mat, ok, column, constant>>

-----------------------------------------------------------------------------
Plus(x, y) == << <<0, 1, 2, 3>>, <<1, 0, 3, 2>>, <<2, 3, 0, 1>>, <<3, 2, 1, 0>> >>[x+1][y+1]
Mul(x, y) == << <<0, 0, 0, 0>>, <<0, 1, 2, 3>>, <<0, 2, 3, 1>>, <<0, 3, 1, 2>> >>[x+1][y+1]
Inv(x) == <<0, 1, 3, 2>>[x+1]

RoundUp(n, w) == ((n + w - 1) \div w) * w

(* Two elements of GF(16) are in a byte; only a matrix of Full by Full     *)
(* elements has rows of one AVX2 register.                                 *)
Full == 2*Wide

(* gf16v_set_ele and gf256v_set_ele.                                       *)
SetEle(v, i, x) == [v EXCEPT ![i] = x]

-----------------------------------------------------------------------------
(* Transposition.  A backend copies element by element, or, for Full by    *)
(* Full elements of GF(16), transposes the bytes of the even and of the    *)
(* odd rows and then the 2 by 2 elements of every byte pair.  src is the   *)
(* matrix as a function of row and element.                                *)
ByElement(src, n) == [i \in 0 .. n-1 |-> [j \in 0 .. n-1 |-> src[j][i]]]

(* Swap the blocks of m bytes off the diagonal, in every square of 2m.     *)
SwapBlocks(s, m) ==
  [i \in DOMAIN s |-> [j \in DOMAIN s |->
     LET up == (i \div m) % 2 = 0  left == (j \div m) % 2 = 0 IN
     IF up = left THEN s[i][j] ELSE IF up THEN s[i+m][j-m] ELSE s[i-m][j+m]]]

(* Blocks of m bytes, then of half the size, down to single bytes.         *)
SwapFrom(s, m) ==
  LET f[k \in 1 .. 2*m] == IF k > m THEN s ELSE SwapBlocks(f[2*k], k) IN f[1]
gf256mat_transpose_32x32_even(s) == SwapFrom(s, Narrow)

(* NEON transposes the four quarters, each into its place.                 *)
byte_transpose_16x16_neon(s) == IF Narrow = 1 THEN s ELSE SwapFrom(s, Narrow \div 2)
gf256mat_transpose_32x32_neon(s) ==
  LET quarter(a, b) ==
        byte_transpose_16x16_neon(
          [i \in 0 .. Narrow-1 |-> [j \in 0 .. Narrow-1 |-> s[a*Narrow + i][b*Narrow + j]]])
      q == << <<quarter(0, 0), quarter(1, 0)>>, <<quarter(0, 1), quarter(1, 1)>> >>
  IN  [i \in DOMAIN s |-> [j \in DOMAIN s |->
         q[i \div Narrow + 1][j \div Narrow + 1][i % Narrow][j % Narrow]]]
gf256mat_transpose_32x32(s) == ByElement(s, Wide)

(* The bytes of the even rows, or of the odd ones, and the matrix whose    *)
(* elements come from both once they are transposed.                       *)
HalfOf(src, r) ==
  [i \in 0 .. Wide-1 |-> [j \in 0 .. Wide-1 |-> <<src[2*i + r][2*j], src[2*i + r][2*j + 1]>>]]
gf16mat_64x64_sqmat_transpose(even, odd) ==
  [i \in 0 .. Full-1 |-> [j \in 0 .. Full-1 |->
     (IF j % 2 = 0 THEN even ELSE odd)[i \div 2][j \div 2][(i % 2) + 1]]]

gf16mat_transpose_64x64(src) ==
  gf16mat_64x64_sqmat_transpose(gf256mat_transpose_32x32_even(HalfOf(src, 0)),
                                gf256mat_transpose_32x32_even(HalfOf(src, 1)))
gf16mat_64x64_sqmat_transpose_neon(src) ==
  gf16mat_64x64_sqmat_transpose(gf256mat_transpose_32x32_neon(HalfOf(src, 0)),
                                gf256mat_transpose_32x32_neon(HalfOf(src, 1)))
gf16mat_64x64_sqmat_transpose_ref(src) ==
  gf16mat_64x64_sqmat_transpose(gf256mat_transpose_32x32(HalfOf(src, 0)),
                                gf256mat_transpose_32x32(HalfOf(src, 1)))

Transposed(f, src, n) ==
  CASE f = "avx2_16" /\ n = Full -> gf16mat_transpose_64x64(src)
    [] f = "neon_16" /\ n = Full -> gf16mat_64x64_sqmat_transpose_neon(src)
    [] f = "ref_16" /\ n = Full -> gf16mat_64x64_sqmat_transpose_ref(src)
    [] OTHER -> ByElement(src, n)

-----------------------------------------------------------------------------
(* Where a backend keeps a row: w elements, the matrix from element first  *)
(* on, its constant at `const`.  What else a row holds is zero or was      *)
(* never initialised.                                                      *)
Padded(w, first, const) == [w |-> w, first |-> first, const |-> const, zeroed |-> FALSE]
Behind(n, w) == [w |-> w, first |-> 0, const |-> n, zeroed |-> TRUE]

gf16mat_gaussian_elim_ref(n) == Behind(n, n + 8)
gf256mat_gaussian_elim_ref(n) == Behind(n, n + 4)
gf256mat_gaussian_elim_avx2(n) ==
  LET w == RoundUp(n + 1, Wide) IN Padded(w, w - (n + 1), w - 1)
gf256mat_gaussian_elim_avx2_gfni(n) ==
  LET w == RoundUp(n + 1, Wide) IN Padded(w, w - (n + 1), w - 1)
gf16mat_gaussian_elim_neon(n) ==
  LET w == RoundUp(n \div 2 + 1, Narrow)  offset == w - n \div 2 - 1 IN
  Padded(2*w, 2*offset, 2*(w - 1))
gf256mat_gaussian_elim_neon(n) ==
  LET w == RoundUp(n + 1, Narrow) IN Padded(w, w - (n + 1), w - 1)

(* 64 by 64 elements in AVX2: the constants are beside the matrix until    *)
(* column 0 is eliminated, and then in the place of column 0.              *)
gf16mat_GE_64x64_avx2(n) == Behind(n, n + 1)
gf16mat_gaussian_elim_avx2(n) ==
  IF n = Full THEN gf16mat_GE_64x64_avx2(n) ELSE gf16mat_gaussian_elim_ref(n)
Wholly(f, n) == f = "avx2_16" /\ n = Full

Layout(f, n) ==
  CASE f = "ref_16" -> gf16mat_gaussian_elim_ref(n)
    [] f = "avx2_16" -> gf16mat_gaussian_elim_avx2(n)
    [] f = "neon_16" -> gf16mat_gaussian_elim_neon(n)
    [] f = "ref_256" -> gf256mat_gaussian_elim_ref(n)
    [] f = "avx2_256" -> gf256mat_gaussian_elim_avx2(n)
    [] f = "gfni_256" -> gf256mat_gaussian_elim_avx2_gfni(n)
    [] f = "neon_256" -> gf256mat_gaussian_elim_neon(n)

(* sqmat_a is column by column, so its transposed form has the rows.       *)
Copied(f, s) ==
  LET l == Layout(f, s.n)
      rows == Transposed(f, [i \in 0 .. s.n-1 |-> [j \in 0 .. s.n-1 |-> s.a[i*s.n + j]]], s.n)
  IN  [i \in 0 .. s.n-1 |-> [k \in 0 .. l.w-1 |->
         IF k \in l.first .. l.first + s.n - 1 THEN rows[i][k - l.first]
         ELSE IF k = l.const THEN s.b[i]
         ELSE IF l.zeroed \/ k > l.first THEN 0 ELSE s.pad]]

-----------------------------------------------------------------------------
(* One pivot.  While it is zero, the rows below are added to its row; row  *)
(* operations start with element `from`.  Where the code collects the      *)
(* column of the pivot in pivots[] first, it is repaired there too; the    *)
(* others look at the row again.                                           *)
RowOps(f, c) == [from |-> f, collects |-> c]
gf16mat_gauss_elim_row_echolen_ref(idx) == RowOps(idx - (idx % 2), FALSE)
gf256mat_gauss_elim_row_echolen_ref(idx) == RowOps(idx, FALSE)
_gf256mat_gauss_elim_row_echelon_avx2(idx) == RowOps(idx - (idx % Wide), FALSE)
_gf256mat_gauss_elim_row_echelon_avx2_gfni(idx) == RowOps(idx - (idx % Wide), FALSE)
gf16mat_gauss_elim_row_echolen_neon(idx) == RowOps(idx - (idx % Full), TRUE)
gf256mat_gauss_elim_row_echolen_neon(idx) == RowOps(idx - (idx % Narrow), TRUE)
_gf16mat_sol_64x64_avx2(idx) == RowOps(0, TRUE)

RowOperations(f, n, idx) ==
  CASE Wholly(f, n) -> _gf16mat_sol_64x64_avx2(idx)
    [] f \in {"ref_16", "avx2_16"} /\ ~Wholly(f, n) -> gf16mat_gauss_elim_row_echolen_ref(idx)
    [] f = "neon_16" -> gf16mat_gauss_elim_row_echolen_neon(idx)
    [] f = "ref_256" -> gf256mat_gauss_elim_row_echolen_ref(idx)
    [] f = "avx2_256" -> _gf256mat_gauss_elim_row_echelon_avx2(idx)
    [] f = "gfni_256" -> _gf256mat_gauss_elim_row_echelon_avx2_gfni(idx)
    [] f = "neon_256" -> gf256mat_gauss_elim_row_echolen_neon(idx)
AddRow(u, v, from) == [k \in DOMAIN u |-> IF k < from THEN u[k] ELSE Plus(u[k], v[k])]

(* Mutant: whether a row is added is decided once, before the first.       *)
RepairedOnce(m, i, idx, ops, stop) ==
  LET f[j \in i .. stop-1] ==
        IF j = i THEN [row |-> m[i], pivot |-> m[i][idx]]
        ELSE LET p == f[j-1] IN
             IF m[i][idx] = 0 THEN [row |-> AddRow(p.row, m[j], ops.from),
                                    pivot |-> Plus(p.pivot, m[j][idx])]
             ELSE p
  IN  f[stop-1]
Repaired(m, i, idx, ops, stop) ==
  LET f[j \in i .. stop-1] ==
        IF j = i THEN [row |-> m[i], pivot |-> m[i][idx]]
        ELSE LET p == f[j-1]
                 zero == (IF ops.collects THEN p.pivot ELSE p.row[idx]) = 0
             IN  IF zero THEN [row |-> AddRow(p.row, m[j], ops.from),
                               pivot |-> Plus(p.pivot, m[j][idx])]
                 ELSE p
  IN  f[stop-1]

(* The row is divided by its pivot and taken from the rows below.          *)
Scaled(v, x, from) == [k \in DOMAIN v |-> IF k < from THEN v[k] ELSE Mul(v[k], x)]
Eliminated(m, i, idx, from, r) ==
  LET ai == Scaled(r.row, Inv(r.pivot), from) IN
  [j \in DOMAIN m |->
     IF j < i THEN m[j] ELSE IF j = i THEN ai
     ELSE [k \in DOMAIN ai |->
             IF k < from THEN m[j][k] ELSE Plus(m[j][k], Mul(m[j][idx], ai[k]))]]

(* After column 0 of the 64 by 64 elimination, the constants are added to  *)
(* it: it is 1 in row 0 and 0 below.                                       *)
ConstantsMoved(m, n) ==
  [i \in 0 .. n-1 |-> [k \in 0 .. n-1 |->
     IF k # 0 THEN m[i][k] ELSE Plus(Plus(m[i][0], IF i = 0 THEN 1 ELSE 0), m[i][n])]]

(* The matrix goes back row by row, and the constants with it, but for the *)
(* 64 by 64 elimination, which leaves them in the matrix.                  *)
RowEchelon(m) ==
  LET l == Layout(sf, sys.n) IN
  [i \in 0 .. sys.n-1 |-> [k \in 0 .. sys.n-1 |-> m[i][l.first + k]]]
ConstantsOut(m) ==
  IF Wholly(sf, sys.n) THEN constant
  ELSE [i \in 0 .. sys.n-1 |-> m[i][Layout(sf, sys.n).const]]

gauss_elim_row_echolen ==
  LET n == sys.n
      l == Layout(sf, n)
      idx == l.first + row
      ops == RowOperations(sf, n, idx)
      stop == IF row + sys.stop < n THEN row + sys.stop ELSE n
      r == Repaired(mat, row, idx, ops, stop)
      m == Eliminated(mat, row, idx, ops.from, r)
      done == IF Wholly(sf, n) /\ row = 0 THEN ConstantsMoved(m, n) ELSE m
  IN
  /\ phase = "eliminate"
  /\ ok' = (ok /\ r.pivot # 0)
  /\ IF row < n - 1
     THEN /\ mat' = done /\ row' = row + 1
          /\ UNCHANGED <<phase, constant>>
     ELSE /\ mat' = RowEchelon(done)
          /\ constant' = ConstantsOut(done)
          /\ row' = n - 1
          /\ phase' = IF ~ok' THEN "singular" ELSE IF n = 1 THEN "solved" ELSE "substitute"
  /\ UNCHANGED <<sf, sys, column>>

-----------------------------------------------------------------------------
(* Back substitution.  Column i and how many of its elements are added to  *)
(* the constants, each time multiplied by constant i.                      *)
ColumnOf16(n, i) == SetEle(Transposed(sf, mat, n)[i], i, 0)

(* Mutant: the place of the diagonal keeps what the last column left.      *)
ColumnOf256Stale(n, i) ==
  [j \in DOMAIN column |-> IF j < i THEN mat[j][i] ELSE column[j]]
ColumnOf256(n, i) ==
  [j \in DOMAIN column |->
     IF j < i THEN mat[j][i] ELSE IF j = i /\ sf # "ref_256" THEN 0 ELSE column[j]]

Substitution(col, u) == [column |-> col, upto |-> u]
gf16mat_back_substitute_ref(n, i) == Substitution(ColumnOf16(n, i), 2*((i + 1) \div 2))
gf16mat_back_substitute_neon(n, i) == Substitution(ColumnOf16(n, i), 2*((i + 1) \div 2))
gf16mat_BS_64x64_avx2(n, i) == Substitution(ColumnOf16(n, i), n)
gf256mat_back_substitute_ref(n, i) == Substitution(ColumnOf256(n, i), i)
gf256mat_back_substitute_avx2(n, i) == Substitution(ColumnOf256(n, i), RoundUp(i, Wide))
gf256mat_back_substitute_avx2_gfni(n, i) == Substitution(ColumnOf256(n, i), RoundUp(i, Wide))
gf256mat_back_substitute_neon(n, i) == Substitution(ColumnOf256(n, i), n)

Substitutes(f, n, i) ==
  CASE Wholly(f, n) -> gf16mat_BS_64x64_avx2(n, i)
    [] f \in {"ref_16", "avx2_16"} /\ ~Wholly(f, n) -> gf16mat_back_substitute_ref(n, i)
    [] f = "neon_16" -> gf16mat_back_substitute_neon(n, i)
    [] f = "ref_256" -> gf256mat_back_substitute_ref(n, i)
    [] f = "avx2_256" -> gf256mat_back_substitute_avx2(n, i)
    [] f = "gfni_256" -> gf256mat_back_substitute_avx2_gfni(n, i)
    [] f = "neon_256" -> gf256mat_back_substitute_neon(n, i)

(* The 64 by 64 substitution takes the constants from column 0.            *)
back_substitute ==
  LET n == sys.n
      i == row
      s == Substitutes(sf, n, i)
      vec == IF Wholly(sf, n) /\ i = n - 1 THEN Transposed(sf, mat, n)[0] ELSE constant
  IN
  /\ phase = "substitute"
  /\ constant' = [j \in DOMAIN vec |->
                    IF j < s.upto THEN Plus(vec[j], Mul(s.column[j], vec[i])) ELSE vec[j]]
  /\ column' = s.column
  /\ row' = row - 1
  /\ phase' = IF row = 1 THEN "solved" ELSE "substitute"
  /\ UNCHANGED <<sf, sys, mat, ok>>

-----------------------------------------------------------------------------
SolversFor(n) ==
  {"ref_256", "avx2_256", "gfni_256", "neon_256"}
    \cup (IF n % 2 = 0 THEN {"ref_16", "avx2_16", "neon_16"} ELSE {})

SolIdle ==
  /\ sf = "none" /\ sys = <<>> /\ phase = "idle" /\ row = 0 /\ mat = <<>>
  /\ ok = TRUE /\ column = <<>> /\ constant = <<>>

SolInit ==
  \E s \in Systems, stop \in EarlyStops, pad \in Paddings :
    /\ sf \in SolversFor(s.n)
    /\ sys = [n |-> s.n, a |-> s.a, b |-> s.b, stop |-> stop, pad |-> pad]
    /\ phase = "eliminate"
    /\ row = 0
    /\ mat = Copied(sf, sys)
    /\ ok = TRUE
    /\ column = [j \in 0 .. s.n-1 |-> IF sf = "ref_256" THEN pad ELSE 0]
    /\ constant = s.b

SolStep == gauss_elim_row_echolen \/ back_substitute

-----------------------------------------------------------------------------
(* The reference: the first k columns of A, cut to its first m rows, are   *)
(* independent.  A column that is not zero is taken from those behind it.  *)
(* TLC evaluates a sequence that is concatenated, here with <<>>, at once. *)
Vector(F(_), m) == [r \in 1 .. m |-> F(r)] \o <<>>
Without(v, u, t, m) ==
  LET q == Mul(v[t], Inv(u[t]))
      F(r) == Plus(v[r], Mul(q, u[r]))
  IN  Vector(F, m)
Independent(k, m) ==
  LET Column(c) == LET F(r) == sys.a[(c-1)*sys.n + r - 1] IN Vector(F, m)
      left[j \in 0 .. k] ==   \* columns j+1 .. k, or <<>> when column j was zero
        IF j = 0 THEN <<TRUE, Vector(Column, k)>>
        ELSE LET p == left[j-1]
                 nz == {r \in 1 .. m : p[2][1][r] # 0}
             IN  IF ~p[1] \/ nz = {} THEN <<FALSE, p[2]>>
                 ELSE LET t == CHOOSE r \in nz : TRUE
                          F(c) == Without(p[2][c+1], p[2][1], t, m)
                      IN  <<TRUE, Vector(F, k - j)>>
  IN  left[k][1]

SumTo(F(_), n) == LET f[k \in 0 .. n] == IF k = 0 THEN 0 ELSE Plus(f[k-1], F(k-1)) IN f[n]

(* What a backend calls solved satisfies every equation of the system as   *)
(* it came, whatever the length, the padding and the way it was computed.  *)
SolutionRight ==
  phase = "solved" =>
    \A r \in 0 .. sys.n-1 :
      LET F(c) == Mul(sys.a[c*sys.n + r], constant[c]) IN SumTo(F, sys.n) = sys.b[r]

(* All the backends refuse the same systems, so that a key and a message   *)
(* give the same signature everywhere: the singular ones, and, in a build  *)
(* that tries only some rows for a pivot, those that need another row.     *)
RefusesTheSame ==
  phase \in {"solved", "singular"} =>
    (phase = "solved" <=>
       \A i \in 0 .. sys.n-1 :
         Independent(i + 1, IF i + sys.stop < sys.n THEN i + sys.stop ELSE sys.n))
=============================================================================
