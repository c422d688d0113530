------------------------------- MODULE UovMap -------------------------------
(***************************************************************************)
(* The algebra of oil-and-vinegar signatures as pqov computes it with the  *)
(* reference BLAS: batched trimmed matrices (src/parallel_matrix_op.c),    *)
(* key computation (src/ov_keypair_computation.c), the public map          *)
(* (src/ov_publicmap.c) and the linear solver (src/ref/blas_matrix_ref.c). *)
(*                                                                         *)
(* A coefficient is a vector over the o equations, which the code stores   *)
(* as _O_BYTE consecutive bytes and adds and scales with gf256v_add and    *)
(* gf256v_madd.  A triangular matrix is a function on the pairs <<i, j>>   *)
(* with i <= j, the order in which the code lays its coefficients out.     *)
(***************************************************************************)
EXTENDS Integers, FiniteSets, Folds

CONSTANTS
  GF,            \* the field: GF(16) or GF(256) in the code
  GFAdd(_, _),   \* gf256v_add: exclusive or
  GFMul(_, _),   \* gf16_mul, gf256_mul
  GFInv(_),      \* gf16_inv, gf256_inv: GFInv(0) is 0
  V,             \* _V, vinegar variables
  O              \* _O, oil variables and equations

ASSUME UovAssumption == V \in Nat \ {0} /\ O \in Nat \ {0}

(* The coefficients are a field of characteristic two.                     *)
ASSUME FieldAssumption ==
  /\ IsFiniteSet(GF) /\ 0 \in GF /\ 1 \in GF
  /\ \A a \in GF : /\ GFAdd(a, 0) = a /\ GFAdd(a, a) = 0 /\ GFMul(a, 1) = a
                   /\ GFInv(a) \in GF
                   /\ a # 0 => GFMul(a, GFInv(a)) = 1
  /\ \A a, b \in GF : /\ GFAdd(a, b) \in GF /\ GFAdd(a, b) = GFAdd(b, a)
                      /\ GFMul(a, b) \in GF /\ GFMul(a, b) = GFMul(b, a)
  /\ \A a, b, c \in GF : /\ GFAdd(GFAdd(a, b), c) = GFAdd(a, GFAdd(b, c))
                         /\ GFMul(GFMul(a, b), c) = GFMul(a, GFMul(b, c))
                         /\ GFMul(a, GFAdd(b, c)) = GFAdd(GFMul(a, b), GFMul(a, c))

Row == 0 .. V-1             \* vinegar variables
Col == 0 .. O-1             \* oil variables
Eq  == 0 .. O-1             \* equations

Upper(n) == {p \in (0 .. n-1) \X (0 .. n-1) : p[1] <= p[2]}

Vec == [Eq -> GF]
VZero == [e \in Eq |-> 0]
VAdd(a, b) == [e \in Eq |-> GFAdd(a[e], b[e])]
VScale(c, a) == [e \in Eq |-> GFMul(c, a[e])]

VSum(S, term(_)) ==
  MapThenFoldSet(VAdd, VZero, term, LAMBDA T : CHOOSE t \in T : TRUE, S)

(* gfmat_prod: the combination of the columns of A with coefficients b.    *)
gfmat_prod(A, b, S) == VSum(S, LAMBDA k : VScale(b[k], A[k]))

-----------------------------------------------------------------------------
(* Products of the batched upper triangle A (and of its transpose) with    *)
(* the V x O matrix B, added to C.                                         *)
batch_trimat_madd(C, A, B) ==
  [p \in Row \X Col |->
     VAdd(C[p], gfmat_prod([k \in p[1] .. V-1 |-> A[p[1], k]],
                           [k \in Row |-> B[k, p[2]]], p[1] .. V-1))]

batch_trimatTr_madd(C, A, B) ==
  [p \in Row \X Col |->
     VAdd(C[p], gfmat_prod([k \in 0 .. p[1] |-> A[k, p[1]]],
                           [k \in Row |-> B[k, p[2]]], 0 .. p[1]))]

(* Mutant: the diagonal is kept.                                           *)
batch_2trimat_madd_diagonal(C, A, B) ==
  LET both(i) == [k \in Row |-> IF k < i THEN A[k, i] ELSE A[i, k]]
  IN  [p \in Row \X Col |->
         VAdd(C[p], gfmat_prod(both(p[1]), [k \in Row |-> B[k, p[2]]], Row))]

(* A + transpose(A), whose diagonal is 2A[i,i]: the code clears it.        *)
batch_2trimat_madd(C, A, B) ==
  LET both(i) == [k \in Row |-> IF k < i THEN A[k, i]
                                ELSE IF k = i THEN VZero ELSE A[i, k]]
  IN  [p \in Row \X Col |->
         VAdd(C[p], gfmat_prod(both(p[1]), [k \in Row |-> B[k, p[2]]], Row))]

(* The upper triangle of transpose(A) * B, entries below the diagonal      *)
(* added to their mirror image.                                            *)
batch_upper_matTr_x_mat(A, B) ==
  LET entry(i, j) == gfmat_prod([k \in Row |-> B[k, j]], [k \in Row |-> A[k, i]], Row)
  IN  [p \in Upper(O) |-> IF p[1] = p[2] THEN entry(p[1], p[1])
                          ELSE VAdd(entry(p[1], p[2]), entry(p[2], p[1]))]

(* sum over i <= j of x_i x_j A[i,j], a row at a time.                     *)
batch_quad_trimat_eval(A, x) ==
  VSum(Row, LAMBDA i : VScale(x[i], gfmat_prod([j \in i .. V-1 |-> A[i, j]], x, i .. V-1)))

-----------------------------------------------------------------------------
(* The secret part S, from P1, P2 and O: alone (calculate_F2, run by a     *)
(* signer that expands its seed), or on the way to P3 (calculate_F2_P3,    *)
(* run by key generation).                                                 *)
calculate_F2(P1, P2, Om) == batch_2trimat_madd(P2, P1, Om)

calculate_F2_P3(P1, P2, Om) ==
  LET S1 == batch_trimat_madd(P2, P1, Om)
  IN  [P3 |-> batch_upper_matTr_x_mat(Om, S1),
       S  |-> batch_trimatTr_madd(S1, P1, Om)]

(* P3 alone, for builds that compute S later (Cortex-M4).                  *)
calculate_P3(P1, P2, Om) == batch_upper_matTr_x_mat(Om, batch_trimat_madd(P2, P1, Om))

(* A seed is what it expands to: P1 and P2 from the public seed, O from    *)
(* the secret one.                                                         *)
generate_keypair(seed) ==
  LET F == calculate_F2_P3(seed.P1, seed.P2, seed.O)
  IN  [pk |-> [P1 |-> seed.P1, P2 |-> seed.P2, P3 |-> F.P3],
       sk |-> [O |-> seed.O, P1 |-> seed.P1, S |-> F.S]]

expand_sk(seed) ==
  [O |-> seed.O, P1 |-> seed.P1, S |-> calculate_F2(seed.P1, seed.P2, seed.O)]

(* The compressed public key: the seed of P1 and P2, and P3 as it is.      *)
generate_keypair_pkc(seed) ==
  LET F == calculate_F2_P3(seed.P1, seed.P2, seed.O)
  IN  [pk |-> [pk_seed |-> [P1 |-> seed.P1, P2 |-> seed.P2], P3 |-> F.P3],
       sk |-> [O |-> seed.O, P1 |-> seed.P1, S |-> F.S]]

expand_pk(cpk) == [P1 |-> cpk.pk_seed.P1, P2 |-> cpk.pk_seed.P2, P3 |-> cpk.P3]

(* The rows of variables that are zero are left as they were (ExpandPk).   *)
expand_pk_predicate(cpk, x, old) ==
  [P1 |-> [p \in Upper(V) |-> IF x[p[1]] = 0 THEN old ELSE cpk.pk_seed.P1[p]],
   P2 |-> [p \in Row \X Col |-> IF x[p[1]] = 0 THEN old ELSE cpk.pk_seed.P2[p]],
   P3 |-> cpk.P3]

(* The public map: every coefficient goes to the bucket of its monomial's  *)
(* value x_i x_j (accu_eval_quad), and the buckets are then combined, each *)
(* scaled by the value it stands for (madd_reduce).                        *)
accu_eval_quad(pk, x) ==
  LET P1At(c) == {p \in Upper(V) : GFMul(x[p[1]], x[p[2]]) = c}
      P2At(c) == {p \in Row \X Col : GFMul(x[p[1]], x[V + p[2]]) = c}
      P3At(c) == {p \in Upper(O) : GFMul(x[V + p[1]], x[V + p[2]]) = c}
  IN  [c \in GF |-> VAdd(VSum(P1At(c), LAMBDA p : pk.P1[p]),
                    VAdd(VSum(P2At(c), LAMBDA p : pk.P2[p]),
                         VSum(P3At(c), LAMBDA p : pk.P3[p])))]

madd_reduce(bucket) == VSum(GF, LAMBDA c : VScale(c, bucket[c]))

ov_publicmap(pk, x) == madd_reduce(accu_eval_quad(pk, x))

-----------------------------------------------------------------------------
(* A linear system: row i holds the coefficients of x_0 .. x_(O-1) and, in *)
(* column O, the constant.                                                 *)
RowAdd(a, b) == [j \in 0 .. O |-> GFAdd(a[j], b[j])]
RowScale(c, a) == [j \in 0 .. O |-> GFMul(c, a[j])]

(* A zero pivot is repaired by adding the rows below until it is nonzero;  *)
(* additions after that are conditioned away.                              *)
RepairPivot(m, i) ==
  LET usable == {j \in i .. O-1 : m[j][i] # 0}
      first  == CHOOSE j \in usable : \A k \in usable : j <= k
  IN  IF m[i][i] = 0 /\ usable # {} THEN RowAdd(m[i], m[first]) ELSE m[i]

(* Mutant: the result is that of the last column, instead of all.          *)
EliminateColumnForgetful(sys, i) ==
  LET repaired == RepairPivot(sys.mat, i)
      pivotRow == RowScale(GFInv(repaired[i]), repaired)
  IN  [mat  |-> [k \in Eq |->
                   IF k < i THEN sys.mat[k]
                   ELSE IF k = i THEN pivotRow
                   ELSE RowAdd(sys.mat[k], RowScale(sys.mat[k][i], pivotRow))],
       succ |-> repaired[i] # 0]

EliminateColumn(sys, i) ==
  LET repaired == RepairPivot(sys.mat, i)
      pivotRow == RowScale(GFInv(repaired[i]), repaired)
  IN  [mat  |-> [k \in Eq |->
                   IF k < i THEN sys.mat[k]
                   ELSE IF k = i THEN pivotRow
                   ELSE RowAdd(sys.mat[k], RowScale(sys.mat[k][i], pivotRow))],
       succ |-> sys.succ /\ repaired[i] # 0]

(* gfmat_gaussian_elim: mat_l1 arrives column-major, one column a vector   *)
(* over the equations.                                                     *)
gfmat_gaussian_elim(cols, constant) ==
  LET loaded == [mat  |-> [e \in Eq |-> [j \in 0 .. O |-> IF j < O THEN cols[j][e]
                                                          ELSE constant[e]]],
                 succ |-> TRUE]
      after[i \in 0 .. O] == IF i = 0 THEN loaded ELSE EliminateColumn(after[i-1], i-1)
  IN  after[O]

(* gfmat_back_substitute: columns O-1 down to 1 of the unit upper          *)
(* triangle, each clearing the constants above it.                         *)
gfmat_back_substitute(mat) ==
  LET from[i \in 1 .. O] ==
        IF i = O THEN [e \in Eq |-> mat[e][O]]
        ELSE [e \in Eq |-> IF e < i THEN GFAdd(from[i+1][e], GFMul(mat[e][i], from[i+1][i]))
                           ELSE from[i+1][e]]
  IN  from[1]
=============================================================================
