---------------------------- MODULE BatchProducts ----------------------------
(***************************************************************************)
(* The loops of src/parallel_matrix_op.c, which UovMap takes as sums over  *)
(* pairs: how the batched products find their operands.  A triangle is the *)
(* rows of its upper half one behind the other, so that a column of it has *)
(* no fixed stride.  B is a matrix of elements, a column a vector of bytes *)
(* with two elements each in GF(16), or a table for each element.          *)
(*                                                                         *)
(* Addresses count vectors of size_batch bytes.  A result is the set of    *)
(* its terms <<address in A, element of B>>, where a term added twice is   *)
(* gone; before, it has the term of its own address without an element.    *)
(***************************************************************************)
EXTENDS Integers, Sequences, FiniteSetsExt

CONSTANTS
  BatchHeights,   \* _V: the height of B and the triangle
  BatchWidths,    \* _O: columns of B
  LastRows        \* rows of a form that gf256 evaluates in one product: 15

(* gf16 keeps two elements in a byte; gf256 subtracts the last rows.       *)
ASSUME BatchAssumption ==
  /\ BatchHeights \cup BatchWidths \cup {LastRows} \subseteq Nat \ {0}
  /\ \A h \in BatchHeights : h >= LastRows /\ h % 2 = 0

VARIABLES
  bf,      \* the product and the kind of B: [op, form]
  dims,    \* [h, w]
  bi,      \* rows done
  btriA,   \* where the next row of the triangle begins
  bC       \* the result

batch_vars == <<bf, dims, bi, btriA, bC>>

BatchForms == {"gf16", "gf256", "multab"}
BatchOps == {"trimat_madd", "trimatTr_madd", "2trimat_madd", "upper_matTr_x_mat", "quad_trimat_eval"}

-----------------------------------------------------------------------------
(* gf16mat_prod, gf256mat_prod, gf16mat_prod_multab: columns and elements, *)
(* where there is neither for the zero vector and the zero element.        *)
NoVector == -1
NoElement == <<-1, -1>>
Prod(cols, elts) ==
  {<<cols[k], elts[k]>> :
     k \in {n \in DOMAIN cols : cols[n] # NoVector /\ elts[n] # NoElement}}

(* idx_of_trimat                                                           *)
idx_of_trimat(i_row, j_col, dim) == ((dim + dim - i_row + 1) * i_row) \div 2 + j_col - i_row

(* n elements from the p-th on of column j, and of the columns behind it.  *)
At(j, p, h) == <<j + (p \div h), p % h>>
FromColumn(j, p, n, h) == [k \in 1 .. n |-> At(j, p + k - 1, h)]

(* B2: every byte has the high element of a byte of B and the low element  *)
(* of the next one, in the last byte none.                                 *)
Shifted(j, p, n, h) ==
  [k \in 1 .. n |-> LET q == p + k - 1 IN
                    IF q % h = h - 1 THEN NoElement ELSE At(j, q + 1, h)]

(* Row i of B's columns: odd rows of GF(16) are at the same byte of B2 as  *)
(* the even row before at its byte of B.                                   *)
FromRow(form, j, i, n, h) ==
  IF form = "gf16" /\ i % 2 = 1 THEN Shifted(j, i - 1, n, h) ELSE FromColumn(j, i, n, h)

(* Mutant: a step of a whole row.                                          *)
WalkFull(i, h) ==
  LET ptr[j \in 0 .. i] == IF j = 0 THEN i ELSE ptr[j-1] + h - (j - 1)
  IN  ptr

(* Where column i has its element of each row down to i, found by walking. *)
Walk(i, h) ==
  LET ptr[j \in 0 .. i] == IF j = 0 THEN i ELSE ptr[j-1] + h - (j - 1) - 1
  IN  ptr

(* A row of the triangle, and what tmp_Arow gathers of A's column i and,   *)
(* with a zero between, of its row.                                        *)
RowOfA(at, n) == [k \in 1 .. n |-> at + k - 1]
tmp_Arow(i, h) == [k \in 1 .. i + 1 |-> Walk(i, h)[k - 1]]
tmp_Arow2(i, h) ==
  [k \in 1 .. h |-> IF k <= i THEN Walk(i, h)[k - 1]
                    ELSE IF k = i + 1 THEN NoVector
                    ELSE Walk(i, h)[i] + k - i - 1]

-----------------------------------------------------------------------------
(* Row i of each product: what it adds to the w vectors of bC behind those *)
(* of the rows before.                                                     *)
batch_trimat_madd(i, j) ==
  Prod(RowOfA(btriA, dims.h - i), FromRow(bf.form, j, i, dims.h - i, dims.h))
batch_trimatTr_madd(i, j) == Prod(tmp_Arow(i, dims.h), FromColumn(j, 0, i + 1, dims.h))
batch_2trimat_madd(i, j) == Prod(tmp_Arow2(i, dims.h), FromColumn(j, 0, dims.h, dims.h))

RowAdded(Row(_, _)) ==
  [a \in DOMAIN bC |-> IF a \div dims.w = bi THEN SymDiff(bC[a], Row(bi, a % dims.w)) ELSE bC[a]]

(* The row of transpose(A)*B: what is below the diagonal is added to its   *)
(* mirror image, and the rest replaces what is there.                      *)
batch_upper_matTr_x_mat(i) ==
  LET trRow == [j \in 0 .. dims.w - 1 |->
                Prod([k \in 1 .. dims.h |-> (k - 1)*dims.w + j], FromColumn(i, 0, dims.h, dims.h))]
      ptr == Walk(i, dims.w)
  IN  [a \in DOMAIN bC |->
         IF a \in ptr[i] .. ptr[i] + dims.w - i - 1 THEN trRow[i + a - ptr[i]]
         ELSE IF \E j \in 0 .. i-1 : a = ptr[j]
         THEN SymDiff(bC[a], trRow[CHOOSE j \in 0 .. i-1 : a = ptr[j]])
         ELSE bC[a]]

(* The quadratic form of x, the only column of B: a term is the address of *)
(* the coefficient and the two elements.                                   *)
TimesX(terms, x) == {<<t[1], <<x, t[2]>>>> : t \in terms}
FormRow(i) ==
  TimesX(Prod(RowOfA(btriA, dims.h - i), FromRow(bf.form, 0, i, dims.h - i, dims.h)), At(0, i, dims.h))

(* gf256 puts the products of the last elements in one vector, as long as  *)
(* the rest of the triangle.                                               *)
quad_terms(h) ==
  LET from == h - LastRows
      idx[i \in from .. h] == IF i = from THEN 0 ELSE idx[i-1] + h - (i - 1)
      rowOf(n) == CHOOSE i \in from .. h-1 : n >= idx[i] /\ n < idx[i+1]
  IN  [k \in 1 .. (LastRows * (LastRows + 1)) \div 2 |->
         LET i == rowOf(k - 1) IN <<At(0, i, h), At(0, i + k - 1 - idx[i], h)>>]

batch_quad_trimat_eval ==
  LET last == bf.form = "gf256" /\ bi = dims.h - LastRows
      terms == quad_terms(dims.h)
  IN  /\ bC' = [a \in {0} |->
                  SymDiff(bC[a], IF last THEN {<<btriA + k - 1, terms[k]>> : k \in DOMAIN terms}
                                 ELSE FormRow(bi))]
      /\ bi' = IF last THEN dims.h ELSE bi + 1

-----------------------------------------------------------------------------
BatchIdle ==
  /\ bf = [op |-> "none"]
  /\ dims = [h |-> 0, w |-> 0]
  /\ bi = 0
  /\ btriA = 0
  /\ bC = <<>>

ResultCells(op, d) ==
  0 .. (CASE op = "upper_matTr_x_mat" -> idx_of_trimat(d.w - 1, d.w - 1, d.w)
          [] op = "quad_trimat_eval" -> 0
          [] OTHER -> d.h * d.w - 1)

BatchInit ==
  /\ bf \in [op : BatchOps, form : BatchForms]
  /\ dims \in [h : BatchHeights, w : BatchWidths]
  /\ bi = 0
  /\ btriA = 0
  /\ bC = [a \in ResultCells(bf.op, dims) |->
             IF bf.op = "quad_trimat_eval" THEN {} ELSE {<<a, NoElement>>}]

OuterRows == IF bf.op = "upper_matTr_x_mat" THEN dims.w ELSE dims.h

BatchStep ==
  /\ bi < OuterRows
  /\ btriA' = IF bf.op \in {"trimat_madd", "quad_trimat_eval"} THEN btriA + dims.h - bi ELSE btriA
  /\ \/ bf.op = "trimat_madd" /\ bC' = RowAdded(batch_trimat_madd) /\ bi' = bi + 1
     \/ bf.op = "trimatTr_madd" /\ bC' = RowAdded(batch_trimatTr_madd) /\ bi' = bi + 1
     \/ bf.op = "2trimat_madd" /\ bC' = RowAdded(batch_2trimat_madd) /\ bi' = bi + 1
     \/ bf.op = "upper_matTr_x_mat" /\ bC' = batch_upper_matTr_x_mat(bi) /\ bi' = bi + 1
     \/ bf.op = "quad_trimat_eval" /\ batch_quad_trimat_eval
  /\ UNCHANGED <<bf, dims>>

-----------------------------------------------------------------------------
(* Each product is the sum of the pairs that matrix algebra says, in every *)
(* row and column, whatever form B has, and adds it to what was there, but *)
(* for the triangle of transpose(A)*B, which starts from nothing.          *)
Tri(i, k) == IF i <= k THEN idx_of_trimat(i, k, dims.h) ELSE idx_of_trimat(k, i, dims.h)
BatchExpected(a) ==
  LET i == a \div dims.w
      j == a % dims.w
      all == 0 .. dims.h - 1
      sum(S) == {<<Tri(i, k), <<j, k>>>> : k \in S}
      entry(p, q) == {<<k * dims.w + q, <<p, k>>>> : k \in all}
      pair == CHOOSE p \in (0 .. dims.w - 1) \X (0 .. dims.w - 1) :
                p[1] <= p[2] /\ idx_of_trimat(p[1], p[2], dims.w) = a
  IN  CASE bf.op = "trimat_madd" -> {<<a, NoElement>>} \cup sum({k \in all : k >= i})
        [] bf.op = "trimatTr_madd" -> {<<a, NoElement>>} \cup sum({k \in all : k <= i})
        [] bf.op = "2trimat_madd" -> {<<a, NoElement>>} \cup sum(all \ {i})
        [] bf.op = "upper_matTr_x_mat" -> entry(pair[1], pair[2]) \cup entry(pair[2], pair[1])
        [] bf.op = "quad_trimat_eval" ->
             {<<Tri(p[1], p[2]), <<<<0, p[1]>>, <<0, p[2]>>>>>> :
                p \in {q \in all \X all : q[1] <= q[2]}}

BatchRight == bi = OuterRows => \A a \in DOMAIN bC : bC[a] = BatchExpected(a)
=============================================================================
