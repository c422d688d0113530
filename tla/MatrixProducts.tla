--------------------------- MODULE MatrixProducts ---------------------------
(***************************************************************************)
(* c = matA * b in every backend of pqov: matA has n columns of L bytes,   *)
(* stored one behind the other.  The backends differ in how they cut a     *)
(* column into registers, in how many columns a set of multiplication      *)
(* tables serves, and in what they load and store where a column does not  *)
(* end with a register.                                                    *)
(*                                                                         *)
(* A product is the sequence of kernel calls it makes for L and n; one     *)
(* step makes one call.  Field arithmetic is abstracted: byte a of the     *)
(* matrix times element t of b is the term <<a, t>>, and a byte of c is    *)
(* the set of terms added into it, where adding a term twice removes it.   *)
(***************************************************************************)
EXTENDS Widths, Sequences, FiniteSets, SequencesExt

CONSTANTS
  NV,           \* _V, tables on the stack of the GF(16) products: 96
  Chunk,        \* columns per set of tables: 16 or 32
  BlockRegs,    \* registers per block of rows: 7 or 8, and 4 in NEON's GF(16)
  MatLens,      \* bytes of a column
  MatCols       \* columns

ASSUME MatrixAssumption ==
  /\ {NV, Chunk, BlockRegs} \subseteq Nat \ {0}
  /\ XMM % 2 = 0 /\ NV % 2 = 0 /\ BlockRegs > 1
  /\ MatLens \cup MatCols \subseteq Nat \ {0}

VARIABLES
  mf,       \* the product computed, "none" when another part runs
  shape,    \* <<L, n>>: matA_vec_byte and matA_n_vec
  calls,    \* kernel calls not made yet
  c,        \* the result, and two registers of memory behind it
  end       \* end of what was read of the matrix

mat_vars == <<mf, shape, calls, c, end>>

-----------------------------------------------------------------------------
(* A register of a kernel: it stands at byte off of a column, loads `load` *)
(* bytes of every column but the last and `last` bytes of that, and stores *)
(* `store` bytes of the sum.                                               *)
Reg(o, w) == [off |-> o, load |-> w, last |-> w, store |-> w]

(* Mutant: the last column is loaded like the others.                      *)
RaggedWhole(o, w, r) == [off |-> o, load |-> w, last |-> w, store |-> r]
Ragged(o, w, r) == [off |-> o, load |-> w, last |-> r, store |-> r]
Regs(o, m, w) == [j \in 1 .. m |-> Reg(o + (j-1)*w, w)]

Smaller(a, b) == IF a < b THEN a ELSE b
Pieces(n, m) == (n + m - 1) \div m

(* Bytes o .. o+n-1 of a column in blocks of at most m bytes.              *)
Blocks(o, n, m) ==
  [k \in 1 .. Pieces(n, m) |-> <<o + (k-1)*m, Smaller(m, n - (k-1)*m)>>]
FullBlocks(o, n, m, w) ==
  LET bs == Blocks(o, n, m) IN [k \in DOMAIN bs |-> Regs(bs[k][1], bs[k][2] \div w, w)]

(* Columns first .. first+n-1, multiplied by the tables of the elements    *)
(* from base on, of which the first `valid` tables have been computed.     *)
Columns(f, m, base, valid) == [first |-> f, n |-> m, base |-> base, valid |-> valid]

(* Mutant: every chunk takes the first elements of b.                      *)
ChunksOfTheSame(n, m) ==
  [k \in 1 .. Pieces(n, m) |->
     LET s == Smaller(m, n - (k-1)*m) IN Columns((k-1)*m, s, 0, s)]
Chunks(n, m) ==
  [k \in 1 .. Pieces(n, m) |->
     LET s == Smaller(m, n - (k-1)*m) IN Columns((k-1)*m, s, (k-1)*m, s)]
AtOnce(n) == <<Columns(0, n, 0, n)>>

(* For every chunk of columns, every block of rows.                        *)
Call(regs, cols, add) == [regs |-> regs, cols |-> cols, add |-> add]
Sweep(rows, chunks, add) ==
  FlattenSeq([i \in DOMAIN chunks |->
    [j \in DOMAIN rows |-> Call(rows[j], chunks[i], add)]])

gf256v_set_zero(L) == <<Call(<<Reg(0, L)>>, Columns(0, 0, 0, 0), FALSE)>>

-----------------------------------------------------------------------------
(* blas_matrix_ref.c: column after column, with the vector multiply-add.   *)
gf16mat_prod_ref(L, n) == gf256v_set_zero(L) \o Sweep(<< <<Reg(0, L)>> >>, Chunks(n, 1), TRUE)
gf256mat_prod_ref(L, n) == gf256v_set_zero(L) \o Sweep(<< <<Reg(0, L)>> >>, Chunks(n, 1), TRUE)

(* blas_matrix_sse.c: blocks of whole registers and a partial one, which   *)
(* is loaded byte by byte in every column.                                 *)
SseRows(L) ==
  LET bs == Blocks(0, L, BlockRegs*XMM) IN
  [k \in DOMAIN bs |->
     LET o == bs[k][1]  r == bs[k][2] % XMM IN
     Regs(o, bs[k][2] \div XMM, XMM)
       \o (IF r = 0 THEN <<>> ELSE <<Reg(o + bs[k][2] - r, r)>>)]
gf16mat_prod_sse(L, n) == gf256v_set_zero(L) \o Sweep(SseRows(L), Chunks(n, 2*Chunk), TRUE)
gf16mat_prod_multab_sse(L, n) == gf16mat_prod_sse(L, n)
gf256mat_prod_sse(L, n) == gf256v_set_zero(L) \o Sweep(SseRows(L), Chunks(n, Chunk), TRUE)
gf256mat_prod_multab_sse(L, n) == gf256mat_prod_sse(L, n)

(* GF(16) in blas_matrix_avx2.c and blas_matrix_avx2_gfni.c.  The kernels  *)
(* for 64 and 96 rows keep the sum in registers; every other length takes  *)
(* the remaining bytes first, then blocks of whole registers.              *)
gf16mat_prod_multab_64x_avx2(n) == Sweep(<<Regs(0, 1, YMM)>>, AtOnce(n), FALSE)
gf16mat_prod_multab_96x_avx2(n) ==
  Sweep(<< <<Reg(0, YMM), Reg(YMM, XMM)>> >>, AtOnce(n), FALSE)
MaddRows(L) ==
  LET rem == L % YMM IN
  (IF rem = 0 THEN <<>> ELSE << <<Reg(0, rem)>> >>)
    \o FullBlocks(rem, L - rem, BlockRegs*YMM, YMM)
gf16mat_madd_multab_avx2(L, n) == Sweep(MaddRows(L), Chunks(n, NV), TRUE)
gf16mat_prod_multab_avx2(L, n) ==
  IF L = YMM THEN gf16mat_prod_multab_64x_avx2(n)
  ELSE IF L = YMM + XMM THEN gf16mat_prod_multab_96x_avx2(n)
  ELSE gf256v_set_zero(L) \o gf16mat_madd_multab_avx2(L, n)

(* The product computes the tables of n_ele elements, but then passes all  *)
(* the columns that are left to the multiply-add.                          *)
Leftover(n) ==
  [k \in 1 .. Pieces(n, NV) |->
     LET left == n - (k-1)*NV IN Columns((k-1)*NV, left, (k-1)*NV, Smaller(NV, left))]
gf16mat_prod_avx2(L, n) ==
  IF L = YMM /\ n <= NV THEN gf16mat_prod_multab_64x_avx2(n)
  ELSE IF L = YMM + XMM /\ n <= NV THEN gf16mat_prod_multab_96x_avx2(n)
  ELSE gf256v_set_zero(L) \o Sweep(MaddRows(L), Leftover(n), TRUE)

gf16mat_prod_multab_64x_gfni(n) == Sweep(<<Regs(0, 1, YMM)>>, AtOnce(n), FALSE)
gf16mat_prod_multab_96x_gfni(n) ==
  Sweep(<< <<Reg(0, YMM), Reg(YMM, XMM)>> >>, AtOnce(n), FALSE)
gf16mat_madd_multab_gfni(L, n) == Sweep(MaddRows(L), AtOnce(n), TRUE)
gf16mat_prod_multab_gfni(L, n) ==
  IF L = YMM THEN gf16mat_prod_multab_64x_gfni(n)
  ELSE IF L = YMM + XMM THEN gf16mat_prod_multab_96x_gfni(n)
  ELSE gf256v_set_zero(L) \o gf16mat_madd_multab_gfni(L, n)
gf16mat_prod_gfni(L, n) ==
  IF L \in {YMM, YMM + XMM} /\ n <= NV THEN gf16mat_prod_multab_gfni(L, n)
  ELSE gf256v_set_zero(L) \o Sweep(MaddRows(L), Leftover(n), TRUE)

(* GF(256) in blas_matrix_avx2.c.  Up to 96 rows, a kernel of one to three *)
(* registers loads the last one whole, beyond the end of its column, but   *)
(* in the last column of the chunk.                                        *)
SmallRows(L) ==
  LET full == (L - 1) \div YMM IN
  << Regs(0, full, YMM) \o <<Ragged(full*YMM, YMM, L - full*YMM)>> >>
RemBlockRows(L) ==
  LET rem == L % YMM
      m == IF rem = 0 THEN 0 ELSE Smaller(BlockRegs*YMM, L - rem)
  IN  (IF rem = 0 THEN <<>> ELSE << <<Reg(0, YMM)>> \o Regs(rem, m \div YMM, YMM) >>)
        \o FullBlocks(rem + m, L - rem - m, BlockRegs*YMM, YMM)
gf256mat_prod_multab_avx2(L, n) ==
  IF L <= 3*YMM THEN Sweep(SmallRows(L), AtOnce(n), FALSE)
  ELSE gf256v_set_zero(L) \o Sweep(RemBlockRows(L), AtOnce(n), TRUE)
gf256mat_prod_small_avx2(L, n) ==
  gf256v_set_zero(L) \o Sweep(SmallRows(L), Chunks(n, 2*Chunk), TRUE)
gf256mat_prod_avx2(L, n) ==
  IF L <= 3*YMM THEN gf256mat_prod_small_avx2(L, n)
  ELSE gf256v_set_zero(L) \o Sweep(RemBlockRows(L), Chunks(n, 2*Chunk), TRUE)

(* GF(256) in blas_matrix_avx2_gfni.c: no tables; the remaining bytes      *)
(* first, of a whole register where the column is long enough, then the    *)
(* rows in groups of 128, and one group of 96, 64 or 32.                   *)
GfniHead(L, n) ==
  LET rem == L % YMM IN
  IF rem = 0 THEN <<>>
  ELSE IF L < XMM THEN Sweep(<< <<Reg(0, rem)>> >>, AtOnce(n), FALSE)
  ELSE IF L < YMM
    THEN Sweep(<< <<Ragged(0, YMM, rem)>> >>, AtOnce(IF n = 1 THEN 2 ELSE n), FALSE)
  ELSE Sweep(<< <<[Reg(0, YMM) EXCEPT !.store = rem]>> >>, AtOnce(n), FALSE)
GfniRows(L) == FullBlocks(L % YMM, L - (L % YMM), 4*YMM, YMM)
gf256mat_prod_avx2_gfni(L, n) ==
  GfniHead(L, n) \o Sweep(GfniRows(L), AtOnce(n), FALSE)

(* GF(16) in blas_matrix_neon.c, with tables and without: a first register *)
(* that overlaps the next ones, and blocks that write and do not add.      *)
NeonRows(L) ==
  LET rem == L % XMM
      m == IF rem = 0 THEN 0 ELSE Smaller((BlockRegs - 1)*XMM, L - rem)
  IN  (IF rem = 0 THEN <<>> ELSE << <<Reg(0, XMM)>> \o Regs(rem, m \div XMM, XMM) >>)
        \o FullBlocks(rem + m, L - rem - m, BlockRegs*XMM, XMM)
ShortColumns(L) == <<Regs(0, L \div XMM, XMM)>>
gf16mat_prod_multab_neon(L, n) ==
  Sweep(IF L \in {XMM, 2*XMM, 3*XMM} THEN ShortColumns(L) ELSE NeonRows(L), AtOnce(n), FALSE)
gf16mat_prod_96x_neon(L, n) == Sweep(ShortColumns(L), AtOnce(n), FALSE)
gf16mat_blockmat_prod_neon(L, n) == Sweep(NeonRows(L), AtOnce(n), FALSE)
gf16mat_prod_neon(L, n) ==
  IF L \in {XMM, 2*XMM, 3*XMM} THEN gf16mat_prod_96x_neon(L, n)
  ELSE gf16mat_blockmat_prod_neon(L, n)

(* GF(256) in blas_matrix_neon.c.  With tables, chunks of 16 columns and   *)
(* blocks of 8 registers, the last of which goes beyond its column but in  *)
(* the last one of the chunk; with lazy reduction, all the columns and     *)
(* blocks of 3 registers.                                                  *)
RaggedRows(L, m) ==
  LET bs == Blocks(0, L, m*XMM) IN
  [k \in DOMAIN bs |->
     LET o == bs[k][1]  r == bs[k][2] % XMM IN
     Regs(o, bs[k][2] \div XMM, XMM)
       \o (IF r = 0 THEN <<>> ELSE <<Ragged(o + bs[k][2] - r, XMM, r)>>)]
gf256mat_prod_multab_neon(L, n) ==
  IF L > XMM /\ L <= 3*XMM THEN Sweep(RaggedRows(L, 3), AtOnce(n), FALSE)
  ELSE gf256v_set_zero(L) \o Sweep(RaggedRows(L, BlockRegs), Chunks(n, Chunk), TRUE)
gf256mat_prod_16_neon(L, n) == Sweep(RaggedRows(L, 1), AtOnce(n), FALSE)
gf256mat_prod_32_neon(L, n) == Sweep(RaggedRows(L, 2), AtOnce(n), FALSE)
gf256mat_blockmat_prod_lazy(L, n) == Sweep(RaggedRows(L, 3), AtOnce(n), TRUE)
gf256mat_prod_neon(L, n) ==
  IF L <= XMM THEN gf256mat_prod_16_neon(L, n)
  ELSE IF L <= 2*XMM THEN gf256mat_prod_32_neon(L, n)
  ELSE gf256v_set_zero(L) \o gf256mat_blockmat_prod_lazy(L, n)

-----------------------------------------------------------------------------
(* Every product a build can select.                                       *)
Products(L, n) ==
  [ gf16mat_prod_ref |-> gf16mat_prod_ref(L, n),
    gf256mat_prod_ref |-> gf256mat_prod_ref(L, n),
    gf16mat_prod_sse |-> gf16mat_prod_sse(L, n),
    gf16mat_prod_multab_sse |-> gf16mat_prod_multab_sse(L, n),
    gf256mat_prod_sse |-> gf256mat_prod_sse(L, n),
    gf256mat_prod_multab_sse |-> gf256mat_prod_multab_sse(L, n),
    gf16mat_prod_avx2 |-> gf16mat_prod_avx2(L, n),
    gf16mat_prod_multab_avx2 |-> gf16mat_prod_multab_avx2(L, n),
    gf256mat_prod_avx2 |-> gf256mat_prod_avx2(L, n),
    gf256mat_prod_multab_avx2 |-> gf256mat_prod_multab_avx2(L, n),
    gf16mat_prod_gfni |-> gf16mat_prod_gfni(L, n),
    gf16mat_prod_multab_gfni |-> gf16mat_prod_multab_gfni(L, n),
    gf256mat_prod_gfni |-> gf256mat_prod_avx2_gfni(L, n),
    gf16mat_prod_neon |-> gf16mat_prod_neon(L, n),
    gf16mat_prod_multab_neon |-> gf16mat_prod_multab_neon(L, n),
    gf256mat_prod_neon |-> gf256mat_prod_neon(L, n),
    gf256mat_prod_multab_neon |-> gf256mat_prod_multab_neon(L, n) ]

(* Shapes a product is not written for: a comment says so, or no parameter *)
(* set of UOV has them.                                                    *)
Supported(f, L, n) ==
  /\ f \in {"gf16mat_prod_neon", "gf16mat_prod_multab_neon",
            "gf256mat_prod_avx2", "gf256mat_prod_multab_avx2"} => L >= XMM
  /\ f \in {"gf256mat_prod_neon", "gf256mat_prod_multab_neon"} => 2*L >= XMM
  /\ f = "gf256mat_prod_gfni" => n > 1
  /\ f \in {"gf16mat_prod_avx2", "gf16mat_prod_gfni"} => n <= NV

-----------------------------------------------------------------------------
Junk == -1
Whatever == {<<Junk, Junk>>}   \* what c holds before the product

MatIdle == mf = "none" /\ shape = <<0, 0>> /\ calls = <<>> /\ c = <<>> /\ end = 0

MatInit ==
  /\ shape \in MatLens \X MatCols
  /\ LET L == shape[1]  n == shape[2]  ps == Products(L, n) IN
     /\ mf \in DOMAIN ps
     /\ Supported(mf, L, n)
     /\ calls = ps[mf]
     /\ c = [i \in 0 .. L + 2*YMM - 1 |-> Whatever]
  /\ end = 0

(* What column k adds to the byte at i of register r of a call.            *)
LastColumn(cols) == cols.first + cols.n - 1
Loaded(r, cols, k) == IF k = LastColumn(cols) THEN r.last ELSE r.load
Term(r, cols, k, i, L) ==
  << IF i - r.off < Loaded(r, cols, k) THEN k*L + i ELSE Junk,
     IF k - cols.first < cols.valid THEN cols.base + k - cols.first ELSE Junk >>
Sum(r, cols, i, L) == {Term(r, cols, k, i, L) : k \in cols.first .. LastColumn(cols)}
Xor(S, T) == (S \ T) \cup (T \ S)

Store(call, L, d) ==
  [i \in DOMAIN d |->
     LET hit == {r \in ToSet(call.regs) : i \in r.off .. r.off + r.store - 1} IN
     IF hit = {} THEN d[i]
     ELSE LET r == CHOOSE r \in hit : \A q \in hit : q.off <= r.off
              s == Sum(r, call.cols, i, L)
          IN  IF call.add THEN Xor(d[i], s) ELSE s]

ReadEnds(call, L) ==
  {k*L + r.off + Loaded(r, call.cols, k) :
     k \in call.cols.first .. LastColumn(call.cols), r \in ToSet(call.regs)}

MatStep ==
  /\ mf # "none"
  /\ calls # <<>>
  /\ c' = Store(Head(calls), shape[1], c)
  /\ end' = CHOOSE e \in ReadEnds(Head(calls), shape[1]) \cup {end} :
              \A d \in ReadEnds(Head(calls), shape[1]) \cup {end} : d <= e
  /\ calls' = Tail(calls)
  /\ UNCHANGED <<mf, shape>>

-----------------------------------------------------------------------------
(* Whatever the shape, a matrix product adds every byte of the matrix, each*)
(* multiplied by the element of its column, into the byte of its row       *)
(* exactly once, and changes nothing behind the result.                    *)
ProductRight ==
  calls = <<>> =>
    \A i \in DOMAIN c :
      c[i] = IF i < shape[1] THEN {<<k*shape[1] + i, k>> : k \in 0 .. shape[2] - 1}
             ELSE Whatever

(* No matrix product reads behind the matrix, although most of them load   *)
(* whole registers that reach into the next column.                        *)
ProductReadsInBounds == end <= shape[1] * shape[2]
=============================================================================
