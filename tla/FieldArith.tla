----------------------------- MODULE FieldArith -----------------------------
(***************************************************************************)
(* The arithmetic of GF(16) and GF(256) in every backend of pqov, each     *)
(* against the definition of the field.                                    *)
(***************************************************************************)
EXTENDS BitSets

CONSTANTS
  FieldA,   \* values of the first operand, bytes
  FieldB    \* values of the second

ASSUME FieldAssumption == FieldA \cup FieldB \subseteq 0 .. 255

VARIABLES
  fa, fb,   \* the operands
  fdone,    \* whether the results are there
  fres      \* the results, function by function

field_vars == <<fa, fb, fdone, fres>>

-----------------------------------------------------------------------------
(* gf16.h: one element.                                                    *)
gf16_is_nonzero(a) == Low(a, 4) # {}
gf16_mul(a, b) ==
  LET F(i) == Shl(b, i)
      r8 == Low(SumOver(Low(a, 4), F, 12), 8)
      r4 == Add(r8, Times(Shr(r8, 4) \cap {0, 2}, {0, 1}))
  IN  Low(Add(r4, Only(5 \in r8, {1, 2})), 4)
gf16_squ(a) ==
  Add(Add(a \cap {0}, Shl(a, 1) \cap {2}), Add(Only(2 \in a, {0, 1}), Only(3 \in a, {2, 3})))
gf16_inv(a) ==
  LET a2 == gf16_squ(a)  a4 == gf16_squ(a2)  a8 == gf16_squ(a4)
  IN  gf16_mul(a8, gf16_mul(a4, a2))

gf256_is_nonzero(a) == a # {}
gf256_mul(a, b) ==
  LET p[i \in 0 .. 7] == IF i = 0 THEN a ELSE Xtime(p[i-1])
      F(i) == p[i]
  IN  SumOver(b, F, 8)
gf256_squ(a) ==
  LET image == <<{0}, {2}, {4}, {6}, BitsOf[27], Shl(BitsOf[27], 2), BitsOf[171], BitsOf[154]>>
      F(i) == image[i+1]
  IN  SumOver(a, F, 8)

(* The extended GCD of _GFINV_EXTGCD_: g is one bit wider than a byte, and *)
(* v collects the inverse from its top bit downwards.                      *)
gf256_inv(a) ==
  LET start == [f |-> BitsOf[283], g |-> Shl(a, 1), delta |-> 1, r |-> {8}, v |-> {}]
      divstep(s) ==
        LET g0 == 8 \in s.g
            swap == s.delta > 0 /\ g0
        IN  [ delta |-> (IF swap THEN -2 * s.delta ELSE 0) + s.delta + 1,
              f |-> Add(s.f, Only(swap, Add(s.f, s.g))),
              g |-> Low(Shl(Add(s.g, Only(g0, s.f)), 1), 16),
              r |-> Add(s.r, Only(g0, s.v)),
              v |-> Shr(Add(s.v, Only(swap, Add(s.v, s.r))), 1) ]
      run[i \in 0 .. 15] == IF i = 0 THEN start ELSE divstep(run[i-1])
  IN  Low(run[15].v, 8)
gf256_inv_fermat(a) ==
  LET a2 == gf256_squ(a)  a4 == gf256_squ(a2)  a8 == gf256_squ(a4)
      a8_4_2 == gf256_mul(gf256_mul(a4, a2), a8)
      a64_ == gf256_squ(gf256_squ(gf256_squ(a8_4_2)))
      a64_2 == gf256_mul(a64_, a8_4_2)
  IN  gf256_mul(a2, gf256_squ(a64_2))

-----------------------------------------------------------------------------
(* gf16.h and gf16_u64.h: the elements of a word of w bits at once.  The   *)
(* top bits of the elements are cleared before the shift and come back     *)
(* reduced.                                                                *)
Lanes(w, d, k) == {i \in 0 .. w-1 : i % d = k}

(* Mutant: the top bits are not cleared before the shift.                  *)
MulWordCarrying(a, b, w, d, tail) ==
  LET next(v) ==
        LET msb == v \cap Lanes(w, d, d-1) IN
        Add(Low(Shl(v, 1), w), Times(Shr(msb, d-1), tail))
      p[i \in 0 .. d-1] == IF i = 0 THEN a ELSE next(p[i-1])
      F(i) == p[i]
  IN  SumOver(Low(b, d), F, w)
MulWord(a, b, w, d, tail) ==
  LET next(v) ==
        LET msb == v \cap Lanes(w, d, d-1) IN
        Add(Low(Shl(v \ msb, 1), w), Times(Shr(msb, d-1), tail))
      p[i \in 0 .. d-1] == IF i = 0 THEN a ELSE next(p[i-1])
      F(i) == p[i]
  IN  SumOver(Low(b, d), F, w)
gf16v_mul_u32(a, b) == MulWord(a, b, 32, 4, {0, 1})
gf16v_mul_u64(a, b) == MulWord(a, b, 64, 4, {0, 1})
gf256v_mul_u32(a, b) == MulWord(a, b, 32, 8, {0, 1, 3, 4})
gf256v_mul_u64(a, b) == MulWord(a, b, 64, 8, {0, 1, 3, 4})

Squ16Word(a, w) ==
  LET ones == Lanes(w, 4, 0)  fours == Lanes(w, 4, 2) IN
  Add((a \cap ones) \cup (Shl(a, 1) \cap fours),
      Times((Shr(a, 2) \cap ones) \cup (Shr(a, 1) \cap fours), {0, 1}))
gf16v_squ_u32(a) == Squ16Word(a, 32)
gf16v_squ_u64(a) == Squ16Word(a, 64)
gf256v_squ_u32(a) ==
  LET image == <<{0}, {2}, {4}, {6}, BitsOf[27], Shl(BitsOf[27], 2), BitsOf[171], BitsOf[154]>>
      F(i) == Times(Shr(a, i) \cap Lanes(32, 8, 0), image[i+1])
  IN  SumOver(0 .. 7, F, 32)

(* Every element of a by the element of b at the same place.               *)
MulWords(a, b, w) ==
  LET ones == Lanes(w, 4, 0)
      a_(i) == Shr(a, i) \cap ones
      b_(j) == Shr(b, j) \cap ones
      pairs(k) == {ij \in (0 .. 3) \X (0 .. 3) : ij[1] + ij[2] = k}
      c_(k) == LET G(ij) == a_(ij[1]) \cap b_(ij[2]) IN SumOver(pairs(k), G, w)
      image == <<{0}, {1}, {2}, {3}, {0, 1}, {1, 2}, {2, 3}>>
      F(k) == Times(c_(k), image[k+1])
  IN  SumOver(0 .. 6, F, w)
gf16v_mul_u32_u32(a, b) == MulWords(a, b, 32)
gf16v_mul_u64_u64(a, b) == MulWords(a, b, 64)

(* The sum of the elements of a word.                                      *)
gf256v_reduce_u32(a) ==
  LET r == Add(Low(a, 16), Shr(a, 16)) IN Add(Low(r, 8), Shr(r, 8))
gf256v_reduce_u64(a) == gf256v_reduce_u32(Add(Low(a, 32), Shr(a, 32)))
gf16v_reduce_u32(a) == LET r == gf256v_reduce_u32(a) IN Add(Low(r, 4), Shr(r, 4))
gf16v_reduce_u64(a) == LET r == gf256v_reduce_u64(a) IN Add(Low(r, 4), Shr(r, 4))

-----------------------------------------------------------------------------
(* gf16_tabs.c, gf256_tabs.c and gf16_tabs_neon.c, entry by entry.         *)
__gf16_squ ==
  << 0, 1, 4, 5, 3, 2, 7, 6, 12, 13, 8, 9, 15, 14, 11, 10 >>
__gf16_inv ==
  << 0, 1, 9, 14, 13, 11, 7, 6, 15, 2, 12, 5, 10, 4, 3, 8 >>
__gf16_exp ==
  << 1, 2, 4, 8, 3, 6, 12, 11, 5, 10, 7, 14, 15, 13, 9, 1 >>
__gf16_log ==   \* 0xd6 is a signed byte
  << -42, 0, 1, 4, 2, 8, 5, 10, 3, 14, 9, 7, 6, 13, 11, 12 >>
__gf16_mulbase ==
  << << 0, 1, 2, 3, 4, 5, 6, 7, 8, 9, 10, 11, 12, 13, 14, 15 >>,
     << 0, 2, 4, 6, 8, 10, 12, 14, 3, 1, 7, 5, 11, 9, 15, 13 >>,
     << 0, 4, 8, 12, 3, 7, 11, 15, 6, 2, 14, 10, 5, 1, 13, 9 >>,
     << 0, 8, 3, 11, 6, 14, 5, 13, 12, 4, 15, 7, 10, 2, 9, 1 >> >>
__gf256_squ ==
  << 0, 1, 4, 5, 16, 17, 20, 21, 64, 65, 68, 69, 80, 81, 84, 85,
     0, 27, 108, 119, 171, 176, 199, 220, 154, 129, 246, 237, 49, 42, 93, 70 >>
__gf256_mulbase ==
  << << 0, 1, 2, 3, 4, 5, 6, 7, 8, 9, 10, 11, 12, 13, 14, 15,
        0, 16, 32, 48, 64, 80, 96, 112, 128, 144, 160, 176, 192, 208, 224, 240 >>,
     << 0, 2, 4, 6, 8, 10, 12, 14, 16, 18, 20, 22, 24, 26, 28, 30,
        0, 32, 64, 96, 128, 160, 192, 224, 27, 59, 91, 123, 155, 187, 219, 251 >>,
     << 0, 4, 8, 12, 16, 20, 24, 28, 32, 36, 40, 44, 48, 52, 56, 60,
        0, 64, 128, 192, 27, 91, 155, 219, 54, 118, 182, 246, 45, 109, 173, 237 >>,
     << 0, 8, 16, 24, 32, 40, 48, 56, 64, 72, 80, 88, 96, 104, 112, 120,
        0, 128, 27, 155, 54, 182, 45, 173, 108, 236, 119, 247, 90, 218, 65, 193 >>,
     << 0, 16, 32, 48, 64, 80, 96, 112, 128, 144, 160, 176, 192, 208, 224, 240,
        0, 27, 54, 45, 108, 119, 90, 65, 216, 195, 238, 245, 180, 175, 130, 153 >>,
     << 0, 32, 64, 96, 128, 160, 192, 224, 27, 59, 91, 123, 155, 187, 219, 251,
        0, 54, 108, 90, 216, 238, 180, 130, 171, 157, 199, 241, 115, 69, 31, 41 >>,
     << 0, 64, 128, 192, 27, 91, 155, 219, 54, 118, 182, 246, 45, 109, 173, 237,
        0, 108, 216, 180, 171, 199, 115, 31, 77, 33, 149, 249, 230, 138, 62, 82 >>,
     << 0, 128, 27, 155, 54, 182, 45, 173, 108, 236, 119, 247, 90, 218, 65, 193,
        0, 216, 171, 115, 77, 149, 230, 62, 154, 66, 49, 233, 215, 15, 124, 164 >> >>
__gf256_mulbase_avx ==
  << << 0, 1, 2, 3, 4, 5, 6, 7, 8, 9, 10, 11, 12, 13, 14, 15,
        0, 16, 32, 48, 64, 80, 96, 112, 128, 144, 160, 176, 192, 208, 224, 240 >>,
     << 0, 16, 32, 48, 64, 80, 96, 112, 128, 144, 160, 176, 192, 208, 224, 240,
        0, 27, 54, 45, 108, 119, 90, 65, 216, 195, 238, 245, 180, 175, 130, 153 >>,
     << 0, 2, 4, 6, 8, 10, 12, 14, 16, 18, 20, 22, 24, 26, 28, 30,
        0, 32, 64, 96, 128, 160, 192, 224, 27, 59, 91, 123, 155, 187, 219, 251 >>,
     << 0, 32, 64, 96, 128, 160, 192, 224, 27, 59, 91, 123, 155, 187, 219, 251,
        0, 54, 108, 90, 216, 238, 180, 130, 171, 157, 199, 241, 115, 69, 31, 41 >>,
     << 0, 4, 8, 12, 16, 20, 24, 28, 32, 36, 40, 44, 48, 52, 56, 60,
        0, 64, 128, 192, 27, 91, 155, 219, 54, 118, 182, 246, 45, 109, 173, 237 >>,
     << 0, 64, 128, 192, 27, 91, 155, 219, 54, 118, 182, 246, 45, 109, 173, 237,
        0, 108, 216, 180, 171, 199, 115, 31, 77, 33, 149, 249, 230, 138, 62, 82 >>,
     << 0, 8, 16, 24, 32, 40, 48, 56, 64, 72, 80, 88, 96, 104, 112, 120,
        0, 128, 27, 155, 54, 182, 45, 173, 108, 236, 119, 247, 90, 218, 65, 193 >>,
     << 0, 128, 27, 155, 54, 182, 45, 173, 108, 236, 119, 247, 90, 218, 65, 193,
        0, 216, 171, 115, 77, 149, 230, 62, 154, 66, 49, 233, 215, 15, 124, 164 >> >>
__gf16_reduce ==
  << 0, 19, 38, 53, 76, 95, 106, 121, 139, 152, 173, 190, 199, 212, 225, 242 >>
__gf256_bit8_11_reduce ==
  << 0, 27, 54, 45, 108, 119, 90, 65, 216, 195, 238, 245, 180, 175, 130, 153 >>
__gf256_bit12_15_reduce ==
  << 0, 171, 77, 230, 154, 49, 215, 124, 47, 132, 98, 201, 181, 30, 248, 83 >>

(* A byte shuffle: entry n of a table, n below 16.                         *)
Lookup(t, S) == BitsOf[t[NumOf[S] + 1]]
Upper(t) == SubSeq(t, 17, 32)

-----------------------------------------------------------------------------
(* gf16_sse.h and gf16_avx2.h: the multiplication table of an element, 16  *)
(* entries for a nibble, is the sum of the tables of its bits.             *)
tbl_gf16_multab(b) ==
  [n \in 1 .. 16 |-> LET F(i) == BitsOf[__gf16_mulbase[i+1][n]] IN SumOver(Low(b, 4), F, 8)]
tbl_gf256_multab(b) ==
  [n \in 1 .. 32 |-> LET F(i) == BitsOf[__gf256_mulbase[i+1][n]] IN SumOver(b, F, 8)]

Entry(t, S) == t[NumOf[S] + 1]
linear_transform_8x8(tab_l, tab_h, v) == Add(Entry(tab_l, Low(v, 4)), Entry(tab_h, Shr(v, 4)))

(* Two elements of GF(16) in the byte v, times b: the second table is the  *)
(* first one shifted by a nibble.                                          *)
gf16v_mul_sse(v, b) ==
  LET t == tbl_gf16_multab(b) IN
  linear_transform_8x8(t, [n \in 1 .. 16 |-> Shl(t[n], 4)], v)
tbl_gf256_mul(a, b) ==
  LET t == tbl_gf256_multab(b) IN
  linear_transform_8x8(SubSeq(t, 1, 16), SubSeq(t, 17, 32), a)

(* With logarithms: that of zero is so far below zero that the sum stays   *)
(* negative, and a byte shuffle answers a negative index with zero.        *)
tbl_gf16_log(a) == __gf16_log[NumOf[a] + 1]
tbl_gf16_exp(n) == IF n < 0 THEN {} ELSE BitsOf[__gf16_exp[n+1]]
tbl_gf16_mul_log_log(loga, logb) ==
  LET la_lb == loga + logb IN tbl_gf16_exp(IF la_lb > 15 THEN la_lb - 15 ELSE la_lb)
tbl_gf16_mul(a, b) == tbl_gf16_mul_log_log(tbl_gf16_log(a), tbl_gf16_log(b))
tbl32_gf16_mulx2_log(v, b) ==
  LET m(x) == tbl_gf16_mul_log_log(tbl_gf16_log(x), tbl_gf16_log(b)) IN
  Add(m(Low(v, 4)), Shl(m(Shr(v, 4)), 4))

(* Byte times byte without a table: the sign bit of a shifted by i selects *)
(* from the shuffle, which leaves the bytes whose bit i of b is set.       *)
tbl_gf256_mul_vv(a, b) ==
  LET red(x) == Only(7 \in x, BitsOf[27])
      p[i \in 0 .. 7] == IF i = 0 THEN a ELSE Add(Low(Shl(p[i-1], 1), 8), red(p[i-1]))
      F(i) == Only(i \in b, p[i])
  IN  SumOver(0 .. 7, F, 8)

tbl_gf16_squ(a) == Lookup(__gf16_squ, a)
tbl_gf16_inv(a) == Lookup(__gf16_inv, a)
tbl_gf256_squ(a) == Add(Lookup(__gf256_squ, Low(a, 4)), Lookup(Upper(__gf256_squ), Shr(a, 4)))

(* blas_sse.h and blas_avx2.h: the tables of 16 elements at a time.  The   *)
(* multiples of the element by the powers of two are looked up, and entry  *)
(* n is the sum of those that n has bits of, picked by a shuffle.  For     *)
(* GF(256) the multiples of both nibbles are in the two halves of a        *)
(* register in AVX2.                                                       *)
SumOfMultiples(x, n) == LET F(i) == x[i+1] IN SumOver(BitsOf[n], F, 8)
gf16v_generate_multab_16(a) ==
  LET bx == [i \in 1 .. 4 |-> IF i = 1 THEN a ELSE Lookup(__gf16_mulbase[i], a)] IN
  [n \in 1 .. 16 |-> SumOfMultiples(bx, n-1)]
gf256v_generate_multab_16_sse(a) ==
  LET t == __gf256_mulbase
      bx == [i \in 1 .. 8 |->
               IF i = 1 THEN a
               ELSE Add(Lookup(t[i], Low(a, 4)), Lookup(Upper(t[i]), Shr(a, 4)))]
  IN  [n \in 1 .. 16 |-> SumOfMultiples(bx, n-1)]
        \o [n \in 1 .. 16 |-> SumOfMultiples(SubSeq(bx, 5, 8), n-1)]
gf256v_generate_multab_16_avx2(a) ==
  LET t == __gf256_mulbase_avx
      low(i) == Add(Lookup(t[2*i-1], Low(a, 4)), Lookup(t[2*i], Shr(a, 4)))
      high(i) == Add(Lookup(Upper(t[2*i-1]), Low(a, 4)), Lookup(Upper(t[2*i]), Shr(a, 4)))
  IN  [n \in 1 .. 16 |-> SumOfMultiples([i \in 1 .. 4 |-> low(i)], n-1)]
        \o [n \in 1 .. 16 |-> SumOfMultiples([i \in 1 .. 4 |-> high(i)], n-1)]

-----------------------------------------------------------------------------
(* gf16_gfni.h: an element of GF(16) becomes an 8 by 8 matrix for both     *)
(* nibbles of a byte, the sum of the matrices of its bits.  Row k of a     *)
(* matrix yields bit 7-k, as the instruction numbers them.                 *)
Affine(m, x) == {i \in 0 .. 7 : Odd(m[8-i] \cap x)}
MatrixBytes(hi, lo) ==   \* the eight bytes of two 32-bit constants
  [k \in 1 .. 8 |-> IF k <= 4 THEN BitsOf[lo[5-k]] ELSE BitsOf[hi[9-k]]]
__gf16_mulbit ==
  << MatrixBytes(<<1, 2, 4, 8>>, <<16, 32, 64, 128>>),
     MatrixBytes(<<8, 9, 2, 4>>, <<128, 144, 32, 64>>),
     MatrixBytes(<<4, 12, 9, 2>>, <<64, 192, 144, 32>>),
     MatrixBytes(<<2, 6, 12, 9>>, <<32, 96, 192, 144>>) >>
__split_low_4bits == [q \in 1 .. 4 |-> [k \in 1 .. 8 |-> {q-1}]]
gf16v_get_multab_gfni(b) ==
  LET part(q) == [k \in 1 .. 8 |->
                    __gf16_mulbit[q][k] \cap (IF Affine(__split_low_4bits[q], b) = 0 .. 7
                                              THEN 0 .. 7 ELSE {})]
      row(k) == LET F(q) == part(q)[k] IN SumOver(1 .. 4, F, 8)
  IN  [k \in 1 .. 8 |-> row(k)]
gf16v_mul_gfni(v, b) == Affine(gf16v_get_multab_gfni(b), v)

(* gf16_neon.h: polynomial products of bytes, and their reduction by a     *)
(* table or by another product.                                            *)
clmul_8x8(a, b) == Low(Clmul(a, b), 8)
Insert4(l, h) == Low(l, 4) \cup Low(Shl(h, 4), 8)   \* vsliq_n_u8(l, h, 4)
_gf16v_reduce_tbl_neon(abl, abh) ==
  LET r(x) == Add(x, Lookup(__gf16_reduce, Shr(x, 4))) IN Insert4(r(abl), r(abh))
_gf16v_reduce_pmul_neon(abl, abh) ==
  LET r(x) == Add(x, clmul_8x8(Shr(x, 4), {0, 1})) IN Insert4(r(abl), r(abh))
gf16v_mul_neon(v, b) ==
  _gf16v_reduce_tbl_neon(clmul_8x8(Low(v, 4), b), clmul_8x8(Shr(v, 4), b))
gf16v_mul_neon_pmul(v, b) ==
  _gf16v_reduce_pmul_neon(clmul_8x8(Low(v, 4), b), clmul_8x8(Shr(v, 4), b))
gf16v_get_multab_neon(b) ==
  [n \in 1 .. 16 |->
     LET ab == clmul_8x8(b, BitsOf[n-1]) IN Add(ab, Lookup(__gf16_reduce, Shr(ab, 4)))]
_gf16_tbl_x2(v, t) == Insert4(Entry(t, Low(v, 4)), Entry(t, Shr(v, 4)))

_gf256v_reduce_tbl_neon(ab) ==
  LET abh == Shr(ab, 8) IN
  Add(Low(ab, 8), Add(Lookup(__gf256_bit8_11_reduce, Low(abh, 4)),
                      Lookup(__gf256_bit12_15_reduce, Shr(abh, 4))))
_gf256v_reduce_pmul_neon(ab) ==
  LET abhx3 == clmul_8x8(Shr(ab, 8), {0, 1}) IN
  Add(Add(Low(ab, 8), abhx3),
      Add(Low(Shl(abhx3, 3), 8), clmul_8x8(BitsOf[27], Shr(abhx3, 5))))
gf256v_mul_neon(a, b) == _gf256v_reduce_tbl_neon(Clmul(a, b))
gf256v_mul_neon_pmul(a, b) == _gf256v_reduce_pmul_neon(Clmul(a, b))
_gf256v_mul_4bits_neon(a, b4) ==
  LET abl == clmul_8x8(Low(a, 4), b4)  abh == clmul_8x8(Shr(a, 4), b4) IN
  Add(Add(abl, Lookup(__gf256_bit8_11_reduce, Shr(abh, 4))), Low(Shl(abh, 4), 8))
_gf256v_mul_h4bits_neon(a, b4) ==
  LET abl == clmul_8x8(Low(a, 4), b4)  abh == clmul_8x8(Shr(a, 4), b4) IN
  Add(Add(Lookup(__gf256_bit8_11_reduce, Add(Shr(abl, 4), Low(abh, 4))),
          Lookup(__gf256_bit12_15_reduce, Shr(abh, 4))),
      Low(Shl(abl, 4), 8))
gf256v_get_multab_neon(v) ==
  [n \in 1 .. 16 |-> _gf256v_mul_4bits_neon(v, BitsOf[n-1])]
    \o [n \in 1 .. 16 |-> _gf256v_mul_h4bits_neon(v, BitsOf[n-1])]
gf256v_get_multab_neon_apple(v) ==
  LET low == [n \in 1 .. 16 |-> _gf256v_mul_4bits_neon(v, BitsOf[n-1])]
      high(x) == Add(Lookup(__gf256_bit8_11_reduce, Shr(x, 4)), Low(Shl(x, 4), 8))
  IN  low \o [n \in 1 .. 16 |-> high(low[n])]

(* blas_comm.h: element i of the two in a byte, read and replaced.         *)
gf16v_get_ele(a, i) == IF i = 1 THEN Shr(a, 4) ELSE Low(a, 4)
gf16v_set_ele(a, i, v) == (a \ 4*i .. 4*i+3) \cup Shl(v, 4*i)

-----------------------------------------------------------------------------
(* A word whose bytes are a and b in turn.                                 *)
Word(a, b, w) == UNION {Shl(IF k % 2 = 0 THEN a ELSE b, 8*k) : k \in 0 .. w \div 8 - 1}

(* The results of all the functions, by what they are to be.               *)
Results(a, b) ==
  LET a4 == Low(a, 4)  b4 == Low(b, 4)
      w32 == Word(a, b, 32)  w64 == Word(a, b, 64)
      x32 == Word(b, a, 32)  x64 == Word(b, a, 64)
  IN
  [ nonzero |-> <<gf16_is_nonzero(a), gf256_is_nonzero(a)>>,
    mul16 |-> <<gf16_mul(a4, b4), tbl_gf16_mul(a4, b4)>>,
    squ16 |-> <<gf16_squ(a4), tbl_gf16_squ(a4)>>,
    inv16 |-> <<gf16_inv(a4), tbl_gf16_inv(a4)>>,
    vec16 |-> << gf16v_mul_sse(a, b), tbl32_gf16_mulx2_log(a, b4), gf16v_mul_gfni(a, b4),
                 gf16v_mul_neon(a, b4), gf16v_mul_neon_pmul(a, b4),
                 _gf16_tbl_x2(a, gf16v_get_multab_neon(b4)) >>,
    tab16 |-> <<tbl_gf16_multab(b), gf16v_generate_multab_16(b4), gf16v_get_multab_neon(b4)>>,
    mul256 |-> << gf256_mul(a, b), tbl_gf256_mul(a, b), tbl_gf256_mul_vv(a, b),
                  gf256v_mul_neon(a, b), gf256v_mul_neon_pmul(a, b) >>,
    squ256 |-> <<gf256_squ(a), tbl_gf256_squ(a)>>,
    inv256 |-> <<gf256_inv(a), gf256_inv_fermat(a)>>,
    tab256 |-> << tbl_gf256_multab(b), gf256v_generate_multab_16_sse(b),
                  gf256v_generate_multab_16_avx2(b), gf256v_get_multab_neon(b),
                  gf256v_get_multab_neon_apple(b) >>,
    words16 |-> << <<32, gf16v_mul_u32(w32, b4)>>, <<64, gf16v_mul_u64(w64, b4)>> >>,
    pairs16 |-> << <<32, gf16v_mul_u32_u32(w32, x32)>>, <<64, gf16v_mul_u64_u64(w64, x64)>> >>,
    squs16 |-> << <<32, gf16v_squ_u32(w32)>>, <<64, gf16v_squ_u64(w64)>> >>,
    words256 |-> << <<32, gf256v_mul_u32(w32, b)>>, <<64, gf256v_mul_u64(w64, b)>> >>,
    squs256 |-> << <<32, gf256v_squ_u32(w32)>> >>,
    ele |-> [i \in {0, 1} |-> [j \in {0, 1} |->
               gf16v_get_ele(gf16v_set_ele(a, i, b4), j)]],
    sums |-> <<gf256v_reduce_u32(Low(w32, 24)), gf256v_reduce_u64(Low(w64, 56))>>,
    sums16 |-> <<gf16v_reduce_u32(Low(w32, 16)), gf16v_reduce_u64(Low(w64, 16))>> ]

FieldIdle == fa = {} /\ fb = {} /\ fdone = TRUE /\ fres = <<>>

FieldInit ==
  /\ \E n \in FieldA : fa = BitsOf[n]
  /\ \E n \in FieldB : fb = BitsOf[n]
  /\ fdone = FALSE
  /\ fres = <<>>

FieldStep ==
  /\ ~fdone
  /\ fdone' = TRUE
  /\ fres' = Results(fa, fb)
  /\ UNCHANGED <<fa, fb>>

-----------------------------------------------------------------------------
All(s, P(_)) == \A i \in DOMAIN s : P(s[i])
Each(s, x) == \A i \in DOMAIN s : s[i] = x

(* Both nibbles of a byte, and every element of a word, by the operation.  *)
Nibbles(Op(_), v) == Op(Low(v, 4)) \cup Shl(Op(Shr(v, 4)), 4)
Bytewise(Op(_, _), w) ==
  UNION {Shl(IF k % 2 = 0 THEN Op(fa, fb) ELSE Op(fb, fa), 8*k) : k \in 0 .. w \div 8 - 1}

(* Every function of every backend computes what the definition of the     *)
(* field says: single elements, two or more packed into a byte or a word,  *)
(* and the tables from which the products of vectors are looked up.        *)
FieldRight ==
  fres # <<>> =>
    LET a4 == Low(fa, 4)  b4 == Low(fb, 4)
        ByB4(x) == Mul16(x, b4)
        Squ4(x) == Mul16(x, x)
        Vec(x, y) == Nibbles(ByB4, x)
        Pair(x, y) == Mul16(Low(x, 4), Low(y, 4)) \cup Shl(Mul16(Shr(x, 4), Shr(y, 4)), 4)
        Squs(x, y) == Nibbles(Squ4, x)
        ByB(x, y) == Mul256(x, fb)
        Squ8(x, y) == Mul256(x, x)
        InWords(s, Op(_, _)) == \A i \in DOMAIN s : s[i][2] = Bytewise(Op, s[i][1])
        IsInv16(x) == IF a4 = {} THEN x = {} ELSE Mul16(a4, x) = {0}
        IsInv256(x) == IF fa = {} THEN x = {} ELSE Mul256(fa, x) = {0}
    IN
    /\ fres.nonzero = <<a4 # {}, fa # {}>>
    /\ Each(fres.mul16, Mul16(a4, b4)) /\ Each(fres.squ16, Squ4(a4))
    /\ All(fres.inv16, IsInv16) /\ All(fres.inv256, IsInv256)
    /\ Each(fres.vec16, Nibbles(ByB4, fa))
    /\ Each(fres.tab16, [n \in 1 .. 16 |-> ByB4(BitsOf[n-1])])
    /\ Each(fres.mul256, Mul256(fa, fb)) /\ Each(fres.squ256, Mul256(fa, fa))
    /\ Each(fres.tab256, [n \in 1 .. 32 |->
              Mul256(IF n <= 16 THEN BitsOf[n-1] ELSE Shl(BitsOf[n-17], 4), fb)])
    /\ InWords(fres.words16, Vec) /\ InWords(fres.pairs16, Pair)
    /\ InWords(fres.squs16, Squs) /\ InWords(fres.words256, ByB)
    /\ InWords(fres.squs256, Squ8)
    /\ \A i, j \in {0, 1} :
         fres.ele[i][j] = IF i = j THEN b4 ELSE gf16v_get_ele(fa, j)
    /\ Each(fres.sums, fb)
    /\ Each(fres.sums16, Add(Add(a4, Shr(fa, 4)), Add(b4, Shr(fb, 4))))
=============================================================================
