----------------------------- MODULE VectorOps -----------------------------
(***************************************************************************)
(* The vector functions of every backend of pqov: add, scale and           *)
(* multiply-add of len bytes with registers of a fixed width.  A length    *)
(* that is no multiple of the register is where they differ: a head        *)
(* register that overlaps the next one and is repaired afterwards, a       *)
(* partial register, single bytes from the end, or words of a union.       *)
(*                                                                         *)
(* A function is the sequence of moves it makes for a length; one step     *)
(* makes one move.  Field arithmetic is abstracted: dst[i] is the sequence *)
(* of the source bytes that were combined into it so far, so that a byte   *)
(* left out, taken twice or taken from the wrong place shows.              *)
(***************************************************************************)
EXTENDS Widths, Sequences

CONSTANT MaxLen    \* longest vector

ASSUME VectorAssumption == MaxLen \in Nat \ {0}

VARIABLES
  vf,       \* the function called, "none" when another part runs
  len,      \* _num_byte
  todo,     \* moves not made yet
  dst,      \* accu_c, and a register of memory behind it
  top       \* end of what was read of the source

vec_vars == <<vf, len, todo, dst, top>>

-----------------------------------------------------------------------------
(* Moves.  A move combines n bytes of the source at src into dst, after    *)
(* loading read bytes; kept bytes were loaded before it and are stored     *)
(* back after it.                                                          *)
Move(src, to, n, read, kept) == [src |-> src, to |-> to, n |-> n, read |-> read, kept |-> kept]

Register(o, w) == Move(o, o, w, w, {})
Part(o, n) == Move(o, o, n, n, {})
Parts(o, n) == IF n = 0 THEN <<>> ELSE <<Part(o, n)>>

(* Mutant: the bytes behind the remainder are not put back.                *)
OverlapHeadUnrepaired(rem, w) == Move(0, 0, w, w, {})

(* The head of a vector with a remainder: a whole register of which only   *)
(* the first rem bytes are meant, the others are put back.                 *)
OverlapHead(rem, w) == Move(0, 0, w, w, rem .. rem+w-1)

(* Whole registers of w bytes from offset o as long as they fit in n bytes.*)
Registers(o, n, w) == [k \in 1 .. n \div w |-> Register(o + (k-1)*w, w)]

(* for ( n_16 ) ...; if ( rem ) ...                                        *)
BlocksThenPart(n, w) == Registers(0, n, w) \o Parts(n - (n % w), n % w)

(* while ( _num_byte ) { _num_byte--; ... }                                *)
BytesDown(o, n) == [k \in 1 .. n |-> Part(o + n - k, 1)]

(* while ( _num_byte-- ) { ...; a++; accu++; }                             *)
BytesUp(o, n) == [k \in 1 .. n |-> Part(o + k - 1, 1)]

(* Three registers at a time, then one at a time.                          *)
Triples(o, n, w) ==
  LET m == n - (n % (3*w)) IN Registers(o, m, 3*w) \o Registers(o + m, n - m, w)

(* if ( rem ) { if long enough: the overlapping head, else: short } and    *)
(* then the whole registers, of which a short vector has none.             *)
HeadThenRegisters(n, w, short) ==
  LET rem == n % w IN
  (IF rem = 0 THEN <<>> ELSE IF n >= w THEN <<OverlapHead(rem, w)>> ELSE short)
    \o Registers(rem, n - rem, w)

-----------------------------------------------------------------------------
(* SSSE3: blas_sse.h.                                                      *)
linearmap_8x8_sse(n) == BlocksThenPart(n, XMM)
linearmap_8x8_accu_sse(n) == BlocksThenPart(n, XMM)
gf16v_mul_scalar_sse(n) == linearmap_8x8_sse(n)
gf16v_madd_sse(n) == linearmap_8x8_accu_sse(n)
gf16v_madd_multab_sse(n) == linearmap_8x8_accu_sse(n)
gf256v_mul_scalar_sse(n) == linearmap_8x8_sse(n)
gf256v_madd_sse(n) == linearmap_8x8_accu_sse(n)
gf256v_madd_multab_sse(n) == linearmap_8x8_accu_sse(n)
gf256v_add_sse(n) == Registers(0, n, XMM) \o BytesUp(n - (n % XMM), n % XMM)

(* AVX2: blas_avx2.h.  A vector shorter than a register is left to SSSE3.  *)
linearmap_8x8_ymm(n) == HeadThenRegisters(n, YMM, linearmap_8x8_sse(n % YMM))
linearmap_8x8_accu_ymm(n) == HeadThenRegisters(n, YMM, linearmap_8x8_accu_sse(n % YMM))
gf16v_mul_scalar_avx2(n) == linearmap_8x8_ymm(n)
gf16v_madd_avx2(n) == linearmap_8x8_accu_ymm(n)
gf16v_madd_multab_avx2(n) == linearmap_8x8_accu_ymm(n)
gf256v_mul_scalar_avx2(n) == linearmap_8x8_ymm(n)
gf256v_madd_avx2(n) == linearmap_8x8_accu_ymm(n)
gf256v_madd_multab_avx2(n) == linearmap_8x8_accu_ymm(n)
gf256v_add_avx2(n) == HeadThenRegisters(n, YMM, gf256v_add_sse(n))

(* GFNI: blas_avx2_gfni.h.  A short vector is loaded byte by byte.         *)
gf16v_madd_multab_gfni(n) == HeadThenRegisters(n, YMM, Parts(0, n))
gf16v_madd_gfni(n) == HeadThenRegisters(n, YMM, Parts(0, n))
gf16v_mul_scalar_gfni(n) == HeadThenRegisters(n, YMM, Parts(0, n))
gf256v_mul_scalar_avx2_gfni(n) == HeadThenRegisters(n, YMM, Parts(0, n))
gf256v_madd_avx2_gfni(n) == HeadThenRegisters(n, YMM, Parts(0, n))

(* NEON: blas_neon.h.  The loops over whole registers take three at a time *)
(* in the addition and in the two functions that expect a vector of a      *)
(* register or more, which their callers see to.                           *)
HeadThenTriples(n) ==
  LET rem == n % XMM IN
  (IF rem = 0 THEN <<>> ELSE <<OverlapHead(rem, XMM)>>) \o Triples(rem, n - rem, XMM)
gf256v_add_neon(n) ==
  IF n < XMM /\ n % XMM # 0 THEN BytesUp(0, n) ELSE HeadThenTriples(n)
gf256v_set_zero_neon(n) == Registers(0, n, XMM) \o BytesUp(n - (n % XMM), n % XMM)
gf256v_conditional_add_neon(n) == Registers(0, n, XMM) \o BytesUp(n - (n % XMM), n % XMM)
gf16v_mul_scalar_neon(n) == HeadThenRegisters(n, XMM, Parts(0, n))
gf16v_madd_neon(n) == HeadThenRegisters(n, XMM, Parts(0, n))
gf16v_madd_multab_neon(n) == HeadThenRegisters(n, XMM, Parts(0, n))
_gf256v_madd_multab_neon(n) == HeadThenTriples(n)
_gf256v_mul_scalar_multab_neon(n) == HeadThenTriples(n)
gf256v_mul_scalar_neon(n) ==
  IF n < XMM THEN Parts(0, n) ELSE _gf256v_mul_scalar_multab_neon(n)

(* Mutant: no case for a vector shorter than a register.                   *)
gf256v_madd_neonWhole(n) == _gf256v_madd_multab_neon(n)
gf256v_madd_neon(n) ==
  IF n < XMM THEN Parts(0, n) ELSE _gf256v_madd_multab_neon(n)

(* 32-bit words: blas_u32.h.  Whether both vectors are aligned to a word   *)
(* decides between words and bytes, or between a word and a union of its   *)
(* bytes; a vector shorter than two words counts as not aligned.           *)
_gf256v_add_u32_aligned(n) == Registers(0, n, U32) \o BytesDown(n - (n % U32), n % U32)
_gf256v_add_u32(n, aligned) ==
  IF aligned /\ n >= 2*U32 THEN _gf256v_add_u32_aligned(n) ELSE BytesDown(0, n)
_gf256v_conditional_add_u32_aligned(n) == Registers(0, n, U32) \o BytesDown(n - (n % U32), n % U32)
_gf256v_conditional_add_u32(n, aligned) ==
  IF aligned /\ n >= 2*U32 THEN _gf256v_conditional_add_u32_aligned(n) ELSE BytesDown(0, n)
_gf16v_mul_scalar_u32_aligned(n) == BlocksThenPart(n, U32)
_gf16v_mul_scalar_u32(n, aligned) ==
  IF aligned /\ n >= 2*U32 THEN _gf16v_mul_scalar_u32_aligned(n) ELSE BlocksThenPart(n, U32)
_gf256v_mul_scalar_u32_aligned(n) == BlocksThenPart(n, U32)
_gf256v_mul_scalar_u32(n, aligned) ==
  IF aligned /\ n >= 2*U32 THEN _gf256v_mul_scalar_u32_aligned(n) ELSE BlocksThenPart(n, U32)
_gf16v_madd_u32_aligned(n) == BlocksThenPart(n, U32)
_gf16v_madd_u32(n, aligned) ==
  IF aligned /\ n >= 2*U32 THEN _gf16v_madd_u32_aligned(n) ELSE BlocksThenPart(n, U32)
_gf256v_madd_u32_aligned(n) == BlocksThenPart(n, U32)
_gf256v_madd_u32(n, aligned) ==
  IF aligned /\ n >= 2*U32 THEN _gf256v_madd_u32_aligned(n) ELSE BlocksThenPart(n, U32)

(* 64-bit words: blas_u64.h.  Additions that are not aligned to eight      *)
(* bytes go to the 32-bit functions, which look at the alignment again.    *)
_gf256v_add_u64_aligned(n) == Registers(0, n, U64) \o BytesDown(n - (n % U64), n % U64)
_gf256v_add_u64(n, aligned, half) ==
  IF aligned /\ n >= U64 THEN _gf256v_add_u64_aligned(n) ELSE _gf256v_add_u32(n, half)
_gf256v_conditional_add_u64_aligned(n) == Registers(0, n, U64) \o BytesDown(n - (n % U64), n % U64)
_gf256v_conditional_add_u64(n, aligned, half) ==
  IF aligned /\ n >= U64 THEN _gf256v_conditional_add_u64_aligned(n)
  ELSE _gf256v_conditional_add_u32(n, half)
_gf16v_mul_scalar_u64_aligned(n) == BlocksThenPart(n, U64)
_gf16v_mul_scalar_u64(n, aligned) ==
  IF aligned /\ n >= U64 THEN _gf16v_mul_scalar_u64_aligned(n) ELSE BlocksThenPart(n, U64)
_gf256v_mul_scalar_u64_aligned(n) == BlocksThenPart(n, U64)
_gf256v_mul_scalar_u64(n, aligned) ==
  IF aligned /\ n >= U64 THEN _gf256v_mul_scalar_u64_aligned(n) ELSE BlocksThenPart(n, U64)
_gf16v_madd_u64_aligned(n) == BlocksThenPart(n, U64)
_gf16v_madd_u64(n, aligned) ==
  IF aligned /\ n >= U64 THEN _gf16v_madd_u64_aligned(n) ELSE BlocksThenPart(n, U64)
_gf256v_madd_u64_aligned(n) == BlocksThenPart(n, U64)
_gf256v_madd_u64(n, aligned) ==
  IF aligned /\ n >= U64 THEN _gf256v_madd_u64_aligned(n) ELSE BlocksThenPart(n, U64)

(* The tables of n elements, from which products are looked up: the bytes  *)
(* of a move are elements here, and dst are the tables.  Elements of       *)
(* GF(16) come from a register of 2*XMM that was split into two.           *)
Tables16(n) ==
  LET m == n - (n % (2*XMM))
      r == n - m
  IN  Registers(0, m, XMM)
        \o (IF r <= XMM THEN Parts(m, r) ELSE <<Part(m, XMM), Part(m + XMM, r - XMM)>>)
gf16v_generate_multabs_sse(n) == Tables16(n)
gf256v_generate_multabs_sse(n) == BlocksThenPart(n, XMM)
_gf16v_generate_multabs_avx2(n) == Tables16(n)
gf256v_generate_multabs_avx2(n) == BlocksThenPart(n, XMM)
gf16v_generate_multabs_gfni(n) == BlocksThenPart(n, 2)
gf16v_generate_multabs_neon(n) == BlocksThenPart(n, 2)
gf256v_generate_multabs_neon(n) == BytesUp(0, n)

(* Every function with the moves it makes for n bytes.                     *)
Functions(n, aligned, half) ==
  [ gf16v_generate_multabs_sse |-> gf16v_generate_multabs_sse(n),
    gf256v_generate_multabs_sse |-> gf256v_generate_multabs_sse(n),
    gf16v_generate_multabs_avx2 |-> _gf16v_generate_multabs_avx2(n),
    gf256v_generate_multabs_avx2 |-> gf256v_generate_multabs_avx2(n),
    gf16v_generate_multabs_gfni |-> gf16v_generate_multabs_gfni(n),
    gf16v_generate_multabs_neon |-> gf16v_generate_multabs_neon(n),
    gf256v_generate_multabs_neon |-> gf256v_generate_multabs_neon(n),
    gf16v_mul_scalar_sse |-> gf16v_mul_scalar_sse(n),
    gf16v_madd_sse |-> gf16v_madd_sse(n),
    gf16v_madd_multab_sse |-> gf16v_madd_multab_sse(n),
    gf256v_mul_scalar_sse |-> gf256v_mul_scalar_sse(n),
    gf256v_madd_sse |-> gf256v_madd_sse(n),
    gf256v_madd_multab_sse |-> gf256v_madd_multab_sse(n),
    gf256v_add_sse |-> gf256v_add_sse(n),
    gf16v_mul_scalar_avx2 |-> gf16v_mul_scalar_avx2(n),
    gf16v_madd_avx2 |-> gf16v_madd_avx2(n),
    gf16v_madd_multab_avx2 |-> gf16v_madd_multab_avx2(n),
    gf256v_mul_scalar_avx2 |-> gf256v_mul_scalar_avx2(n),
    gf256v_madd_avx2 |-> gf256v_madd_avx2(n),
    gf256v_madd_multab_avx2 |-> gf256v_madd_multab_avx2(n),
    gf256v_add_avx2 |-> gf256v_add_avx2(n),
    gf16v_madd_multab_gfni |-> gf16v_madd_multab_gfni(n),
    gf16v_madd_gfni |-> gf16v_madd_gfni(n),
    gf16v_mul_scalar_gfni |-> gf16v_mul_scalar_gfni(n),
    gf256v_mul_scalar_gfni |-> gf256v_mul_scalar_avx2_gfni(n),
    gf256v_madd_gfni |-> gf256v_madd_avx2_gfni(n),
    gf256v_add_neon |-> gf256v_add_neon(n),
    gf256v_set_zero_neon |-> gf256v_set_zero_neon(n),
    gf256v_conditional_add_neon |-> gf256v_conditional_add_neon(n),
    gf16v_mul_scalar_neon |-> gf16v_mul_scalar_neon(n),
    gf16v_madd_neon |-> gf16v_madd_neon(n),
    gf16v_madd_multab_neon |-> gf16v_madd_multab_neon(n),
    gf256v_mul_scalar_neon |-> gf256v_mul_scalar_neon(n),
    gf256v_madd_neon |-> gf256v_madd_neon(n),
    gf256v_add_u64 |-> _gf256v_add_u64(n, aligned, half),
    gf256v_conditional_add_u64 |-> _gf256v_conditional_add_u64(n, aligned, half),
    gf16v_mul_scalar_u64 |-> _gf16v_mul_scalar_u64(n, aligned),
    gf256v_mul_scalar_u64 |-> _gf256v_mul_scalar_u64(n, aligned),
    gf16v_madd_u64 |-> _gf16v_madd_u64(n, aligned),
    gf256v_madd_u64 |-> _gf256v_madd_u64(n, aligned),
    gf16v_mul_scalar_u32 |-> _gf16v_mul_scalar_u32(n, half),
    gf256v_mul_scalar_u32 |-> _gf256v_mul_scalar_u32(n, half),
    gf16v_madd_u32 |-> _gf16v_madd_u32(n, half),
    gf256v_madd_u32 |-> _gf256v_madd_u32(n, half) ]

-----------------------------------------------------------------------------
VecIdle == vf = "none" /\ len = 0 /\ todo = <<>> /\ dst = <<>> /\ top = 0

VecInit ==
  /\ len \in 1 .. MaxLen
  /\ \E aligned, half \in BOOLEAN :
       /\ aligned => half
       /\ LET fs == Functions(len, aligned, half) IN
          vf \in DOMAIN fs /\ todo = fs[vf]
  /\ dst = [i \in 0 .. len + YMM - 1 |-> <<>>]
  /\ top = 0

(* One move: load, combine, store, and store back what was kept.           *)
Combine(m, d) ==
  [i \in DOMAIN d |->
     IF i \in m.to .. m.to + m.n - 1 /\ i \notin m.kept
     THEN Append(d[i], m.src + i - m.to)
     ELSE d[i]]

VecStep ==
  /\ vf # "none"
  /\ todo # <<>>
  /\ LET m == Head(todo) IN
     /\ dst' = Combine(m, dst)
     /\ top' = IF m.src + m.read > top THEN m.src + m.read ELSE top
  /\ todo' = Tail(todo)
  /\ UNCHANGED <<vf, len>>

-----------------------------------------------------------------------------
(* Whatever the length and the alignment, a vector function combines every *)
(* byte of the source into the byte at the same place exactly once, and    *)
(* changes nothing behind the vector.                                      *)
VectorsRight ==
  todo = <<>> =>
    \A i \in DOMAIN dst : dst[i] = IF i < len THEN <<i>> ELSE <<>>

(* No vector function reads behind its source, whole registers included.   *)
VectorReadsInBounds == top <= len
=============================================================================
