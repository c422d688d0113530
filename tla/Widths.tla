------------------------------- MODULE Widths -------------------------------
(***************************************************************************)
(* Widths of the registers of the vector units, and of machine words.      *)
(***************************************************************************)
EXTENDS Integers

CONSTANTS
  YMM,      \* bytes of an AVX2 register: 32
  XMM,      \* bytes of an SSE or NEON register: 16
  U64,      \* bytes of a uint64_t: 8
  U32       \* bytes of a uint32_t: 4

ASSUME WidthAssumption ==
  /\ {XMM, U32} \subseteq Nat \ {0}
  /\ YMM = 2*XMM /\ U64 = 2*U32
=============================================================================
