--------------------------- MODULE MCKeccakSponge ---------------------------
(* Blocks of 3 bytes; up to 6 bytes of message, in pieces that begin, end  *)
(* and overrun at every place of a block; digests of up to 7 bytes.        *)
EXTENDS KeccakSponge, TLC

CONSTANTS byte1, byte2

MCParts == {[i \in 1 .. n |-> x] : n \in 0 .. MaxLen, x \in {byte1, byte2}}
MCSymmetry == Permutations(Ctxs) \cup Permutations({byte1, byte2})
=============================================================================
