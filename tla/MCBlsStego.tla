--------------------------- MODULE MCBlsStego ------------------------------
(* Keys and signatures of 2 bytes, salts of 1.  The pHashes are prefixes   *)
(* of one another: one is shorter and one longer than a key, and one is    *)
(* too long to be signed; of the two for a pair of signatures, one is as   *)
(* long as a key.                                                          *)
EXTENDS BlsStego, TLC

Digits(s) == [i \in 1 .. Len(s) |-> DataByte(s[i])]
MCPHashes == {Digits(<<0>>), Digits(<<0, 1, 0>>), Digits(<<0, 1, 0, 1>>)}
MCHashSalt(u) == <<DataByte(1)>>
MCSymmetry == Permutations(Keys)
=============================================================================
