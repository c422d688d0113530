--------------------------- MODULE MCNistApi -------------------------------
(* A digest of 2 bytes of hash and 1 of salt; pHashes that are shorter     *)
(* than it, as long (two of them) and longer.  Messages of 0 to 2 bytes    *)
(* with a signature of 2 in a memory of 10: they lie over each other,      *)
(* before, at and behind the signed message, or apart.                     *)
EXTENDS NistApi, TLC

Digits(s) == [i \in 1 .. Len(s) |-> DataByte(s[i])]
MCPHashes == {Digits(<<0>>), Digits(<<0, 1>>), Digits(<<1, 1>>), Digits(<<0, 1, 0>>)}
MCHash(p) == IF Len(p) = 1 THEN Digits(<<1, 0>>) ELSE Digits(<<0, 0>>)
MCHashSalt(u) == Digits(<<1>>)
MCNistMsgs == {Digits(<<>>), Digits(<<1>>), Digits(<<0, 1>>), Digits(<<1, 1>>)}
MCSymmetry == Permutations(Keys)
=============================================================================
