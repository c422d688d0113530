------------------------------ MODULE BitSets ------------------------------
(***************************************************************************)
(* A byte, a machine word and a polynomial over GF(2) as the set of their  *)
(* bits that are 1: & is \cap, ^ is the symmetric difference, and a shift  *)
(* moves the positions.  The fields GF(16) and GF(256) are polynomials     *)
(* modulo x^4+x+1 and x^8+x^4+x^3+x+1.                                     *)
(***************************************************************************)
EXTENDS Integers, Sequences, FiniteSets

Bits(n) == {i \in 0 .. 8 : (n \div (2^i)) % 2 = 1}
BitsOf == [n \in 0 .. 511 |-> Bits(n)]

NumOf == [S \in SUBSET (0 .. 3) |-> CHOOSE n \in 0 .. 15 : Bits(n) = S]

Add(S, T) == (S \ T) \cup (T \ S)
Low(S, w) == S \cap 0 .. w-1
Shl(S, k) == {i + k : i \in S}
Shr(S, k) == {i - k : i \in {j \in S : j >= k}}
Only(p, S) == IF p THEN S ELSE {}
Odd(S) == Cardinality(S) % 2 = 1

(* The sum of F(k) for k in S, where F(k) has no bit from w on.            *)
SumOver(S, F(_), w) ==
  LET bits == UNION {{<<i, k>> : i \in F(k)} : k \in S}
  IN  {i \in {b[1] : b \in bits} \cap 0 .. w-1 : Odd({b \in bits : b[1] = i})}

(* The product of polynomials, and an integer product with the constant c. *)
(* Where the partial products of the latter overlap it would carry, which  *)
(* a product in the field must not: the bit -1 marks it.                   *)
Clmul(S, T) == {k \in 0 .. 14 : Odd({i \in T : k - i \in S})}
Times(S, c) ==
  LET sums == {i + j : i \in S, j \in c} IN
  IF Cardinality(sums) = Cardinality(S) * Cardinality(c) THEN sums ELSE {-1}

(* The definition: powers of x modulo the polynomial of the field, which   *)
(* has degree d and the terms `tail` below it.                             *)
Powers(d, tail) ==
  LET p[k \in 0 .. 2*d-2] ==
        IF k < d THEN {k}
        ELSE {i \in 0 .. d-1 : Odd({j \in tail : i \in p[k - d + j]})}
  IN  p
Powers16 == Powers(4, {0, 1})
Powers256 == Powers(8, {0, 1, 3, 4})
Mul16(a, b) == LET F(k) == Powers16[k] IN SumOver(Clmul(a, b), F, 4)
Mul256(a, b) == LET F(k) == Powers256[k] IN SumOver(Clmul(a, b), F, 8)
Xtime(a) == Add(Low(Shl(a, 1), 8), Only(7 \in a, {0, 1, 3, 4}))
=============================================================================
