----------------------------- MODULE MCOvSign -----------------------------
(* GF(4), the subfield {0, 1, 6, 7} of the code's GF(16): 6 generates it.  *)
EXTENDS OvSign

MCGF == {0, 1, 6, 7}

MCAdd(a, b) ==
  IF a = b THEN 0 ELSE IF a = 0 THEN b ELSE IF b = 0 THEN a
  ELSE CHOOSE c \in {1, 6, 7} : c \notin {a, b}

Power == [k \in 0 .. 2 |-> IF k = 0 THEN 1 ELSE k + 5]
Log(a) == CHOOSE k \in 0 .. 2 : Power[k] = a

MCMul(a, b) == IF a = 0 \/ b = 0 THEN 0 ELSE Power[(Log(a) + Log(b)) % 3]
MCInv(a) == IF a = 0 THEN 0 ELSE Power[(3 - Log(a)) % 3]

(* Seeds with no structure, each coefficient from a quadratic residue      *)
(* sequence; seed 0 has the oil matrix 0.  Their systems are regular, or   *)
(* singular in the first, the last or both columns, or need a pivot        *)
(* repaired.                                                               *)
Elem(k) == CASE k % 4 = 0 -> 0 [] k % 4 = 1 -> 1 [] k % 4 = 2 -> 6 [] k % 4 = 3 -> 7
Mix(s, a, b, c) == Elem(((s * s * 7 + a * 5 + b * 11 + c * 3 + s * a * b + 2) * (s + a + 3 * b + c + 1)) \div 3)
MCSeed(s) ==
  [P1 |-> [p \in Upper(V) |-> [e \in Eq |-> Mix(s, p[1], p[2], e)]],
   P2 |-> [p \in Row \X Col |-> [e \in Eq |-> Mix(s + 1, p[1], p[2], e)]],
   O  |-> [p \in Row \X Col |-> IF s = 0 THEN 0 ELSE Mix(s + 2, p[1], p[2], 1)]]
MCSeeds == {MCSeed(s) : s \in {0, 1, 3, 7}}

(* Two messages of three entries and a hash that tells them apart.         *)
MCMessages == {m \in [0 .. 2 -> {1, 6}] : m[1] = 1 /\ m[2] = 1}
MCHash(m) == [i \in 0 .. HASH_EFFECTIVE_BYTE-1 |-> IF DOMAIN m = {} THEN 7 ELSE m[0]]
MCHashSalt(s) == [i \in 0 .. SALT_BYTE-1 |-> 7]

(* Digests one entry short, exact, and one entry long.                     *)
MCDigests == [{} -> MCGF] \cup [{0} -> {0, 6, 7}] \cup [{0, 1} -> {6}]

MCVinegars == {v \in [Row -> MCGF] : v[0] \in {0, 6} /\ v[1] \in {0, 7} /\ v[2] \in {0, 1}}
=============================================================================
