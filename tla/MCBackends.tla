----------------------------- MODULE MCBackends -----------------------------
(***************************************************************************)
(* Bounds.  Registers have 8 bytes where the vector units have 32, with    *)
(* vectors of up to three of them and a remainder, so that every way to    *)
(* cut a vector into registers occurs.  Matrices have up to five registers *)
(* and a remainder in a column, and fewer columns than a chunk, as many,   *)
(* and more.                                                               *)
(* Elements are all bytes, times those with one bit and some with many.    *)
(* The systems are all those of two equations, all those of three with     *)
(* entries 0 and 1, and mixed ones of four, five and eight, where eight    *)
(* stands for 64, the length that has its own code.  The ciphers run on    *)
(* two keys and two nonces; the second counter carries into the next byte. *)
(* Forms of as many variables as gf256 takes at once, and of more; a       *)
(* public map of five variables on vectors with zeros, ones, equal and     *)
(* large elements, whose coefficients fill a register, and do not.         *)
(***************************************************************************)
EXTENDS Backends

MCMatLens == 1 .. 42
MCMatCols == 1 .. 6

MCFieldA == 0 .. 255
MCFieldB == {0, 1, 2, 4, 8, 16, 32, 64, 128, 27, 173, 255}

(* A system whose entries are the digits of a number, and one whose        *)
(* entries come from a linear congruential generator.                      *)
Ramp(n) == [k \in 0 .. n-1 |-> (k + 1) % 4]
Digits(n, s, base) ==
  [n |-> n, a |-> [k \in 0 .. n*n - 1 |-> (s \div base^k) % base], b |-> Ramp(n)]
Mixed(n, s) ==
  LET f[k \in 0 .. n*n] == IF k = 0 THEN s*977 + 13 ELSE (f[k-1]*1103 + 12345) % 65536
  IN  [n |-> n, a |-> [k \in 0 .. n*n - 1 |-> (f[k+1] \div 4096) % 4], b |-> Ramp(n)]

MCSystems ==
  {Digits(2, s, 4) : s \in 0 .. 255} \cup {Digits(3, s, 2) : s \in 0 .. 511}
    \cup {Mixed(n, s) : n \in {4, 5, 8}, s \in 1 .. 6}
MCEarlyStops == {2, 100}
MCPaddings == {3}

Halves(s) == {i \in 0 .. 15 : (s \div (2^i)) % 2 = 1}
MixedWords(n, s) ==
  LET f[k \in 0 .. 2*n] == IF k = 0 THEN s*977 + 13 ELSE (f[k-1]*1103 + 12345) % 65536
  IN  [k \in 0 .. n-1 |-> Halves(f[(2*k)+1]) \cup Shl(Halves(f[(2*k)+2]), 16)]
MCAesKeys == {[k \in 0 .. 7 |-> {}], MixedWords(8, 3)}
MCAesNonces == {[k \in 0 .. 2 |-> {}], MixedWords(3, 7)}
MCAesCtrs == {0, 252}

MCBatchHeights == {4, 6, 8}
MCBatchWidths == 1 .. 3

MCVecLens == {5, 8, 11}
MCMapInputs ==
  {<<1, 2, 3, 4, 5>>, <<0, 255, 16, 0, 1>>, <<29, 0, 0, 200, 161>>,
   <<83, 202, 1, 1, 77>>, <<7, 7, 7, 7, 7>>, <<128, 254, 9, 99, 0>>}
=============================================================================
