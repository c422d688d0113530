-------------------------- MODULE StegoBytes_proofs --------------------------
(***************************************************************************)
(* Facts about sequences that the proofs about both backends need: slices  *)
(* of a payload, the parts of a payload that was put together from pieces, *)
(* and what one fault of the channel leaves.                               *)
(***************************************************************************)
EXTENDS StegoBytes, SequenceTheorems, TLAPS

(* A function on 1..n is a sequence.                                       *)
LEMMA FunctionIsSeq ==
  ASSUME NEW S, NEW n \in Nat, NEW f \in [1 .. n -> S]
  PROVE  f \in Seq(S) /\ Len(f) = n
BY SeqDef

(* Sequences that end in equally long parts begin alike when they are      *)
(* equal.                                                                  *)
LEMMA SameTailLength ==
  ASSUME NEW S, NEW a \in Seq(S), NEW b \in Seq(S), NEW c \in Seq(S), NEW d \in Seq(S),
         Len(b) = Len(d), a \o b = c \o d
  PROVE  a = c
<1>1. /\ Len(a \o b) = Len(a) + Len(b)
      /\ \A i \in 1 .. Len(a) + Len(b) :
           (a \o b)[i] = IF i <= Len(a) THEN a[i] ELSE b[i - Len(a)]
  BY ConcatProperties
<1>2. /\ Len(c \o d) = Len(c) + Len(d)
      /\ \A i \in 1 .. Len(c) + Len(d) :
           (c \o d)[i] = IF i <= Len(c) THEN c[i] ELSE d[i - Len(c)]
  BY ConcatProperties
<1>3. Len(a) \in Nat /\ Len(b) \in Nat /\ Len(c) \in Nat /\ Len(d) \in Nat
  BY LenProperties
<1>4. Len(a) = Len(c)
  BY <1>1, <1>2, <1>3
<1>5. \A i \in 1 .. Len(a) : a[i] = c[i]
  <2>1. SUFFICES ASSUME NEW i \in 1 .. Len(a)
                 PROVE  a[i] = c[i]
    OBVIOUS
  <2>2. (a \o b)[i] = a[i]
    BY <1>1, <1>3
  <2>3. (c \o d)[i] = c[i]
    BY <1>2, <1>3, <1>4
  <2>4. QED
    BY <2>2, <2>3
<1>6. QED
  BY <1>4, <1>5, SeqEqual

(* A slice is a sequence of its length, with noise past the end.           *)
LEMMA SliceIsSeq ==
  ASSUME NEW S, Noise \in S, NEW payload \in Seq(S), NEW at \in Nat, NEW n \in Nat
  PROVE  /\ Slice(payload, at, n) \in Seq(S)
         /\ Len(Slice(payload, at, n)) = n
         /\ \A i \in 1 .. n : Slice(payload, at, n)[i] \in S
<1>1. \A i \in 1 .. n : at + i <= Len(payload) => payload[at + i] \in S
  <2>1. SUFFICES ASSUME NEW i \in 1 .. n, at + i <= Len(payload)
                 PROVE  payload[at + i] \in S
    OBVIOUS
  <2>2. Len(payload) \in Nat
    BY LenProperties
  <2>3. at + i \in 1 .. Len(payload)
    BY <2>1, <2>2
  <2>4. QED
    BY <2>3, ElementOfSeq
<1>2. Slice(payload, at, n) \in [1 .. n -> S]
  BY <1>1 DEF Slice
<1>3. QED
  BY <1>2, FunctionIsSeq

(* One fault leaves a sequence of the bytes there were, of data and of     *)
(* noise.                                                                  *)
LEMMA DamagedIsSeq ==
  ASSUME NEW S, Noise \in S, DataBytes \subseteq S, NEW payload \in Seq(S),
         NEW pad \in Nat, NEW w \in Damaged(payload, pad)
  PROVE  w \in Seq(S)
<1>1. Len(payload) \in Nat
  BY LenProperties
<1>2. \/ \E n \in 0 .. Len(payload) - 1 : w = SubSeq(payload, 1, n)
      \/ \E n \in 1 .. pad : w = payload \o [i \in 1 .. n |-> Noise]
      \/ \E i \in DOMAIN payload, b \in DataBytes \cup {Noise} : w = Spoil(payload, i, b)
  <2>1. w \in Cuts(payload) \/ w \in Pads(payload, pad) \/ w \in Flips(payload)
    BY DEF Damaged
  <2>2. w \in Cuts(payload) => \E n \in 0 .. Len(payload) - 1 : w = SubSeq(payload, 1, n)
    BY DEF Cuts
  <2>3. w \in Pads(payload, pad) => \E n \in 1 .. pad : w = payload \o [i \in 1 .. n |-> Noise]
    BY DEF Pads
  <2>4. w \in Flips(payload) =>
          \E i \in DOMAIN payload, b \in DataBytes \cup {Noise} : w = Spoil(payload, i, b)
    BY DEF Flips
  <2>5. QED
    BY <2>1, <2>2, <2>3, <2>4, Zenon
<1>3. CASE \E n \in 0 .. Len(payload) - 1 : w = SubSeq(payload, 1, n)
  <2>1. PICK n \in 0 .. Len(payload) - 1 : w = SubSeq(payload, 1, n)
    BY <1>3
  <2>2. \A i \in 1 .. n : payload[i] \in S
    BY <1>1, ElementOfSeq
  <2>3. QED
    BY <1>1, <2>1, <2>2, SubSeqProperties
<1>4. CASE \E n \in 1 .. pad : w = payload \o [i \in 1 .. n |-> Noise]
  <2>1. PICK n \in 1 .. pad : w = payload \o [i \in 1 .. n |-> Noise]
    BY <1>4
  <2>2. [i \in 1 .. n |-> Noise] \in Seq(S)
    BY FunctionIsSeq
  <2>3. QED
    BY <2>1, <2>2, ConcatProperties
<1>5. CASE \E i \in DOMAIN payload, b \in DataBytes \cup {Noise} : w = Spoil(payload, i, b)
  <2>1. PICK i \in DOMAIN payload, b \in DataBytes \cup {Noise} : w = Spoil(payload, i, b)
    BY <1>5
  <2>2. i \in 1 .. Len(payload)
    BY LenProperties
  <2>3. b \in S
    OBVIOUS
  <2>4. QED
    BY <2>1, <2>2, <2>3, ExceptSeq DEF Spoil
<1>6. QED
  BY <1>2, <1>3, <1>4, <1>5

(* The piece between two others is found at the end of the first.          *)
LEMMA SliceOfConcat ==
  ASSUME NEW S, NEW a \in Seq(S), NEW b \in Seq(S), NEW c \in Seq(S)
  PROVE  Slice(a \o b \o c, Len(a), Len(b)) = b
<1> DEFINE payload == a \o b \o c
<1>1. Len(a) \in Nat /\ Len(b) \in Nat /\ Len(c) \in Nat
  BY LenProperties
<1>2. /\ a \o b \in Seq(S) /\ Len(a \o b) = Len(a) + Len(b)
      /\ \A i \in 1 .. Len(a) + Len(b) : (a \o b)[i] = IF i <= Len(a) THEN a[i] ELSE b[i - Len(a)]
  BY ConcatProperties
<1>3. /\ Len(payload) = Len(a) + Len(b) + Len(c)
      /\ \A i \in 1 .. Len(a) + Len(b) : payload[i] = (a \o b)[i]
  <2>1. /\ Len(payload) = Len(a \o b) + Len(c)
        /\ \A i \in 1 .. Len(a \o b) + Len(c) :
             payload[i] = IF i <= Len(a \o b) THEN (a \o b)[i] ELSE c[i - Len(a \o b)]
    BY <1>2, ConcatProperties
  <2> HIDE DEF payload
  <2>2. QED
    BY <1>1, <1>2, <2>1
<1> HIDE DEF payload
<1>4. ASSUME NEW i \in 1 .. Len(b)
      PROVE  Len(a) + i <= Len(payload) /\ payload[Len(a) + i] = b[i]
  <2> DEFINE j == Len(a) + i
  <2>1. j \in 1 .. Len(a) + Len(b) /\ ~(j <= Len(a)) /\ j - Len(a) = i /\ j <= Len(payload)
    BY <1>1, <1>3
  <2> HIDE DEF j
  <2>2. payload[j] = (a \o b)[j]
    BY <1>3, <2>1
  <2>3. (a \o b)[j] = b[j - Len(a)]
    BY <1>2, <2>1
  <2>4. QED
    BY <2>1, <2>2, <2>3 DEF j
<1>5. Slice(payload, Len(a), Len(b)) = [i \in 1 .. Len(b) |-> b[i]]
  BY <1>4 DEF Slice
<1>6. b = [i \in 1 .. Len(b) |-> b[i]]
  BY LenProperties
<1>7. QED
  BY <1>5, <1>6 DEF payload

(* The four pieces of a payload, at the places their lengths say.          *)
LEMMA SlicesOfPayload ==
  ASSUME NEW S, NEW head \in Seq(S), NEW salt \in Seq(S), NEW sig \in Seq(S), NEW tail \in Seq(S)
  PROVE  LET payload == head \o salt \o sig \o tail IN
         /\ payload \in Seq(S)
         /\ Len(payload) = Len(head) + Len(salt) + Len(sig) + Len(tail)
         /\ Slice(payload, 0, Len(head)) = head
         /\ Slice(payload, Len(head), Len(salt)) = salt
         /\ Slice(payload, Len(head) + Len(salt), Len(sig)) = sig
         /\ Slice(payload, Len(head) + Len(salt) + Len(sig), Len(tail)) = tail
<1> DEFINE payload == head \o salt \o sig \o tail
<1>1. /\ head \o salt \in Seq(S) /\ Len(head \o salt) = Len(head) + Len(salt)
      /\ sig \o tail \in Seq(S) /\ salt \o (sig \o tail) \in Seq(S)
  BY ConcatProperties
<1>2. /\ head \o salt \o sig \in Seq(S)
      /\ Len(head \o salt \o sig) = Len(head) + Len(salt) + Len(sig)
  BY <1>1, ConcatProperties
<1>3. payload \in Seq(S) /\ Len(payload) = Len(head) + Len(salt) + Len(sig) + Len(tail)
  BY <1>2, ConcatProperties
<1>4. payload = (head \o salt) \o (sig \o tail)
  <2> DEFINE front == head \o salt
  <2>1. front \in Seq(S) /\ payload = (front \o sig) \o tail
    BY <1>1
  <2> HIDE DEF front
  <2>2. (front \o sig) \o tail = front \o (sig \o tail)
    BY <2>1, ConcatAssociative
  <2>3. QED
    BY <2>1, <2>2 DEF front
<1>5. payload = head \o (salt \o (sig \o tail))
  <2> DEFINE back == sig \o tail
  <2>1. back \in Seq(S) /\ payload = (head \o salt) \o back
    BY <1>1, <1>4
  <2>a. head \in Seq(S) /\ salt \in Seq(S) /\ back \in Seq(S)
    BY <2>1
  <2> HIDE DEF back
  <2>2. (head \o salt) \o back = head \o (salt \o back)
    BY ONLY <2>a, ConcatAssociative
  <2>3. QED
    BY <2>1, <2>2 DEF back
<1>6. <<>> \in Seq(S) /\ Len(<<>>) = 0
  BY EmptySeq
<1>7. Slice(payload, 0, Len(head)) = head
  <2>1. <<>> \o head = head
    BY ConcatEmptySeq
  <2>2. Slice(<<>> \o head \o (salt \o (sig \o tail)), Len(<<>>), Len(head)) = head
    BY <1>1, <1>6, SliceOfConcat
  <2>3. QED
    BY <1>5, <1>6, <2>1, <2>2
<1>8. Slice(payload, Len(head), Len(salt)) = salt
  <2>1. Slice(head \o salt \o (sig \o tail), Len(head), Len(salt)) = salt
    BY <1>1, SliceOfConcat
  <2>2. QED
    BY <1>4, <2>1
<1>9. Slice(payload, Len(head) + Len(salt), Len(sig)) = sig
  <2>1. Slice(head \o salt \o sig \o tail, Len(head \o salt), Len(sig)) = sig
    BY <1>1, SliceOfConcat
  <2>2. QED
    BY <1>1, <2>1
<1>10. Slice(payload, Len(head) + Len(salt) + Len(sig), Len(tail)) = tail
  <2>1. payload \o <<>> = payload
    BY <1>3, ConcatEmptySeq
  <2>2. Slice(head \o salt \o sig \o tail \o <<>>, Len(head \o salt \o sig), Len(tail)) = tail
    BY <1>2, <1>6, SliceOfConcat
  <2>3. QED
    BY <1>2, <2>1, <2>2
<1>11. QED
  BY <1>3, <1>7, <1>8, <1>9, <1>10
=============================================================================
