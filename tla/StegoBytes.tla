----------------------------- MODULE StegoBytes -----------------------------
(***************************************************************************)
(* The bytes of a stego payload, for both backends of the unified API.  A  *)
(* byte of data is a small number; a byte of a key or of a signature is    *)
(* named by what it is a byte of.  Noise is a byte that came from nowhere: *)
(* a damaged one, or one read past the end of a buffer.                    *)
(***************************************************************************)
EXTENDS Integers, Sequences, FiniteSets

CONSTANTS
  NoKey,     \* a NULL key
  Data,      \* values of a pHash or salt byte
  Faults     \* what the covert channel may do: "cut", "pad", "flip"

Byte(kind, key, data, at) == [kind |-> kind, key |-> key, data |-> data, at |-> at]
DataByte(x) == Byte("data", NoKey, <<x>>, 0)
DataBytes == {DataByte(x) : x \in Data}
Noise == Byte("noise", NoKey, <<>>, 0)

(* n bytes at offset at of a payload.                                      *)
Slice(payload, at, n) ==
  [i \in 1 .. n |-> IF at + i <= Len(payload) THEN payload[at + i] ELSE Noise]

(* A payload after one fault of the channel: cut short, followed by up to  *)
(* pad bytes of something else, or with one byte changed.                  *)
Cuts(payload) == {SubSeq(payload, 1, n) : n \in 0 .. Len(payload) - 1}
Pads(payload, pad) == {payload \o [i \in 1 .. n |-> Noise] : n \in 1 .. pad}
Spoil(payload, i, b) == [payload EXCEPT ![i] = b]
Flips(payload) ==
  {Spoil(payload, i, b) : i \in DOMAIN payload, b \in DataBytes \cup {Noise}}

Damaged(payload, pad) ==
  {w \in Cuts(payload) : "cut" \in Faults}
    \cup {w \in Pads(payload, pad) : "pad" \in Faults}
    \cup {w \in Flips(payload) : "flip" \in Faults}
=============================================================================
