-------------------------------- MODULE Xof --------------------------------
(***************************************************************************)
(* What the hash interface promises (utils/utils_hash.h): a context stands *)
(* for the bytes it was given, whatever the pieces they came in, a copy    *)
(* stands for the same bytes and lives on its own, and a digest is a       *)
(* prefix of one stream that those bytes name.                             *)
(***************************************************************************)
EXTENDS Integers, Sequences

CONSTANTS
  RATE,     \* bytes of a block
  Ctxs,     \* contexts
  Parts,    \* what one update may bring: byte sequences
  OutLens,  \* digest lengths
  MaxLen    \* bound on the bytes given to one context (for TLC)

VARIABLES
  msg,      \* the bytes that each context in use stands for
  digest    \* what the last call wrote, if it was a finalization

xvars == <<msg, digest>>

Cell == 0 .. RATE-1

(* What messages and padding put into the cells of a block: sets of bytes. *)
Zero == [i \in Cell |-> {}]
MessageBlock(m, b) == [i \in Cell |-> {m[n] : n \in {b * RATE + i + 1} \cap 1 .. Len(m)}]

(* The last block: the end of the message, a suffix byte behind it, and a  *)
(* bit at the end of the block.                                            *)
LastBlock(m) ==
  LET b == Len(m) \div RATE
  IN  [i \in Cell |-> MessageBlock(m, b)[i]
                        \cup {s \in {"0x1F"} : i = Len(m) % RATE}
                        \cup {s \in {"0x80"} : i = RATE - 1}]

(* Byte k of the stream: all blocks of the message are permuted, and a     *)
(* block of zeros for each block of the stream before it.                  *)
XofByte(m, k) ==
  LET full == Len(m) \div RATE
  IN  [permuted |-> [b \in 1 .. full + 1 + (k \div RATE) |->
                       IF b <= full THEN MessageBlock(m, b - 1)
                       ELSE IF b = full + 1 THEN LastBlock(m) ELSE Zero],
       cell     |-> {},
       at       |-> k % RATE]

NoDigest == [k \in {} |-> XofByte(<<>>, k)]

(* f with value v at c; f without c.                                       *)
With(f, c, v) == [x \in DOMAIN f \cup {c} |-> IF x = c THEN v ELSE f[x]]
Without(f, c) == [x \in DOMAIN f \ {c} |-> f[x]]

XInit == msg = [c \in {} |-> <<>>] /\ digest = NoDigest

XStart(c) ==
  /\ msg' = With(msg, c, <<>>)
  /\ digest' = NoDigest

XUpdate(c, part) ==
  /\ c \in DOMAIN msg
  /\ Len(msg[c]) + Len(part) <= MaxLen
  /\ msg' = With(msg, c, msg[c] \o part)
  /\ digest' = NoDigest

XCopy(c, d) ==
  /\ d \in DOMAIN msg
  /\ msg' = With(msg, c, msg[d])
  /\ digest' = NoDigest

XFinal(c, n) ==
  /\ c \in DOMAIN msg
  /\ msg' = Without(msg, c)
  /\ digest' = [k \in 0 .. n-1 |-> XofByte(msg[c], k)]

XNext ==
  \E c \in Ctxs :
    \/ XStart(c)
    \/ \E part \in Parts : XUpdate(c, part)
    \/ \E d \in Ctxs \ {c} : XCopy(c, d)
    \/ \E n \in OutLens : XFinal(c, n)

XSpec == XInit /\ [][XNext]_xvars
=============================================================================
