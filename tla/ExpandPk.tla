------------------------------ MODULE ExpandPk ------------------------------
(***************************************************************************)
(* The readers of a public seed (src/ov_keypair.c).  P1 and P2 of a public *)
(* key are the first _PK_P1_BYTE + _PK_P2_BYTE bytes of the seed's stream, *)
(* and four functions read them in four ways: in one piece (expand_pk,     *)
(* generate_keypair), P1 then P2 (expand_sk, generate_keypair_pkc), or,    *)
(* in a verifier that knows the signature, row by row, skipping the rows   *)
(* that the public map multiplies by zero (expand_pk_predicate).  They all *)
(* must mean the same key.                                                 *)
(*                                                                         *)
(* One run of one reader over a context of PrngPublicInputs, whose         *)
(* variables and operations this module shares.                            *)
(***************************************************************************)
EXTENDS PrngPublicInputs, Sequences

CONSTANTS
  V,        \* _V, vinegar variables
  O,        \* _O, oil variables
  O_BYTE    \* _O_BYTE, bytes of one coefficient of the o equations

ASSUME ExpandAssumption == V \in Nat \ {0} /\ O \in Nat \ {0} /\ O_BYTE \in Nat \ {0}

VARIABLES
  predicate,  \* the vinegar values of the signature: is x_i nonzero?
  todo,       \* requests still to be made to the generator
  addr,       \* p1p2 - rpk->pk, where the next request writes
  pk          \* rpk->pk: P1 || P2

evars == <<predicate, todo, addr, pk>>

Row == 0 .. V-1

(* Mutant: the strict upper triangle.                                      *)
P1RowStrict(i) == O_BYTE * (V - i - 1)

(* Bytes of row i of P1 (the monomials x_i x_j, j >= i) and of P2 (the     *)
(* monomials x_i o_j).                                                     *)
P1Row(i) == O_BYTE * (V - i)
P2Row == O_BYTE * O

PK_P1_BYTE == (O_BYTE * V * (V + 1)) \div 2
PK_P2_BYTE == O_BYTE * V * O

(* Address of row i.                                                       *)
P1At(i) == O_BYTE * (i * V - (i * (i - 1)) \div 2)
P2At(i) == PK_P1_BYTE + i * P2Row

Request(gen, len) == [gen |-> gen, len |-> len]

(* expand_pk, and generate_keypair's expansion of P1 and P2.               *)
expand_pk == << Request(TRUE, PK_P1_BYTE + PK_P2_BYTE) >>

(* expand_sk, and generate_keypair_pkc's.                                  *)
expand_sk == << Request(TRUE, PK_P1_BYTE), Request(TRUE, PK_P2_BYTE) >>

expand_pk_predicate(pred) ==
     [k \in 1..V |-> Request(pred[k-1], P1Row(k-1))]
  \o [k \in 1..V |-> Request(pred[k-1], P2Row)]

EInit ==
  /\ Init
  /\ predicate \in [Row -> BOOLEAN]
  /\ todo \in {expand_pk, expand_sk, expand_pk_predicate(predicate)}
  /\ addr = 0
  /\ pk = [a \in 0 .. PK_P1_BYTE + PK_P2_BYTE - 1 |-> Uninit]

(* prng_gen_publicinputs(&prng, p1p2, len); p1p2 += len                    *)
GenRow ==
  /\ todo # <<>>
  /\ Head(todo).gen
  /\ Gen(Head(todo).len)
  /\ pk' = [a \in DOMAIN pk |-> IF a \in addr .. addr + Head(todo).len - 1
                                THEN out'[pos + (a - addr)] ELSE pk[a]]

(* Mutant: the generator is not moved over a skipped row.                  *)
SkipRowInPlace ==
  /\ todo # <<>>
  /\ ~Head(todo).gen
  /\ UNCHANGED <<vars, pk>>

(* prng_skip_publicinputs(&prng, len); p1p2 += len                         *)
SkipRow ==
  /\ todo # <<>>
  /\ ~Head(todo).gen
  /\ Skip(Head(todo).len)
  /\ UNCHANGED pk

ENext ==
  /\ GenRow \/ SkipRow
  /\ todo' = Tail(todo)
  /\ addr' = addr + Head(todo).len
  /\ UNCHANGED predicate

ESpec == EInit /\ [][ENext]_<<vars, evars>>

-----------------------------------------------------------------------------
(* However a reader cuts the stream, and whatever it skips, a byte of the  *)
(* key that it writes is the byte every other reader writes there: the     *)
(* signer, the key generator and the verifier have the same P1 and P2.     *)
SameKey == \A a \in DOMAIN pk : pk[a] \in {Uninit, aes128ctr_publicinputs(0, a)}

(* A finished reader has written every row that the public map evaluates   *)
(* with a nonzero x_i; only rows multiplied by zero stay uninitialized.    *)
NeededRowsWritten ==
  todo = <<>> =>
    \A i \in Row : predicate[i] =>
      /\ \A a \in P1At(i) .. P1At(i) + P1Row(i) - 1 : pk[a] # Uninit
      /\ \A a \in P2At(i) .. P2At(i) + P2Row - 1 : pk[a] # Uninit
=============================================================================
