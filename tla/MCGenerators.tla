---------------------------- MODULE MCGenerators ----------------------------
(***************************************************************************)
(* A behaviour is the life of one generator, or of one reader of a public  *)
(* key over a context of the public seed expander.                         *)
(*                                                                         *)
(* Bounds.  Public seeds: a refill of 3 blocks of 2 bytes, a counter of 18 *)
(* blocks, every request length from 0 to beyond two refills, and the      *)
(* counter wraps.  Keys: 4 vinegar and 2 oil variables, 2 bytes per        *)
(* coefficient: rows of 8, 6, 4, 2 and then 4 bytes over refills of 6      *)
(* bytes, every zero pattern, and the 36 bytes of a key before the counter *)
(* wraps.  Expanders: blocks of 2 bytes, 4 digits of a bit, where a carry  *)
(* passes three digits, and lengths up to the limit and beyond.  DRBG:     *)
(* counters of 3 bits; a request takes up to 4 blocks and the update 3     *)
(* more, which is one less than there are.                                 *)
(***************************************************************************)
EXTENDS Generators, ExpandPk

(* The requests of the sequences, and those a reader makes for P1 and P2.  *)
MCLens == 0 .. (2 * RNG_OUTPUTLEN + 2) \cup {PK_P1_BYTE, PK_P2_BYTE, PK_P1_BYTE + PK_P2_BYTE}
MCXMaxLens == {0, 1, 5, 15, 16}
MCXLens == 0 .. 16
MCVLens == {0, 1, 2, 3, 8}

NoReader ==
  /\ predicate = [i \in Row |-> FALSE]
  /\ todo = <<>>
  /\ addr = 0
  /\ pk = <<>>

MCInit == (GInit /\ NoReader) \/ (EInit /\ RngOff)

MCNext ==
  \/ pk = <<>> /\ GNext /\ UNCHANGED evars
  \/ pk # <<>> /\ ENext /\ UNCHANGED rng_vars

MCSpec == MCInit /\ [][MCNext]_<<vars, rng_vars, evars>>
=============================================================================
