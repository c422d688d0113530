----------------------------- MODULE Generators -----------------------------
(***************************************************************************)
(* The generators built on AES in counter mode: the public seed expander   *)
(* of the library and the two of the known-answer program.  They share no  *)
(* state: a behaviour is the life of one of them.                          *)
(***************************************************************************)
EXTENDS PrngPublicInputs, NistRng

GInit == Init /\ (RngOff \/ RngInit)

GNext ==
  \/ rng = "off" /\ Next /\ UNCHANGED rng_vars
  \/ RngNext /\ UNCHANGED vars

GSpec == GInit /\ [][GNext]_<<vars, rng_vars>>
=============================================================================
