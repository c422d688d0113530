------------------------------ MODULE Backends ------------------------------
(***************************************************************************)
(* The arithmetic under pqov in all the backends a build can select:       *)
(* elements of the fields, vectors, products of a matrix and a vector,     *)
(* linear systems, the batched products and the public map over them, and  *)
(* the ciphers of the seed expander.  The parts share no state: a          *)
(* behaviour is one call of one function of one part, the other parts stay *)
(* idle.                                                                   *)
(***************************************************************************)
EXTENDS VectorOps, MatrixProducts, FieldArith, LinearSolvers, AesCiphers, BatchProducts, BucketMap

vars == <<vec_vars, mat_vars, field_vars, sol_vars, aes_vars, batch_vars, map_vars>>

Init ==
  \/ VecInit /\ MatIdle /\ FieldIdle /\ SolIdle /\ AesIdle /\ BatchIdle /\ MapIdle
  \/ VecIdle /\ MatInit /\ FieldIdle /\ SolIdle /\ AesIdle /\ BatchIdle /\ MapIdle
  \/ VecIdle /\ MatIdle /\ FieldInit /\ SolIdle /\ AesIdle /\ BatchIdle /\ MapIdle
  \/ VecIdle /\ MatIdle /\ FieldIdle /\ SolInit /\ AesIdle /\ BatchIdle /\ MapIdle
  \/ VecIdle /\ MatIdle /\ FieldIdle /\ SolIdle /\ AesInit /\ BatchIdle /\ MapIdle
  \/ VecIdle /\ MatIdle /\ FieldIdle /\ SolIdle /\ AesIdle /\ BatchInit /\ MapIdle
  \/ VecIdle /\ MatIdle /\ FieldIdle /\ SolIdle /\ AesIdle /\ BatchIdle /\ MapInit

Next ==
  \/ VecStep /\ UNCHANGED <<mat_vars, field_vars, sol_vars, aes_vars, batch_vars, map_vars>>
  \/ MatStep /\ UNCHANGED <<vec_vars, field_vars, sol_vars, aes_vars, batch_vars, map_vars>>
  \/ FieldStep /\ UNCHANGED <<vec_vars, mat_vars, sol_vars, aes_vars, batch_vars, map_vars>>
  \/ SolStep /\ UNCHANGED <<vec_vars, mat_vars, field_vars, aes_vars, batch_vars, map_vars>>
  \/ AesStep /\ UNCHANGED <<vec_vars, mat_vars, field_vars, sol_vars, batch_vars, map_vars>>
  \/ BatchStep /\ UNCHANGED <<vec_vars, mat_vars, field_vars, sol_vars, aes_vars, map_vars>>
  \/ MapStep /\ UNCHANGED <<vec_vars, mat_vars, field_vars, sol_vars, aes_vars, batch_vars>>

Spec == Init /\ [][Next]_vars
=============================================================================
