--------------------------- MODULE MCPayloadTool ---------------------------
(* Two process slots, three key pairs, two pHashes and three commands.        *)
EXTENDS PayloadTool, TLC

MCSymmetry == Permutations(Keys) \cup Permutations(PHashes) \cup Permutations(Procs)
=============================================================================
