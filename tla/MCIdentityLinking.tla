--------------------------- MODULE MCIdentityLinking ---------------------------
(* Values of the constants of IdentityLinking for TLC. *)
EXTENDS IdentityLinking, TLC

RequestSymmetry == Permutations(Requests)
==============================================================================
