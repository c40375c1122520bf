---------------------------- MODULE MCAccountPortal ----------------------------
(* Values of the constants of AccountPortal for TLC. *)
EXTENDS AccountPortal, TLC

CONSTANTS a1, i1, g1, h1

MCOldLink == [i \in {i1} |-> [provider |-> g1, person |-> h1, user |-> a1]]

Symmetry == Permutations(Requests)
==============================================================================
