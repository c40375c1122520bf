---------------------------- MODULE MCOidcSessions ----------------------------
(* Values of the constants of OidcSessions for TLC. *)
EXTENDS OidcSessions, TLC

CONSTANTS u1, u2, g1, g2

MCOwner == [g \in OldGrants |-> IF g = g1 THEN u1 ELSE u2]

RequestSymmetry == Permutations(Requests)
==============================================================================
