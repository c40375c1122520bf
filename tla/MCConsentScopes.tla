---------------------------- MODULE MCConsentScopes ----------------------------
(* Values of the constants of ConsentScopes for TLC. *)
EXTENDS ConsentScopes, TLC

CONSTANTS c1, c2

MCRoleOf == [x \in Roles |-> c1]

Symmetry == Permutations(Tabs) \cup Permutations(Posts)
==============================================================================
