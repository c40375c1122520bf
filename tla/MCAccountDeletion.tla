--------------------------- MODULE MCAccountDeletion ---------------------------
(* Values of the constants of AccountDeletion for TLC. *)
EXTENDS AccountDeletion, TLC

CONSTANTS c1, c2, e1, e2

\* Each endpoint is its own client's.
MCClientOf == [e \in Endpoints |-> IF e = e1 THEN c1 ELSE c2]

MCFirstGrants == [u \in Users |-> Clients]

RequestSymmetry == Permutations(Requests)
==============================================================================
