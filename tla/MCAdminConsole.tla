----------------------------- MODULE MCAdminConsole -----------------------------
(* Symmetry of AdminConsole for TLC. *)
EXTENDS AdminConsole, TLC

Symmetry == Permutations(Tabs) \cup Permutations(Calls)
=================================================================================
