-------------------------- MODULE MCConnectorRegistry --------------------------
(* Values of the constants of ConnectorRegistry for TLC. *)
EXTENDS ConnectorRegistry, TLC

RequestSymmetry == Permutations(Requests)
==============================================================================
