------------------------------ MODULE MCSdkSession ------------------------------
(* Values of the constants of SdkSession for TLC. *)
EXTENDS SdkSession, TLC

SessionSymmetry == Permutations(Requests) \cup Permutations(Accounts)
==============================================================================
