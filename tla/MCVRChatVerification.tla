------------------------- MODULE MCVRChatVerification -------------------------
(* VRChatVerification for TLC; the configurations give the constants their values. *)
EXTENDS VRChatVerification
==============================================================================
