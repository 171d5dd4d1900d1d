---------------------------- MODULE MCBroadcast -----------------------------
(* Instances of Broadcast for TLC. *)
EXTENDS Broadcast

CONSTANTS u1, u2, session, channel
=============================================================================
