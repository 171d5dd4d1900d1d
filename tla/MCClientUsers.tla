--------------------------- MODULE MCClientUsers ----------------------------
(* Instances of ClientUsers for TLC. *)
EXTENDS ClientUsers

CONSTANTS u1, u2, u3, i1
=============================================================================
