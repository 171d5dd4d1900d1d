----------------------------- MODULE MCSessions -----------------------------
(* Instances of Sessions for TLC: two connections, so that one can come or  *)
(* leave at any point of the other's life.                                  *)
EXTENDS Sessions

CONSTANTS c1, c2, h1
=============================================================================
