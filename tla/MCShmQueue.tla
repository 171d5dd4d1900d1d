----------------------------- MODULE MCShmQueue -----------------------------
(* Instances of ShmQueue for TLC: the two channels the service opens, with *)
(* their queue and packet sizes scaled down.                               *)
EXTENDS ShmQueue

CONSTANTS w1, w2
=============================================================================
