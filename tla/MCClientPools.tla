--------------------------- MODULE MCClientPools ----------------------------
(* A client for TLC: a pool of buffers that starts to reuse after two      *)
(* integers, at most three buffers at a time and an array of a few streams. *)
EXTENDS ClientPools, TLC

CONSTANTS h1, h2, h3, t1, t2

HandleSymmetry == Permutations(Handles)
=============================================================================
