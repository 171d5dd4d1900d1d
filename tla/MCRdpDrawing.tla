---------------------------- MODULE MCRdpDrawing ----------------------------
(* An instance of RdpDrawing for TLC. *)
EXTENDS RdpDrawing, TLC

CONSTANTS b1, b2

Alike == Permutations(Bitmaps)

Left == [p \in 0 .. Width - 1 |-> IF p = 0 THEN 1 ELSE 0]
White == [p \in 0 .. Width - 1 |-> 1]
Pictures == {Left, White}

\* Once outside, the pictures of bitmaps differ: see README.md.
WithinBounds == ~outside
=============================================================================
