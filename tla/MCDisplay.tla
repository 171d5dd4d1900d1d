----------------------------- MODULE MCDisplay ------------------------------
(* A display for TLC. *)
EXTENDS Display

TwoSizes == [s \in Surfaces |-> IF s = Default THEN <<3, 1>> ELSE <<1, 1>>]
NewSizes == {<<3, 1>>, <<2, 1>>}
Move(r, dx, op) == [rect |-> r, dx |-> dx, dy |-> 0, op |-> op]
SomeMoves == {Move(Rect(0, 0, 2, 1), 1, "src"),
              Move(Rect(0, 0, 1, 1), 0, "and")}
SomeSpots == {<<0, 0>>, <<2, 0>>}
SomeClips == {Rect(2, -1, 5, 2)}
SomeRequests == {Rect(-1, 0, 5, 2)}

\* What is explored: displays without a surface blackened by a resize and
\* users that missed nothing; clips and another size only where there is
\* neither a buffer nor a user that joins; and no buffer once it has joined.
Explored ==
  /\ blackened = {} /\ ~missed
  /\ surface[Default].clipped \/ surface[Default].width # 3 =>
       exists = {Default} /\ joining = "away"
  /\ joining = "listed" => exists = {Default}
=============================================================================
