-------------------------------- MODULE Rect --------------------------------
(***************************************************************************)
(* Rectangles of pixels: guac_common_rect.  A rectangle without width or   *)
(* height is empty.                                                        *)
(***************************************************************************)
EXTENDS Integers

Rect(x, y, w, h) == [x |-> x, y |-> y, width |-> w, height |-> h]

Rects == [x : Int, y : Int, width : Int, height : Int]

Right(r)  == r.x + r.width
Bottom(r) == r.y + r.height

IsEmpty(r) == r.width <= 0 \/ r.height <= 0

PixelsOf(r) == (r.x .. Right(r) - 1) \X (r.y .. Bottom(r) - 1)

Least(a, b)    == IF a < b THEN a ELSE b
Greatest(a, b) == IF a > b THEN a ELSE b

\* The rectangle with these corners.
Between(left, top, right, bottom) ==
  Rect(left, top, right - left, bottom - top)

(* guac_common_rect_extend: the least rectangle around both.               *)
Extend(r, min) ==
  Between(Least(r.x, min.x), Least(r.y, min.y),
          Greatest(Right(r), Right(min)), Greatest(Bottom(r), Bottom(min)))

(* guac_common_rect_constrain: what is in both, perhaps empty.             *)
Constrain(r, max) ==
  Between(Greatest(r.x, max.x), Greatest(r.y, max.y),
          Least(Right(r), Right(max)), Least(Bottom(r), Bottom(max)))

(* One axis of guac_common_rect_expand_to_grid: a span of len at `at`,     *)
(* grown to the next multiple of a cell and moved back into [lo, hi].      *)
GrownSpan(cell, at, len, lo, hi) ==
  LET d     == cell - (len % cell)
      left  == at - d \div 2
      right == left + len + d
  IN CASE right > hi -> <<Greatest(left - (right - hi), lo), hi>>
       [] right <= hi /\ left < lo -> <<lo, Least(right + (lo - left), hi)>>
       [] OTHER -> <<left, right>>

(* guac_common_rect_expand_to_grid                                         *)
ExpandToGrid(cell, r, max) ==
  IF cell <= 1 THEN r
  ELSE LET h == GrownSpan(cell, r.x, r.width, max.x, Right(max))
           v == GrownSpan(cell, r.y, r.height, max.y, Bottom(max))
       IN Between(h[1], v[1], h[2], v[2])
=============================================================================
