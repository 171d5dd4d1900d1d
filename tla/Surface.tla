------------------------------ MODULE Surface -------------------------------
(***************************************************************************)
(* What guac_common_surface does with its updates: the dirty rectangle,    *)
(* the queue of rectangles that wait, and the flush that joins them and    *)
(* sends the picture of each.  A surface is a record; of its picture the   *)
(* model has which pixels are not opaque.                                  *)
(***************************************************************************)
EXTENDS Rect, Sequences

CONSTANTS
  QueueSize,           \* GUAC_COMMON_SURFACE_QUEUE_SIZE
  NegligibleWidth,     \* GUAC_SURFACE_NEGLIGIBLE_WIDTH
  NegligibleHeight,    \* GUAC_SURFACE_NEGLIGIBLE_HEIGHT
  DataFactor,          \* GUAC_SURFACE_DATA_FACTOR
  BaseCost,            \* GUAC_SURFACE_BASE_COST
  NegligibleIncrease,  \* GUAC_SURFACE_NEGLIGIBLE_INCREASE
  FillFactor,          \* GUAC_SURFACE_FILL_PATTERN_FACTOR
  BlockSize,           \* GUAC_SURFACE_JPEG_BLOCK_SIZE, ..._WEBP_BLOCK_SIZE
  JpegMinSize,         \* GUAC_SURFACE_JPEG_MIN_BITMAP_SIZE
  SupportsWebp         \* guac_client_supports_webp

\* No rectangle: a surface that is not dirty, or not clipped.
None == Rect(0, 0, 0, 0)

(* guac_common_surface_alloc: a transparent picture.                       *)
NewSurface(w, h, isLayer) ==
  [ width |-> w, height |-> h, clear |-> PixelsOf(Rect(0, 0, w, h)),
    dirty |-> None, queue |-> <<>>, clip |-> None, clipped |-> FALSE,
    realized |-> isLayer ]

Bounds(s) == Rect(0, 0, s.width, s.height)

BoundRect(s, r) == Constrain(r, Bounds(s))

ClipRect(s, r) == IF s.clipped THEN Constrain(r, s.clip) ELSE BoundRect(s, r)

IsOpaque(s, r) == PixelsOf(r) \cap s.clear = {}

Area(r) == r.width * r.height

(* __guac_common_should_combine: whether one update around the dirty       *)
(* rectangle and r is expected to cost less than two.                      *)
ShouldCombine(dirty, r, rectOnly) ==
  LET combined == Extend(dirty, r)
      all      == BaseCost + Area(combined)
      old      == BaseCost + Area(dirty)
      new      == (BaseCost + Area(r)) \div (IF rectOnly THEN DataFactor ELSE 1)
  IN /\ dirty # None
     /\ \/ combined.width <= NegligibleWidth /\ combined.height <= NegligibleHeight
        \/ all <= new + old
        \/ all - old <= old \div NegligibleIncrease
        \/ all - new <= new \div NegligibleIncrease
        \/ /\ r.x = dirty.x /\ r.y = Bottom(dirty)
           /\ all <= (old + new) * FillFactor

(* __guac_common_mark_dirty                                                *)
MarkDirty(dirty, r) ==
  IF IsEmpty(r) THEN dirty ELSE IF dirty = None THEN r ELSE Extend(dirty, r)

-----------------------------------------------------------------------------
(* A flush goes through the queue with the dirty rectangle at its end.     *)

\* __guac_common_surface_flush_to_queue, also used during a flush, where the
\* entries of the queue say whether they were flushed.
FlushToQueue(s) ==
  IF s.dirty = None THEN s
  ELSE [s EXCEPT !.queue = Append(@, s.dirty), !.dirty = None]

(* __guac_common_surface_bitmap_rect_compare                               *)
Before(a, b) ==
  \/ a.y < b.y
  \/ a.y = b.y /\ a.x < b.x
  \/ a.y = b.y /\ a.x = b.x /\ a.width > b.width
  \/ a.y = b.y /\ a.x = b.x /\ a.width = b.width /\ a.height < b.height

\* The queue in that order.
Sorted(queue) ==
  LET places == 1 .. Len(queue)
      order  == CHOOSE p \in [places -> places] :
        /\ {p[i] : i \in places} = places
        /\ \A i, j \in places : i < j =>
             queue[p[i]] = queue[p[j]] \/ Before(queue[p[i]], queue[p[j]])
  IN [i \in places |-> queue[order[i]]]

\* The rectangles from the i-th on that are combined into one update.  f has
\* the queue, the entries that were flushed and the dirty rectangle.
Gather(s, f, i) ==
  LET Visit[j \in i - 1 .. Len(f.queue)] ==
        IF j = i - 1 THEN [f EXCEPT !.combined = 0]
        ELSE LET g == Visit[j - 1]
                 r == BoundRect(s, g.queue[j])
             IN IF j \in g.done THEN g
                ELSE IF IsEmpty(r) THEN [g EXCEPT !.queue[j] = r, !.done = @ \union {j}]
                ELSE IF ShouldCombine(g.dirty, r, FALSE) \/ g.dirty = None
                THEN [g EXCEPT !.queue[j] = r, !.done = @ \union {j},
                               !.dirty = MarkDirty(@, r), !.combined = @ + 1]
                ELSE [g EXCEPT !.queue[j] = r]
  IN Visit[Len(f.queue)]

\* The bitmap of a rectangle.  Whether its part of the surface changes often
\* and is a photograph rather than a drawing is `lossy`.
Bitmap(s, r, lossy) ==
  CASE lossy /\ SupportsWebp ->
         [rect |-> ExpandToGrid(BlockSize, r, Bounds(s)),
          format |-> IF IsOpaque(s, r) THEN "opaque" ELSE "over"]
    [] lossy /\ ~SupportsWebp /\ IsOpaque(s, r) /\ Area(r) > JpegMinSize ->
         [rect |-> ExpandToGrid(BlockSize, r, Bounds(s)), format |-> "opaque"]
    [] OTHER ->
         [rect |-> r, format |-> IF IsOpaque(s, r) THEN "opaque" ELSE "exact"]

(* __guac_common_surface_flush: the bitmaps that are sent for a surface.   *)
Bitmaps(s, lossy) ==
  LET queue    == Sorted(FlushToQueue(s).queue)
      original == Len(queue)
      Pass[i \in 0 .. QueueSize] ==
        IF i = 0
        THEN [queue |-> queue, done |-> {}, dirty |-> None, combined |-> 0, sent |-> <<>>]
        ELSE LET f == Pass[i - 1]
                 g == Gather(s, f, i)
             IN IF i > Len(f.queue) \/ i \in f.done THEN f
                ELSE IF /\ g.combined > 1 \/ i <= original
                        /\ Len(g.queue) < QueueSize
                THEN FlushToQueue(g)
                ELSE IF g.dirty = None THEN g
                ELSE [g EXCEPT !.sent = Append(@, Bitmap(s, g.dirty, lossy)), !.dirty = None]
  IN Pass[QueueSize].sent

\* The surface after these bitmaps were sent.
Flushed(s, sent) ==
  [s EXCEPT !.queue = <<>>, !.dirty = None, !.realized = @ \/ sent # <<>>]

\* The pixels of which a user has the wrong colour, `wrong`, after a bitmap.
\* An opaque format has no transparent pixels; a format that is composed over
\* what is there does not remove it, "exact" does so before.
Corrected(s, wrong, bitmap) ==
  LET P == PixelsOf(bitmap.rect)
  IN (wrong \ P) \union CASE bitmap.format = "exact"  -> {}
                          [] bitmap.format = "over"   -> wrong \cap P \cap s.clear
                          [] bitmap.format = "opaque" -> P \cap s.clear

AfterFlush(s, wrong, sent) ==
  LET After[i \in 0 .. Len(sent)] ==
        IF i = 0 THEN wrong ELSE Corrected(s, After[i - 1], sent[i])
  IN After[Len(sent)]

(* __guac_common_surface_flush_deferred: a full queue is flushed first.    *)
MutantNeverFull(s) == Len(s.queue) = QueueSize
IsFull(s) == Len(s.queue) = QueueSize - 1

\* The pixels of some bitmaps, and those that an update waits for.
PixelsOfAll(sent) == UNION {PixelsOf(sent[i].rect) : i \in 1 .. Len(sent)}

Waiting(s) ==
  PixelsOf(s.dirty) \union UNION {PixelsOf(s.queue[i]) : i \in 1 .. Len(s.queue)}
=============================================================================
