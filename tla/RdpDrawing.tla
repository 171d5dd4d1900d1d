----------------------------- MODULE RdpDrawing -----------------------------
(***************************************************************************)
(* How the RDP plugin draws: orders of the server (rdp_gdi.c, rdp_glyph.c) *)
(* and its bitmaps (rdp_bitmap.c) become operations on the surfaces of the *)
(* display.  A bitmap has the data it came with, and a buffer once it is   *)
(* used again, or drawn on: the picture of the server has to be found in   *)
(* whichever of the two is used.                                           *)
(*                                                                         *)
(* Surfaces are one row of pixels, a colour is one bit of every component. *)
(* When and how they are sent to users, and which are opaque, is Display.  *)
(***************************************************************************)
EXTENDS Integers, FiniteSets

CONSTANTS
  Width,   \* of every surface
  Bitmaps, \* the bitmaps that the server can have at a time
  Screen,  \* display->default_surface
  None,    \* no data, no buffer
  Images   \* bound: what bitmaps come with, the colours of their pixels

ASSUME DrawingAssumption ==
  /\ Width \in Nat \ {0} /\ IsFiniteSet(Bitmaps) /\ Screen \notin Bitmaps
  /\ Images \subseteq [0 .. Width - 1 -> {0, 1}]
  /\ None \notin [0 .. Width - 1 -> {0, 1}] /\ None \notin {0, 1}

VARIABLES
  bitmaps, \* the bitmaps there are
  data,    \* bitmap->data: the colours of its pixels, or None
  used,    \* the bitmaps whose "used" is not zero
  surface, \* the colours of the screen and of the layers of bitmaps, or None
  buffers, \* the number of buffers that the display has
  current, \* current_surface
  clip,    \* the pixels of the clipping rectangle of the screen
  \* history
  bounds,  \* the pixels within the bounds that the server has given
  picture, \* the colours of every surface as the server has them
  outside  \* an order was drawn outside of its bounds on a bitmap

vars == <<bitmaps, data, used, surface, buffers, current, clip, bounds, picture, outside>>

Pos == 0 .. Width - 1
Colour == {0, 1}
Surfaces == Bitmaps \union {Screen}

Clear == [p \in Pos |-> 0]

Init ==
  /\ bitmaps = {} /\ used = {}
  /\ data = [b \in Bitmaps |-> None]
  /\ surface = [s \in Surfaces |-> IF s = Screen THEN Clear ELSE None]
  /\ buffers = 0
  /\ current = Screen
  /\ clip = Pos /\ bounds = Pos
  /\ picture = [s \in Surfaces |-> Clear]
  /\ outside = FALSE

-----------------------------------------------------------------------------
(* Operations of guac_common_surface on a map of surfaces.                 *)

\* The pixels of s, from x on, that an operation changes.
Clipped(s, x, w) == {p \in x .. x + w - 1 : p \in (IF s = Screen THEN clip ELSE Pos)}

Change(surfaces, s, pixels, new(_)) ==
  [surfaces EXCEPT ![s] = [p \in Pos |-> IF p \in pixels THEN new(p) ELSE @[p]]]

(* guac_common_surface_set                                                 *)
SetColour(s, x, w, c) == Change(surface, s, Clipped(s, x, w), LAMBDA p : c)

\* guac_common_surface_draw, of an image that begins with pixel sx of img.
DrawImage(s, x, w, img, sx) ==
  Change(surface, s, Clipped(s, x, w), LAMBDA p : img[p - x + sx])

Bit(op, s, d) ==
  CASE op = "SRC"       -> s
    [] op = "NSRC"      -> 1 - s
    [] op = "NDEST"     -> 1 - d
    [] op = "AND"       -> d * s
    [] op = "NAND"      -> 1 - (d * s)
    [] op = "OR"        -> 1 - ((1 - d) * (1 - s))
    [] op = "NOR"       -> (1 - d) * (1 - s)
    [] op = "XOR"       -> (d + s) % 2
    [] op = "XNOR"      -> (1 + d + s) % 2
    [] op = "NSRC_AND"  -> d * (1 - s)
    [] op = "NSRC_NAND" -> 1 - (d * (1 - s))
    [] op = "NSRC_OR"   -> 1 - ((1 - d) * s)
    [] op = "NSRC_NOR"  -> (1 - d) * s

\* guac_common_surface_transfer and, with SRC, guac_common_surface_copy: the
\* part of the source that is there, from its pixel sx on.
TransferTo(surfaces, s, x, w, op, src, sx) ==
  Change(surfaces, s, {p \in Clipped(s, x, w) : p - x + sx \in Pos},
         LAMBDA p : Bit(op, surfaces[src][p - x + sx], surfaces[s][p]))

-----------------------------------------------------------------------------
\* What the server draws in its picture of the current surface.
Served(x, w, new(_)) ==
  /\ picture' = Change(picture, current, (x .. x + w - 1) \intersect bounds, new)
  /\ outside' = \/ outside
                \/ current # Screen /\ ~((x .. x + w - 1) \intersect Pos \subseteq bounds)

\* The buffer has no picture yet.
MutantNoPicture(b) == Clear
\* guac_rdp_cache_bitmap: the picture of the buffer of b.
Cached(b) == IF data[b] = None THEN Clear ELSE data[b]

WithBuffer(b) == [surface EXCEPT ![b] = Cached(b)]

\* A buffer of b, if it has one, is not given back.
MutantKeepsBuffer(b) == buffers
BuffersWithout(b) == IF surface[b] # None THEN buffers - 1 ELSE buffers

(* A bitmap comes with data, or as a surface to draw on; what had its      *)
(* place is freed, and FreeRDP sets the surface again if it was current.   *)
NewBitmap(b, img) ==
  /\ img = None \/ current # b
  /\ bitmaps' = bitmaps \union {b}
  /\ data' = [data EXCEPT ![b] = img]
  /\ used' = used \ {b}
  /\ surface' = [surface EXCEPT ![b] = IF current = b THEN Clear ELSE None]
  /\ buffers' = BuffersWithout(b) + (IF current = b THEN 1 ELSE 0)
  /\ picture' = [picture EXCEPT ![b] = IF img = None THEN Clear ELSE img]
  /\ UNCHANGED <<current, clip, bounds, outside>>

(* guac_rdp_bitmap_free; the server does not delete what it draws on.      *)
FreeBitmap(b) ==
  /\ b \in bitmaps /\ current # b
  /\ bitmaps' = bitmaps \ {b}
  /\ data' = [data EXCEPT ![b] = None]
  /\ surface' = [surface EXCEPT ![b] = None]
  /\ buffers' = BuffersWithout(b)
  /\ picture' = [picture EXCEPT ![b] = Clear]
  /\ UNCHANGED <<used, current, clip, bounds, outside>>

(* guac_rdp_bitmap_setsurface                                              *)
SetSurface(s) ==
  /\ s = Screen \/ s \in bitmaps
  /\ current' = s
  /\ IF surface[s] = None
     THEN surface' = WithBuffer(s) /\ buffers' = buffers + 1
     ELSE UNCHANGED <<surface, buffers>>
  /\ UNCHANGED <<bitmaps, data, used, clip, bounds, picture, outside>>

\* b has a picture: it came with one, or was drawn on.
Usable(b) == b \in bitmaps /\ (data[b] # None \/ surface[b] # None)

(* guac_rdp_bitmap_paint, on the screen: buffer was read before the bitmap *)
(* is cached, so this paint uses the data.                                 *)
Paint(b, x, w) ==
  /\ Usable(b) /\ bounds = Pos
  /\ LET caches == surface[b] = None /\ b \in used
         drawn  == IF surface[b] = None THEN DrawImage(Screen, x, w, data[b], 0)
                   ELSE TransferTo(surface, Screen, x, w, "SRC", b, 0)
     IN  /\ surface' = IF caches THEN [drawn EXCEPT ![b] = Cached(b)] ELSE drawn
         /\ buffers' = IF caches THEN buffers + 1 ELSE buffers
  /\ used' = used \union {b}
  /\ picture' = Change(picture, Screen, x .. x + w - 1, LAMBDA p : picture[b][p - x])
  /\ UNCHANGED <<bitmaps, data, current, clip, bounds, outside>>

-----------------------------------------------------------------------------
(* Raster operations are 16 codes, the low four bits of a ROP3 code, each  *)
(* the table of what it makes of source and destination.                   *)
Rops == 0 .. 15
Rop(rop, s, d) ==
  LET weight == (IF s = 1 THEN 4 ELSE 1) * (IF d = 1 THEN 2 ELSE 1)
  IN  (rop \div weight) % 2

\* guac_rdp_rop3_transfer_function.  NDEST_AND and NDEST_OR are other names
\* of NSRC_NOR and NSRC_NAND.
TransferFunction(rop) ==
  CASE rop = 1  -> "NOR"      [] rop = 2  -> "NSRC_AND"
    [] rop = 3  -> "NSRC"     [] rop = 4  -> "NSRC_NOR"
    [] rop = 5  -> "NDEST"    [] rop = 6  -> "XOR"
    [] rop = 7  -> "NAND"     [] rop = 8  -> "AND"
    [] rop = 9  -> "XNOR"     [] rop = 11 -> "NSRC_OR"
    [] rop = 13 -> "NSRC_NAND" [] rop = 14 -> "OR"
    [] OTHER    -> "SRC"

(* guac_rdp_gdi_dstblt, of the four codes that have no source.             *)
DstBlt(x, w, rop) ==
  /\ surface' =
       CASE rop = 0  -> SetColour(current, x, w, 0)
         [] rop = 5  -> TransferTo(surface, current, x, w, "NDEST", current, x)
         [] rop = 10 -> surface
         [] rop = 15 -> SetColour(current, x, w, 1)
  /\ Served(x, w, LAMBDA p : Rop(rop, 0, picture[current][p]))
  /\ UNCHANGED <<bitmaps, data, used, buffers, current, clip, bounds>>

(* guac_rdp_gdi_scrblt, of a copy.                                         *)
ScrBlt(x, w, sx) ==
  /\ surface' = TransferTo(surface, current, x, w, "SRC", Screen, sx)
  /\ Served(x, w, LAMBDA p : picture[Screen][p - x + sx])
  /\ UNCHANGED <<bitmaps, data, used, buffers, current, clip, bounds>>

(* guac_rdp_gdi_memblt                                                     *)
MemBlt(b, x, w, rop, sx) ==
  /\ Usable(b)
  /\ LET caches == surface[b] = None /\ (b \in used \/ rop # 12)
         with   == IF caches THEN WithBuffer(b) ELSE surface
     IN  CASE rop \in {0, 15} -> /\ surface' = SetColour(current, x, w, IF rop = 0 THEN 0 ELSE 1)
                                 /\ UNCHANGED <<used, buffers>>
           [] rop = 10 -> UNCHANGED <<surface, used, buffers>>
           [] OTHER ->
                /\ surface' =
                     IF with[b] = None THEN DrawImage(current, x, w, data[b], sx)
                     ELSE TransferTo(with, current, x, w, TransferFunction(rop), b, sx)
                /\ used' = used \union {b}
                /\ buffers' = IF caches THEN buffers + 1 ELSE buffers
  /\ Served(x, w, LAMBDA p : Rop(rop, picture[b][p - x + sx], picture[current][p]))
  /\ UNCHANGED <<bitmaps, data, current, clip, bounds>>

(* guac_rdp_gdi_opaquerect                                                 *)
OpaqueRect(x, w, c) ==
  /\ surface' = SetColour(current, x, w, c)
  /\ Served(x, w, LAMBDA p : c)
  /\ UNCHANGED <<bitmaps, data, used, buffers, current, clip, bounds>>

(* guac_rdp_glyph_begindraw, of a background that is drawn or not, and     *)
(* guac_rdp_glyph_draw of a glyph with some of w pixels.                   *)
Glyph(x, w, mask, c, background) ==
  LET back == IF background = None THEN surface ELSE SetColour(current, x, w, background)
      ink  == {x + p : p \in mask}
  IN  /\ surface' = Change(back, current, Clipped(current, x, w) \intersect ink,
                           LAMBDA p : c)
      /\ Served(x, w, LAMBDA p : IF p \in ink THEN c
                                 ELSE IF background # None THEN background
                                 ELSE picture[current][p])
      /\ UNCHANGED <<bitmaps, data, used, buffers, current, clip, bounds>>

(* guac_rdp_gdi_set_bounds, called before and after an order that has      *)
(* bounds: guac_common_surface_clip narrows the rectangle it has.          *)
SetBounds(l, r) ==
  /\ bounds = Pos
  /\ bounds' = l .. r
  /\ clip' = clip \intersect (l .. r)
  /\ UNCHANGED <<bitmaps, data, used, surface, buffers, current, picture, outside>>

ResetBounds ==
  /\ bounds # Pos
  /\ bounds' = Pos
  /\ clip' = Pos
  /\ UNCHANGED <<bitmaps, data, used, surface, buffers, current, picture, outside>>

-----------------------------------------------------------------------------
\* Rectangles of orders reach over the edges, what they read does not.
Xs == -1 .. Width - 1

Next ==
  \/ \E b \in Bitmaps :
       \/ \E img \in Images \union {None} : NewBitmap(b, img)
       \/ FreeBitmap(b)
       \/ \E x \in Xs, w \in 1 .. Width : Paint(b, x, w)
       \/ \E x \in Xs, sx \in Pos : \E w \in 1 .. Width - sx :
            \E rop \in Rops : MemBlt(b, x, w, rop, sx)
  \/ \E s \in Surfaces : SetSurface(s)
  \/ \E x \in Xs, w \in 1 .. Width :
       \/ \E rop \in {0, 5, 10, 15} : DstBlt(x, w, rop)
       \/ \E sx \in 0 .. Width - w : ScrBlt(x, w, sx)
       \/ \E c \in Colour : OpaqueRect(x, w, c)
       \/ \E mask \in SUBSET (0 .. w - 1), c \in Colour, back \in Colour \union {None} :
            Glyph(x, w, mask, c, back)
  \/ \E l \in Pos : \E r \in l .. Width - 1 : SetBounds(l, r)
  \/ ResetBounds

Spec == Init /\ [][Next]_vars

-----------------------------------------------------------------------------
\* The types of the variables.
TypeOK ==
  /\ bitmaps \subseteq Bitmaps /\ used \subseteq Bitmaps
  /\ \A b \in Bitmaps : data[b] = None \/ data[b] \in [Pos -> Colour]
  /\ \A s \in Surfaces : surface[s] = None \/ surface[s] \in [Pos -> Colour]
  /\ current \in Surfaces /\ clip \subseteq Pos /\ bounds \subseteq Pos
  /\ picture \in [Surfaces -> [Pos -> Colour]] /\ outside \in BOOLEAN

\* The picture that the next order uses of s: that of its surface, or the
\* data if it was never cached.
Seen(s) == IF surface[s] # None THEN surface[s] ELSE data[s]

\* The screen, and every bitmap the server can use, look as the server has
\* them, whatever raster operations, bounds and reuse of a bitmap came
\* before: neither the data nor the buffer is stale when it is used.
Faithful == ~outside =>
  /\ Seen(Screen) = picture[Screen]
  /\ \A b \in bitmaps : Usable(b) => Seen(b) = picture[b]

\* Orders are drawn on something that exists, and the buffers of the display
\* are those of bitmaps: none is allocated twice for one, or lost when a
\* bitmap is freed or replaced.
BuffersOwned ==
  /\ TypeOK
  /\ surface[current] # None
  /\ buffers = Cardinality({b \in bitmaps : surface[b] # None})

-----------------------------------------------------------------------------
(* What one would expect, and the code does not keep: see README.md.       *)

\* An order is drawn within its bounds: "those updates are clipped by a bounding
\* rectangle" (rdp_gdi.h:118).
BoundsKept == ~outside
=============================================================================
