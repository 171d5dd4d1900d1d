-------------------------- MODULE RdpDrawingProofs ---------------------------
(***************************************************************************)
(* The drawing of the RDP plugin for surfaces of any size, any number of   *)
(* bitmaps and any pictures: what is drawn is what the server has.         *)
(***************************************************************************)
EXTENDS RdpDrawing, FiniteSetTheorems, TLAPS

-----------------------------------------------------------------------------
(* Raster operations.                                                      *)

Ops == {"SRC", "NSRC", "NDEST", "AND", "NAND", "OR", "NOR", "XOR", "XNOR",
        "NSRC_AND", "NSRC_NAND", "NSRC_OR", "NSRC_NOR"}

\* Every transfer function makes a colour of two colours.
LEMMA BitIsColour ==
  ASSUME NEW op \in Ops, NEW s \in Colour, NEW d \in Colour
  PROVE  Bit(op, s, d) \in Colour
<1>1. CASE s = 0 /\ d = 0
  BY <1>1 DEF Bit, Ops, Colour
<1>2. CASE s = 0 /\ d = 1
  BY <1>2 DEF Bit, Ops, Colour
<1>3. CASE s = 1 /\ d = 0
  BY <1>3 DEF Bit, Ops, Colour
<1>4. CASE s = 1 /\ d = 1
  BY <1>4 DEF Bit, Ops, Colour
<1> QED BY <1>1, <1>2, <1>3, <1>4 DEF Colour

\* The codes that guac_rdp_rop3_transfer_function is asked for.
Translated == Rops \ {0, 10, 15}

LEMMA FunctionIsOp ==
  ASSUME NEW rop \in Translated PROVE TransferFunction(rop) \in Ops
  BY DEF Translated, Rops, TransferFunction, Ops

\* guac_rdp_rop3_transfer_function: the transfer function of a code makes what
\* the code's table says, for each of the codes that are translated.
THEOREM RopIsTransferred ==
  ASSUME NEW rop \in Translated, NEW s \in Colour, NEW d \in Colour
  PROVE  Bit(TransferFunction(rop), s, d) = Rop(rop, s, d)
<1>1. s \in {0, 1} /\ d \in {0, 1}
  BY DEF Colour
<1>2. CASE rop = 1
  BY <1>1, <1>2 DEF TransferFunction, Bit, Rop
<1>3. CASE rop = 2
  BY <1>1, <1>3 DEF TransferFunction, Bit, Rop
<1>4. CASE rop = 3
  BY <1>1, <1>4 DEF TransferFunction, Bit, Rop
<1>5. CASE rop = 4
  BY <1>1, <1>5 DEF TransferFunction, Bit, Rop
<1>6. CASE rop = 5
  BY <1>1, <1>6 DEF TransferFunction, Bit, Rop
<1>7. CASE rop = 6
  BY <1>1, <1>7 DEF TransferFunction, Bit, Rop
<1>8. CASE rop = 7
  BY <1>1, <1>8 DEF TransferFunction, Bit, Rop
<1>9. CASE rop = 8
  BY <1>1, <1>9 DEF TransferFunction, Bit, Rop
<1>10. CASE rop = 9
  BY <1>1, <1>10 DEF TransferFunction, Bit, Rop
<1>11. CASE rop = 11
  BY <1>1, <1>11 DEF TransferFunction, Bit, Rop
<1>12. CASE rop = 12
  BY <1>1, <1>12 DEF TransferFunction, Bit, Rop
<1>13. CASE rop = 13
  BY <1>1, <1>13 DEF TransferFunction, Bit, Rop
<1>14. CASE rop = 14
  BY <1>1, <1>14 DEF TransferFunction, Bit, Rop
<1> QED
  BY <1>2, <1>3, <1>4, <1>5, <1>6, <1>7, <1>8,
     <1>9, <1>10, <1>11, <1>12, <1>13, <1>14
     DEF Translated, Rops

\* The four codes without a source.
LEMMA RopWithoutSource ==
  ASSUME NEW s \in Colour, NEW d \in Colour
  PROVE  /\ Rop(0, s, d) = 0 /\ Rop(10, s, d) = d /\ Rop(15, s, d) = 1
         /\ Rop(5, 0, d) = Bit("NDEST", d, d)
         /\ Rop(12, s, d) = s
<1>1. CASE s = 0 /\ d = 0
  BY <1>1 DEF Bit, Rop
<1>2. CASE s = 0 /\ d = 1
  BY <1>2 DEF Bit, Rop
<1>3. CASE s = 1 /\ d = 0
  BY <1>3 DEF Bit, Rop
<1>4. CASE s = 1 /\ d = 1
  BY <1>4 DEF Bit, Rop
<1> QED BY <1>1, <1>2, <1>3, <1>4 DEF Colour

-----------------------------------------------------------------------------
(* The invariant.                                                          *)

Picture == [Pos -> Colour]
Maps == [Surfaces -> Picture \union {None}]

Types ==
  /\ bitmaps \subseteq Bitmaps /\ used \subseteq Bitmaps
  /\ data \in [Bitmaps -> Picture \union {None}]
  /\ surface \in Maps /\ buffers \in Nat
  /\ current \in Surfaces /\ clip \subseteq Pos /\ bounds \subseteq Pos
  /\ picture \in [Surfaces -> Picture] /\ outside \in BOOLEAN

\* The screen is clipped to the bounds: guac_common_surface_clip narrows what
\* guac_common_surface_reset_clip left.
ClipInv == clip = bounds

\* The bitmaps that have a buffer.
Buffered == {b \in Bitmaps : surface[b] # None}

BufferInv ==
  /\ surface[Screen] # None /\ surface[current] # None
  /\ Buffered \subseteq bitmaps
  /\ buffers = Cardinality(Buffered)

\* What s looks like once it has a surface: if it has none, guac_rdp_cache_bitmap
\* makes it of the data, or it is clear.
Look(s) == IF surface[s] # None THEN surface[s] ELSE Cached(s)

LookInv == ~outside => \A s \in Surfaces : Look(s) = picture[s]

IInv == Types /\ ClipInv /\ BufferInv /\ LookInv

LEMMA Basics ==
  /\ Width \in Nat /\ Width > 0 /\ IsFiniteSet(Bitmaps) /\ Screen \notin Bitmaps
  /\ None \notin Picture /\ None \notin Colour /\ Images \subseteq Picture
  /\ Clear \in Picture
  BY DrawingAssumption DEF Picture, Pos, Colour, Clear

-----------------------------------------------------------------------------
(* What the operations of guac_common_surface do to a surface.             *)

\* r is m, but for the picture of s.
OnlyOn(r, m, s) ==
  /\ r \in Maps /\ r[s] \in Picture
  /\ \A t \in Surfaces \ {s} : r[t] = m[t]

LEMMA SetColourIs ==
  ASSUME Types, NEW s \in Surfaces, surface[s] # None,
         NEW x \in Int, NEW w \in Int, NEW c \in Colour
  PROVE  /\ OnlyOn(SetColour(s, x, w, c), surface, s)
         /\ \A p \in Pos : SetColour(s, x, w, c)[s][p] =
              IF p \in Clipped(s, x, w) THEN c ELSE surface[s][p]
<1>1. surface[s] \in Picture
  BY DEF Types, Maps
<1> DEFINE f == [p \in Pos |-> IF p \in Clipped(s, x, w) THEN c ELSE surface[s][p]]
<1>2. SetColour(s, x, w, c) = [surface EXCEPT ![s] = f]
  BY DEF SetColour, Change
<1>3. f \in Picture
  BY <1>1 DEF Picture
<1> QED BY <1>2, <1>3 DEF Types, Maps, OnlyOn

\* What the source has to have of the pixels that are changed, it has.
ReadsInside(s, x, w, sx) == \A p \in Clipped(s, x, w) : p - x + sx \in Pos

LEMMA DrawImageIs ==
  ASSUME Types, NEW s \in Surfaces, surface[s] # None,
         NEW x \in Int, NEW w \in Int, NEW img \in Picture, NEW sx \in Int,
         ReadsInside(s, x, w, sx)
  PROVE  /\ OnlyOn(DrawImage(s, x, w, img, sx), surface, s)
         /\ \A p \in Pos : DrawImage(s, x, w, img, sx)[s][p] =
              IF p \in Clipped(s, x, w) THEN img[p - x + sx] ELSE surface[s][p]
<1>1. surface[s] \in Picture
  BY DEF Types, Maps
<1> DEFINE f == [p \in Pos |-> IF p \in Clipped(s, x, w) THEN img[p - x + sx]
                               ELSE surface[s][p]]
<1>2. DrawImage(s, x, w, img, sx) = [surface EXCEPT ![s] = f]
  BY DEF DrawImage, Change
<1>3. f \in Picture
  BY <1>1 DEF Picture, ReadsInside
<1> QED BY <1>2, <1>3 DEF Types, Maps, OnlyOn

LEMMA TransferToIs ==
  ASSUME NEW m \in Maps, NEW s \in Surfaces, m[s] # None, NEW op \in Ops,
         NEW src \in Surfaces, m[src] # None,
         NEW x \in Int, NEW w \in Int, NEW sx \in Int,
         \A p \in Clipped(s, x, w) : p - x + sx \in Pos
  PROVE  /\ OnlyOn(TransferTo(m, s, x, w, op, src, sx), m, s)
         /\ \A p \in Pos : TransferTo(m, s, x, w, op, src, sx)[s][p] =
              IF p \in Clipped(s, x, w) THEN Bit(op, m[src][p - x + sx], m[s][p])
              ELSE m[s][p]
<1>1. m[s] \in Picture /\ m[src] \in Picture
  BY DEF Maps
<1> DEFINE P == {p \in Clipped(s, x, w) : p - x + sx \in Pos}
           f == [p \in Pos |-> IF p \in P THEN Bit(op, m[src][p - x + sx], m[s][p])
                               ELSE m[s][p]]
<1>2. TransferTo(m, s, x, w, op, src, sx) = [m EXCEPT ![s] = f]
  BY DEF TransferTo, Change
<1>3. P = Clipped(s, x, w)
  OBVIOUS
<1>4. f \in Picture
  <2>1. ASSUME NEW p \in Pos, p \in P
        PROVE  Bit(op, m[src][p - x + sx], m[s][p]) \in Colour
    <3>1. m[src][p - x + sx] \in Colour /\ m[s][p] \in Colour
      BY <1>1, <2>1 DEF Picture
    <3> QED BY <3>1, BitIsColour
  <2>2. \A p \in Pos : m[s][p] \in Colour
    BY <1>1 DEF Picture
  <2> QED BY <2>1, <2>2 DEF Picture
<1> QED BY <1>2, <1>3, <1>4 DEF Maps, OnlyOn

\* The pixels that an order asks for.
Asked(x, w) == (x .. x + w - 1) \intersect bounds

\* What an order changes within its bounds is what is drawn of it.
LEMMA SamePixels ==
  ASSUME Types, ClipInv, NEW x \in Int, NEW w \in Int,
         \/ current = Screen
         \/ (x .. x + w - 1) \intersect Pos \subseteq bounds
  PROVE  \A p \in Pos : p \in Clipped(current, x, w) <=>
                        p \in Asked(x, w)
  BY DEF Asked, Clipped, ClipInv, Types

-----------------------------------------------------------------------------
(* Orders.                                                                 *)

\* The surfaces an order starts from: a bitmap may get its buffer first.
Prepared(m) ==
  \/ m = surface /\ buffers' = buffers
  \/ \E b \in bitmaps : surface[b] = None /\ m = WithBuffer(b) /\ buffers' = buffers + 1

\* What becomes of the other variables: the server draws g.
Ordered(s, g) ==
  /\ g \in Picture /\ picture' = [picture EXCEPT ![s] = g]
  /\ used' \subseteq Bitmaps /\ outside' \in BOOLEAN /\ (outside => outside')
  /\ UNCHANGED <<bitmaps, data, current, clip, bounds>>

LEMMA PreparedIs ==
  ASSUME Types, BufferInv, NEW m, Prepared(m)
  PROVE  /\ m \in Maps
         /\ \A t \in Surfaces : surface[t] # None => m[t] = surface[t]
         /\ \A t \in Surfaces : surface[t] = None => m[t] \in {None, Cached(t)}
<1>1. CASE m = surface
  BY <1>1 DEF Types
<1>2. CASE m # surface
  <2>1. PICK b \in bitmaps : surface[b] = None /\ m = WithBuffer(b)
    BY <1>2 DEF Prepared
  <2>2. b \in Surfaces /\ Cached(b) \in Picture
    BY Basics DEF Types, Surfaces, Cached
  <2> QED BY <2>1, <2>2 DEF WithBuffer, Types, Maps
<1> QED BY <1>1, <1>2

\* The count of the buffers follows.
LEMMA PreparedCounts ==
  ASSUME Types, BufferInv, NEW m, Prepared(m), NEW s \in Surfaces, surface[s] # None,
         OnlyOn(surface', m, s), UNCHANGED <<bitmaps, current>>
  PROVE  BufferInv' /\ buffers' \in Nat
<1>1. /\ \A t \in Surfaces : surface[t] # None => m[t] = surface[t]
      /\ surface' \in Maps /\ surface'[s] # None
  BY PreparedIs, Basics DEF OnlyOn
<1>2. \A t \in Surfaces : surface[t] # None => surface'[t] # None
  BY <1>1 DEF OnlyOn
<1>3. Screen \in Surfaces /\ Bitmaps \subseteq Surfaces /\ current \in Surfaces
  BY DEF Types, Surfaces
<1>4. surface'[Screen] # None /\ surface'[current'] # None
  BY <1>2, <1>3 DEF BufferInv
<1>5. CASE m = surface /\ buffers' = buffers
  <2>1. Buffered' = Buffered
    BY <1>2, <1>3, <1>5 DEF Buffered, OnlyOn
  <2> QED BY <1>4, <1>5, <2>1 DEF BufferInv, Types
<1>6. ASSUME NEW b \in bitmaps, surface[b] = None, m = WithBuffer(b),
             buffers' = buffers + 1
      PROVE  BufferInv' /\ buffers' \in Nat
  <2>1. b \in Bitmaps /\ Cached(b) # None
    BY Basics DEF Types, Cached
  <2>2. m[b] # None /\ \A t \in Surfaces \ {b} : m[t] = surface[t]
    BY <1>3, <1>6, <2>1 DEF WithBuffer, Types, Maps
  <2>3. Buffered' = Buffered \union {b} /\ b \notin Buffered
    BY <1>2, <1>3, <1>6, <2>1, <2>2 DEF Buffered, OnlyOn
  <2>4. IsFiniteSet(Buffered)
    BY Basics, FS_Subset DEF Buffered
  <2>5. Cardinality(Buffered') = Cardinality(Buffered) + 1
    BY <2>3, <2>4, FS_AddElement
  <2> QED BY <1>4, <1>6, <2>3, <2>5 DEF BufferInv, Types
<1> QED BY <1>5, <1>6 DEF Prepared

\* An order that leaves the surface as the server has it keeps the invariant.
LEMMA OrderKeeps ==
  ASSUME IInv, NEW m, Prepared(m), NEW s \in Surfaces, surface[s] # None,
         OnlyOn(surface', m, s), NEW g, Ordered(s, g),
         ~outside' => surface'[s] = g
  PROVE  IInv'
<1>1. Types' /\ ClipInv'
  <2>1. buffers' \in Nat
    BY PreparedCounts DEF IInv, Ordered
  <2>2. picture' \in [Surfaces -> Picture]
    BY DEF IInv, Types, Ordered
  <2> QED BY <2>1, <2>2 DEF IInv, Types, ClipInv, OnlyOn, Ordered
<1>2. BufferInv'
  BY PreparedCounts DEF IInv, Ordered
<1>3. LookInv'
  <2> SUFFICES ASSUME ~outside', NEW t \in Surfaces PROVE Look(t)' = picture'[t]
    BY DEF LookInv
  <2>1. ~outside /\ Look(t) = picture[t]
    BY DEF IInv, LookInv, Ordered, Types
  <2>2. CASE t = s
    BY <2>2, Basics DEF OnlyOn, Ordered, Look, IInv, Types
  <2>3. CASE t # s
    <3>1. surface'[t] = m[t] /\ picture'[t] = picture[t] /\ Cached(t)' = Cached(t)
      BY <2>3 DEF OnlyOn, Ordered, Cached, IInv, Types
    <3>2. /\ surface[t] # None => m[t] = surface[t]
          /\ surface[t] = None => m[t] \in {None, Cached(t)}
      BY PreparedIs DEF IInv
    <3> QED BY <2>1, <3>1, <3>2 DEF Look
  <2> QED BY <2>2, <2>3
<1> QED BY <1>1, <1>2, <1>3 DEF IInv

\* The same, pixel by pixel, of an order on the current surface.
LEMMA ServedKeeps ==
  ASSUME IInv, NEW m, Prepared(m), OnlyOn(surface', m, current),
         NEW x \in Int, NEW w \in Int, NEW g, Ordered(current, g),
         outside' = \/ outside
                    \/ /\ current # Screen
                       /\ ~((x .. x + w - 1) \intersect Pos \subseteq bounds),
         \A p \in Pos : p \notin Clipped(current, x, w)
                          => surface'[current][p] = surface[current][p],
         \A p \in Pos : p \notin Asked(x, w)
                          => g[p] = picture[current][p],
         ~outside => \A p \in Pos :
           p \in Clipped(current, x, w) /\ p \in Asked(x, w)
             => surface'[current][p] = g[p]
  PROVE  IInv'
<1>1. current \in Surfaces /\ surface[current] # None
  BY DEF IInv, Types, BufferInv
<1>2. ASSUME ~outside' PROVE surface'[current] = g
  <2>1. /\ ~outside
        /\ current = Screen \/ (x .. x + w - 1) \intersect Pos \subseteq bounds
    BY <1>2
  <2>2. surface[current] = picture[current]
    BY <1>1, <2>1 DEF IInv, LookInv, Look
  <2>3. \A p \in Pos : p \in Clipped(current, x, w) <=>
                       p \in Asked(x, w)
    BY <2>1, SamePixels DEF IInv
  <2>4. \A p \in Pos : surface'[current][p] = g[p]
    BY <2>1, <2>2, <2>3
  <2>5. surface'[current] \in Picture /\ g \in Picture
    BY DEF OnlyOn, Ordered
  <2> QED BY <2>4, <2>5 DEF Picture
<1> QED BY <1>1, <1>2, OrderKeeps

\* What LookInv says of surfaces that are there, and of bitmaps that are not.
LEMMA Looks ==
  ASSUME IInv, ~outside, NEW s \in Surfaces
  PROVE  /\ surface[s] # None => surface[s] = picture[s]
         /\ s \in Bitmaps /\ surface[s] = None => Cached(s) = picture[s]
  BY DEF IInv, LookInv, Look

LEMMA NotPrepared ==
  ASSUME buffers' = buffers PROVE Prepared(surface)
  BY DEF Prepared

\* What the server draws of an order.
LEMMA ServedIs ==
  ASSUME IInv, NEW x \in Int, NEW w \in Int, NEW g \in Picture, used' \subseteq Bitmaps,
         UNCHANGED <<bitmaps, data, current, clip, bounds>>,
         picture' = [picture EXCEPT ![current] = g],
         outside' = \/ outside
                    \/ /\ current # Screen
                       /\ ~((x .. x + w - 1) \intersect Pos \subseteq bounds)
  PROVE  Ordered(current, g)
  BY DEF Ordered, IInv, Types

LEMMA CurrentThere ==
  ASSUME IInv
  PROVE  /\ current \in Surfaces /\ surface[current] # None
         /\ surface[current] \in Picture /\ picture[current] \in Picture
         /\ Screen \in Surfaces /\ surface[Screen] # None
         /\ surface[Screen] \in Picture /\ picture[Screen] \in Picture
         /\ \A p \in Pos : picture[current][p] \in Colour
  BY DEF IInv, Types, BufferInv, Maps, Surfaces, Picture

\* guac_rdp_gdi_opaquerect
LEMMA OpaqueRectKeeps ==
  ASSUME IInv, NEW x \in Int, NEW w \in Int, NEW c \in Colour, OpaqueRect(x, w, c)
  PROVE  IInv'
<1> DEFINE g == [p \in Pos |-> IF p \in Asked(x, w) THEN c ELSE picture[current][p]]
<1>1. g \in Picture
  BY CurrentThere DEF Picture
<1>2. Ordered(current, g)
  <2>1. picture' = [picture EXCEPT ![current] = g]
    BY DEF OpaqueRect, Served, Change, Asked
  <2>2. /\ outside' = \/ outside
                      \/ /\ current # Screen
                         /\ ~((x .. x + w - 1) \intersect Pos \subseteq bounds)
        /\ UNCHANGED <<bitmaps, data, used, current, clip, bounds>>
    BY DEF OpaqueRect, Served
  <2> HIDE DEF g
  <2> QED BY <1>1, <2>1, <2>2, ServedIs DEF IInv, Types
<1>3. Prepared(surface)
  BY NotPrepared DEF OpaqueRect
<1>4. /\ OnlyOn(surface', surface, current)
      /\ \A p \in Pos : surface'[current][p] =
           IF p \in Clipped(current, x, w) THEN c ELSE surface[current][p]
  BY CurrentThere, SetColourIs DEF OpaqueRect, IInv
<1> QED
  BY <1>2, <1>3, <1>4, ServedKeeps DEF OpaqueRect, Served

\* guac_rdp_gdi_dstblt
LEMMA DstBltKeeps ==
  ASSUME IInv, NEW x \in Int, NEW w \in Int, NEW rop \in {0, 5, 10, 15},
         DstBlt(x, w, rop)
  PROVE  IInv'
<1> DEFINE g == [p \in Pos |-> IF p \in Asked(x, w) THEN Rop(rop, 0, picture[current][p])
                               ELSE picture[current][p]]
<1>1. \A d \in Colour : /\ Rop(0, 0, d) = 0 /\ Rop(10, 0, d) = d /\ Rop(15, 0, d) = 1
                        /\ Rop(5, 0, d) = Bit("NDEST", d, d) /\ Rop(5, 0, d) \in Colour
  BY RopWithoutSource, BitIsColour DEF Ops, Colour
<1>2. g \in Picture
  BY <1>1, CurrentThere DEF Picture, Colour
<1>3. Ordered(current, g)
  <2>1. picture' = [picture EXCEPT ![current] = g]
    BY DEF DstBlt, Served, Change, Asked
  <2>2. /\ outside' = \/ outside
                      \/ /\ current # Screen
                         /\ ~((x .. x + w - 1) \intersect Pos \subseteq bounds)
        /\ UNCHANGED <<bitmaps, data, used, current, clip, bounds>>
    BY DEF DstBlt, Served
  <2> HIDE DEF g
  <2> QED BY <1>2, <2>1, <2>2, ServedIs DEF IInv, Types
<1>4. Prepared(surface)
  BY NotPrepared DEF DstBlt
<1>5. \A p \in Pos : surface[current][p] \in Colour
  BY CurrentThere DEF Picture
<1>6. \A p \in Clipped(current, x, w) : p - x + x \in Pos /\ p - x + x = p
  BY DEF Clipped, IInv, Types, Pos
<1>7. /\ OnlyOn(surface', surface, current)
      /\ \A p \in Pos : surface'[current][p] =
           IF p \in Clipped(current, x, w) THEN Rop(rop, 0, surface[current][p])
           ELSE surface[current][p]
  <2>1. CASE rop = 0
    BY <1>1, <1>5, <2>1, CurrentThere, SetColourIs DEF DstBlt, IInv, Colour
  <2>2. CASE rop = 15
    BY <1>1, <1>5, <2>2, CurrentThere, SetColourIs DEF DstBlt, IInv, Colour
  <2>3. CASE rop = 10
    BY <1>1, <1>5, <2>3, CurrentThere DEF DstBlt, IInv, Types, OnlyOn
  <2>4. CASE rop = 5
    <3> DEFINE r == TransferTo(surface, current, x, w, "NDEST", current, x)
    <3>1. surface' = r
      BY <2>4 DEF DstBlt
    <3>2. /\ OnlyOn(r, surface, current)
          /\ \A p \in Pos : r[current][p] =
               IF p \in Clipped(current, x, w)
               THEN Bit("NDEST", surface[current][p - x + x], surface[current][p])
               ELSE surface[current][p]
      BY <1>6, CurrentThere, TransferToIs DEF IInv, Types, Ops
    <3> HIDE DEF r
    <3> QED BY <1>1, <1>5, <1>6, <2>4, <3>1, <3>2
  <2> QED BY <2>1, <2>2, <2>3, <2>4
<1>8. ~outside => surface[current] = picture[current]
  BY CurrentThere, Looks
<1> QED
  BY <1>3, <1>4, <1>7, <1>8, ServedKeeps DEF DstBlt, Served

\* guac_rdp_gdi_scrblt
LEMMA ScrBltKeeps ==
  ASSUME IInv, NEW x \in Int, NEW w \in 1 .. Width, NEW sx \in 0 .. Width - w,
         ScrBlt(x, w, sx)
  PROVE  IInv'
<1> DEFINE g == [p \in Pos |-> IF p \in Asked(x, w) THEN picture[Screen][p - x + sx]
                               ELSE picture[current][p]]
<1>1. \A p \in x .. x + w - 1 : p - x + sx \in Pos
  BY Basics DEF Pos
<1>2. g \in Picture
  BY <1>1, CurrentThere DEF Picture, Asked
<1>3. Ordered(current, g)
  <2>1. picture' = [picture EXCEPT ![current] = g]
    BY DEF ScrBlt, Served, Change, Asked
  <2>2. /\ outside' = \/ outside
                      \/ /\ current # Screen
                         /\ ~((x .. x + w - 1) \intersect Pos \subseteq bounds)
        /\ UNCHANGED <<bitmaps, data, used, current, clip, bounds>>
    BY DEF ScrBlt, Served
  <2>3. w \in Int /\ used' \subseteq Bitmaps
    BY <2>2, Basics DEF IInv, Types
  <2> HIDE DEF g
  <2> QED BY <1>2, <2>1, <2>2, <2>3, ServedIs
<1>4. Prepared(surface)
  BY NotPrepared DEF ScrBlt
<1>5. \A p \in Clipped(current, x, w) : p \in x .. x + w - 1 /\ p - x + sx \in Pos
  BY <1>1 DEF Clipped
<1> DEFINE r == TransferTo(surface, current, x, w, "SRC", Screen, sx)
<1>6. /\ OnlyOn(r, surface, current)
      /\ \A p \in Pos : r[current][p] =
           IF p \in Clipped(current, x, w)
           THEN Bit("SRC", surface[Screen][p - x + sx], surface[current][p])
           ELSE surface[current][p]
  BY <1>5, Basics, CurrentThere, TransferToIs DEF IInv, Types, Ops
<1>7. surface' = r
  BY DEF ScrBlt
<1>8. ~outside => surface[Screen] = picture[Screen]
  BY CurrentThere, Looks
<1>9. \A u, v : Bit("SRC", u, v) = u
  BY DEF Bit
<1> HIDE DEF r
<1> QED
  BY <1>3, <1>4, <1>6, <1>7, <1>8, <1>9, ServedKeeps, Basics DEF ScrBlt, Served

\* guac_rdp_glyph_begindraw and guac_rdp_glyph_draw
LEMMA GlyphKeeps ==
  ASSUME IInv, NEW x \in Int, NEW w \in Int, NEW mask \in SUBSET (0 .. w - 1),
         NEW c \in Colour, NEW back \in Colour \union {None}, Glyph(x, w, mask, c, back)
  PROVE  IInv'
<1> DEFINE ink  == {x + p : p \in mask}
           first == IF back = None THEN surface ELSE SetColour(current, x, w, back)
           g == [p \in Pos |-> IF p \in Asked(x, w)
                               THEN IF p \in ink THEN c
                                    ELSE IF back # None THEN back
                                    ELSE picture[current][p]
                               ELSE picture[current][p]]
           f == [p \in Pos |-> IF p \in Clipped(current, x, w) \intersect ink THEN c
                               ELSE first[current][p]]
<1>1. g \in Picture
  BY CurrentThere DEF Picture
<1>2. Ordered(current, g)
  <2>1. picture' = [picture EXCEPT ![current] = g]
    BY DEF Glyph, Served, Change, Asked
  <2>2. /\ outside' = \/ outside
                      \/ /\ current # Screen
                         /\ ~((x .. x + w - 1) \intersect Pos \subseteq bounds)
        /\ UNCHANGED <<bitmaps, data, used, current, clip, bounds>>
    BY DEF Glyph, Served
  <2> HIDE DEF g
  <2> QED BY <1>1, <2>1, <2>2, ServedIs DEF IInv, Types
<1>3. Prepared(surface)
  BY NotPrepared DEF Glyph
<1>4. /\ OnlyOn(first, surface, current)
      /\ \A p \in Pos : first[current][p] =
           IF back # None /\ p \in Clipped(current, x, w) THEN back
           ELSE surface[current][p]
  <2>1. CASE back = None
    BY <2>1, CurrentThere DEF OnlyOn, IInv, Types
  <2>2. CASE back # None
    BY <2>2, CurrentThere, SetColourIs DEF IInv
  <2> QED BY <2>1, <2>2
<1>5. surface' = [first EXCEPT ![current] = f]
  BY DEF Glyph, Change
<1>6. f \in Picture
  BY <1>4 DEF OnlyOn, Picture
<1> HIDE DEF first
<1>7. OnlyOn(surface', surface, current) /\ surface'[current] = f
  BY <1>4, <1>5, <1>6, CurrentThere DEF OnlyOn, Maps
<1>8. ~outside => surface[current] = picture[current]
  BY CurrentThere, Looks
<1>9. \A p \in Pos : p \notin Clipped(current, x, w)
                       => surface'[current][p] = surface[current][p]
  BY <1>4, <1>7
<1>10. \A p \in Pos : p \notin Asked(x, w) => g[p] = picture[current][p]
  OBVIOUS
<1>11. ~outside => \A p \in Pos :
         p \in Clipped(current, x, w) /\ p \in Asked(x, w) => surface'[current][p] = g[p]
  BY <1>4, <1>7, <1>8
<1>12. outside' = \/ outside
                  \/ /\ current # Screen
                     /\ ~((x .. x + w - 1) \intersect Pos \subseteq bounds)
  BY DEF Glyph, Served
<1> HIDE DEF g, f
<1> QED BY <1>2, <1>3, <1>4, <1>7, <1>9, <1>10, <1>11, <1>12, ServedKeeps

\* guac_rdp_gdi_memblt
LEMMA MemBltKeeps ==
  ASSUME IInv, NEW b \in Bitmaps, NEW x \in Int, NEW sx \in Pos,
         NEW w \in 1 .. Width - sx, NEW rop \in Rops, MemBlt(b, x, w, rop, sx)
  PROVE  IInv'
<1> DEFINE caches == surface[b] = None /\ (b \in used \/ rop # 12)
           with   == IF caches THEN WithBuffer(b) ELSE surface
           g == [p \in Pos |->
                   IF p \in Asked(x, w)
                   THEN Rop(rop, picture[b][p - x + sx], picture[current][p])
                   ELSE picture[current][p]]
<1>1. /\ w \in Int /\ sx \in Int /\ b \in Surfaces /\ b \in bitmaps
      /\ \A p \in x .. x + w - 1 : p - x + sx \in Pos
  BY Basics DEF Pos, Surfaces, MemBlt, Usable
<1>2. \A q \in Pos : picture[b][q] \in Colour
  BY <1>1 DEF IInv, Types, Picture
<1>3. \A u, v \in Colour : Rop(rop, u, v) \in Colour
  <2> SUFFICES ASSUME NEW u \in Colour, NEW v \in Colour PROVE Rop(rop, u, v) \in Colour
    OBVIOUS
  <2>1. CASE rop \in {0, 10, 15}
    BY <2>1, RopWithoutSource DEF Colour
  <2>2. CASE rop \notin {0, 10, 15}
    BY <2>2, RopIsTransferred, FunctionIsOp, BitIsColour DEF Translated
  <2> QED BY <2>1, <2>2
<1>4. g \in Picture
  BY <1>1, <1>2, <1>3, CurrentThere DEF Picture, Asked
<1>5. Ordered(current, g)
  <2>1. picture' = [picture EXCEPT ![current] = g]
    BY DEF MemBlt, Served, Change, Asked
  <2>2. /\ outside' = \/ outside
                      \/ /\ current # Screen
                         /\ ~((x .. x + w - 1) \intersect Pos \subseteq bounds)
        /\ UNCHANGED <<bitmaps, data, current, clip, bounds>>
    BY DEF MemBlt, Served
  <2>3. used' \subseteq Bitmaps
    BY DEF MemBlt, IInv, Types
  <2> HIDE DEF g
  <2> QED BY <1>1, <1>4, <2>1, <2>2, <2>3, ServedIs
<1>6. \A p \in Clipped(current, x, w) : p \in x .. x + w - 1 /\ p - x + sx \in Pos
  BY <1>1 DEF Clipped
<1>7. ~outside => surface[current] = picture[current]
  BY CurrentThere, Looks
<1>8. \A p \in Pos : surface[current][p] \in Colour
  BY CurrentThere DEF Picture
<1>9. CASE rop \in {0, 10, 15}
  <2>1. Prepared(surface)
    BY <1>9, NotPrepared DEF MemBlt
  <2>2. /\ OnlyOn(surface', surface, current)
        /\ \A p \in Pos : surface'[current][p] =
             IF p \in Clipped(current, x, w) /\ rop # 10
             THEN IF rop = 0 THEN 0 ELSE 1
             ELSE surface[current][p]
    <3>1. CASE rop = 10
      BY <3>1, CurrentThere DEF MemBlt, OnlyOn, IInv, Types
    <3>2. CASE rop = 0
      BY <1>1, <3>2, CurrentThere, SetColourIs DEF MemBlt, IInv, Colour
    <3>3. CASE rop = 15
      BY <1>1, <3>3, CurrentThere, SetColourIs DEF MemBlt, IInv, Colour
    <3> QED BY <1>9, <3>1, <3>2, <3>3
  <2>3. ~outside => \A p \in Pos :
          p \in Clipped(current, x, w) /\ p \in Asked(x, w) => surface'[current][p] = g[p]
    <3> SUFFICES ASSUME ~outside, NEW p \in Pos, p \in Clipped(current, x, w),
                        p \in Asked(x, w)
                 PROVE  surface'[current][p] = g[p]
      OBVIOUS
    <3> DEFINE u == picture[b][p - x + sx]
               v == picture[current][p]
    <3>1. u \in Colour /\ v \in Colour /\ g[p] = Rop(rop, u, v)
      BY <1>2, <1>6, CurrentThere
    <3>2. surface[current][p] = v
      BY <1>7
    <3> HIDE DEF u, v, g
    <3> QED BY <1>9, <2>2, <3>1, <3>2, RopWithoutSource
  <2> QED
    BY <1>1, <1>5, <2>1, <2>2, <2>3, ServedKeeps DEF MemBlt, Served
<1>10. CASE rop \notin {0, 10, 15} /\ with[b] = None
  <2>1. surface[b] = None /\ ~caches /\ rop = 12
    <3>1. Cached(b) # None
      BY Basics DEF Cached
    <3> QED BY <1>1, <1>10, <3>1 DEF WithBuffer, IInv, Types, Maps
  <2>2. data[b] \in Picture /\ data[b] = Cached(b)
    BY <2>1 DEF MemBlt, Usable, Cached, IInv, Types
  <2>3. Prepared(surface) /\ surface' = DrawImage(current, x, w, data[b], sx)
    BY <1>10, <2>1, NotPrepared DEF MemBlt
  <2>4. sx \in Int /\ w \in Int /\ Types
    BY <1>1 DEF IInv
  <2> DEFINE r == DrawImage(current, x, w, data[b], sx)
  <2>5. /\ OnlyOn(r, surface, current)
        /\ \A p \in Pos : r[current][p] =
             IF p \in Clipped(current, x, w) THEN data[b][p - x + sx]
             ELSE surface[current][p]
    <3>1. ReadsInside(current, x, w, sx)
      BY <1>6 DEF ReadsInside
    <3> HIDE DEF g, with, caches
    <3> QED BY <2>2, <2>4, <3>1, CurrentThere, DrawImageIs
  <2>6. ~outside => data[b] = picture[b]
    BY <1>1, <2>1, <2>2, Looks
  <2>7. \A u, v \in Colour : Rop(rop, u, v) = u
    BY <2>1, RopWithoutSource
  <2> HIDE DEF r
  <2>8. ~outside => \A p \in Pos :
          p \in Clipped(current, x, w) /\ p \in Asked(x, w) => surface'[current][p] = g[p]
    BY <1>2, <1>6, <2>3, <2>5, <2>6, <2>7, CurrentThere DEF r
  <2>9. /\ OnlyOn(surface', surface, current)
        /\ \A p \in Pos : p \notin Clipped(current, x, w)
                           => surface'[current][p] = surface[current][p]
    BY <2>3, <2>5 DEF r
  <2>10. \A p \in Pos : p \notin Asked(x, w) => g[p] = picture[current][p]
    OBVIOUS
  <2> HIDE DEF g
  <2> QED
    BY <1>1, <1>5, <2>3, <2>8, <2>9, <2>10, ServedKeeps DEF MemBlt, Served
<1>11. CASE rop \notin {0, 10, 15} /\ with[b] # None
  <2> DEFINE op == TransferFunction(rop)
             r  == TransferTo(with, current, x, w, op, b, sx)
  <2>1. surface' = r /\ buffers' = IF caches THEN buffers + 1 ELSE buffers
    BY <1>11 DEF MemBlt
  <2>2. Prepared(with)
    BY <1>1, <2>1 DEF Prepared
  <2>3. op \in Ops
    BY <1>11, FunctionIsOp DEF Translated
  <2>4. with \in Maps /\ with[current] = surface[current]
    BY <2>2, PreparedIs, CurrentThere DEF IInv
  <2>5. ~outside => with[b] = picture[b]
    <3>1. surface[b] # None => with[b] = surface[b]
      OBVIOUS
    <3>2. surface[b] = None => with[b] = Cached(b)
      BY <1>1, <1>11, <2>2, PreparedIs DEF IInv
    <3> QED BY <1>1, <3>1, <3>2, Looks
  <2> HIDE DEF with, op
  <2>6. /\ OnlyOn(r, with, current)
        /\ \A p \in Pos : r[current][p] =
             IF p \in Clipped(current, x, w)
             THEN Bit(op, with[b][p - x + sx], with[current][p])
             ELSE with[current][p]
    BY <1>1, <1>6, <1>11, <2>3, <2>4, CurrentThere, TransferToIs
  <2> HIDE DEF r
  <2>7. ~outside => \A p \in Pos :
          p \in Clipped(current, x, w) /\ p \in Asked(x, w) => surface'[current][p] = g[p]
    <3> SUFFICES ASSUME ~outside, NEW p \in Pos, p \in Clipped(current, x, w),
                        p \in Asked(x, w)
                 PROVE  surface'[current][p] = g[p]
      OBVIOUS
    <3> DEFINE u == picture[b][p - x + sx]
               v == picture[current][p]
    <3>1. u \in Colour /\ v \in Colour /\ g[p] = Rop(rop, u, v)
      BY <1>2, <1>6, CurrentThere
    <3>2. with[current][p] = v /\ with[b][p - x + sx] = u
      BY <1>7, <2>4, <2>5
    <3> HIDE DEF u, v, g
    <3>3. surface'[current][p] = Bit(op, u, v)
      BY <2>1, <2>6, <3>2 DEF u, v
    <3>4. Bit(op, u, v) = Rop(rop, u, v)
      BY <1>11, <3>1, RopIsTransferred DEF op, Translated
    <3> QED BY <3>1, <3>3, <3>4
  <2>8. \A p \in Pos : p \notin Clipped(current, x, w)
                         => surface'[current][p] = surface[current][p]
    BY <2>1, <2>4, <2>6
  <2>9. OnlyOn(surface', with, current)
    BY <2>1, <2>6
  <2>10. \A p \in Pos : p \notin Asked(x, w) => g[p] = picture[current][p]
    OBVIOUS
  <2> HIDE DEF g
  <2> QED
    BY <1>1, <1>5, <2>2, <2>7, <2>8, <2>9, <2>10, ServedKeeps DEF MemBlt, Served
<1> QED BY <1>9, <1>10, <1>11

\* guac_rdp_bitmap_paint
LEMMA PaintKeeps ==
  ASSUME IInv, NEW b \in Bitmaps, NEW x \in Int, NEW w \in 1 .. Width, Paint(b, x, w)
  PROVE  IInv'
<1> DEFINE caches == surface[b] = None /\ b \in used
           m == IF caches THEN WithBuffer(b) ELSE surface
           drawn == IF surface[b] = None THEN DrawImage(Screen, x, w, data[b], 0)
                    ELSE TransferTo(surface, Screen, x, w, "SRC", b, 0)
           g == [p \in Pos |-> IF p \in x .. x + w - 1 THEN picture[b][p - x]
                               ELSE picture[Screen][p]]
<1>1. /\ w \in Int /\ b \in Surfaces /\ b \in bitmaps /\ b # Screen
      /\ \A p \in x .. x + w - 1 : p - x \in Pos /\ p - x + 0 = p - x
  BY Basics DEF Pos, Surfaces, Paint, Usable
<1>2. \A p \in Pos : p \in Clipped(Screen, x, w) <=> p \in x .. x + w - 1
  BY DEF Paint, Clipped, IInv, ClipInv
<1>3. \A p \in Clipped(Screen, x, w) : p - x + 0 \in Pos /\ p - x + 0 = p - x
  BY <1>1 DEF Clipped
<1>4. Ordered(Screen, g)
  <2>1. picture' = [picture EXCEPT ![Screen] = g]
    BY DEF Paint, Change
  <2>2. g \in Picture
    BY <1>1, CurrentThere DEF IInv, Types, Picture
  <2>3. used' \subseteq Bitmaps /\ UNCHANGED <<bitmaps, data, current, clip, bounds, outside>>
    BY DEF Paint, IInv, Types
  <2> HIDE DEF g
  <2> QED BY <2>1, <2>2, <2>3 DEF Ordered, IInv, Types
<1>5. Prepared(m)
  <2>1. buffers' = IF caches THEN buffers + 1 ELSE buffers
    BY DEF Paint
  <2> QED BY <1>1, <2>1 DEF Prepared
<1> DEFINE seen == IF surface[b] = None THEN data[b] ELSE surface[b]
<1>6. seen \in Picture /\ (~outside => seen = picture[b])
  <2>1. CASE surface[b] = None
    <3>1. data[b] \in Picture /\ Cached(b) = data[b]
      BY <2>1 DEF Paint, Usable, Cached, IInv, Types
    <3> QED BY <1>1, <2>1, <3>1, Looks
  <2>2. CASE surface[b] # None
    BY <1>1, <2>2, Looks DEF IInv, Types, Maps
  <2> QED BY <2>1, <2>2
<1>7. /\ OnlyOn(drawn, surface, Screen)
      /\ \A p \in Pos : drawn[Screen][p] =
           IF p \in Clipped(Screen, x, w) THEN seen[p - x] ELSE surface[Screen][p]
  <2>1. \A p \in Clipped(Screen, x, w) : p - x + 0 \in Pos
    BY <1>3
  <2>2. CASE surface[b] = None
    <3> DEFINE r == DrawImage(Screen, x, w, data[b], 0)
    <3>1. data[b] \in Picture /\ drawn = r /\ seen = data[b]
      BY <1>6, <2>2
    <3>2. /\ OnlyOn(r, surface, Screen)
          /\ \A p \in Pos : r[Screen][p] =
               IF p \in Clipped(Screen, x, w) THEN data[b][p - x + 0]
               ELSE surface[Screen][p]
      <4>1. ReadsInside(Screen, x, w, 0)
        BY <2>1 DEF ReadsInside
      <4>2. Types /\ surface[Screen] # None /\ Screen \in Surfaces /\ 0 \in Int
        BY CurrentThere DEF IInv
      <4> HIDE DEF r, drawn, seen, m, g
      <4> QED BY <1>1, <3>1, <4>1, <4>2, DrawImageIs DEF r
    <3> HIDE DEF r, drawn, seen
    <3> QED BY <1>3, <3>1, <3>2
  <2>3. CASE surface[b] # None
    <3> DEFINE r == TransferTo(surface, Screen, x, w, "SRC", b, 0)
    <3>1. drawn = r /\ seen = surface[b] /\ surface \in Maps
      BY <2>3 DEF IInv, Types
    <3>2. /\ OnlyOn(r, surface, Screen)
          /\ \A p \in Pos : r[Screen][p] =
               IF p \in Clipped(Screen, x, w)
               THEN Bit("SRC", surface[b][p - x + 0], surface[Screen][p])
               ELSE surface[Screen][p]
      BY <1>1, <2>1, <2>3, <3>1, CurrentThere, TransferToIs DEF Ops
    <3>3. \A u, v : Bit("SRC", u, v) = u
      BY DEF Bit
    <3> HIDE DEF r, drawn, seen
    <3> QED BY <1>3, <3>1, <3>2, <3>3
  <2> QED BY <2>2, <2>3
<1>8. surface' = IF caches THEN [drawn EXCEPT ![b] = Cached(b)] ELSE drawn
  BY DEF Paint
<1>9. OnlyOn(surface', m, Screen) /\ surface'[Screen] = drawn[Screen]
  <2>1. m \in Maps /\ Cached(b) \in Picture
    BY <1>5, PreparedIs, Basics DEF Cached, IInv, Types
  <2> HIDE DEF drawn
  <2> QED BY <1>1, <1>7, <1>8, <2>1, CurrentThere DEF OnlyOn, Maps, WithBuffer, IInv, Types
<1>10. ASSUME ~outside' PROVE surface'[Screen] = g
  <2>1. ~outside /\ surface[Screen] = picture[Screen] /\ seen = picture[b]
    BY <1>6, <1>10, CurrentThere, Looks DEF Paint
  <2> HIDE DEF drawn, seen
  <2>2. \A p \in Pos : surface'[Screen][p] = g[p]
    BY <1>2, <1>7, <1>9, <2>1
  <2>3. surface'[Screen] \in Picture
    BY <1>9 DEF OnlyOn
  <2> QED BY <2>2, <2>3 DEF Picture
<1> HIDE DEF m, g
<1> QED BY <1>4, <1>5, <1>9, <1>10, CurrentThere, OrderKeeps

-----------------------------------------------------------------------------
(* Bitmaps, surfaces and bounds.                                           *)

\* guac_rdp_bitmap_new
LEMMA NewBitmapKeeps ==
  ASSUME IInv, NEW b \in Bitmaps, NEW img \in Images \union {None}, NewBitmap(b, img)
  PROVE  IInv'
<1>1. /\ b \in Surfaces /\ b # Screen /\ Clear \in Picture /\ Clear # None
      /\ img \in Picture \union {None} /\ IsFiniteSet(Buffered)
  BY Basics, FS_Subset DEF Surfaces, Buffered
<1>2. surface' = [surface EXCEPT ![b] = IF current = b THEN Clear ELSE None]
  BY DEF NewBitmap
<1>3. Types' /\ ClipInv'
  <2>1. buffers' \in Nat
    <3>1. CASE surface[b] # None
      <4>1. b \in Buffered
        BY <3>1 DEF Buffered
      <4>2. Cardinality(Buffered) \in Nat /\ Cardinality(Buffered) # 0
        BY <1>1, <4>1, FS_CardinalityType, FS_EmptySet
      <4> QED BY <3>1, <4>2 DEF NewBitmap, BuffersWithout, IInv, BufferInv
    <3>2. CASE surface[b] = None
      BY <3>2 DEF NewBitmap, BuffersWithout, IInv, Types
    <3> QED BY <3>1, <3>2
  <2> QED BY <1>1, <1>2, <2>1 DEF NewBitmap, IInv, Types, ClipInv, Maps
<1>4. BufferInv'
  <2>1. Cardinality(Buffered \ {b}) = BuffersWithout(b)
    BY <1>1, FS_RemoveElement DEF BuffersWithout, IInv, BufferInv, Buffered
  <2>2. CASE current = b
    <3>1. Buffered' = (Buffered \ {b}) \union {b}
      BY <1>1, <1>2, <2>2 DEF Buffered, IInv, Types, Maps, Surfaces
    <3>2. Cardinality(Buffered') = BuffersWithout(b) + 1
      BY <1>1, <2>1, <3>1, FS_AddElement, FS_Subset
    <3> QED BY <1>1, <1>2, <2>2, <3>1, <3>2, CurrentThere
            DEF NewBitmap, IInv, Types, Maps, BufferInv
  <2>3. CASE current # b
    <3>1. Buffered' = Buffered \ {b}
      BY <1>1, <1>2, <2>3 DEF Buffered, IInv, Types, Maps, Surfaces
    <3>2. BuffersWithout(b) \in Nat
      BY <1>1, <2>1, FS_CardinalityType, FS_Subset
    <3> QED BY <1>1, <1>2, <2>1, <2>3, <3>1, <3>2, CurrentThere
            DEF NewBitmap, IInv, Types, Maps, BufferInv
  <2> QED BY <2>2, <2>3
<1>5. LookInv'
  <2> SUFFICES ASSUME ~outside', NEW t \in Surfaces PROVE Look(t)' = picture'[t]
    BY DEF LookInv
  <2>1. ~outside /\ Look(t) = picture[t]
    BY DEF IInv, LookInv, NewBitmap
  <2>2. CASE t = b
    BY <1>1, <1>2, <2>2 DEF NewBitmap, Look, Cached, IInv, Types, Maps
  <2>3. CASE t # b
    BY <1>2, <2>1, <2>3 DEF NewBitmap, Look, Cached, IInv, Types, Maps
  <2> QED BY <2>2, <2>3
<1> QED BY <1>3, <1>4, <1>5 DEF IInv

\* guac_rdp_bitmap_free
LEMMA FreeBitmapKeeps ==
  ASSUME IInv, NEW b \in Bitmaps, FreeBitmap(b)
  PROVE  IInv'
<1>1. /\ b \in Surfaces /\ b # Screen /\ Clear \in Picture /\ IsFiniteSet(Buffered)
  BY Basics, FS_Subset DEF Surfaces, Buffered
<1>2. surface' = [surface EXCEPT ![b] = None]
  BY DEF FreeBitmap
<1>3. Cardinality(Buffered \ {b}) = BuffersWithout(b)
  BY <1>1, FS_RemoveElement DEF BuffersWithout, IInv, BufferInv, Buffered
<1>4. Buffered' = Buffered \ {b}
  BY <1>1, <1>2 DEF Buffered, IInv, Types, Maps, Surfaces
<1>5. BuffersWithout(b) \in Nat
  BY <1>1, <1>3, FS_CardinalityType, FS_Subset
<1>6. Types' /\ ClipInv'
  BY <1>1, <1>2, <1>5 DEF FreeBitmap, IInv, Types, ClipInv, Maps
<1>7. BufferInv'
  BY <1>1, <1>2, <1>3, <1>4, CurrentThere DEF FreeBitmap, IInv, Types, Maps, BufferInv
<1>8. LookInv'
  <2> SUFFICES ASSUME ~outside', NEW t \in Surfaces PROVE Look(t)' = picture'[t]
    BY DEF LookInv
  <2>1. ~outside /\ Look(t) = picture[t]
    BY DEF IInv, LookInv, FreeBitmap
  <2>2. CASE t = b
    BY <1>1, <1>2, <2>2 DEF FreeBitmap, Look, Cached, IInv, Types, Maps
  <2>3. CASE t # b
    BY <1>2, <2>1, <2>3 DEF FreeBitmap, Look, Cached, IInv, Types, Maps
  <2> QED BY <2>2, <2>3
<1> QED BY <1>6, <1>7, <1>8 DEF IInv

\* guac_rdp_bitmap_setsurface
LEMMA SetSurfaceKeeps ==
  ASSUME IInv, NEW s \in Surfaces, SetSurface(s)
  PROVE  IInv'
<1>1. CASE surface[s] # None
  <2>1. UNCHANGED <<bitmaps, data, used, surface, buffers, clip, bounds, picture, outside>>
        /\ current' = s
    BY <1>1 DEF SetSurface
  <2> QED BY <1>1, <2>1 DEF IInv, Types, ClipInv, BufferInv, Buffered, LookInv, Look,
       Cached
<1>2. CASE surface[s] = None
  <2>1. /\ UNCHANGED <<bitmaps, data, used, clip, bounds, picture, outside>>
        /\ current' = s /\ surface' = WithBuffer(s) /\ buffers' = buffers + 1
    BY <1>2 DEF SetSurface
  <2>2. s \in bitmaps /\ s \in Bitmaps /\ s # Screen /\ s \in Surfaces
    BY <1>2, CurrentThere DEF SetSurface, IInv, Types
  <2>3. Cached(s) \in Picture /\ Cached(s) # None
    BY <2>2, Basics DEF Cached, IInv, Types
  <2>4. surface'[s] = Cached(s) /\ \A t \in Surfaces \ {s} : surface'[t] = surface[t]
    BY <2>1, <2>2 DEF WithBuffer, IInv, Types, Maps
  <2>5. Types' /\ ClipInv'
    BY <2>1, <2>2, <2>3 DEF WithBuffer, IInv, Types, ClipInv, Maps
  <2>6. BufferInv'
    <3>1. Buffered' = Buffered \union {s} /\ s \notin Buffered
      BY <1>2, <2>2, <2>3, <2>4 DEF Buffered, Surfaces
    <3>2. IsFiniteSet(Buffered)
      BY Basics, FS_Subset DEF Buffered
    <3>3. Cardinality(Buffered') = Cardinality(Buffered) + 1
      BY <3>1, <3>2, FS_AddElement
    <3> QED BY <2>1, <2>2, <2>3, <2>4, <3>1, <3>3, CurrentThere DEF IInv, BufferInv
  <2>7. LookInv'
    BY <1>2, <2>1, <2>2, <2>3, <2>4 DEF LookInv, Look, Cached, IInv
  <2> QED BY <2>5, <2>6, <2>7 DEF IInv
<1> QED BY <1>1, <1>2

\* guac_rdp_gdi_set_bounds
LEMMA BoundsKeep ==
  ASSUME IInv,
         \/ \E l \in Pos : \E r \in l .. Width - 1 : SetBounds(l, r)
         \/ ResetBounds
  PROVE  IInv'
<1>1. UNCHANGED <<bitmaps, data, used, surface, buffers, current, picture, outside>>
  BY DEF SetBounds, ResetBounds
<1>2. clip' \subseteq Pos /\ bounds' = clip'
  <2>1. CASE ResetBounds
    BY <2>1 DEF ResetBounds
  <2>2. ASSUME NEW l \in Pos, NEW r \in l .. Width - 1, SetBounds(l, r)
        PROVE  clip' \subseteq Pos /\ bounds' = clip'
    <3>1. l .. r \subseteq Pos
      BY Basics DEF Pos
    <3> QED BY <2>2, <3>1 DEF SetBounds, IInv, ClipInv
  <2> QED BY <2>1, <2>2
<1> QED BY <1>1, <1>2 DEF IInv, Types, ClipInv, BufferInv, Buffered, LookInv, Look, Cached

-----------------------------------------------------------------------------

\* Every state of the plugin's drawing satisfies the invariant.
THEOREM Invariance == Spec => []IInv
<1>1. Init => IInv
  <2> SUFFICES ASSUME Init PROVE IInv
    OBVIOUS
  <2>1. /\ Clear \in Picture /\ Clear # None /\ Screen \notin Bitmaps
        /\ Screen \in Surfaces
    BY Basics DEF Surfaces
  <2>2. Types /\ ClipInv
    BY <2>1 DEF Init, Types, ClipInv, Maps
  <2>3. BufferInv
    <3>1. Buffered = {}
      BY <2>1 DEF Init, Buffered, Surfaces
    <3> QED BY <2>1, <3>1, FS_EmptySet DEF Init, BufferInv
  <2>4. LookInv
    BY <2>1 DEF Init, LookInv, Look, Cached, Surfaces
  <2> QED BY <2>2, <2>3, <2>4 DEF IInv
<1>2. IInv /\ [Next]_vars => IInv'
  <2> SUFFICES ASSUME IInv, [Next]_vars PROVE IInv'
    OBVIOUS
  <2>1. CASE UNCHANGED vars
    BY <2>1 DEF vars, IInv, Types, ClipInv, BufferInv, Buffered, LookInv, Look, Cached
  <2>2. CASE Next
    <3>1. Xs \subseteq Int /\ Pos \subseteq Int /\ 1 .. Width \subseteq Int
      BY Basics DEF Xs, Pos
    <3>2. ASSUME NEW b \in Bitmaps,
                 \/ \E img \in Images \union {None} : NewBitmap(b, img)
                 \/ FreeBitmap(b)
          PROVE  IInv'
      BY <3>2, NewBitmapKeeps, FreeBitmapKeeps
    <3>3. ASSUME NEW b \in Bitmaps, NEW x \in Xs, NEW w \in 1 .. Width, Paint(b, x, w)
          PROVE  IInv'
      BY <3>1, <3>3, PaintKeeps
    <3>4. ASSUME NEW b \in Bitmaps, NEW x \in Xs, NEW sx \in Pos,
                 NEW w \in 1 .. Width - sx, NEW rop \in Rops, MemBlt(b, x, w, rop, sx)
          PROVE  IInv'
      BY <3>1, <3>4, MemBltKeeps
    <3>5. ASSUME NEW s \in Surfaces, SetSurface(s) PROVE IInv'
      BY <3>5, SetSurfaceKeeps
    <3>6. ASSUME NEW x \in Xs, NEW w \in 1 .. Width,
                 NEW rop \in {0, 5, 10, 15}, DstBlt(x, w, rop)
          PROVE  IInv'
      BY <3>1, <3>6, DstBltKeeps
    <3>7. ASSUME NEW x \in Xs, NEW w \in 1 .. Width,
                 NEW sx \in 0 .. Width - w, ScrBlt(x, w, sx)
          PROVE  IInv'
      BY <3>1, <3>7, ScrBltKeeps
    <3>8. ASSUME NEW x \in Xs, NEW w \in 1 .. Width,
                 NEW c \in Colour, OpaqueRect(x, w, c)
          PROVE  IInv'
      BY <3>1, <3>8, OpaqueRectKeeps
    <3>9. ASSUME NEW x \in Xs, NEW w \in 1 .. Width,
                 NEW mask \in SUBSET (0 .. w - 1), NEW c \in Colour,
                 NEW back \in Colour \union {None}, Glyph(x, w, mask, c, back)
          PROVE  IInv'
      BY <3>1, <3>9, GlyphKeeps
    <3> QED BY <2>2, <3>2, <3>3, <3>4, <3>5, <3>6, <3>7, <3>8, <3>9, BoundsKeep DEF Next
  <2> QED BY <2>1, <2>2
<1> QED BY <1>1, <1>2, PTL DEF Spec

\* What is drawn, on the screen and on bitmaps, is what the server has, as long
\* as no order on a bitmap was drawn outside of its bounds.
THEOREM AlwaysFaithful == Spec => []Faithful
<1>1. IInv => Faithful
  <2> SUFFICES ASSUME IInv, ~outside
               PROVE  /\ Seen(Screen) = picture[Screen]
                      /\ \A b \in bitmaps : Usable(b) => Seen(b) = picture[b]
    BY DEF Faithful
  <2>1. Seen(Screen) = picture[Screen]
    BY CurrentThere, Looks DEF Seen
  <2>2. ASSUME NEW b \in bitmaps, Usable(b) PROVE Seen(b) = picture[b]
    BY <2>2, Looks DEF Usable, Seen, Cached, IInv, Types, Surfaces
  <2> QED BY <2>1, <2>2
<1> QED BY <1>1, Invariance, PTL

\* A bitmap has its buffer once, and gives it back when it is freed or replaced:
\* guac_rdp_cache_bitmap, guac_rdp_bitmap_setsurface and guac_rdp_bitmap_free.
THEOREM AlwaysBuffersOwned == Spec => []BuffersOwned
<1>1. IInv => BuffersOwned
  <2> SUFFICES ASSUME IInv PROVE BuffersOwned
    OBVIOUS
  <2>1. TypeOK
    BY DEF IInv, Types, TypeOK, Maps, Picture, Surfaces
  <2>2. Buffered = {b \in bitmaps : surface[b] # None}
    BY DEF IInv, Types, BufferInv, Buffered
  <2> QED BY <2>1, <2>2 DEF IInv, BufferInv, BuffersOwned
<1> QED BY <1>1, Invariance, PTL
=============================================================================
