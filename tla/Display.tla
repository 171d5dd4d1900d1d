------------------------------ MODULE Display -------------------------------
(***************************************************************************)
(* The display of a session: its surfaces, what the plugin's thread draws  *)
(* on them, and what its users see.  Each function of a surface holds the  *)
(* lock of the surface, so it is a step.  A drawing changes the picture of *)
(* the surface (buffer) at once and is sent later, with others, or as an   *)
(* instruction that the users apply to what they have.  A user that joins  *)
(* gets one surface after the other, and everything that is sent from the  *)
(* time on at which it is in the list of users.                            *)
(***************************************************************************)
EXTENDS Surface, FiniteSets

CONSTANTS
  Default,   \* the surface of the default layer
  Buffers,   \* the surfaces of buffers
  SizeOf,    \* the sizes of all surfaces: width and height
  Sizes,     \* the sizes that the default layer can be given later
  Requests,  \* the rectangles that drawings ask for
  Moves,     \* what transfers ask for: the rectangle, how far it goes, the
             \* function, which is "src", "and" or "xor"
  Spots,     \* the pixels that a drawing can change without the others
  Clips,     \* the clipping rectangles
  Opacity    \* whether what is drawn is opaque: TRUE, or both

Surfaces == {Default} \union Buffers

ASSUME DisplayAssumption ==
  /\ QueueSize \in Nat \ {0, 1} /\ BlockSize \in Nat /\ SupportsWebp \in BOOLEAN
  /\ Default \notin Buffers
  /\ SizeOf \in [Surfaces -> Nat \X Nat] /\ Sizes \subseteq Nat \X Nat
  /\ Requests \subseteq Rects /\ Clips \subseteq Rects /\ Opacity \subseteq BOOLEAN
  /\ \A move \in Moves :
       /\ move.rect \in Rects /\ move.dx \in Int /\ move.dy \in Int
       /\ move.op \in {"src", "and", "xor"}

\* All users that were listed before, and one that joins.
Views == {"users", "joiner"}

VARIABLES
  exists,      \* the default surface and the buffers in the display's list
  surface,     \* the surfaces
  wrong,       \* per view and surface: pixels of another colour than in buffer
  blackened,   \* history: surfaces with pixels that only a resize made opaque
  joining,     \* how far the user that joins is
  copied,      \* the surfaces it was sent
  missed       \* history: it was not sent something about one of these

joinVars == <<joining, copied>>
vars == <<exists, surface, wrong, blackened, joinVars, missed>>

New(s) == NewSurface(SizeOf[s][1], SizeOf[s][2], s = Default)

(* guac_common_display_alloc                                               *)
Init ==
  /\ exists = {Default}
  /\ surface = [s \in Surfaces |-> New(s)]
  /\ wrong = [v \in Views |-> [s \in Surfaces |-> {}]]
  /\ blackened = {}
  /\ joining = "away" /\ copied = {} /\ missed = FALSE

-----------------------------------------------------------------------------
(* What the users see.                                                     *)

Hears(v) == v = "users" \/ joining = "listed"

\* A surface that the user was not sent yet has nothing to be wrong.
Has(v, s) == Hears(v) \/ s \in copied \/ joining = "sent"

\* The pixels P of a surface are changed, and the users that hear of it have
\* After(v) wrong.
See(s, P, After(_)) ==
  wrong' = [v \in Views |-> [wrong[v] EXCEPT ![s] =
              IF Hears(v) THEN After(v) ELSE IF Has(v, s) THEN @ \union P ELSE {}]]

\* Something is sent about a surface.
Sent(s, something) ==
  missed' = (missed \/ (something /\ ~Hears("joiner") /\ Has("joiner", s)))

\* A drawing that differs from what was there in some of the pixels P.
Differences(P) == {P} \union {{p} : p \in P \cap Spots}

\* The rectangle around the pixels that were changed.
ChangedRect(P) ==
  IF P = {} THEN None
  ELSE LET Edge(i, S) == CHOOSE a \in {p[i] : p \in S} : \A q \in S : a <= q[i]
           Far(i, S)  == CHOOSE a \in {p[i] : p \in S} : \A q \in S : a >= q[i]
       IN Between(Edge(1, P), Edge(2, P), Far(1, P) + 1, Far(2, P) + 1)

\* __guac_common_surface_set and __guac_common_surface_transfer take a single
\* pixel for changed.
ChangedOrOne(r, P) == IF P = {} /\ Area(r) = 1 THEN r ELSE ChangedRect(P)

\* The update r is put off: it is combined with the dirty rectangle or that is
\* queued, after a flush if the queue is full.  d is the surface after the
\* pixels P were drawn.
PutOff(s, d, r, P) ==
  LET combine == ShouldCombine(d.dirty, r, FALSE)
      flush   == ~combine /\ d.dirty # None /\ IsFull(d)
  IN \E lossy \in BOOLEAN :
       LET sent == IF flush THEN Bitmaps(d, lossy) ELSE <<>>
           e    == IF combine THEN d ELSE IF flush THEN Flushed(d, sent) ELSE FlushToQueue(d)
       IN /\ lossy => flush
          /\ surface' = [surface EXCEPT ![s] = [e EXCEPT !.dirty = MarkDirty(@, r)]]
          /\ See(s, P, LAMBDA v : AfterFlush(d, wrong[v][s] \union P, sent))
          /\ Sent(s, flush)

-----------------------------------------------------------------------------
(* guac_common_surface_draw: an image with or without transparent pixels.  *)
Draw(s) ==
  /\ s \in exists
  /\ \E request \in Requests, opaque \in Opacity :
       LET r == ClipRect(surface[s], request)
           P == PixelsOf(r)
           clear == surface[s].clear
       IN /\ ~IsEmpty(r)
          /\ \E D \in Differences(P), translucent \in BOOLEAN :
               LET C == IF opaque THEN D \union (P \cap clear) ELSE D
                   left == IF translucent THEN clear ELSE clear \ C
               IN /\ translucent => ~opaque /\ D = P
                  /\ PutOff(s, [surface[s] EXCEPT !.clear = left], ChangedRect(C), C)
  /\ UNCHANGED <<exists, blackened, joinVars>>

(* guac_common_surface_paint: a colour through a mask.                     *)
Paint(s) ==
  /\ s \in exists
  /\ \E request \in Requests :
       LET r == ClipRect(surface[s], request)
           P == PixelsOf(r)
       IN /\ ~IsEmpty(r)
          /\ PutOff(s, [surface[s] EXCEPT !.clear = @ \ P], r, P)
  /\ UNCHANGED <<exists, blackened, joinVars>>

(* guac_common_surface_set: a rectangle of one colour.                     *)
SetColour(s) ==
  /\ s \in exists
  /\ \E request \in Requests, opaque \in Opacity, lossy \in BOOLEAN :
       LET r == ClipRect(surface[s], request)
           P == PixelsOf(r)
           clear == surface[s].clear
           d == [surface[s] EXCEPT !.clear = IF opaque THEN @ \ P ELSE @ \union P]
           flushed == Bitmaps(d, lossy)
       IN /\ ~IsEmpty(r)
          /\ \E D \in {P, {}} :
               LET C == D \union IF opaque THEN P \cap clear ELSE P \ clear
                   u == ChangedOrOne(r, C)
                   combine == ShouldCombine(d.dirty, u, TRUE)
                   sent == IF combine THEN <<>> ELSE flushed
               IN /\ ~IsEmpty(u)
                  /\ lossy => opaque /\ sent # <<>>
                  /\ IF ~opaque THEN PutOff(s, d, u, C)
                     ELSE /\ surface' = [surface EXCEPT ![s] =
                               IF combine THEN [d EXCEPT !.dirty = MarkDirty(@, u)]
                               ELSE [Flushed(d, sent) EXCEPT !.realized = TRUE]]
                          /\ See(s, C, LAMBDA v : AfterFlush(d, wrong[v][s] \union C, sent)
                               \ IF combine THEN {} ELSE PixelsOf(u))
                          /\ Sent(s, ~combine)
  /\ UNCHANGED <<exists, blackened, joinVars>>

-----------------------------------------------------------------------------
(* guac_common_surface_copy, guac_common_surface_transfer                  *)

\* Whether the result for a pixel is transparent, as the pixel and its source
\* are.
ResultClear(op, p, q) ==
  CASE op = "src" -> q
    [] op = "and" -> p \/ q
    [] op = "xor" -> p <=> q

\* src is flushed before the instruction is sent.
MutantSourceAsIs(src, dst, lossy) == <<>>
SourceBitmaps(src, dst, lossy) == Bitmaps(surface[src], lossy)

Transfer(src, dst) ==
  /\ {src, dst} \subseteq exists
  /\ \E move \in Moves, lossy \in BOOLEAN :
       LET op    == move.op
           from  == BoundRect(surface[src], move.rect)
           to    == ClipRect(surface[dst], [from EXCEPT !.x = @ + move.dx, !.y = @ + move.dy])
           P     == PixelsOf(to)
           Q(p)  == <<p[1] - move.dx, p[2] - move.dy>>
           clear == {p \in P : ResultClear(op, p \in surface[dst].clear, Q(p) \in surface[src].clear)}
           \* the picture of dst is changed first, or, within a surface, last
           d     == [surface[dst] EXCEPT !.clear = (@ \ P) \union clear]
           first == IF src = dst THEN surface[dst] ELSE d
           early == Bitmaps(first, lossy)
           late  == SourceBitmaps(src, dst, lossy)
           source == [v \in Views |-> AfterFlush(surface[src], wrong[v][src], late)]
           target == [v \in Views |-> AfterFlush(first, wrong[v][dst], early)]
           changed == {p \in P : (p \in clear) # (p \in surface[dst].clear)}
       IN /\ ~IsEmpty(from) /\ ~IsEmpty(to)
          /\ \E D \in IF src = dst THEN {P} ELSE Differences(P) \union {{}} :
               LET C == D \union changed
                   u == IF src = dst THEN to ELSE ChangedOrOne(to, C)
                   combine == ShouldCombine(d.dirty, u, TRUE)
                   \* the users compose a copy over what they have, and apply
                   \* other functions to it, again if it was sent just before
                   bad(v, p) == \/ Q(p) \in source[v]
                                \/ op = "src" /\ Q(p) \in surface[src].clear
                                \/ op # "src" /\ p \in target[v]
                                \/ op = "xor" /\ src # dst /\ p \in C \cap PixelsOfAll(early)
                   result(v) == (target[v] \ PixelsOf(u)) \union {p \in PixelsOf(u) : bad(v, p)}
               IN /\ ~IsEmpty(u)
                  /\ lossy => ~combine /\ early \o late # <<>>
                  /\ IF combine
                     THEN /\ surface' = [surface EXCEPT ![dst] = [d EXCEPT !.dirty = MarkDirty(@, u)]]
                          /\ See(dst, C, LAMBDA v : wrong[v][dst] \union C)
                          /\ UNCHANGED <<blackened, missed>>
                     ELSE /\ surface' = [surface EXCEPT
                               ![src] = Flushed(@, late),
                               ![dst] = [Flushed(d, early) EXCEPT !.realized = TRUE]]
                          /\ wrong' = [v \in Views |-> [wrong[v] EXCEPT
                               ![src] = IF Hears(v) THEN source[v] ELSE @,
                               ![dst] = IF Hears(v) THEN result(v)
                                        ELSE IF Has(v, dst) THEN @ \union C ELSE {}]]
                          /\ missed' = (missed \/ (~Hears("joiner") /\ \E s \in {src, dst} : Has("joiner", s)))
                          /\ blackened' = IF src \in blackened THEN blackened \union {dst} ELSE blackened
  /\ UNCHANGED <<exists, joinVars>>

-----------------------------------------------------------------------------
(* guac_common_surface_clip                                                *)
Clip(s) ==
  /\ s \in exists
  /\ \E request \in Clips :
       surface' = [surface EXCEPT ![s].clipped = TRUE, ![s].clip =
         Constrain(IF surface[s].clipped THEN @ ELSE Bounds(surface[s]), request)]
  /\ UNCHANGED <<exists, wrong, blackened, joinVars, missed>>

(* guac_common_surface_reset_clip                                          *)
ResetClip(s) ==
  /\ s \in exists
  /\ surface' = [surface EXCEPT ![s].clipped = FALSE, ![s].clip = None]
  /\ UNCHANGED <<exists, wrong, blackened, joinVars, missed>>

DirtyAfterResize(s, d) ==
  IF s.dirty = None \/ IsEmpty(BoundRect(d, s.dirty)) THEN None ELSE BoundRect(d, s.dirty)

(* guac_common_surface_resize: the pixels that stay are copied without     *)
(* their transparency.                                                     *)
Resize(s) ==
  /\ \E size \in Sizes :
       LET d    == [surface[s] EXCEPT !.width = size[1], !.height = size[2]]
           kept == PixelsOf(BoundRect(d, Bounds(surface[s])))
           dark == kept \cap surface[s].clear
       IN /\ size # <<surface[s].width, surface[s].height>>
          /\ surface' = [surface EXCEPT ![s] =
               [d EXCEPT !.clip = BoundRect(d, @), !.clear = PixelsOf(Bounds(d)) \ kept,
                         !.dirty = DirtyAfterResize(surface[s], d)]]
          /\ See(s, kept, LAMBDA v : (wrong[v][s] \cap kept) \union dark)
          /\ Sent(s, surface[s].realized)
          /\ blackened' = IF dark # {} THEN blackened \union {s} ELSE blackened
  /\ UNCHANGED <<exists, joinVars>>

(* guac_common_surface_flush                                               *)
Flush(s) ==
  /\ \E lossy \in BOOLEAN :
       LET sent == Bitmaps(surface[s], lossy)
       IN /\ lossy => sent # <<>>
          /\ surface' = [surface EXCEPT ![s] = Flushed(@, sent)]
          /\ See(s, {}, LAMBDA v : AfterFlush(surface[s], wrong[v][s], sent))
          /\ Sent(s, sent # <<>>)
  /\ UNCHANGED <<exists, blackened, joinVars>>

-----------------------------------------------------------------------------
(* The functions of a display hold its lock, and so does a whole dup.      *)
Unlocked == joining # "dup"

(* guac_common_display_alloc_buffer                                        *)
AllocBuffer(s) ==
  /\ Unlocked /\ s \notin exists
  /\ exists' = exists \union {s}
  /\ surface' = [surface EXCEPT ![s] = New(s)]
  /\ wrong' = [v \in Views |-> [wrong[v] EXCEPT ![s] = {}]]
  /\ UNCHANGED <<blackened, joinVars, missed>>

(* guac_common_display_free_buffer                                         *)
FreeBuffer(s) ==
  /\ Unlocked /\ s \in exists
  /\ exists' = exists \ {s}
  /\ surface' = [surface EXCEPT ![s] = New(s)]
  /\ wrong' = [v \in Views |-> [wrong[v] EXCEPT ![s] = {}]]
  /\ blackened' = blackened \ {s}
  /\ Sent(s, surface[s].realized)
  /\ UNCHANGED joinVars

(* guac_common_display_flush: there are no layers but the default one.     *)
FlushDisplay == Unlocked /\ Flush(Default)

\* Only the part of the picture that waits to be sent to the users is sent.
MutantDupsWaiting(s) == PixelsOf(Bounds(surface[s])) \ Waiting(surface[s])
WrongAfterDup(s) == IF surface[s].realized THEN {} ELSE wrong["users"][s]

(* guac_rdp_user_join_handler: a user that is not the owner is sent the    *)
(* display, the whole picture of one surface after the other ...           *)
Dup(s) ==
  /\ \/ joining = "away" /\ s = Default
     \/ joining = "dup" /\ s \in exists \ copied
  /\ IF copied \union {s} = exists
     THEN joining' = "sent" /\ copied' = {}
     ELSE joining' = "dup" /\ copied' = copied \union {s}
  /\ wrong' = [wrong EXCEPT !["joiner"][s] = WrongAfterDup(s)]
  /\ UNCHANGED <<exists, surface, blackened, missed>>

(* ... and then guac_client_add_user puts it into the list.                *)
Listed ==
  /\ joining = "sent"
  /\ joining' = "listed"
  /\ UNCHANGED <<exists, surface, wrong, blackened, copied, missed>>

Next ==
  \/ \E s \in Surfaces : Draw(s) \/ Paint(s) \/ SetColour(s)
  \/ Clip(Default) \/ ResetClip(Default)
  \/ \E src, dst \in Surfaces : Transfer(src, dst)
  \/ \E s \in Buffers : AllocBuffer(s) \/ FreeBuffer(s)
  \/ Resize(Default) \/ FlushDisplay
  \/ (\E s \in Surfaces : Dup(s)) \/ Listed

Spec == Init /\ [][Next]_vars

-----------------------------------------------------------------------------
\* The types of the variables.
TypeOK ==
  /\ exists \subseteq Surfaces /\ Default \in exists
  /\ \A s \in Surfaces : surface[s].clear \subseteq PixelsOf(Bounds(surface[s]))
  /\ \A s \in Surfaces : wrong["users"][s] \subseteq PixelsOf(Bounds(surface[s]))
  /\ blackened \subseteq exists /\ copied \subseteq exists
  /\ joining \in {"away", "dup", "sent", "listed"} /\ missed \in BOOLEAN

\* There is always room in the queue for the dirty rectangle, and that is
\* within the picture that it is taken from.
QueueFits == TypeOK /\ \A s \in exists :
  /\ Len(surface[s].queue) < QueueSize
  /\ PixelsOf(surface[s].dirty) \subseteq PixelsOf(Bounds(surface[s]))

\* Every opaque pixel of which a user has another colour waits to be sent.
Covered(v) == \A s \in exists \ blackened :
  wrong[v][s] \ surface[s].clear \subseteq Waiting(surface[s])

Shown == Covered("users")

\* So it is for a user that joined, if nothing was sent meanwhile.
JoinerShown == joining = "listed" /\ ~missed => Covered("joiner")
=============================================================================
