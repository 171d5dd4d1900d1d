---------------------------- MODULE DisplayProofs ---------------------------
(***************************************************************************)
(* Rectangles, the queue of a surface and the display, for pictures of any *)
(* size and queues of any length.                                          *)
(***************************************************************************)
EXTENDS Display, WellFoundedInduction, TLAPS

-----------------------------------------------------------------------------
(* Rectangles.                                                             *)

\* The pixels between corners, with no rectangle in the statement.
LEMMA PixelsBetween ==
  \A a, b, c, d \in Int : PixelsOf(Between(a, b, c, d)) = (a .. c - 1) \X (b .. d - 1)
  BY DEF Between, Rect, PixelsOf, Right, Bottom

\* A product grows with its factors.
LEMMA ProductGrows ==
  ASSUME NEW A, NEW B, NEW C, NEW D, A \subseteq C, B \subseteq D
  PROVE  A \X B \subseteq C \X D
  OBVIOUS

\* What is in both of two products.
LEMMA ProductMeets ==
  ASSUME NEW A, NEW B, NEW C, NEW D
  PROVE  (A \cap C) \X (B \cap D) = (A \X B) \cap (C \X D)
  OBVIOUS

\* The pixels of a rectangle, with its sides written out.
LEMMA PixelsAre ==
  ASSUME NEW r \in Rects
  PROVE  PixelsOf(r) = (r.x .. (r.x + r.width) - 1) \X (r.y .. (r.y + r.height) - 1)
  BY DEF PixelsOf, Right, Bottom

\* Extending the dirty rectangle by an update keeps the pixels of both: what
\* __guac_common_mark_dirty was told is sent.
THEOREM ExtendCovers ==
  ASSUME NEW r \in Rects, NEW min \in Rects
  PROVE  PixelsOf(r) \union PixelsOf(min) \subseteq PixelsOf(Extend(r, min))
<1> DEFINE left == Least(r.x, min.x)
           top == Least(r.y, min.y)
           right == Greatest(Right(r), Right(min))
           bottom == Greatest(Bottom(r), Bottom(min))
<1>1. /\ left \in Int /\ left <= r.x /\ left <= min.x
      /\ top \in Int /\ top <= r.y /\ top <= min.y
      /\ right \in Int /\ right >= r.x + r.width /\ right >= min.x + min.width
      /\ bottom \in Int /\ bottom >= r.y + r.height /\ bottom >= min.y + min.height
  BY DEF Rects, Least, Greatest, Right, Bottom
<1>2. PixelsOf(Extend(r, min)) = (left .. right - 1) \X (top .. bottom - 1)
  BY <1>1, PixelsBetween DEF Extend
<1> HIDE DEF left, top, right, bottom
<1>3. /\ r.x .. (r.x + r.width) - 1 \subseteq left .. right - 1
      /\ r.y .. (r.y + r.height) - 1 \subseteq top .. bottom - 1
      /\ min.x .. (min.x + min.width) - 1 \subseteq left .. right - 1
      /\ min.y .. (min.y + min.height) - 1 \subseteq top .. bottom - 1
  BY <1>1 DEF Rects
<1>4. PixelsOf(r) \subseteq PixelsOf(Extend(r, min))
  BY <1>2, <1>3, PixelsAre, ProductGrows
<1>5. PixelsOf(min) \subseteq PixelsOf(Extend(r, min))
  BY <1>2, <1>3, PixelsAre, ProductGrows
<1> QED BY <1>4, <1>5

\* A rectangle that was constrained has the pixels that it has within the
\* other one: drawing is confined to the picture, or to its clip.
THEOREM ConstrainIsCommon ==
  ASSUME NEW r \in Rects, NEW max \in Rects
  PROVE  PixelsOf(Constrain(r, max)) = PixelsOf(r) \cap PixelsOf(max)
<1> DEFINE left == Greatest(r.x, max.x)
           top == Greatest(r.y, max.y)
           right == Least(Right(r), Right(max))
           bottom == Least(Bottom(r), Bottom(max))
<1>1. /\ left \in Int /\ top \in Int /\ right \in Int /\ bottom \in Int
      /\ \A i \in Int : left <= i <=> r.x <= i /\ max.x <= i
      /\ \A i \in Int : top <= i <=> r.y <= i /\ max.y <= i
      /\ \A i \in Int : i <= right - 1 <=> i <= (r.x + r.width) - 1 /\ i <= (max.x + max.width) - 1
      /\ \A i \in Int : i <= bottom - 1 <=> i <= (r.y + r.height) - 1 /\ i <= (max.y + max.height) - 1
  BY DEF Rects, Least, Greatest, Right, Bottom
<1>2. PixelsOf(Constrain(r, max)) = (left .. right - 1) \X (top .. bottom - 1)
  BY <1>1, PixelsBetween DEF Constrain
<1> HIDE DEF left, top, right, bottom
<1>3. /\ left .. right - 1 = (r.x .. (r.x + r.width) - 1) \cap (max.x .. (max.x + max.width) - 1)
      /\ top .. bottom - 1 = (r.y .. (r.y + r.height) - 1) \cap (max.y .. (max.y + max.height) - 1)
  BY <1>1 DEF Rects
<1> QED BY <1>2, <1>3, PixelsAre, ProductMeets

\* A span within its limits keeps what it has when it grows, and stays there.
LEMMA SpanGrows ==
  ASSUME NEW cell \in Nat, cell > 1, NEW at \in Int, NEW len \in Int,
         NEW lo \in Int, NEW hi \in Int, lo <= at, at + len <= hi, len > 0
  PROVE  LET s == GrownSpan(cell, at, len, lo, hi)
         IN /\ s = <<s[1], s[2]>> /\ s[1] \in Int /\ s[2] \in Int
            /\ lo <= s[1] /\ s[1] <= at /\ at + len <= s[2] /\ s[2] <= hi
<1> DEFINE d == cell - (len % cell)
           half == d \div 2
           left == at - half
           right == left + len + d
<1>1. d \in Int /\ d >= 1
  BY DEF d
<1>2. half \in Int /\ half >= 0 /\ half <= d
  <2> HIDE DEF d
  <2> QED BY <1>1 DEF half
<1> HIDE DEF d, half
<1>3. CASE right > hi
  BY <1>1, <1>2, <1>3 DEF GrownSpan, Greatest, d, half
<1>4. CASE right <= hi /\ left < lo
  BY <1>1, <1>2, <1>4 DEF GrownSpan, Least, d, half
<1>5. CASE right <= hi /\ left >= lo
  BY <1>1, <1>2, <1>5 DEF GrownSpan, d, half
<1> QED BY <1>1, <1>2, <1>3, <1>4, <1>5

\* The bitmap that a lossy format makes of a dirty rectangle has all of its
\* pixels, and none that the picture does not have.
THEOREM GridCovers ==
  ASSUME NEW cell \in Nat, NEW r \in Rects, NEW max \in Rects,
         ~IsEmpty(r), PixelsOf(r) \subseteq PixelsOf(max)
  PROVE  /\ PixelsOf(r) \subseteq PixelsOf(ExpandToGrid(cell, r, max))
         /\ PixelsOf(ExpandToGrid(cell, r, max)) \subseteq PixelsOf(max)
         /\ ExpandToGrid(cell, r, max) \in Rects
<1>1. CASE cell <= 1
  BY <1>1 DEF ExpandToGrid
<1>2. CASE cell > 1
  <2>1. /\ max.x <= r.x /\ r.x + r.width <= max.x + max.width /\ r.width > 0
        /\ max.y <= r.y /\ r.y + r.height <= max.y + max.height /\ r.height > 0
    <3>1. r.width > 0 /\ r.height > 0
      BY DEF IsEmpty, Rects
    <3>2. /\ <<r.x, r.y>> \in PixelsOf(r)
          /\ <<(r.x + r.width) - 1, (r.y + r.height) - 1>> \in PixelsOf(r)
      BY <3>1, PixelsAre DEF Rects
    <3>3. /\ r.x \in max.x .. (max.x + max.width) - 1
          /\ r.y \in max.y .. (max.y + max.height) - 1
          /\ (r.x + r.width) - 1 \in max.x .. (max.x + max.width) - 1
          /\ (r.y + r.height) - 1 \in max.y .. (max.y + max.height) - 1
      BY <3>2, PixelsAre
    <3> QED BY <3>1, <3>3 DEF Rects
  <2> DEFINE h == GrownSpan(cell, r.x, r.width, max.x, Right(max))
             v == GrownSpan(cell, r.y, r.height, max.y, Bottom(max))
  <2>2. /\ Right(max) = max.x + max.width /\ Bottom(max) = max.y + max.height
        /\ r.x \in Int /\ r.width \in Int /\ max.x \in Int /\ max.width \in Int
        /\ r.y \in Int /\ r.height \in Int /\ max.y \in Int /\ max.height \in Int
    BY DEF Right, Bottom, Rects
  <2> HIDE DEF h, v
  <2>3. /\ h[1] \in Int /\ h[2] \in Int
        /\ max.x <= h[1] /\ h[1] <= r.x
        /\ r.x + r.width <= h[2] /\ h[2] <= max.x + max.width
    <3>1. cell \in Nat /\ cell > 1 /\ r.x + r.width <= Right(max) /\ Right(max) \in Int
      BY <1>2, <2>1, <2>2
    <3>2. LET s == GrownSpan(cell, r.x, r.width, max.x, Right(max))
          IN /\ s[1] \in Int /\ s[2] \in Int
             /\ max.x <= s[1] /\ s[1] <= r.x /\ r.x + r.width <= s[2] /\ s[2] <= Right(max)
      BY <2>1, <2>2, <3>1, SpanGrows
    <3> QED BY <2>2, <3>2 DEF h
  <2>4. /\ v[1] \in Int /\ v[2] \in Int
        /\ max.y <= v[1] /\ v[1] <= r.y
        /\ r.y + r.height <= v[2] /\ v[2] <= max.y + max.height
    <3>1. cell \in Nat /\ cell > 1 /\ r.y + r.height <= Bottom(max) /\ Bottom(max) \in Int
      BY <1>2, <2>1, <2>2
    <3>2. LET s == GrownSpan(cell, r.y, r.height, max.y, Bottom(max))
          IN /\ s[1] \in Int /\ s[2] \in Int
             /\ max.y <= s[1] /\ s[1] <= r.y /\ r.y + r.height <= s[2] /\ s[2] <= Bottom(max)
      BY <2>1, <2>2, <3>1, SpanGrows
    <3> QED BY <2>2, <3>2 DEF v
  <2>5. ExpandToGrid(cell, r, max) = Between(h[1], v[1], h[2], v[2])
    BY <1>2 DEF ExpandToGrid, h, v
  <2>6. PixelsOf(ExpandToGrid(cell, r, max)) = (h[1] .. h[2] - 1) \X (v[1] .. v[2] - 1)
    <3>1. h[1] \in Int /\ v[1] \in Int /\ h[2] \in Int /\ v[2] \in Int
      BY <2>3, <2>4
    <3>2. PixelsOf(Between(h[1], v[1], h[2], v[2])) = (h[1] .. h[2] - 1) \X (v[1] .. v[2] - 1)
      BY <3>1, PixelsBetween
    <3> QED BY <2>5, <3>2
  <2>7. /\ r.x .. (r.x + r.width) - 1 \subseteq h[1] .. h[2] - 1
        /\ r.y .. (r.y + r.height) - 1 \subseteq v[1] .. v[2] - 1
        /\ h[1] .. h[2] - 1 \subseteq max.x .. (max.x + max.width) - 1
        /\ v[1] .. v[2] - 1 \subseteq max.y .. (max.y + max.height) - 1
    BY <2>2, <2>3, <2>4
  <2>8. PixelsOf(r) \subseteq PixelsOf(ExpandToGrid(cell, r, max))
    BY <2>6, <2>7, PixelsAre, ProductGrows
  <2>9. PixelsOf(ExpandToGrid(cell, r, max)) \subseteq PixelsOf(max)
    BY <2>6, <2>7, PixelsAre, ProductGrows
  <2>10. ExpandToGrid(cell, r, max) \in Rects
    BY <2>3, <2>4, <2>5 DEF Between, Rect, Rects
  <2> QED BY <2>8, <2>9, <2>10
<1> QED BY <1>1, <1>2

-----------------------------------------------------------------------------
(* Least and greatest numbers.                                             *)

\* A set of natural numbers has a smallest one.
LEMMA SmallestNumber ==
  ASSUME NEW T \in SUBSET Nat, T # {}
  PROVE  \E x \in T : \A y \in T : x <= y
<1> DEFINE R == {p \in Nat \X Nat : p[1] < p[2]}
<1>1. OpToRel(<, Nat) = R
  BY DEF OpToRel
<1>2. IsWellFoundedOn(R, Nat)
  BY <1>1, NatLessThanWellFounded, Zenon
<1>3. PICK x \in T : \A y \in T : ~ (<<y, x>> \in R)
  <2> HIDE DEF R
  <2> QED BY <1>2, WFMin
<1>4. \A y \in T : ~ (y < x)
  BY <1>3
<1> QED
  BY <1>4

\* So has a set of integers with a bound below, and a bound above gives a
\* greatest one.
LEMMA BoundedHasEdges ==
  ASSUME NEW S \in SUBSET Int, S # {}, NEW lo \in Int, NEW hi \in Int,
         \A x \in S : lo <= x /\ x <= hi
  PROVE  /\ \E a \in S : \A x \in S : a <= x
         /\ \E a \in S : \A x \in S : a >= x
<1>1. \E a \in S : \A x \in S : a <= x
  <2> DEFINE T == {d \in Nat : lo + d \in S}
  <2>1. \A x \in S : x \in Int /\ x - lo \in T
    OBVIOUS
  <2>2. PICK t \in T : \A y \in T : t <= y
    <3> T \in SUBSET Nat /\ T # {}
      BY <2>1
    <3> HIDE DEF T
    <3> QED BY SmallestNumber
  <2>3. \A x \in S : t <= x - lo
    BY <2>1, <2>2
  <2>4. lo + t \in S /\ \A x \in S : lo + t <= x
    BY <2>1, <2>3
  <2> QED BY <2>4
<1>2. \E a \in S : \A x \in S : a >= x
  <2> DEFINE T == {d \in Nat : hi - d \in S}
  <2>1. \A x \in S : x \in Int /\ hi - x \in T
    OBVIOUS
  <2>2. PICK t \in T : \A y \in T : t <= y
    <3> T \in SUBSET Nat /\ T # {}
      BY <2>1
    <3> HIDE DEF T
    <3> QED BY SmallestNumber
  <2>3. \A x \in S : t <= hi - x
    BY <2>1, <2>2
  <2>4. hi - t \in S /\ \A x \in S : hi - t >= x
    BY <2>1, <2>3
  <2> QED BY <2>4
<1> QED BY <1>1, <1>2

-----------------------------------------------------------------------------
(* The order of the queue.                                                 *)

NotAfter(a, b) == a = b \/ Before(a, b)

LEMMA BeforeOrders ==
  ASSUME NEW a \in Rects, NEW b \in Rects, NEW c \in Rects
  PROVE  /\ NotAfter(a, b) \/ NotAfter(b, a)
         /\ NotAfter(a, b) /\ NotAfter(b, c) => NotAfter(a, c)
<1>1. NotAfter(a, b) \/ NotAfter(b, a)
  BY DEF NotAfter, Before, Rects
<1>2. NotAfter(a, b) /\ NotAfter(b, c) => NotAfter(a, c)
  BY DEF NotAfter, Before, Rects
<1> QED BY <1>1, <1>2

IsFirst(q, k, l, m) == \A j \in k .. l : NotAfter(q[m], q[j])

\* Of some rectangles one can be the first.
LEMMA FirstExists ==
  ASSUME NEW n \in Nat, NEW q \in [1 .. n -> Rects], NEW k \in 1 .. n
  PROVE  \E m \in k .. n : IsFirst(q, k, n, m)
<1> DEFINE T == {l \in Nat : l \in k .. n /\ ~ \E m \in k .. l : IsFirst(q, k, l, m)}
<1>1. SUFFICES ASSUME T # {} PROVE FALSE
  <2>1. n \in Nat /\ n \in k .. n
    OBVIOUS
  <2> QED BY <2>1
<1>2. PICK l \in T : \A y \in T : l <= y
  <2> T \in SUBSET Nat
    OBVIOUS
  <2> HIDE DEF T
  <2> QED BY <1>1, SmallestNumber
<1>3. l # k
  <2>1. IsFirst(q, k, k, k)
    BY DEF IsFirst, NotAfter
  <2> QED BY <2>1
<1>4. l - 1 \in k .. n /\ l - 1 \notin T
  BY <1>2, <1>3
<1>5. PICK m \in k .. l - 1 : IsFirst(q, k, l - 1, m)
  BY <1>4
<1>6. /\ m \in 1 .. n /\ l \in 1 .. n /\ \A j \in k .. l - 1 : j \in 1 .. n
      /\ \A j \in k .. l : j \in k .. l - 1 \/ j = l
  BY <1>4
<1>7. CASE NotAfter(q[m], q[l])
  <2>1. IsFirst(q, k, l, m)
    BY <1>5, <1>6, <1>7 DEF IsFirst
  <2> QED BY <1>4, <2>1
<1>8. CASE NotAfter(q[l], q[m])
  <2>1. \A j \in k .. l - 1 : NotAfter(q[l], q[j])
    BY <1>5, <1>6, <1>8, BeforeOrders DEF IsFirst
  <2>2. IsFirst(q, k, l, l)
    BY <1>6, <2>1 DEF IsFirst, NotAfter
  <2> QED BY <1>4, <2>2
<1> QED BY <1>6, <1>7, <1>8, BeforeOrders

\* p is an order of the n places in which the first k are right.
InOrder(n, q, k, p) ==
  /\ \A v \in 1 .. n : \E i \in 1 .. n : p[i] = v
  /\ \A i, j \in 1 .. n : i <= k /\ i < j => NotAfter(q[p[i]], q[p[j]])

\* One more is right when the first one of the rest is put there.
LEMMA OrderGrows ==
  ASSUME NEW n \in Nat, NEW q \in [1 .. n -> Rects], NEW k \in 1 .. n,
         NEW p \in [1 .. n -> 1 .. n], InOrder(n, q, k - 1, p)
  PROVE  \E s \in [1 .. n -> 1 .. n] : InOrder(n, q, k, s)
<1> DEFINE r == [i \in 1 .. n |-> q[p[i]]]
<1>1. PICK m \in k .. n : IsFirst(r, k, n, m)
  <2> r \in [1 .. n -> Rects]
    OBVIOUS
  <2> HIDE DEF r
  <2> QED BY FirstExists
<1>2. m \in 1 .. n /\ \A j \in k .. n : j \in 1 .. n /\ NotAfter(q[p[m]], q[p[j]])
  <2>1. \A j \in k .. n : j \in 1 .. n /\ r[j] = q[p[j]]
    OBVIOUS
  <2> HIDE DEF r
  <2> QED BY <1>1, <2>1 DEF IsFirst
<1> DEFINE s == [i \in 1 .. n |-> IF i = k THEN p[m] ELSE IF i = m THEN p[k] ELSE p[i]]
<1>3. s \in [1 .. n -> 1 .. n]
  BY <1>2
<1>4. /\ s[k] = p[m] /\ s[m] = p[k] /\ \A i \in (1 .. n) \ {k, m} : s[i] = p[i]
  BY <1>2
<1> HIDE DEF s, r
<1>5. ASSUME NEW v \in 1 .. n PROVE \E i \in 1 .. n : s[i] = v
  <2>1. PICK i \in 1 .. n : p[i] = v
    BY DEF InOrder
  <2> QED BY <1>2, <1>4, <2>1
<1>6. ASSUME NEW i \in 1 .. n, NEW j \in 1 .. n, i <= k, i < j
      PROVE  NotAfter(q[s[i]], q[s[j]])
  <2>1. CASE i < k
    <3>1. s[i] = p[i] /\ i <= k - 1 /\ i < m
      BY <1>1, <1>4, <2>1
    <3>2. PICK l \in 1 .. n : i < l /\ s[j] = p[l]
      BY <1>2, <1>4, <1>6, <2>1, <3>1
    <3> QED BY <3>1, <3>2 DEF InOrder
  <2>2. CASE i = k
    <3>1. CASE j = m
      <4>1. s[i] = p[m] /\ s[j] = p[k] /\ k \in k .. n
        BY <1>4, <2>2, <3>1
      <4>2. NotAfter(q[p[m]], q[p[k]])
        BY <1>2, <4>1, Zenon
      <4> QED BY <4>1, <4>2
    <3>2. CASE j # m
      <4>1. s[j] = p[j] /\ j \in k .. n
        BY <1>4, <1>6, <2>2, <3>2
      <4> QED BY <1>2, <1>4, <2>2, <4>1
    <3> QED BY <3>1, <3>2
  <2> QED BY <1>6, <2>1, <2>2
<1>7. InOrder(n, q, k, s)
  BY <1>5, <1>6 DEF InOrder
<1> QED BY <1>3, <1>7

\* A queue can be sorted: its places can be taken in an order in which no
\* rectangle is after a later one.
LEMMA OrderExists ==
  ASSUME NEW n \in Nat, NEW q \in [1 .. n -> Rects]
  PROVE  \E p \in [1 .. n -> 1 .. n] :
           /\ {p[i] : i \in 1 .. n} = 1 .. n
           /\ \A i, j \in 1 .. n : i < j => NotAfter(q[p[i]], q[p[j]])
<1> DEFINE Some(k) == \E p \in [1 .. n -> 1 .. n] : InOrder(n, q, k, p)
           T == {k \in Nat : k <= n /\ ~ Some(k)}
<1>1. SUFFICES ASSUME T # {} PROVE FALSE
  <2>1. Some(n)
    <3> HIDE DEF Some
    <3> QED BY <1>1
  <2>2. PICK p \in [1 .. n -> 1 .. n] : InOrder(n, q, n, p)
    BY <2>1
  <2> HIDE DEF T
  <2>3. {p[i] : i \in 1 .. n} = 1 .. n
    BY <2>2 DEF InOrder
  <2>4. ASSUME NEW i \in 1 .. n, NEW j \in 1 .. n, i < j
        PROVE  NotAfter(q[p[i]], q[p[j]])
    <3>1. i <= n
      OBVIOUS
    <3> QED BY <2>2, <2>4, <3>1 DEF InOrder
  <2> QED BY <2>3, <2>4
<1>2. PICK k \in T : \A y \in T : k <= y
  <2> T \in SUBSET Nat
    OBVIOUS
  <2> HIDE DEF T
  <2> QED BY <1>1, SmallestNumber
<1>3. k # 0
  <2> DEFINE id == [i \in 1 .. n |-> i]
  <2>1. id \in [1 .. n -> 1 .. n] /\ InOrder(n, q, 0, id)
    BY DEF InOrder
  <2> HIDE DEF id
  <2> QED BY <2>1
<1>4. k \in 1 .. n /\ Some(k - 1)
  <2> HIDE DEF Some
  <2>1. k \in 1 .. n /\ k - 1 \in Nat /\ k - 1 <= n /\ ~ (k <= k - 1)
    BY <1>3
  <2> QED BY <1>2, <2>1
<1>5. PICK p \in [1 .. n -> 1 .. n] : InOrder(n, q, k - 1, p)
  BY <1>4
<1>6. Some(k)
  BY <1>4, <1>5, OrderGrows
<1> HIDE DEF Some
<1> QED BY <1>6

\* Sorting loses no rectangle and brings none in.
LEMMA SortedIs ==
  ASSUME NEW queue \in Seq(Rects)
  PROVE  /\ Sorted(queue) \in Seq(Rects) /\ Len(Sorted(queue)) = Len(queue)
         /\ \A i \in 1 .. Len(queue) : \E j \in 1 .. Len(queue) : Sorted(queue)[j] = queue[i]
<1> DEFINE n == Len(queue)
           Order(p) == /\ {p[i] : i \in 1 .. n} = 1 .. n
                       /\ \A i, j \in 1 .. n : i < j =>
                            queue[p[i]] = queue[p[j]] \/ Before(queue[p[i]], queue[p[j]])
           order == CHOOSE p \in [1 .. n -> 1 .. n] : Order(p)
<1>1. n \in Nat /\ queue \in [1 .. n -> Rects]
  OBVIOUS
<1>2. \E p \in [1 .. n -> 1 .. n] : Order(p)
  <2> HIDE DEF n
  <2> QED BY <1>1, OrderExists DEF NotAfter
<1>3. order \in [1 .. n -> 1 .. n] /\ Order(order)
  <2> HIDE DEF Order
  <2> QED BY <1>2
<1>4. Sorted(queue) = [i \in 1 .. n |-> queue[order[i]]]
  BY DEF Sorted
<1> HIDE DEF order
<1>5. Sorted(queue) \in Seq(Rects) /\ Len(Sorted(queue)) = n
  <2> HIDE DEF Order, n
  <2> QED BY <1>1, <1>3, <1>4
<1>6. ASSUME NEW i \in 1 .. n PROVE \E j \in 1 .. n : Sorted(queue)[j] = queue[i]
  <2>1. PICK j \in 1 .. n : order[j] = i
    BY <1>3
  <2> QED BY <1>4, <2>1
<1> QED BY <1>5, <1>6

-----------------------------------------------------------------------------
(* Updates are within the picture.                                         *)

SurfaceType ==
  [ width : Nat, height : Nat, clear : SUBSET (Int \X Int), dirty : Rects,
    queue : Seq(Rects), clip : Rects, clipped : BOOLEAN, realized : BOOLEAN ]

Within(s, r) == r \in Rects /\ PixelsOf(r) \subseteq PixelsOf(Bounds(s))
DirtyWithin(s, r) == r = None \/ (~IsEmpty(r) /\ Within(s, r))

LEMMA BoundsAreRects ==
  ASSUME NEW s \in SurfaceType
  PROVE  Bounds(s) \in Rects /\ None \in Rects /\ IsEmpty(None)
  BY DEF SurfaceType, Bounds, None, Rect, Rects, IsEmpty

LEMMA EmptyHasNone ==
  ASSUME NEW r \in Rects, IsEmpty(r) PROVE PixelsOf(r) = {}
<1>1. CASE r.width <= 0
  <2>1. r.x .. Right(r) - 1 = {}
    BY <1>1 DEF Right, Rects
  <2> QED BY <2>1 DEF PixelsOf
<1>2. CASE r.height <= 0
  <2>1. r.y .. Bottom(r) - 1 = {}
    BY <1>2 DEF Bottom, Rects
  <2> QED BY <2>1 DEF PixelsOf
<1> QED BY <1>1, <1>2 DEF IsEmpty

\* A rectangle that is not empty is within another one if its sides are.
LEMMA WithinSides ==
  ASSUME NEW r \in Rects, NEW max \in Rects, ~IsEmpty(r)
  PROVE  PixelsOf(r) \subseteq PixelsOf(max) <=>
           /\ max.x <= r.x /\ r.x + r.width <= max.x + max.width
           /\ max.y <= r.y /\ r.y + r.height <= max.y + max.height
<1>1. r.width > 0 /\ r.height > 0
  BY DEF IsEmpty, Rects
<1>2. ASSUME PixelsOf(r) \subseteq PixelsOf(max)
      PROVE  /\ max.x <= r.x /\ r.x + r.width <= max.x + max.width
             /\ max.y <= r.y /\ r.y + r.height <= max.y + max.height
  <2>1. /\ <<r.x, r.y>> \in PixelsOf(r)
        /\ <<(r.x + r.width) - 1, (r.y + r.height) - 1>> \in PixelsOf(r)
    BY <1>1, PixelsAre DEF Rects
  <2>2. /\ r.x \in max.x .. (max.x + max.width) - 1
        /\ r.y \in max.y .. (max.y + max.height) - 1
        /\ (r.x + r.width) - 1 \in max.x .. (max.x + max.width) - 1
        /\ (r.y + r.height) - 1 \in max.y .. (max.y + max.height) - 1
    BY <1>2, <2>1, PixelsAre
  <2> QED BY <1>1, <2>2 DEF Rects
<1>3. ASSUME /\ max.x <= r.x /\ r.x + r.width <= max.x + max.width
             /\ max.y <= r.y /\ r.y + r.height <= max.y + max.height
      PROVE  PixelsOf(r) \subseteq PixelsOf(max)
  <2>1. /\ r.x .. (r.x + r.width) - 1 \subseteq max.x .. (max.x + max.width) - 1
        /\ r.y .. (r.y + r.height) - 1 \subseteq max.y .. (max.y + max.height) - 1
    BY <1>3 DEF Rects
  <2> QED BY <2>1, PixelsAre, ProductGrows
<1> QED BY <1>2, <1>3

LEMMA ExtendWithin ==
  ASSUME NEW r \in Rects, NEW min \in Rects, NEW max \in Rects,
         ~IsEmpty(r), ~IsEmpty(min),
         PixelsOf(r) \subseteq PixelsOf(max), PixelsOf(min) \subseteq PixelsOf(max)
  PROVE  /\ Extend(r, min) \in Rects /\ ~IsEmpty(Extend(r, min))
         /\ PixelsOf(Extend(r, min)) \subseteq PixelsOf(max)
<1>1. /\ max.x <= r.x /\ r.x + r.width <= max.x + max.width
      /\ max.y <= r.y /\ r.y + r.height <= max.y + max.height
      /\ max.x <= min.x /\ min.x + min.width <= max.x + max.width
      /\ max.y <= min.y /\ min.y + min.height <= max.y + max.height
  BY WithinSides
<1>2. r.width > 0 /\ r.height > 0 /\ min.width > 0 /\ min.height > 0
  BY DEF IsEmpty, Rects
<1> DEFINE e == Extend(r, min)
<1>3. /\ e \in Rects
      /\ e.x = Least(r.x, min.x) /\ e.y = Least(r.y, min.y)
      /\ e.x + e.width = Greatest(r.x + r.width, min.x + min.width)
      /\ e.y + e.height = Greatest(r.y + r.height, min.y + min.height)
  BY DEF Extend, Between, Rect, Rects, Least, Greatest, Right, Bottom
<1> HIDE DEF e
<1>4. /\ max.x <= e.x /\ e.x + e.width <= max.x + max.width
      /\ max.y <= e.y /\ e.y + e.height <= max.y + max.height
      /\ e.width > 0 /\ e.height > 0
  BY <1>1, <1>2, <1>3 DEF Least, Greatest, Rects
<1>5. ~IsEmpty(e)
  BY <1>3, <1>4 DEF IsEmpty, Rects
<1>6. PixelsOf(e) \subseteq PixelsOf(max)
  BY <1>3, <1>4, <1>5, WithinSides
<1> QED BY <1>3, <1>5, <1>6 DEF e

\* Marking keeps the dirty rectangle within the picture, and it has the pixels
\* that it had and those that are marked.
LEMMA MarkDirtyKeeps ==
  ASSUME NEW s \in SurfaceType, NEW dirty, DirtyWithin(s, dirty),
         NEW r, Within(s, r)
  PROVE  /\ DirtyWithin(s, MarkDirty(dirty, r)) /\ MarkDirty(dirty, r) \in Rects
         /\ PixelsOf(dirty) \union PixelsOf(r) \subseteq PixelsOf(MarkDirty(dirty, r))
<1>1. None \in Rects /\ IsEmpty(None) /\ PixelsOf(None) = {} /\ Bounds(s) \in Rects
      /\ dirty \in Rects /\ r \in Rects
  BY BoundsAreRects, EmptyHasNone DEF DirtyWithin, Within
<1>2. CASE IsEmpty(r)
  BY <1>1, <1>2, EmptyHasNone DEF MarkDirty
<1>3. CASE ~IsEmpty(r) /\ dirty = None
  BY <1>1, <1>3 DEF MarkDirty, DirtyWithin
<1>4. CASE ~IsEmpty(r) /\ dirty # None
  <2>1. MarkDirty(dirty, r) = Extend(dirty, r)
    BY <1>4 DEF MarkDirty
  <2>2. ~IsEmpty(dirty) /\ Within(s, dirty)
    BY <1>4 DEF DirtyWithin
  <2>3. /\ Extend(dirty, r) \in Rects /\ ~IsEmpty(Extend(dirty, r))
        /\ PixelsOf(Extend(dirty, r)) \subseteq PixelsOf(Bounds(s))
    BY <1>1, <1>4, <2>2, ExtendWithin DEF Within
  <2> QED BY <1>1, <2>1, <2>3, ExtendCovers DEF DirtyWithin, Within
<1> QED BY <1>2, <1>3, <1>4

LEMMA ConstrainIsRect ==
  ASSUME NEW r \in Rects, NEW max \in Rects PROVE Constrain(r, max) \in Rects
  BY DEF Constrain, Between, Rect, Rects, Least, Greatest, Right, Bottom

LEMMA BoundIsCommon ==
  ASSUME NEW s \in SurfaceType, NEW r \in Rects
  PROVE  /\ Within(s, BoundRect(s, r))
         /\ PixelsOf(BoundRect(s, r)) = PixelsOf(r) \cap PixelsOf(Bounds(s))
  BY BoundsAreRects, ConstrainIsRect, ConstrainIsCommon DEF BoundRect, Within

\* The rectangle around the pixels that were changed has them, and none that is
\* not within the rectangle that was drawn.
LEMMA ChangedIsWithin ==
  ASSUME NEW r \in Rects, NEW P, P \subseteq PixelsOf(r)
  PROVE  /\ ChangedRect(P) \in Rects
         /\ P \subseteq PixelsOf(ChangedRect(P))
         /\ PixelsOf(ChangedRect(P)) \subseteq PixelsOf(r)
<1>1. CASE P = {}
  <2>1. ChangedRect(P) = None
    BY <1>1 DEF ChangedRect
  <2>2. None \in Rects /\ IsEmpty(None)
    BY DEF None, Rect, Rects, IsEmpty
  <2> QED BY <1>1, <2>1, <2>2, EmptyHasNone
<1>2. CASE P # {}
  <2> DEFINE X == {p[1] : p \in P}
             Y == {p[2] : p \in P}
             left == CHOOSE a \in X : \A q \in P : a <= q[1]
             top == CHOOSE a \in Y : \A q \in P : a <= q[2]
             right == CHOOSE a \in X : \A q \in P : a >= q[1]
             bottom == CHOOSE a \in Y : \A q \in P : a >= q[2]
  <2>1. \A p \in P : /\ p = <<p[1], p[2]>>
                     /\ p[1] \in r.x .. (r.x + r.width) - 1
                     /\ p[2] \in r.y .. (r.y + r.height) - 1
    BY PixelsAre
  <2>2. /\ \A a \in X : a \in Int /\ r.x <= a /\ a <= (r.x + r.width) - 1
        /\ \A a \in Y : a \in Int /\ r.y <= a /\ a <= (r.y + r.height) - 1
        /\ X # {} /\ Y # {}
    BY <1>2, <2>1 DEF Rects
  <2>3. /\ \E a \in X : \A x \in X : a <= x
        /\ \E a \in X : \A x \in X : a >= x
    <3> HIDE DEF X
    <3>1. r.x \in Int /\ (r.x + r.width) - 1 \in Int
      BY DEF Rects
    <3> QED BY <2>2, <3>1, BoundedHasEdges
  <2>4. /\ \E a \in Y : \A y \in Y : a <= y
        /\ \E a \in Y : \A y \in Y : a >= y
    <3> HIDE DEF Y
    <3>1. r.y \in Int /\ (r.y + r.height) - 1 \in Int
      BY DEF Rects
    <3> QED BY <2>2, <3>1, BoundedHasEdges
  <2>5. \A q \in P : q[1] \in X /\ q[2] \in Y
    OBVIOUS
  <2> HIDE DEF X, Y
  <2>6. left \in X /\ \A q \in P : left <= q[1]
    <3>1. \E a \in X : \A q \in P : a <= q[1]
      BY <2>3, <2>5
    <3> QED BY <3>1
  <2>7. top \in Y /\ \A q \in P : top <= q[2]
    <3>1. \E a \in Y : \A q \in P : a <= q[2]
      BY <2>4, <2>5
    <3> QED BY <3>1
  <2>8. right \in X /\ \A q \in P : right >= q[1]
    <3>1. \E a \in X : \A q \in P : a >= q[1]
      BY <2>3, <2>5
    <3> QED BY <3>1
  <2>9. bottom \in Y /\ \A q \in P : bottom >= q[2]
    <3>1. \E a \in Y : \A q \in P : a >= q[2]
      BY <2>4, <2>5
    <3> QED BY <3>1
  <2>10. ChangedRect(P) = Between(left, top, right + 1, bottom + 1)
    BY <1>2 DEF ChangedRect, X, Y
  <2> HIDE DEF left, top, right, bottom
  <2>11. ChangedRect(P) \in Rects
    BY <2>2, <2>6, <2>7, <2>8, <2>9, <2>10 DEF Between, Rect, Rects
  <2>12. PixelsOf(ChangedRect(P)) = (left .. right) \X (top .. bottom)
    <3>1. /\ left \in Int /\ top \in Int /\ right + 1 \in Int /\ bottom + 1 \in Int
          /\ (right + 1) - 1 = right /\ (bottom + 1) - 1 = bottom
      BY <2>2, <2>6, <2>7, <2>8, <2>9
    <3>2. PixelsOf(Between(left, top, right + 1, bottom + 1))
            = (left .. (right + 1) - 1) \X (top .. (bottom + 1) - 1)
      BY <3>1, PixelsBetween
    <3> QED BY <2>10, <3>1, <3>2
  <2>13. P \subseteq PixelsOf(ChangedRect(P))
    <3>1. \A p \in P : p[1] \in left .. right /\ p[2] \in top .. bottom
      BY <2>1, <2>2, <2>6, <2>7, <2>8, <2>9 DEF Rects
    <3> QED BY <2>1, <2>12, <3>1
  <2>14. PixelsOf(ChangedRect(P)) \subseteq PixelsOf(r)
    <3>1. /\ left .. right \subseteq r.x .. (r.x + r.width) - 1
          /\ top .. bottom \subseteq r.y .. (r.y + r.height) - 1
      BY <2>2, <2>6, <2>7, <2>8, <2>9 DEF Rects
    <3> QED BY <2>12, <3>1, PixelsAre, ProductGrows
  <2> QED BY <2>11, <2>13, <2>14
<1> QED BY <1>1, <1>2

-----------------------------------------------------------------------------
(* What a flush joins.                                                     *)

BitmapType == [rect : Rects, format : {"opaque", "over", "exact"}]

\* What is known while a flush goes through the queue.
PassType ==
  [ queue : Seq(Rects), done : SUBSET Nat, dirty : Rects, combined : Nat,
    sent : Seq(BitmapType) ]

\* A step of Gather.
VisitStep(s, j, g) ==
  LET r == BoundRect(s, g.queue[j])
  IN IF j \in g.done THEN g
     ELSE IF IsEmpty(r) THEN [g EXCEPT !.queue[j] = r, !.done = @ \union {j}]
     ELSE IF ShouldCombine(g.dirty, r, FALSE) \/ g.dirty = None
     THEN [g EXCEPT !.queue[j] = r, !.done = @ \union {j},
                    !.dirty = MarkDirty(@, r), !.combined = @ + 1]
     ELSE [g EXCEPT !.queue[j] = r]

\* h has what there is before the first step and after each of them.
Gathers(s, f, i, h) ==
  /\ h[i - 1] = [f EXCEPT !.combined = 0]
  /\ \A j \in i .. Len(f.queue) : h[j] = VisitStep(s, j, h[j - 1])
  /\ Gather(s, f, i) = h[Len(f.queue)]

\* The recursive definition takes these steps.
LEMMA GatherIs ==
  ASSUME NEW s, NEW f, Len(f.queue) \in Nat, NEW i \in 1 .. Len(f.queue)
  PROVE  \E h : Gathers(s, f, i, h)
<1> DEFINE a == i - 1
           base == [f EXCEPT !.combined = 0]
           F(k, h) == h = [j \in a .. k |-> IF j = a THEN base ELSE VisitStep(s, j, h[j - 1])]
           T == {d \in Nat : ~ \E h : F(a + d, h)}
<1>0. a \in Nat
  OBVIOUS
<1> HIDE DEF base, a
<1>1. T = {}
  <2>1. SUFFICES ASSUME T # {} PROVE FALSE
    OBVIOUS
  <2>2. PICK d \in T : \A y \in T : d <= y
    <3> T \in SUBSET Nat
      OBVIOUS
    <3> HIDE DEF T
    <3> QED BY <2>1, SmallestNumber
  <2>3. d # 0
    <3>1. F(a + 0, [j \in a .. a |-> base])
      BY <1>0
    <3> QED BY <3>1
  <2>4. d - 1 \in Nat /\ d - 1 \notin T
    <3> HIDE DEF F
    <3>1. d - 1 \in Nat /\ ~ (d <= d - 1)
      BY <2>3
    <3> QED BY <2>2, <3>1
  <2>5. PICK h : F(a + (d - 1), h)
    <3> HIDE DEF F
    <3> QED BY <2>4
  <2> DEFINE k == a + d
             g == [j \in a .. k |-> IF j < k THEN h[j] ELSE VisitStep(s, j, h[j - 1])]
  <2>6. k \in Nat /\ k - 1 \in Nat /\ a + (d - 1) = k - 1 /\ a <= k - 1
    BY <1>0, <2>3
  <2>7. h = [j \in a .. k - 1 |-> IF j = a THEN base ELSE VisitStep(s, j, h[j - 1])]
    BY <2>5, <2>6
  <2> HIDE DEF k
  <2>8. ASSUME NEW j \in a .. k
        PROVE  g[j] = IF j = a THEN base ELSE VisitStep(s, j, g[j - 1])
    <3>1. CASE j = a
      BY <1>0, <2>6, <2>7, <3>1
    <3>2. CASE j # a
      <4>1. g[j - 1] = h[j - 1] /\ g[j] = IF j < k THEN h[j] ELSE VisitStep(s, j, h[j - 1])
        BY <1>0, <2>6, <3>2
      <4>2. j < k => h[j] = VisitStep(s, j, h[j - 1])
        BY <1>0, <2>6, <2>7, <3>2
      <4> HIDE DEF g
      <4> QED BY <3>2, <4>1, <4>2
    <3> QED BY <3>1, <3>2
  <2>9. g = [j \in a .. k |-> g[j]]
    OBVIOUS
  <2>10. F(k, g)
    <3> HIDE DEF g
    <3> QED BY <2>8, <2>9, Zenon
  <2> HIDE DEF F, g
  <2> QED BY <2>10 DEF k
<1> DEFINE L == Len(f.queue)
           P(h) == h = [j \in i - 1 .. L |->
             IF j = i - 1 THEN [f EXCEPT !.combined = 0] ELSE VisitStep(s, j, h[j - 1])]
           V == CHOOSE h : P(h)
<1>2. Gather(s, f, i) = V[L]
  BY Zenon DEF Gather, VisitStep
<1>3. \E h : F(L, h)
  <2> HIDE DEF F
  <2>1. L - a \in Nat /\ a + (L - a) = L
    BY <1>0 DEF a
  <2> QED BY <1>1, <2>1
<1>4. P(V)
  <2>1. \E h : P(h)
    BY <1>3 DEF a, base
  <2> HIDE DEF P
  <2> QED BY <2>1, Zenon
<1>5. V = [j \in i - 1 .. L |->
             IF j = i - 1 THEN [f EXCEPT !.combined = 0] ELSE VisitStep(s, j, V[j - 1])]
  BY <1>4
<1> HIDE DEF V
<1>6. V[i - 1] = [f EXCEPT !.combined = 0]
  BY <1>5
<1>7. \A j \in i .. L : V[j] = VisitStep(s, j, V[j - 1])
  BY <1>5
<1>8. Gathers(s, f, i, V)
  BY <1>2, <1>6, <1>7 DEF Gathers
<1> QED BY <1>8

\* What is right of the flush before the j-th rectangle of the queue is visited:
\* the pixels of the rectangles that were taken are in the dirty rectangle, and
\* the others are still in the queue.
Visited(s, f, i, j, g) ==
  LET B == PixelsOf(Bounds(s)) IN
  /\ g \in PassType /\ Len(g.queue) = Len(f.queue) /\ g.sent = f.sent
  /\ DirtyWithin(s, g.dirty)
  /\ f.done \subseteq g.done /\ g.done \subseteq f.done \union (i .. j)
  /\ \A k \in 1 .. Len(f.queue) : k > j => g.queue[k] = f.queue[k]
  /\ \A k \in (1 .. Len(f.queue)) \ f.done :
       /\ k \notin g.done => PixelsOf(f.queue[k]) \cap B \subseteq PixelsOf(g.queue[k])
       /\ k \in g.done => PixelsOf(f.queue[k]) \cap B \subseteq PixelsOf(g.dirty)
  /\ IF j = i - 1 THEN g.dirty = None ELSE i \in g.done

LEMMA VisitKeeps ==
  ASSUME NEW s \in SurfaceType, NEW f \in PassType, NEW i \in 1 .. Len(f.queue),
         i \notin f.done, NEW j \in i .. Len(f.queue), NEW g, Visited(s, f, i, j - 1, g)
  PROVE  Visited(s, f, i, j, VisitStep(s, j, g))
<1> DEFINE B == PixelsOf(Bounds(s))
           r == BoundRect(s, g.queue[j])
           e == VisitStep(s, j, g)
           n == Len(f.queue)
<1>1. /\ g \in PassType /\ Len(g.queue) = n /\ g.sent = f.sent /\ n \in Nat
      /\ DirtyWithin(s, g.dirty) /\ g.queue \in Seq(Rects) /\ f.queue \in Seq(Rects)
      /\ g.dirty \in Rects /\ g.done \in SUBSET Nat /\ g.combined \in Nat
      /\ f.done \subseteq g.done /\ g.done \subseteq f.done \union (i .. j - 1)
      /\ j \in 1 .. n /\ j \in Nat /\ i \in Nat /\ g.queue[j] = f.queue[j]
  BY DEF Visited, PassType
<1>2. /\ r \in Rects /\ Within(s, r) /\ PixelsOf(r) = PixelsOf(f.queue[j]) \cap B
  <2>1. f.queue[j] \in Rects
    BY <1>1
  <2> QED BY <1>1, <2>1, BoundIsCommon DEF Within
<1>3. CASE j \in g.done
  <2>1. e = g /\ j # i
    BY <1>1, <1>3 DEF VisitStep
  <2> QED BY <1>1, <2>1 DEF Visited
<1>4. ASSUME j \notin g.done PROVE Visited(s, f, i, j, e)
  <2> DEFINE q == [g.queue EXCEPT ![j] = r]
  <2>1. /\ q \in Seq(Rects) /\ Len(q) = n /\ q[j] = r
        /\ \A k \in 1 .. n : k # j => q[k] = g.queue[k]
    BY <1>1, <1>2
  <2>2. /\ IsEmpty(r) => e = [g EXCEPT !.queue = q, !.done = g.done \union {j}]
        /\ ~IsEmpty(r) /\ (ShouldCombine(g.dirty, r, FALSE) \/ g.dirty = None) =>
             e = [g EXCEPT !.queue = q, !.done = g.done \union {j},
                           !.dirty = MarkDirty(g.dirty, r), !.combined = g.combined + 1]
        /\ ~IsEmpty(r) /\ ~(ShouldCombine(g.dirty, r, FALSE) \/ g.dirty = None) =>
             e = [g EXCEPT !.queue = q]
    BY <1>4 DEF VisitStep
  <2> HIDE DEF q, e, r, B, n
  <2>6. g.done \union {j} \in SUBSET Nat /\ g.combined + 1 \in Nat /\ g \in PassType
        /\ q \in Seq(Rects)
    BY <1>1, <2>1
  <2>3. CASE IsEmpty(r)
    <3>1. /\ e \in PassType /\ e.queue = q /\ e.done = g.done \union {j}
          /\ e.dirty = g.dirty /\ e.sent = g.sent
      <4>1. e = [g EXCEPT !.queue = q, !.done = g.done \union {j}]
        BY <2>2, <2>3
      <4> QED BY <2>6, <4>1 DEF PassType
    <3>2. PixelsOf(f.queue[j]) \cap B = {}
      BY <1>2, <2>3, EmptyHasNone
    <3>3. ASSUME NEW k \in (1 .. n) \ f.done, k \notin e.done
          PROVE  PixelsOf(f.queue[k]) \cap B \subseteq PixelsOf(e.queue[k])
      BY <1>1, <2>1, <3>1, <3>3 DEF Visited, B, n
    <3>4. ASSUME NEW k \in (1 .. n) \ f.done, k \in e.done
          PROVE  PixelsOf(f.queue[k]) \cap B \subseteq PixelsOf(e.dirty)
      <4>1. CASE k = j
        BY <3>2, <4>1
      <4>2. CASE k # j
        BY <3>1, <3>4, <4>2 DEF Visited, B, n
      <4> QED BY <4>1, <4>2
    <3>5. /\ f.done \subseteq e.done /\ e.done \subseteq f.done \union (i .. j)
          /\ \A k \in 1 .. n : k > j => e.queue[k] = f.queue[k]
      BY <1>1, <2>1, <3>1 DEF Visited, n
    <3>6. IF j = i - 1 THEN e.dirty = None ELSE i \in e.done
      BY <1>1, <3>1 DEF Visited
    <3> QED
      BY <1>1, <2>1, <3>1, <3>3, <3>4, <3>5, <3>6 DEF Visited, B, n
  <2>4. CASE ~IsEmpty(r) /\ (ShouldCombine(g.dirty, r, FALSE) \/ g.dirty = None)
    <3>1. /\ DirtyWithin(s, MarkDirty(g.dirty, r)) /\ MarkDirty(g.dirty, r) \in Rects
          /\ PixelsOf(g.dirty) \union PixelsOf(r) \subseteq PixelsOf(MarkDirty(g.dirty, r))
      BY <1>1, <1>2, MarkDirtyKeeps
    <3>2. /\ e \in PassType /\ e.queue = q /\ e.done = g.done \union {j}
          /\ e.dirty = MarkDirty(g.dirty, r) /\ e.sent = g.sent
      <4>1. e = [g EXCEPT !.queue = q, !.done = g.done \union {j},
                         !.dirty = MarkDirty(g.dirty, r), !.combined = g.combined + 1]
        BY <2>2, <2>4
      <4> QED BY <2>6, <3>1, <4>1 DEF PassType
    <3>3. ASSUME NEW k \in (1 .. n) \ f.done, k \notin e.done
          PROVE  PixelsOf(f.queue[k]) \cap B \subseteq PixelsOf(e.queue[k])
      BY <1>1, <2>1, <3>2, <3>3 DEF Visited, B, n
    <3>4. ASSUME NEW k \in (1 .. n) \ f.done, k \in e.done
          PROVE  PixelsOf(f.queue[k]) \cap B \subseteq PixelsOf(e.dirty)
      <4>1. CASE k = j
        BY <1>2, <3>1, <3>2, <4>1
      <4>2. CASE k # j
        <5>1. PixelsOf(f.queue[k]) \cap B \subseteq PixelsOf(g.dirty)
          BY <3>2, <3>4, <4>2 DEF Visited, B, n
        <5> QED BY <3>1, <3>2, <5>1
      <4> QED BY <4>1, <4>2
    <3>5. i \in e.done
      BY <1>1, <3>2 DEF Visited
    <3>6. /\ f.done \subseteq e.done /\ e.done \subseteq f.done \union (i .. j)
          /\ j # i - 1
      BY <1>1, <3>2
    <3>7. \A k \in 1 .. n : k > j => e.queue[k] = f.queue[k]
      BY <1>1, <2>1, <3>2 DEF Visited, n
    <3> QED
      BY <1>1, <2>1, <3>1, <3>2, <3>3, <3>4, <3>5, <3>6, <3>7 DEF Visited, B, n
  <2>5. CASE ~IsEmpty(r) /\ ~(ShouldCombine(g.dirty, r, FALSE) \/ g.dirty = None)
    <3>1. /\ e \in PassType /\ e.queue = q /\ e.done = g.done
          /\ e.dirty = g.dirty /\ e.sent = g.sent
      <4>1. e = [g EXCEPT !.queue = q]
        BY <2>2, <2>5
      <4> QED BY <2>6, <4>1 DEF PassType
    <3>2. j # i /\ i \in g.done
      BY <1>1, <2>5 DEF Visited
    <3>3. ASSUME NEW k \in (1 .. n) \ f.done, k \notin e.done
          PROVE  PixelsOf(f.queue[k]) \cap B \subseteq PixelsOf(e.queue[k])
      <4>1. CASE k = j
        BY <1>2, <2>1, <3>1, <4>1
      <4>2. CASE k # j
        BY <1>1, <2>1, <3>1, <3>3, <4>2 DEF Visited, B, n
      <4> QED BY <4>1, <4>2
    <3>4. ASSUME NEW k \in (1 .. n) \ f.done, k \in e.done
          PROVE  PixelsOf(f.queue[k]) \cap B \subseteq PixelsOf(e.dirty)
      BY <1>4, <3>1, <3>4 DEF Visited, B, n
    <3>5. /\ f.done \subseteq e.done /\ e.done \subseteq f.done \union (i .. j)
          /\ \A k \in 1 .. n : k > j => e.queue[k] = f.queue[k]
      BY <1>1, <2>1, <3>1 DEF Visited, n
    <3> QED
      BY <1>1, <2>1, <3>1, <3>2, <3>3, <3>4, <3>5 DEF Visited, B, n
  <2> QED BY <2>3, <2>4, <2>5
<1> QED BY <1>3, <1>4

\* All pixels of the rectangles that are joined are in the one that is left.
LEMMA GatherKeeps ==
  ASSUME NEW s \in SurfaceType, NEW f \in PassType, f.dirty = None,
         NEW i \in 1 .. Len(f.queue), i \notin f.done
  PROVE  Visited(s, f, i, Len(f.queue), Gather(s, f, i))
<1>1. Len(f.queue) \in Nat
  BY DEF PassType
<1>a. PICK h : Gathers(s, f, i, h)
  BY <1>1, GatherIs
<1>2. /\ h[i - 1] = [f EXCEPT !.combined = 0]
      /\ \A j \in i .. Len(f.queue) : h[j] = VisitStep(s, j, h[j - 1])
      /\ Gather(s, f, i) = h[Len(f.queue)]
  BY <1>a DEF Gathers
<1> DEFINE T == {j \in Nat : j \in i - 1 .. Len(f.queue) /\ ~Visited(s, f, i, j, h[j])}
<1>3. SUFFICES ASSUME T # {} PROVE FALSE
  BY <1>1, <1>2
<1>4. PICK j \in T : \A y \in T : j <= y
  <2> T \in SUBSET Nat
    OBVIOUS
  <2> HIDE DEF T
  <2> QED BY <1>3, SmallestNumber
<1>5. Visited(s, f, i, i - 1, h[i - 1])
  <2>1. /\ h[i - 1] \in PassType /\ h[i - 1].queue = f.queue /\ h[i - 1].done = f.done
        /\ h[i - 1].dirty = None /\ h[i - 1].sent = f.sent
    BY <1>2 DEF PassType
  <2> QED BY <2>1 DEF Visited, DirtyWithin
<1>6. j \in i .. Len(f.queue) /\ Visited(s, f, i, j - 1, h[j - 1])
  <2>1. j # i - 1
    BY <1>5
  <2>2. j \in i .. Len(f.queue) /\ j - 1 \in Nat /\ j - 1 \in i - 1 .. Len(f.queue) /\ ~ (j <= j - 1)
    BY <1>1, <2>1
  <2> QED BY <1>4, <2>2
<1>7. Visited(s, f, i, j, h[j])
  BY <1>2, <1>6, VisitKeeps
<1> QED BY <1>7

-----------------------------------------------------------------------------
(* What a flush sends.                                                     *)

\* The bitmap of a rectangle has its pixels.
LEMMA BitmapHas ==
  ASSUME NEW s \in SurfaceType, NEW r, r # None, DirtyWithin(s, r), NEW lossy \in BOOLEAN
  PROVE  /\ Bitmap(s, r, lossy) \in BitmapType
         /\ PixelsOf(r) \subseteq PixelsOf(Bitmap(s, r, lossy).rect)
<1> DEFINE grid == ExpandToGrid(BlockSize, r, Bounds(s))
<1>1. /\ r \in Rects /\ ~IsEmpty(r) /\ PixelsOf(r) \subseteq PixelsOf(Bounds(s))
      /\ Bounds(s) \in Rects /\ BlockSize \in Nat /\ SupportsWebp \in BOOLEAN
  BY BoundsAreRects, DisplayAssumption DEF DirtyWithin, Within
<1>2. PixelsOf(r) \subseteq PixelsOf(grid)
  BY <1>1, GridCovers
<1>3. grid \in Rects
  BY <1>1, GridCovers
<1> HIDE DEF grid
<1>4. /\ Bitmap(s, r, lossy).rect \in {r, grid}
      /\ Bitmap(s, r, lossy) \in BitmapType
  BY <1>1, <1>3 DEF Bitmap, BitmapType, grid
<1> QED BY <1>2, <1>4

LEMMA OneMore ==
  ASSUME NEW sent \in Seq(BitmapType), NEW b \in BitmapType
  PROVE  /\ Append(sent, b) \in Seq(BitmapType)
         /\ PixelsOfAll(Append(sent, b)) = PixelsOfAll(sent) \union PixelsOf(b.rect)
<1> DEFINE t == Append(sent, b)
           n == Len(sent)
<1>1. /\ t \in Seq(BitmapType) /\ Len(t) = n + 1 /\ t[n + 1] = b /\ n \in Nat
      /\ \A i \in 1 .. n : t[i] = sent[i]
  OBVIOUS
<1>2. 1 .. n + 1 = (1 .. n) \union {n + 1}
  BY <1>1
<1> HIDE DEF t, n
<1>3. UNION {PixelsOf(t[i].rect) : i \in 1 .. n + 1}
        = PixelsOf(t[n + 1].rect) \union UNION {PixelsOf(t[i].rect) : i \in 1 .. n}
  BY <1>2, Zenon
<1>4. {PixelsOf(t[i].rect) : i \in 1 .. n} = {PixelsOf(sent[i].rect) : i \in 1 .. n}
  BY <1>1
<1> QED BY <1>1, <1>3, <1>4 DEF PixelsOfAll, t, n

\* A step of Bitmaps.
PassStep(s, lossy, original, i, f) ==
  LET g == Gather(s, f, i)
  IN IF i > Len(f.queue) \/ i \in f.done THEN f
     ELSE IF /\ g.combined > 1 \/ i <= original
             /\ Len(g.queue) < QueueSize
     THEN FlushToQueue(g)
     ELSE IF g.dirty = None THEN g
     ELSE [g EXCEPT !.sent = Append(@, Bitmap(s, g.dirty, lossy)), !.dirty = None]

Passes(s, lossy, queue, h) ==
  /\ h[0] = [queue |-> queue, done |-> {}, dirty |-> None, combined |-> 0, sent |-> <<>>]
  /\ \A i \in 1 .. QueueSize : h[i] = PassStep(s, lossy, Len(queue), i, h[i - 1])
  /\ Bitmaps(s, lossy) = h[QueueSize].sent

\* The recursive definition takes these steps.
LEMMA PassIs ==
  ASSUME NEW s, NEW lossy
  PROVE  \E h : Passes(s, lossy, Sorted(FlushToQueue(s).queue), h)
<1> DEFINE queue == Sorted(FlushToQueue(s).queue)
           base == [queue |-> queue, done |-> {}, dirty |-> None, combined |-> 0, sent |-> <<>>]
           Step(i, f) == PassStep(s, lossy, Len(queue), i, f)
           F(k, h) == h = [i \in 0 .. k |-> IF i = 0 THEN base ELSE Step(i, h[i - 1])]
           T == {d \in Nat : ~ \E h : F(d, h)}
<1>0. QueueSize \in Nat
  BY DisplayAssumption
<1> HIDE DEF base, queue, Step
<1>1. T = {}
  <2>1. SUFFICES ASSUME T # {} PROVE FALSE
    OBVIOUS
  <2>2. PICK k \in T : \A y \in T : k <= y
    <3> T \in SUBSET Nat
      OBVIOUS
    <3> HIDE DEF T
    <3> QED BY <2>1, SmallestNumber
  <2>3. k # 0
    <3>1. F(0, [i \in 0 .. 0 |-> base])
      OBVIOUS
    <3> QED BY <3>1
  <2>4. k - 1 \in Nat /\ k - 1 \notin T
    <3> HIDE DEF F
    <3>1. k - 1 \in Nat /\ ~ (k <= k - 1)
      BY <2>3
    <3> QED BY <2>2, <3>1
  <2>5. PICK h : F(k - 1, h)
    <3> HIDE DEF F
    <3> QED BY <2>4
  <2> DEFINE g == [i \in 0 .. k |-> IF i < k THEN h[i] ELSE Step(i, h[i - 1])]
  <2>6. k \in Nat /\ k - 1 \in Nat
    BY <2>4
  <2>7. h = [i \in 0 .. k - 1 |-> IF i = 0 THEN base ELSE Step(i, h[i - 1])]
    BY <2>5
  <2>8. ASSUME NEW i \in 0 .. k
        PROVE  g[i] = IF i = 0 THEN base ELSE Step(i, g[i - 1])
    <3>1. CASE i = 0
      BY <2>3, <2>6, <2>7, <3>1
    <3>2. CASE i # 0
      <4>1. g[i - 1] = h[i - 1] /\ g[i] = IF i < k THEN h[i] ELSE Step(i, h[i - 1])
        BY <2>6, <3>2
      <4>2. i < k => h[i] = Step(i, h[i - 1])
        BY <2>6, <2>7, <3>2
      <4> HIDE DEF g
      <4> QED BY <3>2, <4>1, <4>2
    <3> QED BY <3>1, <3>2
  <2>9. g = [i \in 0 .. k |-> g[i]]
    OBVIOUS
  <2>10. F(k, g)
    <3> HIDE DEF g
    <3> QED BY <2>8, <2>9, Zenon
  <2> HIDE DEF F, g
  <2> QED BY <2>10
<1> DEFINE P(h) == h = [i \in 0 .. QueueSize |-> IF i = 0 THEN base ELSE Step(i, h[i - 1])]
           V == CHOOSE h : P(h)
<1>2. Bitmaps(s, lossy) = V[QueueSize].sent
  BY Zenon DEF Bitmaps, PassStep, Step, base, queue
<1>3. \E h : P(h)
  BY <1>0, <1>1
<1>4. P(V)
  <2> HIDE DEF P
  <2> QED BY <1>3, Zenon
<1>5. V = [i \in 0 .. QueueSize |-> IF i = 0 THEN base ELSE Step(i, V[i - 1])]
  BY <1>4
<1> HIDE DEF V
<1>6. V[0] = base
  BY <1>0, <1>5
<1>7. \A i \in 1 .. QueueSize : V[i] = Step(i, V[i - 1])
  BY <1>0, <1>5
<1>8. Passes(s, lossy, queue, V)
  BY <1>2, <1>6, <1>7 DEF Passes, base, Step
<1> QED BY <1>8 DEF queue

\* What is right of a flush after the i-th rectangle of the queue: a pixel that
\* waited for it was sent, or it is in a rectangle that is still to be flushed.
Passed(s, W, i, f) ==
  /\ f \in PassType /\ f.dirty = None /\ Len(f.queue) <= QueueSize
  /\ f.done \subseteq 1 .. Len(f.queue)
  /\ \A k \in 1 .. Len(f.queue) : k <= i => k \in f.done
  /\ \A x \in W \cap PixelsOf(Bounds(s)) :
       \/ x \in PixelsOfAll(f.sent)
       \/ \E k \in (1 .. Len(f.queue)) \ f.done : x \in PixelsOf(f.queue[k])

LEMMA PassKeeps ==
  ASSUME NEW s \in SurfaceType, NEW W, NEW lossy \in BOOLEAN, NEW original,
         NEW i \in 1 .. QueueSize, NEW f, Passed(s, W, i - 1, f)
  PROVE  Passed(s, W, i, PassStep(s, lossy, original, i, f))
<1> DEFINE n == Len(f.queue)
           B == PixelsOf(Bounds(s))
           g == Gather(s, f, i)
           e == PassStep(s, lossy, original, i, f)
<1>0. QueueSize \in Nat
  BY DisplayAssumption
<1>1. /\ f \in PassType /\ f.dirty = None /\ n <= QueueSize /\ n \in Nat
      /\ f.done \subseteq 1 .. n /\ f.queue \in Seq(Rects)
      /\ \A k \in 1 .. n : k <= i - 1 => k \in f.done
  BY DEF Passed, PassType
<1>2. CASE i > n \/ i \in f.done
  <2>1. e = f
    BY <1>2 DEF PassStep
  <2>2. \A k \in 1 .. n : k <= i => k \in f.done
    <3>1. i \in Nat
      BY <1>0
    <3> HIDE DEF e
    <3> QED BY <1>1, <1>2, <3>1
  <2> QED BY <2>1, <2>2 DEF Passed
<1>3. ASSUME ~(i > n \/ i \in f.done) PROVE Passed(s, W, i, e)
  <2>1. i \in 1 .. n /\ i \notin f.done
    BY <1>0, <1>1, <1>3
  <2>2. Visited(s, f, i, n, g)
    BY <1>1, <2>1, GatherKeeps
  <2> HIDE DEF g
  <2>3. /\ g \in PassType /\ Len(g.queue) = n /\ g.sent = f.sent /\ DirtyWithin(s, g.dirty)
        /\ f.done \subseteq g.done /\ g.done \subseteq f.done \union (i .. n) /\ i \in g.done
    BY <1>1, <2>1, <2>2 DEF Visited
  <2>4. g.done \subseteq 1 .. n /\ \A k \in 1 .. n : k <= i => k \in g.done
    BY <1>1, <2>1, <2>3
  <2>5. ASSUME NEW x \in W \cap B
        PROVE  \/ x \in PixelsOfAll(g.sent) \/ x \in PixelsOf(g.dirty)
               \/ \E k \in (1 .. n) \ g.done : x \in PixelsOf(g.queue[k])
    <3>1. CASE x \in PixelsOfAll(f.sent)
      BY <2>3, <3>1
    <3>2. CASE \E k \in (1 .. n) \ f.done : x \in PixelsOf(f.queue[k])
      <4>1. PICK k \in (1 .. n) \ f.done : x \in PixelsOf(f.queue[k])
        BY <3>2
      <4>2. x \in PixelsOf(f.queue[k]) \cap B
        BY <4>1
      <4>3. /\ k \notin g.done => PixelsOf(f.queue[k]) \cap B \subseteq PixelsOf(g.queue[k])
            /\ k \in g.done => PixelsOf(f.queue[k]) \cap B \subseteq PixelsOf(g.dirty)
        BY <2>2 DEF Visited
      <4> QED BY <4>2, <4>3
    <3> QED BY <3>1, <3>2 DEF Passed
  <2>6. /\ g.queue \in Seq(Rects) /\ g.sent \in Seq(BitmapType) /\ g.dirty \in Rects
        /\ None \in Rects /\ PixelsOf(None) = {}
    BY <2>3, BoundsAreRects, EmptyHasNone DEF PassType
  <2>7. CASE g.dirty = None
    <3>1. e = g
      BY <1>3, <2>7 DEF PassStep, g, FlushToQueue
    <3> HIDE DEF e
    <3> QED BY <1>1, <2>3, <2>4, <2>5, <2>6, <2>7, <3>1 DEF Passed
  <2>8. CASE g.dirty # None /\ (g.combined > 1 \/ i <= original) /\ n < QueueSize
    <3>1. e = [g EXCEPT !.queue = Append(@, g.dirty), !.dirty = None]
      BY <1>3, <2>3, <2>8 DEF PassStep, g, FlushToQueue
    <3> DEFINE q == Append(g.queue, g.dirty)
    <3>2. /\ q \in Seq(Rects) /\ Len(q) = n + 1 /\ q[n + 1] = g.dirty
          /\ \A k \in 1 .. n : q[k] = g.queue[k]
      BY <2>3, <2>6
    <3> HIDE DEF e, q
    <3>3. /\ e \in PassType /\ e.queue = q /\ e.dirty = None /\ e.done = g.done
          /\ e.sent = g.sent
      BY <2>3, <2>6, <3>1, <3>2 DEF PassType, q
    <3>4. /\ Len(e.queue) <= QueueSize /\ e.done \subseteq 1 .. Len(e.queue)
          /\ \A k \in 1 .. Len(e.queue) : k <= i => k \in e.done
      BY <1>0, <1>1, <2>1, <2>4, <2>8, <3>2, <3>3
    <3>5. ASSUME NEW x \in W \cap B
          PROVE  \/ x \in PixelsOfAll(e.sent)
                 \/ \E k \in (1 .. Len(e.queue)) \ e.done : x \in PixelsOf(e.queue[k])
      <4>1. n + 1 \in (1 .. Len(e.queue)) \ e.done
        BY <1>1, <2>4, <3>2, <3>3
      <4>2. CASE x \in PixelsOf(g.dirty)
        BY <3>2, <3>3, <4>1, <4>2
      <4>3. CASE \E k \in (1 .. n) \ g.done : x \in PixelsOf(g.queue[k])
        <5>1. PICK k \in (1 .. n) \ g.done : x \in PixelsOf(g.queue[k])
          BY <4>3
        <5>2. k \in (1 .. Len(e.queue)) \ e.done /\ e.queue[k] = g.queue[k]
          BY <1>1, <3>2, <3>3
        <5> QED BY <5>1, <5>2
      <4> QED BY <2>5, <3>3, <4>2, <4>3
    <3> QED BY <3>3, <3>4, <3>5 DEF Passed
  <2>9. CASE g.dirty # None /\ ~((g.combined > 1 \/ i <= original) /\ n < QueueSize)
    <3> DEFINE b == Bitmap(s, g.dirty, lossy)
    <3>1. e = [g EXCEPT !.sent = Append(g.sent, b), !.dirty = None]
      BY <1>3, <2>3, <2>9 DEF PassStep, g
    <3>2. b \in BitmapType /\ PixelsOf(g.dirty) \subseteq PixelsOf(b.rect)
      BY <2>3, <2>9, BitmapHas
    <3> HIDE DEF e, b
    <3>3. /\ Append(g.sent, b) \in Seq(BitmapType)
          /\ PixelsOfAll(Append(g.sent, b)) = PixelsOfAll(g.sent) \union PixelsOf(b.rect)
      BY <2>6, <3>2, OneMore
    <3>4. /\ e \in PassType /\ e.queue = g.queue /\ e.dirty = None /\ e.done = g.done
          /\ e.sent = Append(g.sent, b)
      BY <2>3, <2>6, <3>1, <3>3 DEF PassType
    <3>5. ASSUME NEW x \in W \cap B
          PROVE  \/ x \in PixelsOfAll(e.sent)
                 \/ \E k \in (1 .. n) \ e.done : x \in PixelsOf(e.queue[k])
      BY <2>5, <3>2, <3>3, <3>4
    <3> QED BY <1>1, <2>3, <2>4, <3>4, <3>5 DEF Passed
  <2> QED BY <2>7, <2>8, <2>9
<1> QED BY <1>2, <1>3

\* A surface whose updates fit: those in the queue and, behind them, the dirty
\* rectangle.
Fits(s) ==
  /\ s \in SurfaceType /\ DirtyWithin(s, s.dirty) /\ Len(s.queue) < QueueSize

\* A flush sends every pixel of the picture that waits.
THEOREM FlushCovers ==
  ASSUME NEW s, Fits(s), NEW lossy \in BOOLEAN
  PROVE  /\ Bitmaps(s, lossy) \in Seq(BitmapType)
         /\ Waiting(s) \cap PixelsOf(Bounds(s)) \subseteq PixelsOfAll(Bitmaps(s, lossy))
<1> DEFINE all == FlushToQueue(s).queue
           queue == Sorted(all)
           W == Waiting(s)
<1>0. QueueSize \in Nat
  BY DisplayAssumption
<1>1. /\ s \in SurfaceType /\ s.queue \in Seq(Rects) /\ s.dirty \in Rects
      /\ Len(s.queue) < QueueSize /\ Len(s.queue) \in Nat /\ PixelsOf(None) = {} /\ None \in Rects
  BY BoundsAreRects, EmptyHasNone DEF Fits, SurfaceType
<1>2. /\ all \in Seq(Rects) /\ Len(all) <= QueueSize
      /\ \A x \in W : \E k \in 1 .. Len(all) : x \in PixelsOf(all[k])
  <2>1. CASE s.dirty = None
    <3>1. all = s.queue
      BY <2>1 DEF FlushToQueue
    <3> HIDE DEF all
    <3> QED BY <1>0, <1>1, <2>1, <3>1 DEF Waiting
  <2>2. CASE s.dirty # None
    <3>1. all = Append(s.queue, s.dirty)
      BY <1>1, <2>2 DEF FlushToQueue, SurfaceType
    <3> HIDE DEF all
    <3>2. /\ all \in Seq(Rects) /\ Len(all) = Len(s.queue) + 1
          /\ all[Len(all)] = s.dirty /\ Len(all) \in 1 .. Len(all)
          /\ \A k \in 1 .. Len(s.queue) : k \in 1 .. Len(all) /\ all[k] = s.queue[k]
      BY <1>1, <3>1
    <3>3. Len(all) <= QueueSize
      BY <1>0, <1>1, <3>2
    <3>4. ASSUME NEW x \in W PROVE \E k \in 1 .. Len(all) : x \in PixelsOf(all[k])
      <4>1. CASE x \in PixelsOf(s.dirty)
        BY <3>2, <4>1
      <4>2. CASE \E k \in 1 .. Len(s.queue) : x \in PixelsOf(s.queue[k])
        BY <3>2, <4>2
      <4> QED BY <4>1, <4>2 DEF Waiting
    <3> QED BY <3>2, <3>3, <3>4
  <2> QED BY <2>1, <2>2
<1> HIDE DEF W
<1>3. PICK h : Passes(s, lossy, queue, h)
  BY PassIs
<1> HIDE DEF all
<1>4. /\ queue \in Seq(Rects) /\ Len(queue) <= QueueSize
      /\ \A x \in W : \E k \in 1 .. Len(queue) : x \in PixelsOf(queue[k])
  <2>1. /\ queue \in Seq(Rects) /\ Len(queue) = Len(all)
        /\ \A i \in 1 .. Len(all) : \E j \in 1 .. Len(all) : queue[j] = all[i]
    BY <1>2, SortedIs
  <2> HIDE DEF queue
  <2>2. ASSUME NEW x \in W PROVE \E k \in 1 .. Len(queue) : x \in PixelsOf(queue[k])
    <3>1. PICK i \in 1 .. Len(all) : x \in PixelsOf(all[i])
      BY <1>2
    <3>2. PICK k \in 1 .. Len(all) : queue[k] = all[i]
      BY <2>1
    <3> QED BY <2>1, <3>1, <3>2
  <2> QED BY <1>2, <2>1, <2>2
<1> HIDE DEF queue
<1>5. Passed(s, W, 0, h[0])
  <2>1. /\ h[0] \in PassType /\ h[0].queue = queue /\ h[0].done = {} /\ h[0].dirty = None
    BY <1>1, <1>3, <1>4 DEF Passes, PassType
  <2> QED BY <1>4, <2>1 DEF Passed
<1> DEFINE T == {i \in Nat : i <= QueueSize /\ ~Passed(s, W, i, h[i])}
<1>6. T = {}
  <2>1. SUFFICES ASSUME T # {} PROVE FALSE
    OBVIOUS
  <2>2. PICK i \in T : \A y \in T : i <= y
    <3> T \in SUBSET Nat
      OBVIOUS
    <3> HIDE DEF T
    <3> QED BY <2>1, SmallestNumber
  <2>3. i \in 1 .. QueueSize
    BY <1>0, <1>5
  <2>4. Passed(s, W, i - 1, h[i - 1])
    <3>1. i - 1 \in Nat /\ i - 1 <= QueueSize /\ ~ (i <= i - 1)
      BY <1>0, <2>3
    <3> QED BY <2>2, <3>1
  <2>5. h[i] = PassStep(s, lossy, Len(queue), i, h[i - 1])
    BY <1>3, <2>3 DEF Passes
  <2>6. Passed(s, W, i, h[i])
    BY <1>1, <2>3, <2>4, <2>5, PassKeeps
  <2> QED BY <2>6
<1>7. Passed(s, W, QueueSize, h[QueueSize])
  BY <1>0, <1>6
<1>8. Bitmaps(s, lossy) = h[QueueSize].sent
  BY <1>3 DEF Passes
<1> DEFINE f == h[QueueSize]
<1>9. f \in PassType /\ \A k \in 1 .. Len(f.queue) : k \in f.done
  <2> HIDE DEF f, T
  <2>1. f \in PassType /\ Len(f.queue) <= QueueSize /\ Len(f.queue) \in Nat
    BY <1>7 DEF Passed, PassType, f
  <2>2. \A k \in 1 .. Len(f.queue) : k <= QueueSize => k \in f.done
    BY <1>7 DEF Passed, f
  <2> QED BY <1>0, <2>1, <2>2
<1>10. W \cap PixelsOf(Bounds(s)) \subseteq PixelsOfAll(f.sent)
  BY <1>7, <1>9 DEF Passed
<1> HIDE DEF f, T
<1> QED BY <1>8, <1>9, <1>10 DEF f, PassType, W

\* What is wrong after one bitmap: nothing of its pixels but transparent ones.
LEMMA CorrectedIs ==
  ASSUME NEW s, NEW w, NEW b \in BitmapType
  PROVE  Corrected(s, w, b) \subseteq (w \ PixelsOf(b.rect)) \union s.clear
<1>1. b.format \in {"opaque", "over", "exact"}
  BY DEF BitmapType
<1> DEFINE rest == CASE b.format = "exact"  -> {}
                     [] b.format = "over"   -> w \cap PixelsOf(b.rect) \cap s.clear
                     [] b.format = "opaque" -> PixelsOf(b.rect) \cap s.clear
<1>2. rest \subseteq s.clear
  BY <1>1
<1>3. Corrected(s, w, b) = (w \ PixelsOf(b.rect)) \union rest
  BY DEF Corrected
<1> HIDE DEF rest
<1> QED BY <1>2, <1>3

Afters(s, w, sent, h) ==
  /\ h[0] = w
  /\ \A i \in 1 .. Len(sent) : h[i] = Corrected(s, h[i - 1], sent[i])
  /\ AfterFlush(s, w, sent) = h[Len(sent)]

\* The recursive definition takes these steps.
LEMMA AfterIs ==
  ASSUME NEW s, NEW w, NEW sent, Len(sent) \in Nat
  PROVE  \E h : Afters(s, w, sent, h)
<1> DEFINE n == Len(sent)
           Step(i, a) == Corrected(s, a, sent[i])
           F(k, h) == h = [i \in 0 .. k |-> IF i = 0 THEN w ELSE Step(i, h[i - 1])]
           T == {d \in Nat : ~ \E h : F(d, h)}
<1> HIDE DEF Step
<1>1. T = {}
  <2>1. SUFFICES ASSUME T # {} PROVE FALSE
    OBVIOUS
  <2>2. PICK k \in T : \A y \in T : k <= y
    <3> T \in SUBSET Nat
      OBVIOUS
    <3> HIDE DEF T
    <3> QED BY <2>1, SmallestNumber
  <2>3. k # 0
    <3>1. F(0, [i \in 0 .. 0 |-> w])
      OBVIOUS
    <3> QED BY <3>1
  <2>4. k - 1 \in Nat /\ k - 1 \notin T
    <3> HIDE DEF F
    <3>1. k - 1 \in Nat /\ ~ (k <= k - 1)
      BY <2>3
    <3> QED BY <2>2, <3>1
  <2>5. PICK h : F(k - 1, h)
    <3> HIDE DEF F
    <3> QED BY <2>4
  <2> DEFINE g == [i \in 0 .. k |-> IF i < k THEN h[i] ELSE Step(i, h[i - 1])]
  <2>6. k \in Nat /\ k - 1 \in Nat
    BY <2>4
  <2>7. h = [i \in 0 .. k - 1 |-> IF i = 0 THEN w ELSE Step(i, h[i - 1])]
    BY <2>5
  <2>8. ASSUME NEW i \in 0 .. k
        PROVE  g[i] = IF i = 0 THEN w ELSE Step(i, g[i - 1])
    <3>1. CASE i = 0
      BY <2>3, <2>6, <2>7, <3>1
    <3>2. CASE i # 0
      <4>1. g[i - 1] = h[i - 1] /\ g[i] = IF i < k THEN h[i] ELSE Step(i, h[i - 1])
        BY <2>6, <3>2
      <4>2. i < k => h[i] = Step(i, h[i - 1])
        BY <2>6, <2>7, <3>2
      <4> HIDE DEF g
      <4> QED BY <3>2, <4>1, <4>2
    <3> QED BY <3>1, <3>2
  <2>9. g = [i \in 0 .. k |-> g[i]]
    OBVIOUS
  <2>10. F(k, g)
    <3> HIDE DEF g
    <3> QED BY <2>8, <2>9, Zenon
  <2> HIDE DEF F, g
  <2> QED BY <2>10
<1> DEFINE P(h) == h = [i \in 0 .. n |-> IF i = 0 THEN w ELSE Step(i, h[i - 1])]
           V == CHOOSE h : P(h)
<1>2. AfterFlush(s, w, sent) = V[n]
  BY Zenon DEF AfterFlush, Step
<1>3. \E h : P(h)
  BY <1>1
<1>4. P(V)
  <2> HIDE DEF P
  <2> QED BY <1>3, Zenon
<1>5. V = [i \in 0 .. n |-> IF i = 0 THEN w ELSE Step(i, V[i - 1])]
  BY <1>4
<1> HIDE DEF V
<1>6. V[0] = w
  BY <1>5
<1>7. \A i \in 1 .. n : V[i] = Step(i, V[i - 1])
  BY <1>5
<1>8. Afters(s, w, sent, V)
  BY <1>2, <1>6, <1>7 DEF Afters, Step
<1> QED BY <1>8

\* What a user has wrong after a flush: what it had and was not sent, and pixels
\* that are transparent.
THEOREM FlushCorrects ==
  ASSUME NEW s, NEW w, NEW sent \in Seq(BitmapType)
  PROVE  AfterFlush(s, w, sent) \subseteq (w \ PixelsOfAll(sent)) \union s.clear
<1> DEFINE n == Len(sent)
<1>0. n \in Nat /\ \A i \in 1 .. n : sent[i] \in BitmapType
  OBVIOUS
<1>1. PICK h : Afters(s, w, sent, h)
  BY <1>0, AfterIs
<1> DEFINE Kept(i) == /\ h[i] \subseteq w \union s.clear
                        /\ \A k \in 1 .. i : h[i] \cap PixelsOf(sent[k].rect) \subseteq s.clear
           T == {i \in Nat : i <= n /\ ~Kept(i)}
<1>2. T = {}
  <2>1. SUFFICES ASSUME T # {} PROVE FALSE
    OBVIOUS
  <2>2. PICK i \in T : \A y \in T : i <= y
    <3> T \in SUBSET Nat
      OBVIOUS
    <3> HIDE DEF T
    <3> QED BY <2>1, SmallestNumber
  <2>3. i \in 1 .. n
    <3>1. Kept(0)
      BY <1>1 DEF Afters
    <3> HIDE DEF Kept
    <3> QED BY <1>0, <3>1
  <2>4. Kept(i - 1)
    <3> HIDE DEF Kept
    <3>1. i - 1 \in Nat /\ i - 1 <= n /\ ~ (i <= i - 1)
      BY <1>0, <2>3
    <3> QED BY <2>2, <3>1
  <2>5. /\ h[i] = Corrected(s, h[i - 1], sent[i])
        /\ h[i] \subseteq (h[i - 1] \ PixelsOf(sent[i].rect)) \union s.clear
    BY <1>0, <1>1, <2>3, CorrectedIs DEF Afters
  <2>6. h[i] \subseteq w \union s.clear
    BY <2>4, <2>5
  <2>7. ASSUME NEW k \in 1 .. i PROVE h[i] \cap PixelsOf(sent[k].rect) \subseteq s.clear
    <3>1. CASE k = i
      BY <2>5, <3>1
    <3>2. CASE k # i
      <4>1. k \in 1 .. i - 1
        BY <1>0, <2>3, <3>2
      <4>2. h[i - 1] \cap PixelsOf(sent[k].rect) \subseteq s.clear
        BY <2>4, <4>1
      <4> QED BY <2>5, <4>2
    <3> QED BY <3>1, <3>2
  <2> QED BY <2>6, <2>7
<1>3. Kept(n) /\ AfterFlush(s, w, sent) = h[n]
  <2> HIDE DEF Kept
  <2> QED BY <1>0, <1>1, <1>2 DEF Afters
<1> HIDE DEF n
<1>4. ASSUME NEW x \in h[n] PROVE x \in (w \ PixelsOfAll(sent)) \union s.clear
  <2>1. CASE x \in PixelsOfAll(sent)
    <3>1. PICK k \in 1 .. n : x \in PixelsOf(sent[k].rect)
      BY <2>1 DEF PixelsOfAll, n
    <3> QED BY <1>3, <3>1
  <2>2. CASE x \notin PixelsOfAll(sent)
    BY <1>3, <2>2
  <2> QED BY <2>1, <2>2
<1> QED BY <1>3, <1>4

-----------------------------------------------------------------------------
(* The invariant.                                                          *)

NoXor == \A move \in Moves : move.op # "xor"

SurfaceOK(s) ==
  /\ Fits(s)
  /\ s.clear \subseteq PixelsOf(Bounds(s)) /\ PixelsOf(s.clip) \subseteq PixelsOf(Bounds(s))

\* The pixels w of a surface that a user has wrong are in the picture, and, if
\* it is not one of those of which no more is said, they are to be sent.
ViewOK(w, s, rule) ==
  /\ w \subseteq PixelsOf(Bounds(s))
  /\ rule = "strict" => w \ s.clear \subseteq Waiting(s)

Rule(s) == IF NoXor /\ s \notin blackened THEN "strict" ELSE "other"

\* The surfaces of which a user has what it was sent.
Counts(v, s) == v = "users" \/ (~missed /\ s \in exists /\ Has(v, s))

States ==
  /\ exists \subseteq Surfaces /\ Default \in exists
  /\ blackened \subseteq exists /\ copied \subseteq exists
  /\ joining \in {"away", "dup", "sent", "listed"} /\ missed \in BOOLEAN
  /\ joining # "dup" => copied = {}
  /\ surface = [s \in Surfaces |-> surface[s]]
  /\ wrong = [v \in Views |-> [s \in Surfaces |-> wrong[v][s]]]
  /\ surface[Default].realized

Inv ==
  /\ States
  /\ \A s \in Surfaces : SurfaceOK(surface[s])
  /\ \A v \in Views, s \in Surfaces :
       Counts(v, s) => ViewOK(wrong[v][s], surface[s], Rule(s))

-----------------------------------------------------------------------------
(* Surfaces.                                                               *)

\* A flush leaves a surface in order, with nothing that waits.
LEMMA FlushedIsOK ==
  ASSUME NEW s, SurfaceOK(s), NEW sent
  PROVE  /\ SurfaceOK(Flushed(s, sent))
         /\ Flushed(s, sent).clear = s.clear
         /\ Bounds(Flushed(s, sent)) = Bounds(s)
         /\ s.realized => Flushed(s, sent).realized
         /\ SurfaceOK([Flushed(s, sent) EXCEPT !.realized = TRUE])
         /\ [Flushed(s, sent) EXCEPT !.realized = TRUE].clear = s.clear
         /\ Bounds([Flushed(s, sent) EXCEPT !.realized = TRUE]) = Bounds(s)
         /\ [Flushed(s, sent) EXCEPT !.realized = TRUE].realized
<1>1. /\ s \in SurfaceType /\ None \in Rects /\ <<>> \in Seq(Rects) /\ Len(<<>>) = 0
      /\ s.clear \subseteq PixelsOf(Bounds(s)) /\ PixelsOf(s.clip) \subseteq PixelsOf(Bounds(s))
      /\ QueueSize \in Nat /\ 0 < QueueSize
  BY BoundsAreRects, DisplayAssumption DEF SurfaceOK, Fits
<1>2. /\ Flushed(s, sent) \in SurfaceType
      /\ Flushed(s, sent).queue = <<>> /\ Flushed(s, sent).dirty = None
      /\ Flushed(s, sent).clear = s.clear /\ Flushed(s, sent).clip = s.clip
      /\ Flushed(s, sent).width = s.width /\ Flushed(s, sent).height = s.height
      /\ s.realized => Flushed(s, sent).realized
  BY <1>1 DEF Flushed, SurfaceType
<1> DEFINE e == Flushed(s, sent)
           e2 == [e EXCEPT !.realized = TRUE]
<1> HIDE DEF e
<1>3. /\ e2 \in SurfaceType
      /\ e2.queue = e.queue /\ e2.dirty = e.dirty /\ e2.clear = e.clear /\ e2.clip = e.clip
      /\ e2.width = e.width /\ e2.height = e.height /\ e2.realized
  BY <1>2 DEF SurfaceType, e
<1> HIDE DEF e2
<1>4. Bounds(e) = Bounds(s) /\ Bounds(e2) = Bounds(s)
  BY <1>2, <1>3 DEF Bounds, e
<1>5. SurfaceOK(e) /\ SurfaceOK(e2)
  BY <1>1, <1>2, <1>3, <1>4 DEF SurfaceOK, Fits, DirtyWithin, e
<1> QED BY <1>2, <1>3, <1>4, <1>5 DEF e, e2

\* What a flush leaves wrong: what was wrong and did not wait to be sent, and
\* transparent pixels.
LEMMA FlushLeaves ==
  ASSUME NEW s, SurfaceOK(s), NEW lossy \in BOOLEAN, NEW w, w \subseteq PixelsOf(Bounds(s))
  PROVE  /\ Bitmaps(s, lossy) \in Seq(BitmapType)
         /\ AfterFlush(s, w, Bitmaps(s, lossy)) \subseteq (w \ Waiting(s)) \union s.clear
         /\ AfterFlush(s, w, Bitmaps(s, lossy)) \subseteq PixelsOf(Bounds(s))
<1>1. /\ Bitmaps(s, lossy) \in Seq(BitmapType)
      /\ Waiting(s) \cap PixelsOf(Bounds(s)) \subseteq PixelsOfAll(Bitmaps(s, lossy))
  BY FlushCovers DEF SurfaceOK
<1>2. AfterFlush(s, w, Bitmaps(s, lossy))
        \subseteq (w \ PixelsOfAll(Bitmaps(s, lossy))) \union s.clear
  BY <1>1, FlushCorrects
<1> QED BY <1>1, <1>2 DEF SurfaceOK

\* Another picture, of which these pixels are transparent.
WithClear(s, c) == [s EXCEPT !.clear = c]

LEMMA ClearChanges ==
  ASSUME NEW s, SurfaceOK(s), NEW c, c \subseteq PixelsOf(Bounds(s))
  PROVE  /\ SurfaceOK(WithClear(s, c))
         /\ WithClear(s, c).clear = c
         /\ Bounds(WithClear(s, c)) = Bounds(s)
         /\ Waiting(WithClear(s, c)) = Waiting(s)
         /\ WithClear(s, c).dirty = s.dirty
         /\ WithClear(s, c).queue = s.queue
         /\ WithClear(s, c).realized = s.realized
<1> DEFINE d == WithClear(s, c)
<1>1. /\ s \in SurfaceType /\ Bounds(s) \in Rects
  BY BoundsAreRects DEF SurfaceOK, Fits
<1>2. c \in SUBSET (Int \X Int)
  BY <1>1 DEF PixelsOf
<1>3. /\ d \in SurfaceType /\ d.clear = c /\ d.dirty = s.dirty /\ d.queue = s.queue
      /\ d.clip = s.clip /\ d.width = s.width /\ d.height = s.height
      /\ d.realized = s.realized
  BY <1>1, <1>2 DEF SurfaceType, WithClear
<1> HIDE DEF d
<1>4. Bounds(d) = Bounds(s) /\ Waiting(d) = Waiting(s)
  BY <1>3 DEF Bounds, Waiting
<1>5. SurfaceOK(d)
  BY <1>1, <1>3, <1>4 DEF SurfaceOK, Fits, DirtyWithin, Within
<1> QED BY <1>3, <1>4, <1>5 DEF d

\* A rectangle is marked on a surface.
LEMMA MarkedIsOK ==
  ASSUME NEW s, SurfaceOK(s), NEW u, Within(s, u)
  PROVE  /\ SurfaceOK([s EXCEPT !.dirty = MarkDirty(@, u)])
         /\ [s EXCEPT !.dirty = MarkDirty(@, u)].clear = s.clear
         /\ Bounds([s EXCEPT !.dirty = MarkDirty(@, u)]) = Bounds(s)
         /\ Waiting(s) \union PixelsOf(u) \subseteq Waiting([s EXCEPT !.dirty = MarkDirty(@, u)])
         /\ [s EXCEPT !.dirty = MarkDirty(@, u)].realized = s.realized
<1> DEFINE m == MarkDirty(s.dirty, u)
           d == [s EXCEPT !.dirty = m]
<1>1. s \in SurfaceType /\ DirtyWithin(s, s.dirty)
  BY DEF SurfaceOK, Fits
<1>2. /\ DirtyWithin(s, m) /\ m \in Rects
      /\ PixelsOf(s.dirty) \union PixelsOf(u) \subseteq PixelsOf(m)
  BY <1>1, MarkDirtyKeeps
<1> HIDE DEF m
<1>3. /\ d \in SurfaceType /\ d.clear = s.clear /\ d.dirty = m /\ d.queue = s.queue
      /\ d.clip = s.clip /\ d.width = s.width /\ d.height = s.height
      /\ d.realized = s.realized
  BY <1>1, <1>2 DEF SurfaceType
<1> HIDE DEF d
<1>4. Bounds(d) = Bounds(s)
  BY <1>3 DEF Bounds
<1>5. Waiting(s) \union PixelsOf(u) \subseteq Waiting(d)
  <2>1. /\ Waiting(d) = PixelsOf(m) \union UNION {PixelsOf(s.queue[i]) : i \in 1 .. Len(s.queue)}
        /\ Waiting(s) = PixelsOf(s.dirty) \union UNION {PixelsOf(s.queue[i]) : i \in 1 .. Len(s.queue)}
    BY <1>3 DEF Waiting
  <2> QED BY <1>2, <2>1
<1>6. SurfaceOK(d)
  BY <1>1, <1>2, <1>3, <1>4 DEF SurfaceOK, Fits, DirtyWithin, Within
<1> QED BY <1>3, <1>4, <1>5, <1>6 DEF d, m

\* The dirty rectangle goes to a queue that is not full with it.
LEMMA QueuedIsOK ==
  ASSUME NEW s, SurfaceOK(s), s.dirty # None => Len(s.queue) + 1 < QueueSize
  PROVE  /\ SurfaceOK(FlushToQueue(s))
         /\ FlushToQueue(s).clear = s.clear
         /\ Bounds(FlushToQueue(s)) = Bounds(s)
         /\ Waiting(s) \subseteq Waiting(FlushToQueue(s))
         /\ FlushToQueue(s).realized = s.realized
<1>1. CASE s.dirty = None
  BY <1>1 DEF FlushToQueue
<1>2. CASE s.dirty # None
  <2> DEFINE d == [s EXCEPT !.queue = Append(@, s.dirty), !.dirty = None]
             q == Append(s.queue, s.dirty)
             n == Len(s.queue)
  <2>1. FlushToQueue(s) = d
    BY <1>2 DEF FlushToQueue
  <2>2. s \in SurfaceType /\ None \in Rects /\ s.dirty \in Rects /\ s.queue \in Seq(Rects)
    BY BoundsAreRects DEF SurfaceOK, Fits, SurfaceType
  <2>3. /\ q \in Seq(Rects) /\ Len(q) = n + 1 /\ q[n + 1] = s.dirty /\ n \in Nat
        /\ \A i \in 1 .. n : q[i] = s.queue[i]
    BY <2>2
  <2> HIDE DEF q
  <2>4. /\ d \in SurfaceType /\ d.clear = s.clear /\ d.dirty = None /\ d.queue = q
        /\ d.clip = s.clip /\ d.width = s.width /\ d.height = s.height
        /\ d.realized = s.realized
    BY <2>2, <2>3 DEF SurfaceType, q
  <2> HIDE DEF d, n
  <2>5. Bounds(d) = Bounds(s)
    BY <2>4 DEF Bounds
  <2>6. ASSUME NEW x \in Waiting(s) PROVE x \in Waiting(d)
    <3>1. CASE x \in PixelsOf(s.dirty)
      <4>1. n + 1 \in 1 .. Len(d.queue) /\ x \in PixelsOf(d.queue[n + 1])
        BY <2>3, <2>4, <3>1
      <4> QED BY <4>1 DEF Waiting
    <3>2. CASE \E i \in 1 .. n : x \in PixelsOf(s.queue[i])
      <4>1. PICK i \in 1 .. n : x \in PixelsOf(s.queue[i])
        BY <3>2
      <4>2. i \in 1 .. Len(d.queue) /\ x \in PixelsOf(d.queue[i])
        BY <2>3, <2>4, <4>1
      <4> QED BY <4>2 DEF Waiting
    <3> QED BY <3>1, <3>2 DEF Waiting, n
  <2>7. SurfaceOK(d)
    BY <1>2, <2>3, <2>4, <2>5 DEF SurfaceOK, Fits, DirtyWithin, Within, n
  <2> QED BY <2>1, <2>4, <2>5, <2>6, <2>7
<1> QED BY <1>1, <1>2

-----------------------------------------------------------------------------
(* An update that is put off.                                              *)

\* Whether d is flushed for the update u, and what it is then, as in PutOff.
Flushes(d, u) == ~ShouldCombine(d.dirty, u, FALSE) /\ d.dirty # None /\ IsFull(d)

SentFor(d, u, lossy) == IF Flushes(d, u) THEN Bitmaps(d, lossy) ELSE <<>>

PutOffTo(d, u, lossy) ==
  LET e == IF ShouldCombine(d.dirty, u, FALSE) THEN d
           ELSE IF Flushes(d, u) THEN Flushed(d, SentFor(d, u, lossy)) ELSE FlushToQueue(d)
  IN [e EXCEPT !.dirty = MarkDirty(@, u)]

\* The pixels that were changed are to be sent, and what waited was sent or
\* still waits.
LEMMA PutOffIsOK ==
  ASSUME NEW s, SurfaceOK(s), NEW c, c \subseteq PixelsOf(Bounds(s)),
         NEW u, Within(s, u), NEW C, s.clear \ c \subseteq C, C \subseteq PixelsOf(u),
         NEW lossy \in BOOLEAN, NEW d, d = WithClear(s, c)
  PROVE  /\ SurfaceOK(PutOffTo(d, u, lossy))
         /\ s.realized => PutOffTo(d, u, lossy).realized
         /\ \A w : \A rule : ViewOK(w, s, rule) =>
              /\ ViewOK(AfterFlush(d, w \union C, SentFor(d, u, lossy)),
                        PutOffTo(d, u, lossy), rule)
              /\ ~Flushes(d, u) => ViewOK(w \union C, PutOffTo(d, u, lossy), rule)
<1> DEFINE sent == SentFor(d, u, lossy)
           combine == ShouldCombine(d.dirty, u, FALSE)
           e == IF combine THEN d ELSE IF Flushes(d, u) THEN Flushed(d, sent) ELSE FlushToQueue(d)
           x == PutOffTo(d, u, lossy)
           B == PixelsOf(Bounds(s))
<1>1. /\ SurfaceOK(d) /\ d.clear = c /\ Bounds(d) = Bounds(s) /\ Waiting(d) = Waiting(s)
      /\ d.realized = s.realized
  BY ClearChanges
<1>2. x = [e EXCEPT !.dirty = MarkDirty(@, u)]
  BY DEF PutOffTo
<1> HIDE DEF x
<1>3. /\ SurfaceOK(e) /\ e.clear = c /\ Bounds(e) = Bounds(s)
      /\ s.realized => e.realized
      /\ ~Flushes(d, u) => Waiting(s) \subseteq Waiting(e)
  <2>1. CASE combine
    BY <1>1, <2>1
  <2>2. CASE Flushes(d, u)
    <3>1. e = Flushed(d, sent)
      BY <2>2 DEF Flushes
    <3> HIDE DEF e, sent
    <3> QED BY <1>1, <2>2, <3>1, FlushedIsOK
  <2>3. CASE ~combine /\ ~Flushes(d, u)
    <3>1. e = FlushToQueue(d)
      BY <2>3
    <3>2. d.dirty # None => Len(d.queue) + 1 < QueueSize
      <4>1. /\ Len(d.queue) \in Nat /\ Len(d.queue) < QueueSize
            /\ d.dirty # None => Len(d.queue) # QueueSize - 1
        <5>1. d \in SurfaceType /\ Len(d.queue) < QueueSize
          BY <1>1 DEF SurfaceOK, Fits
        <5>2. Len(d.queue) \in Nat
          BY <5>1 DEF SurfaceType
        <5>3. d.dirty # None => Len(d.queue) # QueueSize - 1
          BY <2>3 DEF Flushes, IsFull
        <5> QED BY <5>1, <5>2, <5>3
      <4>2. QueueSize \in Nat
        BY DisplayAssumption
      <4> QED BY <4>1, <4>2
    <3> HIDE DEF e
    <3> QED BY <1>1, <3>1, <3>2, QueuedIsOK
  <2> QED BY <2>1, <2>2, <2>3
<1> HIDE DEF e
<1>4. /\ SurfaceOK(x) /\ x.clear = c /\ Bounds(x) = Bounds(s) /\ x.realized = e.realized
      /\ Waiting(e) \union PixelsOf(u) \subseteq Waiting(x)
  <2>1. Within(e, u)
    BY <1>3 DEF Within
  <2> QED BY <1>2, <1>3, <2>1, MarkedIsOK
<1>5. ASSUME NEW w, NEW rule, ViewOK(w, s, rule), ~Flushes(d, u)
      PROVE  ViewOK(w \union C, x, rule)
  BY <1>3, <1>4, <1>5 DEF ViewOK, Within
<1>6. ASSUME NEW w, NEW rule, ViewOK(w, s, rule), ~Flushes(d, u)
      PROVE  ViewOK(AfterFlush(d, w \union C, sent), x, rule)
  <2>1. sent \in Seq(BitmapType)
    BY <1>6 DEF SentFor
  <2>2. AfterFlush(d, w \union C, sent) \subseteq (w \union C) \union d.clear
    BY <2>1, FlushCorrects
  <2> QED BY <1>1, <1>4, <1>5, <1>6, <2>2 DEF ViewOK, SurfaceOK
<1>7. ASSUME NEW w, NEW rule, ViewOK(w, s, rule), Flushes(d, u)
      PROVE  ViewOK(AfterFlush(d, w \union C, sent), x, rule)
  <2>1. sent = Bitmaps(d, lossy)
    BY <1>7 DEF SentFor
  <2>2. w \union C \subseteq PixelsOf(Bounds(d))
    BY <1>1, <1>7 DEF ViewOK, Within
  <2>3. /\ AfterFlush(d, w \union C, sent) \subseteq ((w \union C) \ Waiting(d)) \union d.clear
        /\ AfterFlush(d, w \union C, sent) \subseteq PixelsOf(Bounds(d))
    <3> HIDE DEF sent
    <3> QED BY <1>1, <2>1, <2>2, FlushLeaves
  <2> QED BY <1>1, <1>4, <1>7, <2>3 DEF ViewOK
<1> QED BY <1>3, <1>4, <1>5, <1>6, <1>7, Zenon DEF x

-----------------------------------------------------------------------------
(* The steps.                                                              *)

LEMMA TypesOfConstants ==
  /\ Default \in Surfaces /\ Buffers \subseteq Surfaces /\ Default \notin Buffers
  /\ "users" \in Views /\ "joiner" \in Views
  /\ \A v \in Views : v = "users" \/ v = "joiner"
  BY DisplayAssumption DEF Surfaces, Views

\* What is seen of the surface s changes, and of no other: A is what those who
\* hear of it have wrong.
Saw(s, P, A) ==
  wrong' = [v \in Views |-> [wrong[v] EXCEPT ![s] =
              IF Hears(v) THEN A[v] ELSE IF Has(v, s) THEN @ \union P ELSE {}]]

LEMMA SeenIs ==
  ASSUME States, NEW s \in Surfaces, NEW P, NEW A, Saw(s, P, A)
  PROVE  /\ wrong' = [v \in Views |-> [t \in Surfaces |-> wrong'[v][t]]]
         /\ \A v \in Views, t \in Surfaces : t # s => wrong'[v][t] = wrong[v][t]
         /\ \A v \in Views : Hears(v) => wrong'[v][s] = A[v]
         /\ \A v \in Views : ~Hears(v) /\ Has(v, s) => wrong'[v][s] = wrong[v][s] \union P
<1> DEFINE Seen(v) == IF Hears(v) THEN A[v]
                      ELSE IF Has(v, s) THEN wrong[v][s] \union P ELSE {}
<1>1. \A v \in Views : wrong[v] = [t \in Surfaces |-> wrong[v][t]]
  BY DEF States
<1>2. wrong' = [v \in Views |-> [wrong[v] EXCEPT ![s] = Seen(v)]]
  BY DEF Saw
<1> HIDE DEF Seen
<1>3. \A v \in Views : [wrong[v] EXCEPT ![s] = Seen(v)]
                         = [t \in Surfaces |-> IF t = s THEN Seen(v) ELSE wrong[v][t]]
  BY <1>1
<1>4. \A v \in Views : wrong'[v] = [t \in Surfaces |-> IF t = s THEN Seen(v) ELSE wrong[v][t]]
  BY <1>2, <1>3
<1>5. \A v \in Views, t \in Surfaces : wrong'[v][t] = IF t = s THEN Seen(v) ELSE wrong[v][t]
  BY <1>4
<1>6. \A v \in Views : wrong'[v] = [t \in Surfaces |-> wrong'[v][t]]
  BY <1>4
<1>7. wrong' = [v \in Views |-> wrong'[v]]
  BY <1>2
<1>8. wrong' = [v \in Views |-> [t \in Surfaces |-> wrong'[v][t]]]
  BY <1>6, <1>7
<1>9. \A v \in Views, t \in Surfaces : t # s => wrong'[v][t] = wrong[v][t]
  BY <1>5
<1>10. \A v \in Views : wrong'[v][s] = Seen(v)
  BY <1>5
<1>11. /\ \A v \in Views : Hears(v) => wrong'[v][s] = A[v]
       /\ \A v \in Views : ~Hears(v) /\ Has(v, s) => wrong'[v][s] = wrong[v][s] \union P
  BY <1>10 DEF Seen
<1> QED BY <1>8, <1>9, <1>11

\* A step that changes one surface and what is seen of it.
LEMMA OneSurface ==
  ASSUME Inv, NEW s \in exists, UNCHANGED <<exists, joinVars>>,
         NEW e, surface' = [surface EXCEPT ![s] = e], SurfaceOK(e),
         surface[s].realized => e.realized,
         blackened \subseteq blackened', blackened' \subseteq blackened \union {s},
         missed' \in BOOLEAN, missed => missed',
         wrong' = [v \in Views |-> [t \in Surfaces |-> wrong'[v][t]]],
         \A v \in Views, t \in Surfaces : t # s => wrong'[v][t] = wrong[v][t],
         \A v \in Views : Counts(v, s) /\ (v = "users" \/ ~missed') =>
           ViewOK(wrong'[v][s], e, Rule(s)')
  PROVE  Inv'
<1>1. /\ States /\ s \in Surfaces /\ exists' = exists /\ joining' = joining /\ copied' = copied
  BY DEF Inv, States, joinVars
<1>2. /\ \A t \in Surfaces : surface'[t] = IF t = s THEN e ELSE surface[t]
      /\ surface' = [t \in Surfaces |-> surface'[t]]
  BY <1>1 DEF States
<1>3. States'
  <2>1. surface'[Default].realized
    BY <1>1, <1>2, TypesOfConstants DEF States
  <2> QED BY <1>1, <1>2, <2>1 DEF States
<1>4. \A t \in Surfaces : SurfaceOK(surface[t])' 
  <2>1. \A t \in Surfaces : SurfaceOK(surface'[t])
    BY <1>2 DEF Inv
  <2> QED BY <2>1 DEF SurfaceOK, Fits, DirtyWithin, Within
<1>5. ASSUME NEW v \in Views, NEW t \in Surfaces, Counts(v, t)'
      PROVE  ViewOK(wrong'[v][t], surface'[t], Rule(t)')
  <2>1. Counts(v, t) /\ (v = "users" \/ ~missed')
    BY <1>1, <1>5 DEF Counts, Has, Hears
  <2>2. CASE t = s
    BY <1>2, <2>1, <2>2 DEF Rule
  <2>3. CASE t # s
    <3>1. ViewOK(wrong[v][t], surface[t], Rule(t))
      BY <2>1 DEF Inv
    <3>2. wrong'[v][t] = wrong[v][t] /\ surface'[t] = surface[t] /\ (Rule(t)' = "strict" => Rule(t) = "strict")
      BY <1>2, <2>3 DEF Rule
    <3> QED BY <3>1, <3>2 DEF ViewOK
  <2> QED BY <2>2, <2>3
<1>6. \A v \in Views, t \in Surfaces : Counts(v, t)' => ViewOK(wrong[v][t], surface[t], Rule(t))'
  BY <1>5 DEF ViewOK
<1> QED BY <1>3, <1>4, <1>6 DEF Inv

\* The surface that an action draws on.
LEMMA SurfaceIsOK ==
  ASSUME Inv, NEW s \in exists
  PROVE  /\ s \in Surfaces /\ SurfaceOK(surface[s]) /\ surface[s] \in SurfaceType
         /\ Bounds(surface[s]) \in Rects
         /\ surface[s].clear \subseteq PixelsOf(Bounds(surface[s]))
<1>1. s \in Surfaces /\ SurfaceOK(surface[s])
  BY DEF Inv, States
<1> QED BY <1>1, BoundsAreRects DEF SurfaceOK, Fits

LEMMA PutOffStep ==
  ASSUME Inv, NEW s \in exists, NEW c, c \subseteq PixelsOf(Bounds(surface[s])),
         NEW u, Within(surface[s], u),
         NEW C, surface[s].clear \ c \subseteq C, C \subseteq PixelsOf(u),
         PutOff(s, WithClear(surface[s], c), u, C),
         UNCHANGED <<exists, blackened, joinVars>>
  PROVE  Inv'
<1> DEFINE d == WithClear(surface[s], c)
<1>1. SurfaceOK(surface[s]) /\ s \in Surfaces /\ States
  BY SurfaceIsOK DEF Inv
<1>2. PICK lossy \in BOOLEAN :
        /\ surface' = [surface EXCEPT ![s] = PutOffTo(d, u, lossy)]
        /\ See(s, C, LAMBDA v : AfterFlush(d, wrong[v][s] \union C, SentFor(d, u, lossy)))
        /\ Sent(s, Flushes(d, u))
  <2> HIDE DEF d
  <2>1. PutOff(s, d, u, C)
    BY DEF d
  <2> QED BY <2>1 DEF PutOff, PutOffTo, SentFor, Flushes
<1> DEFINE A == [v \in Views |-> AfterFlush(d, wrong[v][s] \union C, SentFor(d, u, lossy))]
           e == PutOffTo(d, u, lossy)
<1>3. Saw(s, C, A)
  <2> HIDE DEF d
  <2> QED BY <1>2 DEF See, Saw
<1>4. /\ SurfaceOK(e) /\ (surface[s].realized => e.realized)
      /\ \A w : \A rule : ViewOK(w, surface[s], rule) =>
           /\ ViewOK(AfterFlush(d, w \union C, SentFor(d, u, lossy)), e, rule)
           /\ ~Flushes(d, u) => ViewOK(w \union C, e, rule)
  BY <1>1, PutOffIsOK
<1>5. missed' = (missed \/ (Flushes(d, u) /\ ~Hears("joiner") /\ Has("joiner", s)))
  BY <1>2 DEF Sent
<1> HIDE DEF d, e
<1>6. \A v \in Views : A[v] = AfterFlush(d, wrong[v][s] \union C, SentFor(d, u, lossy))
  OBVIOUS
<1> HIDE DEF A
<1>7. /\ wrong' = [v \in Views |-> [t \in Surfaces |-> wrong'[v][t]]]
      /\ \A v \in Views, t \in Surfaces : t # s => wrong'[v][t] = wrong[v][t]
      /\ \A v \in Views : Hears(v) => wrong'[v][s] = A[v]
      /\ \A v \in Views : ~Hears(v) /\ Has(v, s) => wrong'[v][s] = wrong[v][s] \union C
  BY <1>1, <1>3, SeenIs
<1>8. ASSUME NEW v \in Views, Counts(v, s), v = "users" \/ ~missed'
      PROVE  ViewOK(wrong'[v][s], e, Rule(s)')
  <2>1. ViewOK(wrong[v][s], surface[s], Rule(s))
    BY <1>1, <1>8 DEF Inv
  <2>2. Rule(s)' = Rule(s) 
    BY DEF Rule
  <2>3. CASE Hears(v)
    <3>1. ViewOK(AfterFlush(d, wrong[v][s] \union C, SentFor(d, u, lossy)), e, Rule(s))
      BY <1>4, <2>1
    <3>2. wrong'[v][s] = AfterFlush(d, wrong[v][s] \union C, SentFor(d, u, lossy))
      BY <1>6, <1>7, <2>3
    <3> QED BY <2>2, <3>1, <3>2
  <2>4. CASE ~Hears(v)
    <3>1. v = "joiner" /\ Has(v, s) /\ ~missed'
      BY <1>8, <2>4, TypesOfConstants DEF Counts, Hears
    <3>2. ~Flushes(d, u)
      BY <1>5, <2>4, <3>1
    <3>3. ViewOK(wrong[v][s] \union C, e, Rule(s))
      BY <1>4, <2>1, <3>2
    <3>4. wrong'[v][s] = wrong[v][s] \union C
      BY <1>7, <2>4, <3>1
    <3> QED BY <2>2, <3>3, <3>4
  <2> QED BY <2>3, <2>4
<1>9. missed' \in BOOLEAN /\ (missed => missed')
  BY <1>1, <1>5 DEF States
<1>10. surface' = [surface EXCEPT ![s] = e] /\ blackened' = blackened
  BY <1>2 DEF e
<1> QED BY <1>4, <1>7, <1>8, <1>9, <1>10, OneSurface

\* What is drawn is within the picture, clipped or not.
LEMMA ClipIsWithin ==
  ASSUME NEW s, SurfaceOK(s), NEW r \in Rects
  PROVE  Within(s, ClipRect(s, r))
<1>1. /\ s \in SurfaceType /\ s.clip \in Rects /\ PixelsOf(s.clip) \subseteq PixelsOf(Bounds(s))
  BY DEF SurfaceOK, Fits, SurfaceType
<1>2. CASE s.clipped
  <2>1. ClipRect(s, r) = Constrain(r, s.clip)
    BY <1>2 DEF ClipRect
  <2>2. /\ Constrain(r, s.clip) \in Rects
        /\ PixelsOf(Constrain(r, s.clip)) = PixelsOf(r) \cap PixelsOf(s.clip)
    BY <1>1, ConstrainIsRect, ConstrainIsCommon
  <2> QED BY <1>1, <2>1, <2>2 DEF Within
<1>3. CASE ~s.clipped
  BY <1>1, <1>3, BoundIsCommon DEF ClipRect
<1> QED BY <1>2, <1>3

\* The rectangle of which a drawing says that it was changed.
LEMMA ChangedOrOneIs ==
  ASSUME NEW s, SurfaceOK(s), NEW r, Within(s, r), NEW C, C \subseteq PixelsOf(r)
  PROVE  /\ Within(s, ChangedRect(C)) /\ C \subseteq PixelsOf(ChangedRect(C))
         /\ Within(s, ChangedOrOne(r, C)) /\ C \subseteq PixelsOf(ChangedOrOne(r, C))
         /\ PixelsOf(ChangedOrOne(r, C)) \subseteq PixelsOf(r)
<1>1. /\ ChangedRect(C) \in Rects /\ C \subseteq PixelsOf(ChangedRect(C))
      /\ PixelsOf(ChangedRect(C)) \subseteq PixelsOf(r)
  BY ChangedIsWithin DEF Within
<1> QED BY <1>1 DEF Within, ChangedOrOne

LEMMA DrawStep ==
  ASSUME Inv, NEW s \in Surfaces, Draw(s) PROVE Inv'
<1> DEFINE P(request) == PixelsOf(ClipRect(surface[s], request))
           C(request, opaque, D) ==
             IF opaque THEN D \union (P(request) \cap surface[s].clear) ELSE D
           left(request, opaque, D, translucent) ==
             IF translucent THEN surface[s].clear ELSE surface[s].clear \ C(request, opaque, D)
           Drawn(request, opaque, D, translucent) ==
             PutOff(s, WithClear(surface[s], left(request, opaque, D, translucent)),
                    ChangedRect(C(request, opaque, D)), C(request, opaque, D))
<1>1. s \in exists /\ UNCHANGED <<exists, blackened, joinVars>>
  BY DEF Draw
<1>2. \E request \in Requests, opaque \in Opacity :
        \E D \in Differences(P(request)), translucent \in BOOLEAN :
          Drawn(request, opaque, D, translucent)
  BY Zenon DEF Draw, WithClear
<1> HIDE DEF Drawn
<1>3. PICK request \in Requests, opaque \in Opacity :
        \E D \in Differences(P(request)), translucent \in BOOLEAN :
          Drawn(request, opaque, D, translucent)
  BY <1>2
<1>4. PICK D \in Differences(P(request)), translucent \in BOOLEAN :
        Drawn(request, opaque, D, translucent)
  BY <1>3
<1> DEFINE Q == P(request)
           E == C(request, opaque, D)
           c == left(request, opaque, D, translucent)
<1>5. request \in Rects /\ SurfaceOK(surface[s])
      /\ surface[s].clear \subseteq PixelsOf(Bounds(surface[s]))
  BY <1>1, DisplayAssumption, SurfaceIsOK
<1>6. Within(surface[s], ClipRect(surface[s], request))
  BY <1>5, ClipIsWithin
<1>7. D \subseteq Q
  BY DEF Differences
<1>8. E \subseteq PixelsOf(ClipRect(surface[s], request))
  BY <1>7
<1>9. c \subseteq surface[s].clear /\ surface[s].clear \ c \subseteq E
  OBVIOUS
<1>10. PutOff(s, WithClear(surface[s], c), ChangedRect(E), E)
  BY <1>4 DEF Drawn
<1> HIDE DEF E, c, Q
<1>11. Within(surface[s], ChangedRect(E)) /\ E \subseteq PixelsOf(ChangedRect(E))
  BY <1>5, <1>6, <1>8, ChangedOrOneIs
<1>12. c \subseteq PixelsOf(Bounds(surface[s]))
  BY <1>5, <1>9
<1> QED BY <1>1, <1>9, <1>10, <1>11, <1>12, PutOffStep

LEMMA PaintStep ==
  ASSUME Inv, NEW s \in Surfaces, Paint(s) PROVE Inv'
<1> DEFINE r(request) == ClipRect(surface[s], request)
           c(request) == surface[s].clear \ PixelsOf(r(request))
<1>1. s \in exists /\ UNCHANGED <<exists, blackened, joinVars>>
  BY DEF Paint
<1>2. PICK request \in Requests :
        PutOff(s, WithClear(surface[s], c(request)), r(request), PixelsOf(r(request)))
  BY Zenon DEF Paint, WithClear
<1>3. request \in Rects /\ SurfaceOK(surface[s])
      /\ surface[s].clear \subseteq PixelsOf(Bounds(surface[s]))
  BY <1>1, DisplayAssumption, SurfaceIsOK
<1>4. Within(surface[s], r(request))
  BY <1>3, ClipIsWithin
<1>5. /\ c(request) \subseteq PixelsOf(Bounds(surface[s]))
      /\ surface[s].clear \ c(request) \subseteq PixelsOf(r(request))
  BY <1>3
<1> HIDE DEF r, c
<1> QED BY <1>1, <1>2, <1>4, <1>5, PutOffStep

\* A surface that is drawn on and sent at once: what was drawn is sent last.
FlushedAt(d, lossy) == [Flushed(d, Bitmaps(d, lossy)) EXCEPT !.realized = TRUE]

LEMMA FlushedAtIsOK ==
  ASSUME NEW s, SurfaceOK(s), NEW c, c \subseteq PixelsOf(Bounds(s)),
         NEW u, NEW C, s.clear \ c \subseteq C, C \subseteq PixelsOf(u), Within(s, u),
         NEW lossy \in BOOLEAN, NEW d, d = WithClear(s, c)
  PROVE  /\ SurfaceOK(FlushedAt(d, lossy)) /\ FlushedAt(d, lossy).realized
         /\ \A w : \A rule : ViewOK(w, s, rule) =>
              ViewOK(AfterFlush(d, w \union C, Bitmaps(d, lossy)) \ PixelsOf(u),
                     FlushedAt(d, lossy), rule)
<1>1. /\ SurfaceOK(d) /\ d.clear = c /\ Bounds(d) = Bounds(s) /\ Waiting(d) = Waiting(s)
  BY ClearChanges
<1>2. /\ SurfaceOK(FlushedAt(d, lossy)) /\ FlushedAt(d, lossy).realized
      /\ FlushedAt(d, lossy).clear = c /\ Bounds(FlushedAt(d, lossy)) = Bounds(s)
  BY <1>1, FlushedIsOK DEF FlushedAt
<1>3. ASSUME NEW w, NEW rule, ViewOK(w, s, rule)
      PROVE  ViewOK(AfterFlush(d, w \union C, Bitmaps(d, lossy)) \ PixelsOf(u),
                     FlushedAt(d, lossy), rule)
  <2> DEFINE a == AfterFlush(d, w \union C, Bitmaps(d, lossy))
  <2>1. w \union C \subseteq PixelsOf(Bounds(d))
    BY <1>1, <1>3 DEF ViewOK, Within
  <2>2. /\ a \subseteq ((w \union C) \ Waiting(d)) \union d.clear
        /\ a \subseteq PixelsOf(Bounds(d))
    BY <1>1, <2>1, FlushLeaves
  <2> HIDE DEF a
  <2>3. ASSUME rule = "strict" PROVE a \ PixelsOf(u) \subseteq c
    BY <1>1, <1>3, <2>2, <2>3 DEF ViewOK
  <2> QED BY <1>1, <1>2, <2>2, <2>3 DEF ViewOK, a
<1> QED BY <1>2, <1>3, Zenon

\* A surface that is drawn on and marked.
MarkedAt(d, u) == [d EXCEPT !.dirty = MarkDirty(@, u)]

LEMMA MarkedAtIsOK ==
  ASSUME NEW s, SurfaceOK(s), NEW c, c \subseteq PixelsOf(Bounds(s)),
         NEW u, NEW C, s.clear \ c \subseteq C, C \subseteq PixelsOf(u), Within(s, u),
         NEW d, d = WithClear(s, c)
  PROVE  /\ SurfaceOK(MarkedAt(d, u)) /\ MarkedAt(d, u).realized = s.realized
         /\ \A w : \A rule : ViewOK(w, s, rule) =>
              /\ ViewOK(w \union C, MarkedAt(d, u), rule)
              /\ ViewOK(AfterFlush(d, w \union C, <<>>) \ {}, MarkedAt(d, u), rule)
<1>1. /\ SurfaceOK(d) /\ d.clear = c /\ Bounds(d) = Bounds(s) /\ Waiting(d) = Waiting(s)
      /\ d.realized = s.realized
  BY ClearChanges
<1>2. /\ SurfaceOK(MarkedAt(d, u)) /\ MarkedAt(d, u).realized = s.realized
      /\ MarkedAt(d, u).clear = c /\ Bounds(MarkedAt(d, u)) = Bounds(s)
      /\ Waiting(s) \union PixelsOf(u) \subseteq Waiting(MarkedAt(d, u))
  <2>1. Within(d, u)
    BY <1>1 DEF Within
  <2> QED BY <1>1, <2>1, MarkedIsOK DEF MarkedAt
<1>3. ASSUME NEW w, NEW rule, ViewOK(w, s, rule)
      PROVE  ViewOK(w \union C, MarkedAt(d, u), rule)
  BY <1>2, <1>3 DEF ViewOK, Within
<1>4. ASSUME NEW w, NEW rule, ViewOK(w, s, rule)
      PROVE  ViewOK(AfterFlush(d, w \union C, <<>>) \ {}, MarkedAt(d, u), rule)
  <2>1. AfterFlush(d, w \union C, <<>>) \subseteq (w \union C) \union d.clear
    <3>1. <<>> \in Seq(BitmapType)
      OBVIOUS
    <3> QED BY <3>1, FlushCorrects
  <2> QED BY <1>1, <1>2, <1>3, <1>4, <2>1 DEF ViewOK, SurfaceOK
<1> QED BY <1>2, <1>3, <1>4, Zenon

\* One surface is drawn on and its users see A, if something is sent only as
\* Sent says.
LEMMA SeeStep ==
  ASSUME Inv, NEW s \in exists, UNCHANGED <<exists, blackened, joinVars>>,
         NEW e, surface' = [surface EXCEPT ![s] = e], SurfaceOK(e),
         surface[s].realized => e.realized,
         NEW A, NEW C, Saw(s, C, A), NEW something \in BOOLEAN, Sent(s, something),
         \A v \in Views : ViewOK(wrong[v][s], surface[s], Rule(s)) =>
           /\ ViewOK(A[v], e, Rule(s))
           /\ ~something => ViewOK(wrong[v][s] \union C, e, Rule(s))
  PROVE  Inv'
<1>1. s \in Surfaces /\ States
  BY SurfaceIsOK DEF Inv
<1>2. missed' = (missed \/ (something /\ ~Hears("joiner") /\ Has("joiner", s)))
  BY DEF Sent
<1>3. /\ wrong' = [v \in Views |-> [t \in Surfaces |-> wrong'[v][t]]]
      /\ \A v \in Views, t \in Surfaces : t # s => wrong'[v][t] = wrong[v][t]
      /\ \A v \in Views : Hears(v) => wrong'[v][s] = A[v]
      /\ \A v \in Views : ~Hears(v) /\ Has(v, s) => wrong'[v][s] = wrong[v][s] \union C
  BY <1>1, SeenIs
<1>4. ASSUME NEW v \in Views, Counts(v, s), v = "users" \/ ~missed'
      PROVE  ViewOK(wrong'[v][s], e, Rule(s)')
  <2>1. ViewOK(wrong[v][s], surface[s], Rule(s))
    BY <1>1, <1>4 DEF Inv
  <2>2. Rule(s)' = Rule(s)
    BY DEF Rule
  <2>3. CASE Hears(v)
    BY <1>3, <2>1, <2>2, <2>3
  <2>4. CASE ~Hears(v)
    <3>1. v = "joiner" /\ Has(v, s) /\ ~missed'
      BY <1>4, <2>4, TypesOfConstants DEF Counts, Hears
    <3>2. ~something
      BY <1>2, <2>4, <3>1
    <3>3. ViewOK(wrong[v][s] \union C, e, Rule(s))
      BY <2>1, <3>2
    <3>4. wrong'[v][s] = wrong[v][s] \union C
      BY <1>3, <2>4, <3>1
    <3> QED BY <2>2, <3>3, <3>4
  <2> QED BY <2>3, <2>4
<1>5. missed' \in BOOLEAN /\ (missed => missed')
  BY <1>1, <1>2 DEF States
<1>6. /\ blackened \subseteq blackened' /\ blackened' \subseteq blackened \union {s}
      /\ UNCHANGED <<exists, joinVars>>
  OBVIOUS
<1> QED BY <1>3, <1>4, <1>5, <1>6, OneSurface

LEMMA SetColourStep ==
  ASSUME Inv, NEW s \in Surfaces, SetColour(s) PROVE Inv'
<1> DEFINE r(request) == ClipRect(surface[s], request)
           P(request) == PixelsOf(r(request))
           c(request, opaque) == IF opaque THEN surface[s].clear \ P(request)
                                 ELSE surface[s].clear \union P(request)
           C(request, opaque, D) == D \union IF opaque THEN P(request) \cap surface[s].clear
                                             ELSE P(request) \ surface[s].clear
           Done(d, F, u, opaque, lossy) ==
             LET combine == ShouldCombine(d.dirty, u, TRUE)
                 sent == IF combine THEN <<>> ELSE Bitmaps(d, lossy)
             IN /\ ~IsEmpty(u)
                /\ lossy => opaque /\ sent # <<>>
                /\ IF ~opaque THEN PutOff(s, d, u, F)
                   ELSE /\ surface' = [surface EXCEPT ![s] =
                             IF combine THEN [d EXCEPT !.dirty = MarkDirty(@, u)]
                             ELSE [Flushed(d, sent) EXCEPT !.realized = TRUE]]
                        /\ wrong' = [v \in Views |-> [wrong[v] EXCEPT ![s] =
                             IF Hears(v) THEN AfterFlush(d, wrong[v][s] \union F, sent)
                                                \ IF combine THEN {} ELSE PixelsOf(u)
                             ELSE IF Has(v, s) THEN @ \union F ELSE {}]]
                        /\ Sent(s, ~combine)
           Set(request, opaque, lossy, D) ==
             Done(WithClear(surface[s], c(request, opaque)), C(request, opaque, D),
                  ChangedOrOne(r(request), C(request, opaque, D)), opaque, lossy)
<1>1. s \in exists /\ UNCHANGED <<exists, blackened, joinVars>>
  BY DEF SetColour
<1>2. \E request \in Requests, opaque \in Opacity, lossy \in BOOLEAN :
        /\ ~IsEmpty(r(request))
        /\ \E D \in {P(request), {}} : Set(request, opaque, lossy, D)
  BY ZenonT(60) DEF SetColour, WithClear, See
<1> HIDE DEF Set
<1>3. PICK request \in Requests, opaque \in Opacity, lossy \in BOOLEAN :
        \E D \in {P(request), {}} : Set(request, opaque, lossy, D)
  BY <1>2
<1>4. PICK D \in {P(request), {}} : Set(request, opaque, lossy, D)
  BY <1>3
<1> DEFINE q == r(request)
           k == c(request, opaque)
           E == C(request, opaque, D)
           u == ChangedOrOne(q, E)
           d == WithClear(surface[s], k)
           combine == ShouldCombine(d.dirty, u, TRUE)
           A == [v \in Views |-> IF combine THEN AfterFlush(d, wrong[v][s] \union E, <<>>) \ {}
                                 ELSE AfterFlush(d, wrong[v][s] \union E, Bitmaps(d, lossy))
                                        \ PixelsOf(u)]
           e == IF combine THEN MarkedAt(d, u) ELSE FlushedAt(d, lossy)
<1>5. /\ request \in Rects /\ SurfaceOK(surface[s]) /\ opaque \in BOOLEAN
      /\ surface[s].clear \subseteq PixelsOf(Bounds(surface[s]))
  BY <1>1, DisplayAssumption, SurfaceIsOK
<1>6. Within(surface[s], q)
  BY <1>5, ClipIsWithin
<1>7. /\ E \subseteq PixelsOf(q) /\ surface[s].clear \ k \subseteq E
      /\ k \subseteq PixelsOf(Bounds(surface[s]))
  BY <1>5, <1>6 DEF Within
<1>8. Done(d, E, u, opaque, lossy)
  BY <1>4 DEF Set
<1> HIDE DEF q, k, E, c, C, P, r
<1>9. Within(surface[s], u) /\ E \subseteq PixelsOf(u)
  BY <1>5, <1>6, <1>7, ChangedOrOneIs
<1>10. CASE ~opaque
  <2>1. PutOff(s, WithClear(surface[s], k), u, E)
    BY <1>8, <1>10
  <2> HIDE DEF u
  <2> QED BY <1>1, <1>7, <1>9, <2>1, PutOffStep
<1>11. CASE opaque
  <2> HIDE DEF u, d
  <2>1. surface' = [surface EXCEPT ![s] = e]
    BY <1>8, <1>11 DEF MarkedAt, FlushedAt
  <2>2. Saw(s, E, A)
    <3> DEFINE sent == IF combine THEN <<>> ELSE Bitmaps(d, lossy)
               X(v) == AfterFlush(d, wrong[v][s] \union E, sent)
                         \ IF combine THEN {} ELSE PixelsOf(u)
    <3>1. wrong' = [v \in Views |-> [wrong[v] EXCEPT ![s] =
                          IF Hears(v) THEN X(v)
                          ELSE IF Has(v, s) THEN @ \union E ELSE {}]]
      BY <1>8, <1>11
    <3>2. ASSUME NEW v \in Views PROVE A[v] = X(v)
      <4>1. CASE combine
        BY <4>1
      <4>2. CASE ~combine
        BY <4>2
      <4> QED BY <4>1, <4>2
    <3> HIDE DEF A, X
    <3> QED BY <3>1, <3>2 DEF Saw
  <2>3. Sent(s, ~combine)
    BY <1>8, <1>11
  <2>4. /\ \A v \in Views : combine => A[v] = AfterFlush(d, wrong[v][s] \union E, <<>>) \ {}
        /\ \A v \in Views : ~combine =>
             A[v] = AfterFlush(d, wrong[v][s] \union E, Bitmaps(d, lossy)) \ PixelsOf(u)
    OBVIOUS
  <2>5. /\ combine => e = MarkedAt(d, u)
        /\ ~combine => e = FlushedAt(d, lossy)
    OBVIOUS
  <2> HIDE DEF A, e
  <2>6. /\ SurfaceOK(MarkedAt(d, u)) /\ MarkedAt(d, u).realized = surface[s].realized
        /\ \A w : \A rule : ViewOK(w, surface[s], rule) =>
             /\ ViewOK(w \union E, MarkedAt(d, u), rule)
             /\ ViewOK(AfterFlush(d, w \union E, <<>>) \ {}, MarkedAt(d, u), rule)
    BY <1>5, <1>7, <1>9, MarkedAtIsOK DEF d
  <2>7. /\ SurfaceOK(FlushedAt(d, lossy)) /\ FlushedAt(d, lossy).realized
        /\ \A w : \A rule : ViewOK(w, surface[s], rule) =>
             ViewOK(AfterFlush(d, w \union E, Bitmaps(d, lossy)) \ PixelsOf(u),
                    FlushedAt(d, lossy), rule)
    BY <1>5, <1>7, <1>9, FlushedAtIsOK DEF d
  <2>8. SurfaceOK(e) /\ (surface[s].realized => e.realized)
    BY <2>5, <2>6, <2>7
  <2>9. \A v \in Views : ViewOK(wrong[v][s], surface[s], Rule(s)) =>
          /\ ViewOK(A[v], e, Rule(s))
          /\ combine => ViewOK(wrong[v][s] \union E, e, Rule(s))
    <3> HIDE DEF combine
    <3> TAKE v \in Views
    <3>1. CASE combine
      <4>1. /\ e = MarkedAt(d, u)
            /\ A[v] = AfterFlush(d, wrong[v][s] \union E, <<>>) \ {}
        BY <2>4, <2>5, <3>1
      <4> QED BY <2>6, <4>1
    <3>2. CASE ~combine
      <4>1. /\ e = FlushedAt(d, lossy)
            /\ A[v] = AfterFlush(d, wrong[v][s] \union E, Bitmaps(d, lossy)) \ PixelsOf(u)
        BY <2>4, <2>5, <3>2
      <4> QED BY <2>7, <3>2, <4>1
    <3> QED BY <3>1, <3>2
  <2> HIDE DEF combine
  <2> DEFINE something == ~combine
  <2>10. something \in BOOLEAN /\ Sent(s, something)
    BY <2>3
  <2>11. \A v \in Views : ViewOK(wrong[v][s], surface[s], Rule(s)) =>
          /\ ViewOK(A[v], e, Rule(s))
          /\ ~something => ViewOK(wrong[v][s] \union E, e, Rule(s))
    BY <2>9
  <2> HIDE DEF something
  <2> QED BY <1>1, <2>1, <2>2, <2>8, <2>10, <2>11, SeeStep
<1> QED BY <1>5, <1>10, <1>11

\* A flush of the surface on its own.
LEMMA FlushStep ==
  ASSUME Inv, NEW s \in exists, Flush(s) PROVE Inv'
<1>1. PICK lossy \in BOOLEAN :
        LET sent == Bitmaps(surface[s], lossy)
        IN /\ surface' = [surface EXCEPT ![s] = Flushed(@, sent)]
           /\ See(s, {}, LAMBDA v : AfterFlush(surface[s], wrong[v][s], sent))
           /\ Sent(s, sent # <<>>)
  BY Zenon DEF Flush
<1> DEFINE sent == Bitmaps(surface[s], lossy)
           e == Flushed(surface[s], sent)
           A == [v \in Views |-> AfterFlush(surface[s], wrong[v][s], sent)]
           something == sent # <<>>
<1>2. surface' = [surface EXCEPT ![s] = e]
  BY <1>1
<1>3. Saw(s, {}, A)
  <2> HIDE DEF sent
  <2>1. See(s, {}, LAMBDA v : AfterFlush(surface[s], wrong[v][s], sent))
    BY <1>1 DEF sent
  <2> QED BY <2>1 DEF See, Saw
<1>4. something \in BOOLEAN /\ Sent(s, something)
  BY <1>1
<1>5. /\ SurfaceOK(surface[s]) /\ UNCHANGED <<exists, blackened, joinVars>>
  BY SurfaceIsOK DEF Flush
<1>6. /\ SurfaceOK(e) /\ e.clear = surface[s].clear /\ Bounds(e) = Bounds(surface[s])
      /\ surface[s].realized => e.realized
  <2> HIDE DEF sent
  <2> QED BY <1>5, FlushedIsOK
<1>7. \A v \in Views : A[v] = AfterFlush(surface[s], wrong[v][s], sent)
  OBVIOUS
<1> HIDE DEF A
<1>8. ASSUME NEW v \in Views, ViewOK(wrong[v][s], surface[s], Rule(s))
      PROVE  /\ ViewOK(A[v], e, Rule(s))
             /\ ~something => ViewOK(wrong[v][s] \union {}, e, Rule(s))
  <2>1. wrong[v][s] \subseteq PixelsOf(Bounds(surface[s]))
    BY <1>8 DEF ViewOK
  <2>2. /\ A[v] \subseteq (wrong[v][s] \ Waiting(surface[s])) \union surface[s].clear
        /\ A[v] \subseteq PixelsOf(Bounds(surface[s]))
    BY <1>5, <1>7, <2>1, FlushLeaves
  <2>3. sent = <<>> => wrong[v][s] \cap Waiting(surface[s]) = {}
    <3>1. Waiting(surface[s]) \cap PixelsOf(Bounds(surface[s])) \subseteq PixelsOfAll(sent)
      BY <1>5, FlushCovers DEF SurfaceOK
    <3>2. PixelsOfAll(<<>>) = {}
      BY DEF PixelsOfAll
    <3> HIDE DEF sent
    <3> QED BY <2>1, <3>1, <3>2
  <2> HIDE DEF sent, e
  <2> QED BY <1>6, <1>8, <2>1, <2>2, <2>3 DEF ViewOK
<1> HIDE DEF something, e, sent
<1> QED BY <1>2, <1>3, <1>4, <1>5, <1>6, <1>8, SeeStep

LEMMA NewIsOK ==
  ASSUME NEW s \in Surfaces
  PROVE  /\ SurfaceOK(New(s)) /\ (s = Default => New(s).realized)
         /\ \A rule : ViewOK({}, New(s), rule)
<1> DEFINE w == SizeOf[s][1]
           h == SizeOf[s][2]
           n == New(s)
<1>1. w \in Nat /\ h \in Nat /\ QueueSize \in Nat /\ 0 < QueueSize
  BY DisplayAssumption
<1>2. /\ None \in Rects /\ Rect(0, 0, w, h) \in Rects /\ IsEmpty(None)
  BY <1>1 DEF None, Rect, Rects, IsEmpty
<1>3. PixelsOf(Rect(0, 0, w, h)) \in SUBSET (Int \X Int)
  BY DEF PixelsOf
<1>4. n = [ width |-> w, height |-> h, clear |-> PixelsOf(Rect(0, 0, w, h)),
            dirty |-> None, queue |-> <<>>, clip |-> None, clipped |-> FALSE,
            realized |-> s = Default ]
  BY DEF New, NewSurface
<1> HIDE DEF n, w, h
<1>5. <<>> \in Seq(Rects) /\ Len(<<>>) = 0
  OBVIOUS
<1>6. n \in SurfaceType
  BY <1>1, <1>2, <1>3, <1>4, <1>5 DEF SurfaceType
<1>7. /\ n.dirty = None /\ n.clip = None /\ Len(n.queue) < QueueSize
      /\ n.clear = PixelsOf(Bounds(n)) /\ (s = Default => n.realized)
  BY <1>1, <1>4, <1>5 DEF Bounds
<1>8. PixelsOf(n.clip) = {}
  BY <1>2, <1>7, EmptyHasNone
<1>9. SurfaceOK(n)
  BY <1>6, <1>7, <1>8 DEF SurfaceOK, Fits, DirtyWithin
<1> QED BY <1>7, <1>9 DEF ViewOK, n

LEMMA InitInv == Init => Inv
<1> SUFFICES ASSUME Init PROVE Inv
  OBVIOUS
<1>1. /\ exists = {Default} /\ surface = [s \in Surfaces |-> New(s)]
      /\ wrong = [v \in Views |-> [s \in Surfaces |-> {}]]
      /\ blackened = {} /\ joining = "away" /\ copied = {} /\ missed = FALSE
  BY DEF Init
<1>2. States
  <2>1. \A s \in Surfaces : surface[s] = New(s)
    BY <1>1
  <2>2. surface[Default].realized
    BY <2>1, TypesOfConstants, NewIsOK
  <2>3. \A v \in Views : wrong[v] = [s \in Surfaces |-> wrong[v][s]]
    BY <1>1
  <2>4. wrong = [v \in Views |-> [s \in Surfaces |-> wrong[v][s]]]
    BY <1>1
  <2>5. exists \subseteq Surfaces
    BY <1>1, TypesOfConstants
  <2> QED BY <1>1, <2>1, <2>2, <2>4, <2>5 DEF States
<1>3. \A s \in Surfaces : SurfaceOK(surface[s])
  BY <1>1, NewIsOK
<1>4. ASSUME NEW v \in Views, NEW s \in Surfaces
      PROVE  ViewOK(wrong[v][s], surface[s], Rule(s))
  <2>1. wrong[v][s] = {} /\ surface[s] = New(s)
    BY <1>1
  <2> QED BY <2>1, NewIsOK
<1> QED BY <1>2, <1>3, <1>4 DEF Inv

\* A buffer comes or goes: its surface is new, and nobody has it wrong.
LEMMA Renewed ==
  ASSUME Inv, NEW s \in Buffers, joining # "dup", UNCHANGED joinVars,
         exists' \ {s} = exists \ {s}, surface' = [surface EXCEPT ![s] = New(s)],
         wrong' = [v \in Views |-> [wrong[v] EXCEPT ![s] = {}]],
         blackened' \ {s} = blackened \ {s}, blackened' \subseteq exists',
         missed' \in BOOLEAN, missed => missed'
  PROVE  Inv'
<1>1. /\ States /\ s \in Surfaces /\ s # Default /\ joining' = joining /\ copied' = copied
      /\ copied = {} /\ joining \in {"away", "dup", "sent", "listed"}
  BY TypesOfConstants DEF Inv, States, joinVars
<1>2. /\ \A t \in Surfaces : surface'[t] = IF t = s THEN New(s) ELSE surface[t]
      /\ surface' = [t \in Surfaces |-> surface'[t]]
  BY <1>1 DEF States
<1>3. \A v \in Views : wrong[v] = [t \in Surfaces |-> wrong[v][t]]
  BY <1>1 DEF States
<1>4. \A v \in Views : wrong'[v] = [t \in Surfaces |-> IF t = s THEN {} ELSE wrong[v][t]]
  <2>1. \A v \in Views : [wrong[v] EXCEPT ![s] = {}]
                           = [t \in Surfaces |-> IF t = s THEN {} ELSE wrong[v][t]]
    BY <1>3
  <2> QED BY <2>1
<1>5. \A v \in Views, t \in Surfaces : wrong'[v][t] = IF t = s THEN {} ELSE wrong[v][t]
  BY <1>4
<1>6. wrong' = [v \in Views |-> [t \in Surfaces |-> wrong'[v][t]]]
  <2>1. \A v \in Views : wrong'[v] = [t \in Surfaces |-> wrong'[v][t]]
    BY <1>4
  <2> QED BY <2>1
<1>7. States'
  <2>1. surface'[Default].realized
    BY <1>1, <1>2, TypesOfConstants DEF States
  <2>2. exists' \subseteq Surfaces /\ Default \in exists'
    BY <1>1 DEF States
  <2> QED BY <1>1, <1>2, <1>6, <2>1, <2>2 DEF States
<1>8. \A t \in Surfaces : SurfaceOK(surface[t])'
  <2>1. \A t \in Surfaces : SurfaceOK(surface'[t])
    BY <1>1, <1>2, NewIsOK DEF Inv
  <2> QED BY <2>1 DEF SurfaceOK, Fits, DirtyWithin, Within
<1>9. ASSUME NEW v \in Views, NEW t \in Surfaces, Counts(v, t)'
      PROVE  ViewOK(wrong'[v][t], surface'[t], Rule(t)')
  <2>1. CASE t = s
    BY <1>1, <1>2, <1>5, <2>1, NewIsOK
  <2>2. CASE t # s
    <3>1. Counts(v, t)
      BY <1>1, <1>9, <2>2 DEF Counts, Has, Hears
    <3>2. ViewOK(wrong[v][t], surface[t], Rule(t))
      BY <3>1 DEF Inv
    <3>3. wrong'[v][t] = wrong[v][t] /\ surface'[t] = surface[t]
      BY <1>2, <1>5, <2>2
    <3>4. Rule(t)' = Rule(t)
      BY <2>2 DEF Rule
    <3> QED BY <3>2, <3>3, <3>4
  <2> QED BY <2>1, <2>2
<1>10. \A v \in Views, t \in Surfaces : Counts(v, t)' => ViewOK(wrong[v][t], surface[t], Rule(t))'
  BY <1>9 DEF ViewOK
<1> QED BY <1>7, <1>8, <1>10 DEF Inv

LEMMA BufferStep ==
  ASSUME Inv, NEW s \in Buffers, AllocBuffer(s) \/ FreeBuffer(s) PROVE Inv'
<1>1. States
  BY DEF Inv
<1>2. CASE AllocBuffer(s)
  <2>1. /\ joining # "dup" /\ UNCHANGED joinVars /\ exists' \ {s} = exists \ {s}
        /\ surface' = [surface EXCEPT ![s] = New(s)]
        /\ wrong' = [v \in Views |-> [wrong[v] EXCEPT ![s] = {}]]
        /\ blackened' \ {s} = blackened \ {s} /\ blackened' \subseteq exists'
        /\ missed' \in BOOLEAN /\ (missed => missed')
    BY <1>1, <1>2 DEF AllocBuffer, Unlocked, States
  <2> QED BY <2>1, Renewed
<1>3. CASE FreeBuffer(s)
  <2>1. /\ joining # "dup" /\ UNCHANGED joinVars /\ exists' \ {s} = exists \ {s}
        /\ surface' = [surface EXCEPT ![s] = New(s)]
        /\ wrong' = [v \in Views |-> [wrong[v] EXCEPT ![s] = {}]]
        /\ blackened' \ {s} = blackened \ {s} /\ blackened' \subseteq exists'
        /\ missed' \in BOOLEAN /\ (missed => missed')
    BY <1>1, <1>3 DEF FreeBuffer, Unlocked, States, Sent
  <2> QED BY <2>1, Renewed
<1> QED BY <1>2, <1>3

\* Another clipping rectangle changes nothing of what is to be sent.
LEMMA ReclippedIsOK ==
  ASSUME NEW s, SurfaceOK(s), NEW k \in BOOLEAN, NEW r, Within(s, r)
  PROVE  /\ SurfaceOK([s EXCEPT !.clipped = k, !.clip = r])
         /\ [s EXCEPT !.clipped = k, !.clip = r].realized = s.realized
         /\ \A w : \A rule : ViewOK(w, s, rule) =>
              ViewOK(w, [s EXCEPT !.clipped = k, !.clip = r], rule)
<1> DEFINE e == [s EXCEPT !.clipped = k, !.clip = r]
<1>1. s \in SurfaceType /\ r \in Rects
  BY DEF SurfaceOK, Fits, Within
<1>2. /\ e \in SurfaceType /\ e.clear = s.clear /\ e.dirty = s.dirty /\ e.queue = s.queue
      /\ e.clip = r /\ e.width = s.width /\ e.height = s.height /\ e.realized = s.realized
  BY <1>1 DEF SurfaceType
<1> HIDE DEF e
<1>3. Bounds(e) = Bounds(s) /\ Waiting(e) = Waiting(s)
  BY <1>2 DEF Bounds, Waiting
<1>4. SurfaceOK(e)
  BY <1>2, <1>3 DEF SurfaceOK, Fits, DirtyWithin, Within
<1> QED BY <1>2, <1>3, <1>4 DEF e, ViewOK

\* No user sees anything of a step that changes the clipping only.
LEMMA UnseenStep ==
  ASSUME Inv, NEW s \in exists, UNCHANGED <<exists, wrong, blackened, joinVars, missed>>,
         NEW k \in BOOLEAN, NEW r, Within(surface[s], r),
         NEW e, e = [surface[s] EXCEPT !.clipped = k, !.clip = r],
         surface' = [surface EXCEPT ![s] = e]
  PROVE  Inv'
<1>1. /\ SurfaceOK(surface[s]) /\ s \in Surfaces /\ States
  BY SurfaceIsOK DEF Inv
<1>2. /\ SurfaceOK(e) /\ e.realized = surface[s].realized
      /\ \A w : \A rule : ViewOK(w, surface[s], rule) => ViewOK(w, e, rule)
  BY <1>1, ReclippedIsOK
<1>3. /\ wrong' = [v \in Views |-> [t \in Surfaces |-> wrong'[v][t]]]
      /\ \A v \in Views, t \in Surfaces : t # s => wrong'[v][t] = wrong[v][t]
  <2>1. wrong' = wrong /\ wrong = [v \in Views |-> [t \in Surfaces |-> wrong[v][t]]]
    BY <1>1 DEF States
  <2> QED BY <2>1
<1>4. ASSUME NEW v \in Views, Counts(v, s)
      PROVE  ViewOK(wrong'[v][s], e, Rule(s)')
  <2>1. ViewOK(wrong[v][s], surface[s], Rule(s)) /\ Rule(s)' = Rule(s)
    BY <1>1, <1>4 DEF Inv, Rule
  <2> QED BY <1>2, <2>1
<1>5. missed' \in BOOLEAN /\ (missed => missed')
  BY <1>1 DEF States
<1>6. /\ blackened \subseteq blackened' /\ blackened' \subseteq blackened \union {s}
      /\ UNCHANGED <<exists, joinVars>> /\ (surface[s].realized => e.realized)
  BY <1>2
<1> QED BY <1>2, <1>3, <1>4, <1>5, <1>6, OneSurface

LEMMA ClipStep ==
  ASSUME Inv, NEW s \in exists, Clip(s) \/ ResetClip(s) PROVE Inv'
<1>1. /\ SurfaceOK(surface[s]) /\ s \in Surfaces /\ surface[s] \in SurfaceType
      /\ Bounds(surface[s]) \in Rects /\ surface = [t \in Surfaces |-> surface[t]]
  BY SurfaceIsOK DEF Inv, States
<1>2. CASE Clip(s)
  <2> DEFINE max == IF surface[s].clipped THEN surface[s].clip ELSE Bounds(surface[s])
             r(request) == Constrain(max, request)
  <2>1. PICK request \in Clips :
          surface' = [surface EXCEPT ![s] =
            [surface[s] EXCEPT !.clipped = TRUE, !.clip = r(request)]]
    BY <1>1, <1>2 DEF Clip
  <2>2. /\ max \in Rects /\ PixelsOf(max) \subseteq PixelsOf(Bounds(surface[s]))
        /\ request \in Rects
    BY <1>1, DisplayAssumption DEF SurfaceOK, Fits, SurfaceType
  <2>3. Within(surface[s], r(request))
    <3> HIDE DEF max
    <3> QED BY <2>2, ConstrainIsRect, ConstrainIsCommon DEF Within
  <2>4. UNCHANGED <<exists, wrong, blackened, joinVars, missed>> /\ TRUE \in BOOLEAN
    BY <1>2 DEF Clip
  <2> HIDE DEF r
  <2> QED BY <2>1, <2>3, <2>4, UnseenStep
<1>3. CASE ResetClip(s)
  <2>1. surface' = [surface EXCEPT ![s] = [surface[s] EXCEPT !.clipped = FALSE, !.clip = None]]
    BY <1>1, <1>3 DEF ResetClip
  <2>2. Within(surface[s], None)
    BY <1>1, BoundsAreRects, EmptyHasNone DEF Within
  <2>3. UNCHANGED <<exists, wrong, blackened, joinVars, missed>> /\ FALSE \in BOOLEAN
    BY <1>3 DEF ResetClip
  <2> QED BY <2>1, <2>2, <2>3, UnseenStep
<1> QED BY <1>2, <1>3

\* A surface of another size: what is left of the dirty rectangle waits, and the
\* pixels that are new are transparent.
ResizedTo(s, d) ==
  [d EXCEPT !.clip = BoundRect(d, @),
            !.clear = PixelsOf(Bounds(d)) \ PixelsOf(BoundRect(d, Bounds(s))),
            !.dirty = DirtyAfterResize(s, d)]

LEMMA ResizedIsOK ==
  ASSUME NEW s, SurfaceOK(s), NEW a \in Nat, NEW b \in Nat,
         NEW d, d = [s EXCEPT !.width = a, !.height = b]
  PROVE  /\ SurfaceOK(ResizedTo(s, d)) /\ ResizedTo(s, d).realized = s.realized
         /\ \A w : \A rule : LET kept == PixelsOf(BoundRect(d, Bounds(s)))
                                 dark == kept \cap s.clear
              IN ViewOK(w, s, rule) /\ (rule = "strict" => dark = {}) =>
                   ViewOK((w \cap kept) \union dark, ResizedTo(s, d), rule)
<1> DEFINE e == ResizedTo(s, d)
           kept == PixelsOf(BoundRect(d, Bounds(s)))
           dark == kept \cap s.clear
<1>1. s \in SurfaceType /\ DirtyWithin(s, s.dirty) /\ Len(s.queue) < QueueSize
  BY DEF SurfaceOK, Fits
<1>2. /\ d \in SurfaceType /\ d.width = a /\ d.height = b /\ d.clip = s.clip
      /\ d.dirty = s.dirty /\ d.queue = s.queue /\ d.realized = s.realized
  BY <1>1 DEF SurfaceType
<1>3. /\ Bounds(d) \in Rects /\ Bounds(s) \in Rects /\ None \in Rects
      /\ s.dirty \in Rects /\ s.clip \in Rects /\ PixelsOf(None) = {}
  BY <1>1, <1>2, BoundsAreRects, EmptyHasNone DEF SurfaceType
<1>4. /\ Within(d, BoundRect(d, s.clip)) /\ Within(d, BoundRect(d, s.dirty))
      /\ PixelsOf(BoundRect(d, s.dirty)) = PixelsOf(s.dirty) \cap PixelsOf(Bounds(d))
      /\ kept = PixelsOf(Bounds(s)) \cap PixelsOf(Bounds(d))
  BY <1>2, <1>3, BoundIsCommon
<1> DEFINE m == DirtyAfterResize(s, d)
           c == PixelsOf(Bounds(d)) \ kept
           r == BoundRect(d, s.clip)
<1>5. /\ DirtyWithin(d, m) /\ m \in Rects
      /\ PixelsOf(s.dirty) \cap PixelsOf(Bounds(d)) \subseteq PixelsOf(m)
  <2>1. CASE s.dirty = None \/ IsEmpty(BoundRect(d, s.dirty))
    <3>1. m = None
      BY <2>1 DEF DirtyAfterResize
    <3>2. PixelsOf(s.dirty) \cap PixelsOf(Bounds(d)) = {}
      BY <1>3, <1>4, <2>1, EmptyHasNone DEF Within
    <3> QED BY <1>3, <3>1, <3>2 DEF DirtyWithin
  <2>2. CASE ~(s.dirty = None \/ IsEmpty(BoundRect(d, s.dirty)))
    <3>1. m = BoundRect(d, s.dirty)
      BY <2>2 DEF DirtyAfterResize
    <3> QED BY <1>4, <2>2, <3>1 DEF DirtyWithin, Within
  <2> QED BY <2>1, <2>2
<1>6. c \in SUBSET (Int \X Int) /\ r \in Rects
  BY <1>4 DEF PixelsOf, Within
<1>7. e = [d EXCEPT !.clip = r, !.clear = c, !.dirty = m]
  BY <1>2 DEF ResizedTo
<1> HIDE DEF e, m, c, r, kept
<1>8. /\ e \in SurfaceType /\ e.width = a /\ e.height = b /\ e.clip = r /\ e.clear = c
      /\ e.dirty = m /\ e.queue = s.queue /\ e.realized = s.realized
  BY <1>2, <1>5, <1>6, <1>7 DEF SurfaceType
<1>9. Bounds(e) = Bounds(d)
  BY <1>2, <1>8 DEF Bounds
<1>10. SurfaceOK(e)
  <2>1. DirtyWithin(e, m)
    BY <1>5, <1>9 DEF DirtyWithin, Within
  <2> QED BY <1>1, <1>4, <1>8, <1>9, <2>1 DEF SurfaceOK, Fits, Within, c, r
<1>11. Waiting(s) \cap PixelsOf(Bounds(d)) \subseteq Waiting(e)
  <2>1. /\ Waiting(e) = PixelsOf(m) \union UNION {PixelsOf(s.queue[i]) : i \in 1 .. Len(s.queue)}
        /\ Waiting(s) = PixelsOf(s.dirty) \union UNION {PixelsOf(s.queue[i]) : i \in 1 .. Len(s.queue)}
    BY <1>8 DEF Waiting
  <2> QED BY <1>5, <2>1
<1>12. ASSUME NEW w, NEW rule, ViewOK(w, s, rule), rule = "strict" => dark = {}
       PROVE  ViewOK((w \cap kept) \union dark, e, rule)
  <2>1. (w \cap kept) \union dark \subseteq PixelsOf(Bounds(e))
    BY <1>4, <1>9
  <2>2. ASSUME rule = "strict", NEW x \in w \cap kept PROVE x \in Waiting(e)
    <3>1. x \notin s.clear
      BY <1>12, <2>2
    <3> QED BY <1>4, <1>11, <1>12, <2>2, <3>1 DEF ViewOK
  <2> QED BY <1>12, <2>1, <2>2 DEF ViewOK
<1> QED BY <1>8, <1>10, <1>12, Zenon DEF e, kept

LEMMA ResizeStep ==
  ASSUME Inv, Resize(Default) PROVE Inv'
<1> DEFINE s == Default
           d(size) == [surface[s] EXCEPT !.width = size[1], !.height = size[2]]
           kept(size) == PixelsOf(BoundRect(d(size), Bounds(surface[s])))
           dark(size) == kept(size) \cap surface[s].clear
<1>1. PICK size \in Sizes :
        /\ surface' = [surface EXCEPT ![s] = ResizedTo(surface[s], d(size))]
        /\ See(s, kept(size), LAMBDA v : (wrong[v][s] \cap kept(size)) \union dark(size))
        /\ Sent(s, surface[s].realized)
        /\ blackened' = IF dark(size) # {} THEN blackened \union {s} ELSE blackened
  BY Zenon DEF Resize, ResizedTo
<1> DEFINE D == d(size)
           K == kept(size)
           O == dark(size)
           e == ResizedTo(surface[s], D)
           A == [v \in Views |-> (wrong[v][s] \cap K) \union O]
<1>2. /\ s \in exists /\ s \in Surfaces /\ SurfaceOK(surface[s]) /\ States
      /\ UNCHANGED <<exists, joinVars>> /\ surface[s].realized /\ missed \in BOOLEAN
  BY SurfaceIsOK DEF Resize, Inv, States
<1>3. size[1] \in Nat /\ size[2] \in Nat
  BY DisplayAssumption
<1>4. /\ SurfaceOK(e) /\ e.realized
      /\ \A w : \A rule : ViewOK(w, surface[s], rule) /\ (rule = "strict" => O = {}) =>
           ViewOK((w \cap K) \union O, e, rule)
  BY <1>2, <1>3, ResizedIsOK
<1>5. Saw(s, K, A)
  <2> HIDE DEF d, kept, dark
  <2>1. See(s, K, LAMBDA v : (wrong[v][s] \cap K) \union O)
    BY <1>1
  <2> QED BY <2>1 DEF See, Saw
<1>6. /\ surface' = [surface EXCEPT ![s] = e]
      /\ missed' = (missed \/ (~Hears("joiner") /\ Has("joiner", s)))
      /\ blackened' = IF O # {} THEN blackened \union {s} ELSE blackened
  BY <1>1, <1>2 DEF Sent
<1>7. \A v \in Views : A[v] = (wrong[v][s] \cap K) \union O
  OBVIOUS
<1> HIDE DEF A, e, D, K, O, d, kept, dark
<1>8. /\ wrong' = [v \in Views |-> [t \in Surfaces |-> wrong'[v][t]]]
      /\ \A v \in Views, t \in Surfaces : t # s => wrong'[v][t] = wrong[v][t]
      /\ \A v \in Views : Hears(v) => wrong'[v][s] = A[v]
      /\ \A v \in Views : ~Hears(v) /\ Has(v, s) => wrong'[v][s] = wrong[v][s] \union K
  BY <1>2, <1>5, SeenIs
<1>9. ASSUME NEW v \in Views, Counts(v, s), v = "users" \/ ~missed'
      PROVE  ViewOK(wrong'[v][s], e, Rule(s)')
  <2>1. Hears(v)
    BY <1>6, <1>9, TypesOfConstants DEF Counts, Hears
  <2>2. wrong'[v][s] = (wrong[v][s] \cap K) \union O
    BY <1>7, <1>8, <2>1
  <2>3. ViewOK(wrong[v][s], surface[s], Rule(s))
    BY <1>2, <1>9 DEF Inv
  <2>4. ViewOK(wrong[v][s], surface[s], Rule(s)') /\ (Rule(s)' = "strict" => O = {})
    <3>1. Rule(s)' = "strict" => Rule(s) = "strict" /\ O = {}
      BY <1>6 DEF Rule
    <3> QED BY <2>3, <3>1 DEF ViewOK
  <2> QED BY <1>4, <2>2, <2>4
<1>10. /\ missed' \in BOOLEAN /\ (missed => missed')
       /\ blackened \subseteq blackened' /\ blackened' \subseteq blackened \union {s}
       /\ surface[s].realized => e.realized
  BY <1>2, <1>4, <1>6
<1> HIDE DEF s
<1> QED BY <1>2, <1>4, <1>6, <1>8, <1>9, <1>10, OneSurface

LEMMA DupStep ==
  ASSUME Inv, NEW s \in Surfaces, Dup(s) PROVE Inv'
<1>1. /\ States /\ UNCHANGED <<exists, surface, blackened, missed>>
      /\ wrong' = [wrong EXCEPT !["joiner"][s] = WrongAfterDup(s)]
      /\ s \in exists
  BY DEF Dup, Inv, States
<1>2. /\ \/ joining' = "sent" /\ copied' = {} /\ exists = copied \union {s}
         \/ joining' = "dup" /\ copied' = copied \union {s}
      /\ joining = "away" \/ joining = "dup"
  BY DEF Dup
<1>3. wrong = [v \in Views |-> wrong[v]]
      /\ \A v \in Views : wrong[v] = [t \in Surfaces |-> wrong[v][t]]
  BY <1>1 DEF States
<1>4. wrong'["users"] = wrong["users"]
      /\ wrong'["joiner"] = [wrong["joiner"] EXCEPT ![s] = WrongAfterDup(s)]
      /\ wrong' = [v \in Views |-> wrong'[v]]
  BY <1>1, <1>3, TypesOfConstants
<1>5. wrong'["joiner"] = [t \in Surfaces |-> IF t = s THEN WrongAfterDup(s) ELSE wrong["joiner"][t]]
  <2>1. wrong["joiner"] = [t \in Surfaces |-> wrong["joiner"][t]]
    BY <1>3, TypesOfConstants
  <2> QED BY <1>4, <2>1
<1>6. wrong' = [v \in Views |-> [t \in Surfaces |-> wrong'[v][t]]]
  <2>1. ASSUME NEW v \in Views PROVE wrong'[v] = [t \in Surfaces |-> wrong'[v][t]]
    <3>1. CASE v = "users"
      <4>1. wrong["users"] = [t \in Surfaces |-> wrong["users"][t]]
        BY <1>3, TypesOfConstants
      <4> QED BY <1>4, <3>1, <4>1
    <3>2. CASE v = "joiner"
      BY <1>5, <3>2
    <3> QED BY <3>1, <3>2, TypesOfConstants
  <2> QED BY <1>4, <2>1
<1>7. States'
  BY <1>1, <1>2, <1>6 DEF States
<1>8. \A t \in Surfaces : SurfaceOK(surface[t])'
  <2>1. \A t \in Surfaces : SurfaceOK(surface'[t])
    BY <1>1 DEF Inv
  <2> QED BY <2>1 DEF SurfaceOK, Fits, DirtyWithin, Within
<1>9. ASSUME NEW v \in Views, NEW t \in Surfaces, Counts(v, t)'
      PROVE  ViewOK(wrong'[v][t], surface'[t], Rule(t)')
  <2>1. surface'[t] = surface[t] /\ Rule(t)' = Rule(t)
    BY <1>1 DEF Rule
  <2>2. ViewOK(wrong["users"][t], surface[t], Rule(t))
    BY TypesOfConstants DEF Inv, Counts
  <2>3. CASE v = "users"
    BY <1>4, <2>1, <2>2, <2>3
  <2>4. CASE v = "joiner" /\ t = s
    <3>1. wrong'[v][t] = {} \/ wrong'[v][t] = wrong["users"][t]
      BY <1>5, <2>4 DEF WrongAfterDup
    <3> QED BY <2>1, <2>2, <3>1 DEF ViewOK
  <2>5. CASE v = "joiner" /\ t # s
    <3>1. Counts(v, t)
      BY <1>1, <1>2, <1>9, <2>5 DEF Counts, Has, Hears
    <3>2. ViewOK(wrong[v][t], surface[t], Rule(t))
      BY <3>1 DEF Inv
    <3>3. wrong'[v][t] = wrong[v][t]
      BY <1>5, <2>5
    <3> QED BY <2>1, <3>2, <3>3
  <2> QED BY <2>3, <2>4, <2>5, TypesOfConstants
<1>10. \A v \in Views, t \in Surfaces : Counts(v, t)' => ViewOK(wrong[v][t], surface[t], Rule(t))'
  BY <1>9 DEF ViewOK
<1> QED BY <1>7, <1>8, <1>10 DEF Inv

LEMMA ListedStep ==
  ASSUME Inv, Listed PROVE Inv'
<1>1. /\ UNCHANGED <<exists, surface, wrong, blackened, copied, missed>>
      /\ joining = "sent" /\ joining' = "listed"
  BY DEF Listed
<1>2. States'
  BY <1>1 DEF Inv, States
<1>3. \A v \in Views, t \in Surfaces : Counts(v, t)' => Counts(v, t)
  BY <1>1, TypesOfConstants DEF Counts, Has, Hears
<1>4. \A t \in Surfaces : (Rule(t))' = Rule(t)
  BY <1>1 DEF Rule
<1>5. ASSUME NEW v \in Views, NEW t \in Surfaces, Counts(v, t)'
      PROVE  ViewOK(wrong'[v][t], surface'[t], Rule(t)')
  <2>1. ViewOK(wrong[v][t], surface[t], Rule(t))
    BY <1>3, <1>5 DEF Inv
  <2> QED BY <1>1, <1>4, <2>1
<1>6. \A v \in Views, t \in Surfaces : Counts(v, t)' => ViewOK(wrong[v][t], surface[t], Rule(t))'
  BY <1>5 DEF ViewOK
<1>7. \A t \in Surfaces : SurfaceOK(surface[t])'
  <2>1. \A t \in Surfaces : SurfaceOK(surface'[t])
    BY <1>1 DEF Inv
  <2> QED BY <2>1 DEF SurfaceOK, Fits, DirtyWithin, Within
<1> QED BY <1>2, <1>6, <1>7 DEF Inv

LEMMA StutterStep ==
  ASSUME Inv, UNCHANGED vars PROVE Inv'
<1>1. /\ UNCHANGED <<exists, surface, wrong, blackened, joining, copied, missed>>
  BY DEF vars, joinVars
<1>2. States'
  BY <1>1 DEF Inv, States
<1>5. ASSUME NEW v \in Views, NEW t \in Surfaces, Counts(v, t)'
      PROVE  ViewOK(wrong'[v][t], surface'[t], Rule(t)')
  <2>1. Counts(v, t) /\ Rule(t)' = Rule(t)
    BY <1>1, <1>5 DEF Counts, Has, Hears, Rule
  <2>2. ViewOK(wrong[v][t], surface[t], Rule(t))
    BY <2>1 DEF Inv
  <2> QED BY <1>1, <2>1, <2>2
<1>6. \A v \in Views, t \in Surfaces : Counts(v, t)' => ViewOK(wrong[v][t], surface[t], Rule(t))'
  BY <1>5 DEF ViewOK
<1>7. \A t \in Surfaces : SurfaceOK(surface[t])'
  <2>1. \A t \in Surfaces : SurfaceOK(surface'[t])
    BY <1>1 DEF Inv
  <2> QED BY <2>1 DEF SurfaceOK, Fits, DirtyWithin, Within
<1> QED BY <1>2, <1>6, <1>7 DEF Inv

-----------------------------------------------------------------------------
(* Copies and transfers.                                                   *)

\* A step that changes two surfaces, of which dst may be src, and what is seen
\* of them.
LEMMA TwoSurfaces ==
  ASSUME Inv, NEW src \in exists, NEW dst \in exists, UNCHANGED <<exists, joinVars>>,
         NEW a, NEW b, surface' = [surface EXCEPT ![src] = a, ![dst] = b],
         SurfaceOK(a), SurfaceOK(b), surface[src].realized => a.realized, b.realized,
         blackened \subseteq blackened', blackened' \subseteq blackened \union {dst},
         missed' \in BOOLEAN, missed => missed', NEW X, NEW Y,
         wrong' = [v \in Views |-> [wrong[v] EXCEPT ![src] = X[v], ![dst] = Y[v]]],
         \A v \in Views : Counts(v, dst) /\ (v = "users" \/ ~missed') =>
           ViewOK(Y[v], b, Rule(dst)'),
         \A v \in Views : src # dst /\ Counts(v, src) /\ (v = "users" \/ ~missed') =>
           ViewOK(X[v], a, Rule(src)')
  PROVE  Inv'
<1>1. /\ States /\ src \in Surfaces /\ dst \in Surfaces /\ exists' = exists
      /\ joining' = joining /\ copied' = copied
  BY DEF Inv, States, joinVars
<1>2. /\ \A t \in Surfaces : surface'[t] = IF t = dst THEN b ELSE IF t = src THEN a ELSE surface[t]
      /\ surface' = [t \in Surfaces |-> surface'[t]]
  BY <1>1 DEF States
<1>3. \A v \in Views : wrong[v] = [t \in Surfaces |-> wrong[v][t]]
  BY <1>1 DEF States
<1>4. ASSUME NEW v \in Views
      PROVE  wrong'[v] = [t \in Surfaces |-> IF t = dst THEN Y[v] ELSE
                                             IF t = src THEN X[v] ELSE wrong[v][t]]
  <2>1. wrong'[v] = [wrong[v] EXCEPT ![src] = X[v], ![dst] = Y[v]]
    OBVIOUS
  <2>2. wrong[v] = [t \in Surfaces |-> wrong[v][t]]
    BY <1>3
  <2> QED BY <1>1, <2>1, <2>2
<1>5. \A v \in Views, t \in Surfaces :
        wrong'[v][t] = IF t = dst THEN Y[v] ELSE IF t = src THEN X[v] ELSE wrong[v][t]
  BY <1>4
<1>6. wrong' = [v \in Views |-> [t \in Surfaces |-> wrong'[v][t]]]
  <2>1. \A v \in Views : wrong'[v] = [t \in Surfaces |-> wrong'[v][t]]
    BY <1>4
  <2> QED BY <2>1
<1>7. States'
  <2>1. surface'[Default].realized
    BY <1>1, <1>2, TypesOfConstants DEF States
  <2> QED BY <1>1, <1>2, <1>6, <2>1 DEF States
<1>8. \A t \in Surfaces : SurfaceOK(surface[t])'
  <2>1. \A t \in Surfaces : SurfaceOK(surface'[t])
    BY <1>2 DEF Inv
  <2> QED BY <2>1 DEF SurfaceOK, Fits, DirtyWithin, Within
<1>9. ASSUME NEW v \in Views, NEW t \in Surfaces, Counts(v, t)'
      PROVE  ViewOK(wrong'[v][t], surface'[t], Rule(t)')
  <2>1. Counts(v, t) /\ (v = "users" \/ ~missed')
    BY <1>1, <1>9 DEF Counts, Has, Hears
  <2> DEFINE W == wrong'[v][t]
             S == surface'[t]
  <2>5. /\ W = IF t = dst THEN Y[v] ELSE IF t = src THEN X[v] ELSE wrong[v][t]
        /\ S = IF t = dst THEN b ELSE IF t = src THEN a ELSE surface[t]
    BY <1>2, <1>5, Zenon
  <2> HIDE DEF W, S
  <2>2. ASSUME t = dst PROVE ViewOK(W, S, Rule(t)')
    <3>1. W = Y[v] /\ S = b
      BY <2>2, <2>5
    <3> QED BY <2>1, <2>2, <3>1
  <2>3. ASSUME t # dst /\ t = src PROVE ViewOK(W, S, Rule(t)')
    <3>1. W = X[v] /\ S = a
      BY <2>3, <2>5
    <3> QED BY <2>1, <2>3, <3>1
  <2>4. ASSUME t # dst /\ t # src PROVE ViewOK(W, S, Rule(t)')
    <3>1. ViewOK(wrong[v][t], surface[t], Rule(t))
      BY <2>1 DEF Inv
    <3>2. W = wrong[v][t] /\ S = surface[t]
      BY <2>4, <2>5
    <3>3. Rule(t)' = Rule(t)
      BY <2>4 DEF Rule
    <3> QED BY <3>1, <3>2, <3>3
  <2>6. ViewOK(W, S, Rule(t)')
    BY <2>2, <2>3, <2>4
  <2> QED BY <2>6 DEF W, S
<1>10. \A v \in Views, t \in Surfaces : Counts(v, t)' => ViewOK(wrong[v][t], surface[t], Rule(t))'
  BY <1>9 DEF ViewOK
<1> QED BY <1>7, <1>8, <1>10 DEF Inv

\* What a transfer does, as Transfer says it.
LEMMA TransferStep ==
  ASSUME Inv, NEW src \in Surfaces, NEW dst \in Surfaces, Transfer(src, dst)
  PROVE  Inv'
<1> DEFINE from(move) == BoundRect(surface[src], move.rect)
           to(move) == ClipRect(surface[dst],
                                [from(move) EXCEPT !.x = @ + move.dx, !.y = @ + move.dy])
           P(move) == PixelsOf(to(move))
           Q(move, p) == <<p[1] - move.dx, p[2] - move.dy>>
           clear(move) == {p \in P(move) : ResultClear(move.op, p \in surface[dst].clear,
                                                       Q(move, p) \in surface[src].clear)}
           d(move) == [surface[dst] EXCEPT !.clear = (@ \ P(move)) \union clear(move)]
           first(move) == IF src = dst THEN surface[dst] ELSE d(move)
           early(move, lossy) == Bitmaps(first(move), lossy)
           late(lossy) == SourceBitmaps(src, dst, lossy)
           source(lossy) == [v \in Views |-> AfterFlush(surface[src], wrong[v][src], late(lossy))]
           target(move, lossy) ==
             [v \in Views |-> AfterFlush(first(move), wrong[v][dst], early(move, lossy))]
           changed(move) == {p \in P(move) : (p \in clear(move)) # (p \in surface[dst].clear)}
           C(move, D) == D \union changed(move)
           u(move, D) == IF src = dst THEN to(move) ELSE ChangedOrOne(to(move), C(move, D))
           bad(move, lossy, D, v, p) ==
             \/ Q(move, p) \in source(lossy)[v]
             \/ move.op = "src" /\ Q(move, p) \in surface[src].clear
             \/ move.op # "src" /\ p \in target(move, lossy)[v]
             \/ move.op = "xor" /\ src # dst /\ p \in C(move, D) \cap PixelsOfAll(early(move, lossy))
           result(move, lossy, D, v) ==
             (target(move, lossy)[v] \ PixelsOf(u(move, D)))
               \union {p \in PixelsOf(u(move, D)) : bad(move, lossy, D, v, p)}
           combine(move, D) == ShouldCombine(d(move).dirty, u(move, D), TRUE)
           Ds(move) == IF src = dst THEN {P(move)} ELSE Differences(P(move)) \union {{}}
           Done(move, lossy, D) ==
             /\ ~IsEmpty(u(move, D))
             /\ lossy => ~combine(move, D) /\ early(move, lossy) \o late(lossy) # <<>>
             /\ IF combine(move, D)
                THEN /\ surface' = [surface EXCEPT ![dst] =
                          [d(move) EXCEPT !.dirty = MarkDirty(@, u(move, D))]]
                     /\ See(dst, C(move, D), LAMBDA v : wrong[v][dst] \union C(move, D))
                     /\ UNCHANGED <<blackened, missed>>
                ELSE /\ surface' = [surface EXCEPT
                          ![src] = Flushed(@, late(lossy)),
                          ![dst] = [Flushed(d(move), early(move, lossy)) EXCEPT !.realized = TRUE]]
                     /\ wrong' = [v \in Views |-> [wrong[v] EXCEPT
                          ![src] = IF Hears(v) THEN source(lossy)[v] ELSE @,
                          ![dst] = IF Hears(v) THEN result(move, lossy, D, v)
                                   ELSE IF Has(v, dst) THEN @ \union C(move, D) ELSE {}]]
                     /\ missed' = (missed \/ (~Hears("joiner") /\ \E s \in {src, dst} : Has("joiner", s)))
                     /\ blackened' = IF src \in blackened THEN blackened \union {dst} ELSE blackened
<1>1. src \in exists /\ dst \in exists /\ UNCHANGED <<exists, joinVars>>
  BY DEF Transfer
<1>2. \E move \in Moves, lossy \in BOOLEAN :
        /\ ~IsEmpty(from(move)) /\ ~IsEmpty(to(move))
        /\ \E D \in Ds(move) : Done(move, lossy, D)
  BY ZenonT(60) DEF Transfer
<1> HIDE DEF Done
<1>3. PICK move \in Moves, lossy \in BOOLEAN :
        /\ ~IsEmpty(from(move)) /\ ~IsEmpty(to(move))
        /\ \E D \in Ds(move) : Done(move, lossy, D)
  BY <1>2
<1>4. PICK D \in Ds(move) : Done(move, lossy, D)
  BY <1>3
<1> DEFINE S == surface[src]
           T == surface[dst]
           N == P(move)
           V == clear(move)
           c == (T.clear \ N) \union V
           E == C(move, D)
           U == u(move, D)
           K == combine(move, D)
<1>5. /\ SurfaceOK(S) /\ SurfaceOK(T) /\ T.clear \subseteq PixelsOf(Bounds(T))
      /\ S \in SurfaceType /\ States
      /\ move.rect \in Rects /\ move.dx \in Int /\ move.dy \in Int
      /\ move.op \in {"src", "and", "xor"}
  BY <1>1, SurfaceIsOK, DisplayAssumption DEF Inv
<1>6. Within(T, to(move))
  <2>1. from(move) \in Rects
    BY <1>5, BoundIsCommon DEF Within
  <2>2. [from(move) EXCEPT !.x = @ + move.dx, !.y = @ + move.dy] \in Rects
    <3> HIDE DEF from, to, P, Ds
    <3> DEFINE h == from(move)
               x == h.x + move.dx
               y == h.y + move.dy
    <3>1. h \in Rects /\ x \in Int /\ y \in Int
      BY <1>5, <2>1 DEF Rects
    <3> HIDE DEF h, x, y
    <3>2. [h EXCEPT !.x = x, !.y = y] \in Rects
      BY <3>1 DEF Rects
    <3> QED BY <3>2 DEF h, x, y
  <2> QED BY <1>5, <2>2, ClipIsWithin
<1>7. D \subseteq N
  BY DEF Differences
<1>8. /\ E \subseteq N /\ V \subseteq N /\ c \subseteq PixelsOf(Bounds(T))
      /\ T.clear \ c \subseteq E
  <2>1. changed(move) = {p \in N : (p \in V) # (p \in T.clear)}
    OBVIOUS
  <2>2. V \subseteq N /\ N \subseteq PixelsOf(Bounds(T))
    BY <1>6 DEF Within
  <2>3. E = D \union changed(move)
    OBVIOUS
  <2> HIDE DEF V, N, changed, E
  <2> QED BY <1>5, <1>7, <2>1, <2>2, <2>3
<1>9. Within(T, U) /\ E \subseteq PixelsOf(U) /\ PixelsOf(U) \subseteq N
  <2>1. CASE src = dst
    <3>1. U = to(move) /\ N = PixelsOf(to(move))
      BY <2>1
    <3> HIDE DEF U, N, E
    <3> QED BY <1>6, <1>8, <3>1
  <2>2. CASE src # dst
    <3>1. U = ChangedOrOne(to(move), E) /\ N = PixelsOf(to(move))
      BY <2>2
    <3> HIDE DEF U, N, E, to
    <3> QED BY <1>5, <1>6, <1>8, <3>1, ChangedOrOneIs
  <2> QED BY <2>1, <2>2
<1>10. d(move) = WithClear(T, c)
  BY DEF WithClear
<1>11. CASE K
  <2> DEFINE e == MarkedAt(d(move), U)
             A == [v \in Views |-> wrong[v][dst] \union E]
  <2>1. /\ surface' = [surface EXCEPT ![dst] = e]
        /\ See(dst, E, LAMBDA v : wrong[v][dst] \union E)
        /\ UNCHANGED <<blackened, missed>>
    BY <1>4, <1>11 DEF Done, MarkedAt
  <2> HIDE DEF V, N, c, E, U, K, d, C, u, Ds, P, to, from
  <2>2. Saw(dst, E, A)
    BY <2>1 DEF See, Saw
  <2>3. Sent(dst, FALSE) /\ FALSE \in BOOLEAN
    BY <1>5, <2>1 DEF Sent, States
  <2>4. \A v \in Views : A[v] = wrong[v][dst] \union E
    OBVIOUS
  <2>5. /\ SurfaceOK(e) /\ e.realized = T.realized
        /\ \A w : \A rule : ViewOK(w, T, rule) =>
             /\ ViewOK(w \union E, e, rule)
             /\ ViewOK(AfterFlush(d(move), w \union E, <<>>) \ {}, e, rule)
    BY <1>5, <1>8, <1>9, <1>10, MarkedAtIsOK
  <2> HIDE DEF A, e
  <2>6. \A v \in Views : ViewOK(wrong[v][dst], surface[dst], Rule(dst)) =>
          /\ ViewOK(A[v], e, Rule(dst))
          /\ ~FALSE => ViewOK(wrong[v][dst] \union E, e, Rule(dst))
    BY <2>4, <2>5
  <2>7. UNCHANGED <<exists, blackened, joinVars>>
    BY <1>1, <2>1
  <2>8. surface[dst].realized => e.realized
    BY <2>5
  <2> QED BY <1>1, <2>1, <2>2, <2>3, <2>5, <2>6, <2>7, <2>8, SeeStep
<1>12. CASE ~K
  <2> DEFINE L == late(lossy)
             R == early(move, lossy)
             F == first(move)
             so(v) == source(lossy)[v]
             ta(v) == target(move, lossy)[v]
             re(v) == result(move, lossy, D, v)
             a == Flushed(S, L)
             b == [Flushed(d(move), R) EXCEPT !.realized = TRUE]
             X == [v \in Views |-> IF Hears(v) THEN so(v) ELSE wrong[v][src]]
             Z(v) == [wrong[v] EXCEPT ![src] = IF Hears(v) THEN so(v) ELSE wrong[v][src]]
             Y == [v \in Views |-> IF Hears(v) THEN re(v)
                                   ELSE IF Has(v, dst) THEN Z(v)[dst] \union E ELSE {}]
  <2>1. /\ surface' = [surface EXCEPT ![src] = a, ![dst] = b]
        /\ missed' = (missed \/ (~Hears("joiner") /\ \E s \in {src, dst} : Has("joiner", s)))
        /\ blackened' = IF src \in blackened THEN blackened \union {dst} ELSE blackened
    BY <1>4, <1>12 DEF Done
  <2>2. wrong' = [v \in Views |-> [wrong[v] EXCEPT ![src] = X[v], ![dst] = Y[v]]]
    <3>1. wrong' = [v \in Views |-> [wrong[v] EXCEPT
                     ![src] = IF Hears(v) THEN so(v) ELSE @,
                     ![dst] = IF Hears(v) THEN re(v)
                              ELSE IF Has(v, dst) THEN @ \union E ELSE {}]]
      BY <1>4, <1>12, Zenon DEF Done
    <3> HIDE DEF so, re, E
    <3>2. \A v \in Views : /\ X[v] = IF Hears(v) THEN so(v) ELSE wrong[v][src]
                           /\ Y[v] = IF Hears(v) THEN re(v)
                                     ELSE IF Has(v, dst) THEN Z(v)[dst] \union E ELSE {}
      OBVIOUS
    <3> HIDE DEF X, Y
    <3> QED BY <3>1, <3>2
  <2>3. \A v \in Views : Hears(v) => X[v] = so(v) /\ Y[v] = re(v)
    <3> HIDE DEF so, re, E
    <3> QED OBVIOUS
  <2>4. \A v \in Views : /\ so(v) = AfterFlush(S, wrong[v][src], L)
                         /\ ta(v) = AfterFlush(F, wrong[v][dst], R)
    <3> HIDE DEF L, R, F
    <3> QED BY DEF L, R, F
  <2>5. \A v \in Views : re(v) = (ta(v) \ PixelsOf(U)) \union
          {p \in PixelsOf(U) : bad(move, lossy, D, v, p)}
    OBVIOUS
  <2>6. L = Bitmaps(S, lossy) /\ R = Bitmaps(F, lossy)
    BY DEF SourceBitmaps
  <2>7. F = IF src = dst THEN T ELSE d(move)
    OBVIOUS
  <2>8. \A v \in Views, p \in PixelsOf(U) : bad(move, lossy, D, v, p) =>
          \/ Q(move, p) \in so(v) \/ (move.op = "src" /\ Q(move, p) \in S.clear)
          \/ (move.op # "src" /\ p \in ta(v)) \/ move.op = "xor"
    <3> HIDE DEF so, ta
    <3> QED BY DEF so, ta
  <2>9. V = {p \in N : ResultClear(move.op, p \in T.clear, Q(move, p) \in S.clear)}
    OBVIOUS
  <2> HIDE DEF V, N, c, E, U, K, d, C, u, L, R, F, so, ta, re, X, Y, Z, bad, Q, Ds, P, to, from
  <2>10. /\ SurfaceOK(d(move)) /\ d(move).clear = c /\ Bounds(d(move)) = Bounds(T)
         /\ SurfaceOK(F) /\ Bounds(F) = Bounds(T) /\ Waiting(F) = Waiting(T)
         /\ F.clear = T.clear \/ F.clear = c
    <3>1. /\ SurfaceOK(d(move)) /\ d(move).clear = c /\ Bounds(d(move)) = Bounds(T)
          /\ Waiting(d(move)) = Waiting(T)
      BY <1>5, <1>8, <1>10, ClearChanges
    <3> QED BY <1>5, <2>7, <3>1
  <2>11. /\ SurfaceOK(a) /\ a.clear = S.clear /\ Bounds(a) = Bounds(S)
         /\ S.realized => a.realized
         /\ SurfaceOK(b) /\ b.clear = c /\ Bounds(b) = Bounds(T) /\ b.realized
    BY <1>5, <2>10, FlushedIsOK
  <2> HIDE DEF a, b
  <2>12. ASSUME NEW v \in Views, Counts(v, src)
         PROVE  /\ so(v) \subseteq PixelsOf(Bounds(S))
                /\ Rule(src) = "strict" => so(v) \subseteq S.clear
    <3>1. ViewOK(wrong[v][src], S, Rule(src))
      BY <2>12 DEF Inv
    <3>2. wrong[v][src] \subseteq PixelsOf(Bounds(S))
      BY <3>1 DEF ViewOK
    <3>3. /\ so(v) \subseteq (wrong[v][src] \ Waiting(S)) \union S.clear
          /\ so(v) \subseteq PixelsOf(Bounds(S))
      BY <1>5, <2>4, <2>6, <3>2, FlushLeaves
    <3> QED BY <3>1, <3>3 DEF ViewOK
  <2>13. ASSUME NEW v \in Views, Counts(v, dst)
         PROVE  /\ ta(v) \subseteq PixelsOf(Bounds(T))
                /\ Rule(dst) = "strict" => ta(v) \subseteq T.clear \union c
    <3>1. ViewOK(wrong[v][dst], T, Rule(dst))
      BY <2>13 DEF Inv
    <3>2. wrong[v][dst] \subseteq PixelsOf(Bounds(F))
      BY <2>10, <3>1 DEF ViewOK
    <3>3. /\ ta(v) \subseteq (wrong[v][dst] \ Waiting(F)) \union F.clear
          /\ ta(v) \subseteq PixelsOf(Bounds(F))
      BY <2>4, <2>6, <2>10, <3>2, FlushLeaves
    <3> QED BY <2>10, <3>1, <3>3 DEF ViewOK
  <2>14. ASSUME NEW v \in Views, NEW s \in {src, dst}, Counts(v, s), v = "users" \/ ~missed'
         PROVE  Hears(v) /\ Counts(v, src) /\ Counts(v, dst)
    BY <1>1, <2>1, <2>14, TypesOfConstants DEF Counts, Hears, Has
  <2>15. ASSUME NEW v \in Views, Counts(v, dst), v = "users" \/ ~missed'
         PROVE  ViewOK(Y[v], b, Rule(dst)')
    <3>1. Hears(v) /\ Counts(v, src) /\ Y[v] = re(v)
      BY <2>3, <2>14, <2>15
    <3>2. Y[v] \subseteq PixelsOf(Bounds(b))
      <4>1. PixelsOf(U) \subseteq PixelsOf(Bounds(T))
        BY <1>9 DEF Within
      <4> QED BY <2>5, <2>11, <2>13, <2>15, <3>1, <4>1
    <3>3. ASSUME Rule(dst)' = "strict", NEW x \in re(v) PROVE x \in c
      <4>1. /\ Rule(dst) = "strict" /\ Rule(src) = "strict" /\ move.op # "xor"
        BY <2>1, <3>3 DEF Rule, NoXor
      <4>2. ta(v) \subseteq T.clear \union c /\ so(v) \subseteq S.clear
        BY <2>12, <2>13, <2>15, <3>1, <4>1
      <4>3. CASE x \notin PixelsOf(U)
        <5>1. x \in ta(v)
          BY <2>5, <3>3, <4>3
        <5> QED BY <1>8, <1>9, <4>2, <4>3, <5>1
      <4>4. CASE x \in PixelsOf(U)
        <5>1. x \in N
          BY <1>9, <4>4
        <5>2. bad(move, lossy, D, v, x)
          BY <2>5, <3>3, <4>4
        <5>3. \/ Q(move, x) \in S.clear
              \/ move.op = "and" /\ x \in T.clear \union c
          BY <1>5, <2>8, <4>1, <4>2, <4>4, <5>2
        <5>4. CASE Q(move, x) \in S.clear
          <6>1. ResultClear(move.op, x \in T.clear, Q(move, x) \in S.clear)
            BY <1>5, <4>1, <5>4 DEF ResultClear
          <6> QED BY <2>9, <5>1, <6>1 DEF c
        <5>5. CASE move.op = "and" /\ x \in T.clear
          <6>1. ResultClear(move.op, x \in T.clear, Q(move, x) \in S.clear)
            BY <5>5 DEF ResultClear
          <6> QED BY <2>9, <5>1, <6>1 DEF c
        <5> QED BY <5>3, <5>4, <5>5
      <4> QED BY <4>3, <4>4
    <3> QED BY <2>11, <3>1, <3>2, <3>3 DEF ViewOK
  <2>16. ASSUME NEW v \in Views, src # dst /\ Counts(v, src) /\ (v = "users" \/ ~missed')
         PROVE  ViewOK(X[v], a, Rule(src)')
    <3>1. Hears(v) /\ X[v] = so(v)
      BY <2>3, <2>14, <2>16
    <3>2. Rule(src)' = Rule(src)
      BY <2>1, <2>16 DEF Rule
    <3> QED BY <2>11, <2>12, <2>16, <3>1, <3>2 DEF ViewOK
  <2>17. /\ missed' \in BOOLEAN /\ (missed => missed')
         /\ blackened \subseteq blackened' /\ blackened' \subseteq blackened \union {dst}
         /\ surface[src].realized => a.realized
    BY <1>5, <2>1, <2>11 DEF States
  <2> QED BY <1>1, <2>1, <2>2, <2>11, <2>15, <2>16, <2>17, TwoSurfaces
<1> QED BY <1>11, <1>12
-----------------------------------------------------------------------------
(* All steps, and what follows.                                            *)

LEMMA NextKeeps ==
  ASSUME Inv, [Next]_vars PROVE Inv'
<1>1. Default \in exists /\ Default \in Surfaces
  BY TypesOfConstants DEF Inv, States
<1>2. ASSUME NEW s \in Surfaces, Draw(s) \/ Paint(s) \/ SetColour(s) PROVE Inv'
  BY <1>2, DrawStep, PaintStep, SetColourStep
<1>3. CASE Clip(Default) \/ ResetClip(Default)
  BY <1>1, <1>3, ClipStep
<1>4. ASSUME NEW src \in Surfaces, NEW dst \in Surfaces, Transfer(src, dst) PROVE Inv'
  BY <1>4, TransferStep
<1>5. ASSUME NEW s \in Buffers, AllocBuffer(s) \/ FreeBuffer(s) PROVE Inv'
  BY <1>5, BufferStep
<1>6. CASE Resize(Default)
  BY <1>6, ResizeStep
<1>7. CASE FlushDisplay
  BY <1>1, <1>7, FlushStep DEF FlushDisplay
<1>8. ASSUME NEW s \in Surfaces, Dup(s) PROVE Inv'
  BY <1>8, DupStep
<1>9. CASE Listed
  BY <1>9, ListedStep
<1>10. CASE UNCHANGED vars
  BY <1>10, StutterStep
<1> QED
  BY <1>2, <1>3, <1>4, <1>5, <1>6, <1>7, <1>8, <1>9, <1>10 DEF Next

\* The surfaces of a display stay in order, and what its users and the one
\* that joins have wrong stays within the pictures: drawings, copies, clips,
\* resizes, flushes, buffers that come and go and users that join keep it.
THEOREM DisplayStays == Spec => []Inv
<1>1. Init => Inv
  BY InitInv
<1>2. Inv /\ [Next]_vars => Inv'
  BY NextKeeps
<1> QED BY <1>1, <1>2, PTL DEF Spec

\* In guac_common_surface.c an update finds room in the queue, which the code
\* does not check where it writes to it, and the dirty rectangle is one that
\* lies within the picture that a flush reads.
THEOREM QueueHasRoom == Spec => []QueueFits
<1>1. Inv => QueueFits
  <2> SUFFICES ASSUME Inv PROVE QueueFits
    OBVIOUS
  <2>1. \A s \in Surfaces : wrong["users"][s] \subseteq PixelsOf(Bounds(surface[s]))
    BY TypesOfConstants DEF Inv, Counts, ViewOK
  <2>2. TypeOK
    BY <2>1 DEF Inv, States, SurfaceOK, TypeOK
  <2>3. ASSUME NEW s \in exists
        PROVE  /\ Len(surface[s].queue) < QueueSize
               /\ PixelsOf(surface[s].dirty) \subseteq PixelsOf(Bounds(surface[s]))
    <3>1. SurfaceOK(surface[s])
      BY DEF Inv, States
    <3>2. Len(surface[s].queue) < QueueSize
      BY <3>1, DisplayAssumption DEF SurfaceOK, Fits
    <3>3. CASE surface[s].dirty = None
      BY <3>1, <3>3, BoundsAreRects, EmptyHasNone DEF SurfaceOK, Fits
    <3>4. CASE surface[s].dirty # None
      BY <3>1, <3>4 DEF SurfaceOK, Fits, DirtyWithin, Within
    <3> QED BY <3>2, <3>3, <3>4
  <2> QED BY <2>2, <2>3 DEF QueueFits
<1> QED BY <1>1, DisplayStays, PTL

\* A pixel of which the users have another colour than the surface waits in
\* the dirty rectangle or the queue, so that the next flush sends it, whatever
\* was drawn, copied, clipped or resized before.  Without transfers that invert:
\* guac_common_surface_transfer sends what waits for the destination with the
\* result in it, and then the instruction, which undoes such a result.
THEOREM UsersAreShown ==
  ASSUME NoXor PROVE Spec => []Shown
<1>1. Inv => Shown
  BY TypesOfConstants DEF Inv, States, Shown, Covered, Counts, ViewOK, Rule
<1> QED BY <1>1, DisplayStays, PTL

\* So it is for a user that joined while the others went on drawing: it was
\* sent each surface as guac_common_display_dup found it, and what it has wrong
\* of these waits for it as for the others once it is listed, unless something
\* was sent between the two.
THEOREM JoinersAreShown ==
  ASSUME NoXor PROVE Spec => []JoinerShown
<1>1. Inv => JoinerShown
  BY TypesOfConstants
     DEF Inv, States, JoinerShown, Covered, Counts, Has, Hears, ViewOK, Rule
<1> QED BY <1>1, DisplayStays, PTL

=============================================================================
