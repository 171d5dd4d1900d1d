-------------------------- MODULE BroadcastProofs ---------------------------
(***************************************************************************)
(* The broadcast socket for any number of users and threads: its stream is *)
(* whole instructions, and every user gets all of it from when it came.    *)
(***************************************************************************)
EXTENDS Broadcast, SequenceTheorems, TLAPS
\* A list without repetitions, once an element is taken out of it.
LEMMA RemoveFirstOne ==
  ASSUME NEW S, NEW s \in Seq(S), IsInjective(s), NEW u
  PROVE  /\ RemoveFirst(s, u) \in Seq(S) /\ IsInjective(RemoveFirst(s, u))
         /\ ToSet(RemoveFirst(s, u)) \subseteq ToSet(s)
<1>1. CASE ~(\E i \in 1..Len(s) : s[i] = u)
  BY <1>1 DEF RemoveFirst
<1>2. CASE \E i \in 1..Len(s) : s[i] = u
  <2>1. PICK k \in 1..Len(s) : s[k] = u
    BY <1>2
  <2>2. RemoveFirst(s, u) = RemoveAt(s, SelectInSeq(s, LAMBDA v : v = u))
    BY <1>2 DEF RemoveFirst
  <2>3. SelectInSeq(s, LAMBDA v : v = u) = k
    <3> DEFINE I == {i \in 1..Len(s) : s[i] = u}
    <3>1. I = {k}
      BY <2>1 DEF IsInjective
    <3>2. Min(I) = k
      BY <3>1 DEF Min
    <3> QED BY <3>1, <3>2 DEF SelectInSeq
  <2>4. RemoveFirst(s, u) = SubSeq(s, 1, k - 1) \o SubSeq(s, k + 1, Len(s))
    BY <2>2, <2>3 DEF RemoveAt
  <2> DEFINE r == RemoveFirst(s, u)
  <2>8. k \in Nat /\ 1 <= k /\ k <= Len(s) /\ Len(s) \in Nat
    OBVIOUS
  <2>9. /\ SubSeq(s, 1, k - 1) \in Seq(S) /\ Len(SubSeq(s, 1, k - 1)) = k - 1
        /\ \A i \in 1..k - 1 : SubSeq(s, 1, k - 1)[i] = s[i]
    BY <2>8
  <2>10. /\ SubSeq(s, k + 1, Len(s)) \in Seq(S)
         /\ Len(SubSeq(s, k + 1, Len(s))) = Len(s) - k
         /\ \A i \in 1..Len(s) - k : SubSeq(s, k + 1, Len(s))[i] = s[k + i]
    BY <2>8
  <2>5. /\ r \in Seq(S) /\ Len(r) = Len(s) - 1
        /\ \A i \in 1..Len(r) : r[i] = s[IF i < k THEN i ELSE i + 1]
    <3> DEFINE a == SubSeq(s, 1, k - 1)
               b == SubSeq(s, k + 1, Len(s))
    <3>1. a \in Seq(S) /\ b \in Seq(S) /\ Len(a) = k - 1 /\ Len(b) = Len(s) - k
      BY <2>9, <2>10
    <3>2. \A i \in 1..k - 1 : a[i] = s[i]
      BY <2>9
    <3>3. \A i \in 1..Len(s) - k : b[i] = s[k + i]
      BY <2>10
    <3>4. r = a \o b
      BY <2>4
    <3> HIDE DEF a, b, r
    <3>5. r \in Seq(S) /\ Len(r) = Len(s) - 1
      <4>1. r \in Seq(S)
        BY <3>1, <3>4, ConcatProperties
      <4>2. Len(r) = Len(a) + Len(b)
        BY <3>1, <3>4, ConcatProperties
      <4> QED BY <2>8, <3>1, <4>1, <4>2
    <3>6. ASSUME NEW i \in 1..Len(r), i < k PROVE r[i] = s[i]
      BY <2>8, <3>1, <3>2, <3>4, <3>5, <3>6
    <3>7. ASSUME NEW i \in 1..Len(r), ~(i < k) PROVE r[i] = s[i + 1]
      <4>1. r[i] = b[i - Len(a)]
        BY <2>8, <3>1, <3>4, <3>5, <3>7
      <4>2. i - Len(a) \in 1..Len(s) - k /\ k + (i - Len(a)) = i + 1
        BY <2>8, <3>1, <3>5, <3>7
      <4> QED BY <3>3, <4>1, <4>2
    <3> QED BY <3>5, <3>6, <3>7
  <2> HIDE DEF r
  <2>6. IsInjective(r)
    <3>1. Len(r) \in Nat /\ DOMAIN r = 1..Len(r) /\ DOMAIN s = 1..Len(s)
      BY <2>5, <2>8
    <3> DEFINE at(i) == IF i < k THEN i ELSE i + 1
    <3>2. \A i \in 1..Len(r) : at(i) \in 1..Len(s) /\ r[i] = s[at(i)]
      BY <2>5, <2>8, <3>1
    <3>3. \A i, j \in 1..Len(r) : at(i) = at(j) => i = j
      BY <2>8, <3>1
    <3> QED BY <3>1, <3>2, <3>3 DEF IsInjective
  <2>7. ToSet(r) \subseteq ToSet(s)
    BY <2>5 DEF ToSet
  <2> QED BY <2>5, <2>6, <2>7 DEF r
<1> QED BY <1>1, <1>2

\* The remainder is the only one that is in its range.
LEMMA RemainderIsUnique ==
  ASSUME NEW L \in Nat \ {0}, NEW q \in Int, NEW p \in Int,
         NEW r \in 0..L - 1, NEW s \in 0..L - 1, q * L + r = p * L + s
  PROVE  r = s
<1>1. (q - p) * L = s - r
  OBVIOUS
<1>2. CASE q - p >= 1
  <2>1. (q - p) * L >= L
    BY <1>2
  <2> QED BY <1>1, <2>1
<1>3. CASE p - q >= 1
  <2>1. (p - q) * L >= L
    BY <1>3
  <2> QED BY <1>1, <2>1
<1>4. CASE p = q
  BY <1>1, <1>4
<1> QED BY <1>2, <1>3, <1>4

\* Counting up goes through the remainders and starts again.
LEMMA NextRemainder ==
  ASSUME NEW L \in Nat \ {0}, NEW n \in Nat
  PROVE  /\ n % L \in 0..L - 1
         /\ (n + 1) % L = IF n % L = L - 1 THEN 0 ELSE (n % L) + 1
<1>1. /\ n % L \in 0..L - 1 /\ n \div L \in Int
      /\ n = (n \div L) * L + (n % L)
  OBVIOUS
<1>2. /\ (n + 1) % L \in 0..L - 1 /\ (n + 1) \div L \in Int
      /\ n + 1 = ((n + 1) \div L) * L + ((n + 1) % L)
  OBVIOUS
<1> DEFINE q == n \div L
           r == n % L
           p == (n + 1) \div L
           s == (n + 1) % L
<1> HIDE DEF q, r, p, s
<1>3. /\ q \in Int /\ p \in Int /\ r \in 0..L - 1 /\ s \in 0..L - 1
      /\ p * L + s = q * L + r + 1
  BY <1>1, <1>2 DEF q, r, p, s
<1>4. CASE r = L - 1
  <2>1. (q + 1) * L + 0 = p * L + s
    BY <1>3, <1>4
  <2> QED BY <1>3, <1>4, <2>1, RemainderIsUnique, SMTT(30) DEF r, s
<1>5. CASE r # L - 1
  <2>1. q * L + (r + 1) = p * L + s /\ r + 1 \in 0..L - 1
    BY <1>3, <1>5
  <2>2. r + 1 = s
    BY <1>3, <2>1, RemainderIsUnique
  <2> QED BY <1>3, <1>5, <2>2 DEF r, s
<1> QED BY <1>4, <1>5

\* A part of a sequence is the same after something was appended.
LEMMA PartOfLonger ==
  ASSUME NEW S, NEW s \in Seq(S), NEW x \in S, NEW m \in Nat \ {0}
  PROVE  SubSeq(Append(s, x), m, Len(s)) = SubSeq(s, m, Len(s))
<1> DEFINE n == Len(s)
           t == Append(s, x)
<1>1. n \in Nat /\ t \in Seq(S) /\ Len(t) = n + 1 /\ \A i \in 1..n : t[i] = s[i]
  OBVIOUS
<1> HIDE DEF n, t
<1>2. \A i \in m..n : t[i] = s[i] /\ t[i] \in S /\ s[i] \in S
  BY <1>1 DEF n
<1>3. /\ SubSeq(t, m, n) \in Seq(S)
      /\ Len(SubSeq(t, m, n)) = IF m <= n THEN n - m + 1 ELSE 0
      /\ \A i \in 1..n - m + 1 : SubSeq(t, m, n)[i] = t[m + i - 1]
  BY <1>1, <1>2, SubSeqProperties
<1>4. /\ SubSeq(s, m, n) \in Seq(S)
      /\ Len(SubSeq(s, m, n)) = IF m <= n THEN n - m + 1 ELSE 0
      /\ \A i \in 1..n - m + 1 : SubSeq(s, m, n)[i] = s[m + i - 1]
  BY <1>1, <1>2, SubSeqProperties
<1>5. \A i \in 1..Len(SubSeq(t, m, n)) : SubSeq(t, m, n)[i] = SubSeq(s, m, n)[i]
  BY <1>1, <1>2, <1>3, <1>4
<1>6. SubSeq(t, m, n) = SubSeq(s, m, n)
  BY <1>3, <1>4, <1>5, SeqEqual
<1> QED BY <1>6 DEF n, t

\* A part of a sequence grows by the element that follows it.
LEMMA PartGrows ==
  ASSUME NEW S, NEW s \in Seq(S), NEW m \in 1..Len(s)
  PROVE  Append(SubSeq(s, m, Len(s) - 1), s[Len(s)]) = SubSeq(s, m, Len(s))
<1> DEFINE n == Len(s)
           p == SubSeq(s, m, n - 1)
           r == SubSeq(s, m, n)
<1>1. n \in Nat /\ m \in 1..n /\ n \in 1..n /\ \A i \in m..n : s[i] \in S
  OBVIOUS
<1> HIDE DEF n
<1>2. /\ p \in Seq(S) /\ Len(p) = n - m
      /\ \A i \in 1..n - m : p[i] = s[m + i - 1]
  BY <1>1, SubSeqProperties
<1>3. /\ r \in Seq(S) /\ Len(r) = n - m + 1
      /\ \A i \in 1..n - m + 1 : r[i] = s[m + i - 1]
  BY <1>1, SubSeqProperties
<1> HIDE DEF p, r
<1>4. /\ Append(p, s[n]) \in Seq(S) /\ Len(Append(p, s[n])) = n - m + 1
      /\ Append(p, s[n])[n - m + 1] = s[n]
      /\ \A i \in 1..n - m : Append(p, s[n])[i] = p[i]
  BY <1>1, <1>2
<1>5. \A i \in 1..n - m + 1 : Append(p, s[n])[i] = r[i]
  <2>1. r[n - m + 1] = s[n]
    BY <1>1, <1>3
  <2> QED BY <1>1, <1>2, <1>3, <1>4, <2>1
<1>6. Append(p, s[n]) = r
  BY <1>3, <1>4, <1>5, SeqEqual
<1> QED BY <1>6 DEF n, p, r

-----------------------------------------------------------------------------
\* Where the threads of the session and those of users can be.
WriterPlaces == {"idle", "draw", "begin", "chunk", "visit"}
UserPlaces == {"new", "in", "draw", "notify", "reply", "disconnect", "left"}

\* Where threads are, and which of them has the lock of the socket.
PlaceInv ==
  /\ pc \in [Threads -> WriterPlaces \union UserPlaces]
  /\ \A w \in Writers : pc[w] \in WriterPlaces
  /\ \A u \in Users : pc[u] \in UserPlaces
  /\ \A w \in Writers : pc[w] \in {"chunk", "visit"} <=> socketLock = w
  /\ socketLock \in Writers \union {NoThread}

\* The other counters and locks have their types.
CountersOK ==
  /\ rdpLock \in Threads \union {NoThread} /\ begun \in 0..MaxBegun
  /\ part \in [Threads -> 0..Length] /\ ring \in [Users -> 0..Capacity]
  /\ gone \subseteq Users

\* The users and those that are still to be called.
ListsOK ==
  /\ users \in Seq(Users) /\ IsInjective(users)
  /\ todo \in [Threads -> Seq(Users)]

\* The log and what is known of it.
HistoryOK ==
  /\ log \in Seq(Chunks) /\ since \in [Users -> Nat]
  /\ seen \in [Users -> Seq(Chunks)]

\* The instruction that a user has in part.
OpenOK ==
  /\ open \in [Users -> Threads \union {NoThread}]
  /\ mixed \in [Users -> BOOLEAN]

\* What an entry of the log is, and what comes before it.
EntryWhole(l, i) ==
  /\ l[i][2] = ((i - 1) % Length) + 1
  /\ l[i][2] > 1 => l[i][1] = l[i - 1][1]

\* How far the log is within an instruction, and whose that is.
LogInv ==
  /\ \A i \in 1..Len(log) : EntryWhole(log, i)
  /\ socketLock = NoThread => Len(log) % Length = 0
  /\ \A w \in Writers : socketLock = w =>
       /\ Len(log) % Length = IF part[w] = Length THEN 0 ELSE part[w]
       /\ part[w] > 0 => log # <<>> /\ log[Len(log)][1] = w
       /\ pc[w] = "visit" => part[w] > 0

\* Whom a writer still has to call.
TodoInv == \A w \in Writers :
  /\ pc[w] # "visit" => todo[w] = <<>>
  /\ IsInjective(todo[w])
  /\ \A u \in ToSet(todo[w]) : pc[u] # "new" /\ since[u] < Len(log)

\* Nothing was written to a user that has not come yet.
SinceInv == \A u \in Users :
  /\ since[u] <= Len(log)
  /\ pc[u] = "new" => u \notin ToSet(users) /\ seen[u] = <<>>

\* InstructionBegin takes the lock of the socket, InstructionEnd releases it.
LEMMA PlacesKept ==
  ASSUME PlaceInv, Next
  PROVE  PlaceInv'
<1> USE BroadcastAssumption DEF PlaceInv, WriterPlaces, UserPlaces, Threads,
   Goto, lockVars, history
<1>1. ASSUME NEW w \in Writers, Draw(w) PROVE PlaceInv'
  BY <1>1 DEF Draw, Begins
<1>2. ASSUME NEW w \in Writers, InstructionBegin(w) PROVE PlaceInv'
  BY <1>2 DEF InstructionBegin
<1>3. ASSUME NEW w \in Writers, WriteChunk(w) PROVE PlaceInv'
  BY <1>3 DEF WriteChunk
<1>4. ASSUME NEW w \in Writers, Visit(w) PROVE PlaceInv'
  BY <1>4 DEF Visit, Put
<1>5. ASSUME NEW w \in Writers, EndChunk(w) PROVE PlaceInv'
  BY <1>5 DEF EndChunk
<1>6. ASSUME NEW w \in Writers, InstructionEnd(w) PROVE PlaceInv'
  BY <1>6 DEF InstructionEnd, RdpLockWithout
<1>7. ASSUME NEW u \in Users, AddUser(u) PROVE PlaceInv'
  BY <1>7 DEF AddUser
<1>8. ASSUME NEW u \in Users, Mouse(u) PROVE PlaceInv'
  BY <1>8 DEF Mouse, Begins
<1>9. ASSUME NEW u \in Users, Reply(u) PROVE PlaceInv'
  BY <1>9 DEF Reply, Begins
<1>10. ASSUME NEW u \in Users, Drain(u) PROVE PlaceInv'
  BY <1>10 DEF Drain
<1>11. ASSUME NEW u \in Users, GoAway(u) PROVE PlaceInv'
  BY <1>11 DEF GoAway
<1>12. ASSUME NEW u \in Users, WriteDirectly(u) PROVE PlaceInv'
  BY <1>12 DEF WriteDirectly, Put
<1>13. ASSUME NEW u \in Users, HandlerReturns(u) PROVE PlaceInv'
  BY <1>13 DEF HandlerReturns, RdpLockWithout
<1>14. ASSUME NEW u \in Users, StopUser(u) PROVE PlaceInv'
  BY <1>14 DEF StopUser
<1>15. ASSUME NEW u \in Users, RemoveUser(u) PROVE PlaceInv'
  BY <1>15 DEF RemoveUser
<1>16. ASSUME NEW t \in Threads, LockRdp(t) PROVE PlaceInv'
  <2>1. CASE t \in Writers BY <1>16, <2>1 DEF LockRdp
  <2>2. CASE t \in Users BY <1>16, <2>2 DEF LockRdp
  <2> QED BY <2>1, <2>2
<1> QED
  BY <1>1, <1>2, <1>3, <1>4, <1>5, <1>6, <1>7, <1>8, <1>9, <1>10, <1>11,
     <1>12, <1>13, <1>14, <1>15, <1>16 DEF Next, Working

\* A user that comes is put before the others.
LEMMA PutFirst ==
  ASSUME NEW S, NEW s \in Seq(S), IsInjective(s), NEW u \in S, u \notin ToSet(s)
  PROVE  /\ <<u>> \o s \in Seq(S) /\ IsInjective(<<u>> \o s)
         /\ ToSet(<<u>> \o s) = ToSet(s) \union {u}
<1> DEFINE r == <<u>> \o s
<1>1. /\ r \in Seq(S) /\ Len(r) = Len(s) + 1
      /\ \A i \in 1..Len(s) + 1 : r[i] = IF i <= 1 THEN u ELSE s[i - 1]
  <2>1. <<u>> \in Seq(S) /\ Len(<<u>>) = 1 /\ <<u>>[1] = u
    OBVIOUS
  <2> QED BY <2>1, ConcatProperties
<1> HIDE DEF r
<1>2. Len(s) \in Nat /\ DOMAIN r = 1..Len(r) /\ DOMAIN s = 1..Len(s)
  BY <1>1
<1>3. \A i \in 1..Len(r) : i # 1 => i - 1 \in 1..Len(s) /\ r[i] = s[i - 1]
  BY <1>1, <1>2
<1>4. 1 \in 1..Len(r) /\ r[1] = u
  BY <1>1, <1>2
<1>5. IsInjective(r)
  <2> SUFFICES ASSUME NEW i \in 1..Len(r), NEW j \in 1..Len(r), r[i] = r[j]
               PROVE  i = j
    BY <1>2 DEF IsInjective
  <2>1. CASE i = 1 \/ j = 1
    BY <1>2, <1>3, <1>4, <2>1 DEF ToSet
  <2>2. CASE i # 1 /\ j # 1
    BY <1>1, <1>2, <1>3, <2>2 DEF IsInjective
  <2> QED BY <2>1, <2>2
<1>6. ToSet(r) = ToSet(s) \union {u}
  <2>1. \A i \in 1..Len(s) : i + 1 \in 1..Len(r) /\ r[i + 1] = s[i]
    BY <1>1, <1>2
  <2>2. ASSUME NEW x \in ToSet(r) PROVE x \in ToSet(s) \union {u}
    BY <1>2, <1>3, <1>4, <2>2 DEF ToSet
  <2>3. ASSUME NEW x \in ToSet(s) PROVE x \in ToSet(r)
    BY <1>2, <2>1, <2>3 DEF ToSet
  <2>4. u \in ToSet(r)
    BY <1>2, <1>4 DEF ToSet
  <2> QED BY <2>2, <2>3, <2>4
<1> QED BY <1>1, <1>5, <1>6 DEF r

\* What is left of a list without repetitions after its first element.
LEMMA TailWithoutHead ==
  ASSUME NEW S, NEW s \in Seq(S), s # <<>>, IsInjective(s)
  PROVE  /\ Head(s) \in S /\ Tail(s) \in Seq(S) /\ IsInjective(Tail(s))
         /\ Head(s) \in ToSet(s) /\ ToSet(Tail(s)) = ToSet(s) \ {Head(s)}
<1> DEFINE r == Tail(s)
<1>1. /\ Len(s) \in Nat \ {0} /\ Head(s) = s[1] /\ 1 \in 1..Len(s)
      /\ s[1] \in S /\ r \in Seq(S) /\ Len(r) = Len(s) - 1
      /\ \A i \in 1..Len(r) : r[i] = s[i + 1]
  BY HeadTailProperties
<1> HIDE DEF r
<1>2. DOMAIN r = 1..Len(r) /\ DOMAIN s = 1..Len(s)
  BY <1>1
<1>3. \A i \in 1..Len(r) : i + 1 \in 1..Len(s) /\ i + 1 # 1
  BY <1>1
<1>4. \A i \in 1..Len(s) : i # 1 => i - 1 \in 1..Len(r) /\ r[i - 1] = s[i]
  BY <1>1
<1>5. IsInjective(r)
  <2> SUFFICES ASSUME NEW i \in 1..Len(r), NEW j \in 1..Len(r), r[i] = r[j]
               PROVE  i = j
    BY <1>2 DEF IsInjective
  <2>1. i + 1 = j + 1
    BY <1>1, <1>2, <1>3 DEF IsInjective
  <2> QED BY <1>1, <2>1
<1>6. ToSet(r) = ToSet(s) \ {s[1]}
  <2>1. ASSUME NEW x \in ToSet(r) PROVE x \in ToSet(s) \ {s[1]}
    <3>1. PICK i \in 1..Len(r) : x = r[i]
      BY <1>2, <2>1 DEF ToSet
    <3>2. x = s[i + 1] /\ i + 1 \in 1..Len(s) /\ i + 1 # 1
      BY <1>1, <1>3, <3>1
    <3> QED BY <1>1, <1>2, <3>2 DEF ToSet, IsInjective
  <2>2. ASSUME NEW x \in ToSet(s) \ {s[1]} PROVE x \in ToSet(r)
    BY <1>2, <1>4, <2>2 DEF ToSet
  <2> QED BY <2>1, <2>2
<1>7. s[1] \in ToSet(s)
  BY <1>1, <1>2 DEF ToSet
<1> QED BY <1>1, <1>5, <1>6, <1>7 DEF r

\* Users come to the front of the list, once, and leave it.
LEMMA ListsKept ==
  ASSUME PlaceInv, ListsOK, SinceInv, Next
  PROVE  ListsOK'
<1> USE BroadcastAssumption DEF ListsOK, Threads, Goto, lockVars, history
<1>1. ASSUME NEW w \in Writers, WriteChunk(w) PROVE ListsOK'
  BY <1>1 DEF WriteChunk
<1>2. ASSUME NEW w \in Writers, Visit(w) PROVE ListsOK'
  BY <1>2 DEF Visit, Put
<1>3. ASSUME NEW u \in Users, AddUser(u) PROVE ListsOK'
  <2>1. u \notin ToSet(users)
    BY <1>3 DEF AddUser, SinceInv
  <2>2. users' \in Seq(Users) /\ IsInjective(users')
    BY <1>3, <2>1, PutFirst DEF AddUser
  <2> QED BY <1>3, <2>2 DEF AddUser
<1>4. ASSUME NEW u \in Users, Reply(u) PROVE ListsOK'
  BY <1>4 DEF Reply, Begins
<1>5. ASSUME NEW u \in Users, WriteDirectly(u) PROVE ListsOK'
  BY <1>5 DEF WriteDirectly, Put
<1>6. ASSUME NEW u \in Users, StopUser(u) PROVE ListsOK'
  BY <1>6 DEF StopUser
<1>7. ASSUME NEW u \in Users, RemoveUser(u) PROVE ListsOK'
  <2>1. users' \in Seq(Users) /\ IsInjective(users')
    BY <1>7, RemoveFirstOne DEF RemoveUser
  <2> QED BY <1>7, <2>1 DEF RemoveUser
<1>8. ASSUME NEW t \in Threads, LockRdp(t) PROVE ListsOK'
  <2>1. RemoveFirst(users, t) \in Seq(Users)
    BY RemoveFirstOne
  <2>2. todo' \in [Threads -> Seq(Users)]
    BY <1>8, <2>1 DEF LockRdp
  <2> QED BY <1>8, <2>2 DEF LockRdp
<1>9. ASSUME NEW w \in Writers, Draw(w) \/ InstructionBegin(w) \/
             EndChunk(w) \/ InstructionEnd(w)
      PROVE  UNCHANGED <<users, todo>>
  BY <1>9 DEF Draw, Begins, InstructionBegin, EndChunk, InstructionEnd,
     RdpLockWithout
<1>10. ASSUME NEW u \in Users, Mouse(u) \/ Drain(u) \/ GoAway(u) \/
             HandlerReturns(u)
      PROVE  UNCHANGED <<users, todo>>
  BY <1>10 DEF Mouse, Begins, Drain, GoAway, HandlerReturns, RdpLockWithout
<1>11. UNCHANGED <<users, todo>> => ListsOK'
  OBVIOUS
<1> QED
  BY <1>1, <1>2, <1>3, <1>4, <1>5, <1>6, <1>7, <1>8, <1>9, <1>10, <1>11 DEF
     Next, Working

\* No ring, instruction or count gets beyond its bounds.
LEMMA CountersKept ==
  ASSUME PlaceInv, CountersOK, ListsOK, Next
  PROVE  CountersOK'
<1> USE BroadcastAssumption DEF CountersOK, Threads, Goto, lockVars, history
<1>1. ASSUME NEW w \in Writers, Draw(w) PROVE CountersOK'
  BY <1>1 DEF Draw, Begins
<1>2. ASSUME NEW w \in Writers, InstructionBegin(w) PROVE CountersOK'
  BY <1>2 DEF InstructionBegin
<1>3. ASSUME NEW w \in Writers, WriteChunk(w) PROVE CountersOK'
  BY <1>3 DEF WriteChunk
<1>4. ASSUME NEW w \in Writers, Visit(w) PROVE CountersOK'
  <2>1. Head(todo[w]) \in Users
    BY <1>4 DEF Visit, ListsOK
  <2> QED BY <1>4, <2>1 DEF Visit, Put
<1>5. ASSUME NEW w \in Writers, InstructionEnd(w) PROVE CountersOK'
  BY <1>5 DEF InstructionEnd, RdpLockWithout
<1>6. ASSUME NEW u \in Users, Mouse(u) PROVE CountersOK'
  BY <1>6 DEF Mouse, Begins
<1>7. ASSUME NEW u \in Users, Reply(u) PROVE CountersOK'
  BY <1>7 DEF Reply, Begins
<1>8. ASSUME NEW u \in Users, Drain(u) PROVE CountersOK'
  BY <1>8 DEF Drain
<1>9. ASSUME NEW u \in Users, GoAway(u) PROVE CountersOK'
  BY <1>9 DEF GoAway
<1>10. ASSUME NEW u \in Users, WriteDirectly(u) PROVE CountersOK'
  <2>1. Head(todo[u]) \in Users
    BY <1>10 DEF WriteDirectly, ListsOK
  <2>2. (part[u] + 1) % Length \in 0..Length
    <3>1. part[u] + 1 \in Nat
      OBVIOUS
    <3>2. (part[u] + 1) % Length \in 0..Length - 1
      BY <3>1, NextRemainder
    <3> QED BY <3>2
  <2>3. part' \in [Threads -> 0..Length]
    BY <1>10, <2>2 DEF WriteDirectly
  <2>4. ring' \in [Users -> 0..Capacity]
    BY <1>10, <2>1 DEF WriteDirectly, Put
  <2> QED BY <1>10, <2>3, <2>4 DEF WriteDirectly
<1>11. ASSUME NEW u \in Users, HandlerReturns(u) PROVE CountersOK'
  BY <1>11 DEF HandlerReturns, RdpLockWithout
<1>12. ASSUME NEW u \in Users, StopUser(u) PROVE CountersOK'
  BY <1>12 DEF StopUser
<1>13. ASSUME NEW t \in Threads, LockRdp(t) PROVE CountersOK'
  BY <1>13 DEF LockRdp
<1>14. ASSUME NEW w \in Writers, EndChunk(w)
      PROVE  UNCHANGED <<rdpLock, begun, part, ring, gone>>
  BY <1>14 DEF EndChunk
<1>15. ASSUME NEW u \in Users, AddUser(u) \/ RemoveUser(u)
      PROVE  UNCHANGED <<rdpLock, begun, part, ring, gone>>
  BY <1>15 DEF AddUser, RemoveUser
<1>16. UNCHANGED <<rdpLock, begun, part, ring, gone>> => CountersOK'
  OBVIOUS
<1> QED
  BY <1>1, <1>2, <1>3, <1>4, <1>5, <1>6, <1>7, <1>8, <1>9, <1>10, <1>11,
     <1>12, <1>13, <1>14, <1>15, <1>16 DEF Next, Working

\* What a user has in part is of one thread.
LEMMA OpenKept ==
  ASSUME ListsOK, OpenOK, Next
  PROVE  OpenOK'
<1> USE BroadcastAssumption DEF ListsOK, OpenOK, Threads, Goto, lockVars,
   history
<1>1. ASSUME NEW w \in Writers, Visit(w) PROVE OpenOK'
  BY <1>1 DEF Visit, Put
<1>2. ASSUME NEW u \in Users, WriteDirectly(u) PROVE OpenOK'
  BY <1>2 DEF WriteDirectly, Put
<1>3. ASSUME NEW w \in Writers, Draw(w) \/ InstructionBegin(w) \/
             WriteChunk(w) \/ EndChunk(w) \/ InstructionEnd(w)
      PROVE  UNCHANGED <<open, mixed>>
  BY <1>3 DEF Draw, Begins, InstructionBegin, WriteChunk, EndChunk,
     InstructionEnd, RdpLockWithout
<1>4. ASSUME NEW u \in Users, AddUser(u) \/ Mouse(u) \/ Reply(u) \/
             Drain(u) \/ GoAway(u) \/ HandlerReturns(u) \/ StopUser(u) \/
             RemoveUser(u)
      PROVE  UNCHANGED <<open, mixed>>
  BY <1>4 DEF AddUser, Mouse, Begins, Reply, Drain, GoAway, HandlerReturns,
     RdpLockWithout, StopUser, RemoveUser
<1>5. ASSUME NEW t \in Threads, LockRdp(t)
      PROVE  UNCHANGED <<open, mixed>>
  BY <1>5 DEF LockRdp
<1>6. UNCHANGED <<open, mixed>> => OpenOK'
  OBVIOUS
<1> QED
  BY <1>1, <1>2, <1>3, <1>4, <1>5, <1>6 DEF Next, Working

\* What is written is a chunk of a writer.
LEMMA HistoryKept ==
  ASSUME PlaceInv, CountersOK, ListsOK, HistoryOK, LogInv, Next
  PROVE  HistoryOK'
<1> USE BroadcastAssumption DEF HistoryOK, Threads, Goto, lockVars, history
<1>1. ASSUME NEW w \in Writers, WriteChunk(w) PROVE HistoryOK'
  <2>1. part'[w] \in 1..Length
    BY <1>1 DEF WriteChunk, CountersOK
  <2>2. <<w, part'[w]>> \in Chunks
    BY <2>1 DEF Chunks
  <2>3. log' \in Seq(Chunks)
    BY <1>1, <2>2 DEF WriteChunk
  <2> QED BY <1>1, <2>3 DEF WriteChunk
<1>2. ASSUME NEW w \in Writers, Visit(w) PROVE HistoryOK'
  <2>1. Head(todo[w]) \in Users
    BY <1>2 DEF Visit, ListsOK
  <2>2. Last(log) \in Chunks
    <3>1. log # <<>>
      BY <1>2 DEF Visit, PlaceInv, LogInv, CountersOK
    <3> QED BY <3>1 DEF Last
  <2>3. seen[Head(todo[w])] \in Seq(Chunks)
    BY <2>1
  <2>4. Append(seen[Head(todo[w])], Last(log)) \in Seq(Chunks)
    BY <2>2, <2>3
  <2>5. seen' \in [Users -> Seq(Chunks)]
    BY <1>2, <2>1, <2>4 DEF Visit
  <2> QED BY <1>2, <2>5 DEF Visit
<1>3. ASSUME NEW u \in Users, AddUser(u) PROVE HistoryOK'
  BY <1>3 DEF AddUser
<1>4. ASSUME NEW w \in Writers, Draw(w) \/ InstructionBegin(w) \/
             EndChunk(w) \/ InstructionEnd(w)
      PROVE  UNCHANGED <<log, since, seen>>
  BY <1>4 DEF Draw, Begins, InstructionBegin, EndChunk, InstructionEnd,
     RdpLockWithout
<1>5. ASSUME NEW u \in Users, Mouse(u) \/ Reply(u) \/ Drain(u) \/ GoAway(u) \/
             WriteDirectly(u) \/ HandlerReturns(u) \/ StopUser(u) \/
             RemoveUser(u)
      PROVE  UNCHANGED <<log, since, seen>>
  BY <1>5 DEF Mouse, Begins, Reply, Drain, GoAway, WriteDirectly, Put,
     HandlerReturns, RdpLockWithout, StopUser, RemoveUser
<1>6. ASSUME NEW t \in Threads, LockRdp(t)
      PROVE  UNCHANGED <<log, since, seen>>
  BY <1>6 DEF LockRdp
<1>7. UNCHANGED <<log, since, seen>> => HistoryOK'
  OBVIOUS
<1> QED
  BY <1>1, <1>2, <1>3, <1>4, <1>5, <1>6, <1>7 DEF Next, Working

\* Only the thread with the lock of the socket writes to the log, chunk by chunk.
LEMMA LogKept ==
  ASSUME PlaceInv, CountersOK, ListsOK, HistoryOK, LogInv, Next
  PROVE  LogInv'
<1> USE BroadcastAssumption DEF PlaceInv, CountersOK, HistoryOK, LogInv,
   Threads, Goto, lockVars, history
<1>1. ASSUME NEW w \in Writers, Draw(w) PROVE LogInv'
  BY <1>1 DEF Draw, Begins
<1>2. ASSUME NEW w \in Writers, InstructionBegin(w) PROVE LogInv'
  BY <1>2 DEF InstructionBegin
<1>3. ASSUME NEW w \in Writers, WriteChunk(w) PROVE LogInv'
  <2> DEFINE n == Len(log)
             k == part[w] + 1
  <2>1. /\ socketLock = w /\ part[w] \in 0..Length - 1 /\ n \in Nat
        /\ n % Length = part[w] /\ (part[w] > 0 => n > 0 /\ log[n][1] = w)
    BY <1>3 DEF WriteChunk
  <2>2. /\ part' = [part EXCEPT ![w] = k] /\ log' = Append(log, <<w, k>>)
        /\ pc' = [pc EXCEPT ![w] = "visit"] /\ socketLock' = socketLock
    BY <1>3 DEF WriteChunk
  <2>3. /\ Len(log') = n + 1 /\ log'[n + 1] = <<w, k>>
        /\ \A i \in 1..n : log'[i] = log[i]
    BY <2>2
  <2>4. (n + 1) % Length = IF k = Length THEN 0 ELSE k
    <3>1. (n + 1) % Length = IF n % Length = Length - 1 THEN 0 ELSE (n % Length) + 1
      BY <2>1, NextRemainder
    <3> QED BY <2>1, <3>1
  <2> HIDE DEF n
  <2>5. ASSUME NEW i \in 1..n PROVE EntryWhole(log', i)
    <3>1. EntryWhole(log, i)
      BY DEF n
    <3>2. CASE i = 1
      <4>1. 0 % Length = 0
        OBVIOUS
      <4> QED BY <2>3, <3>1, <3>2, <4>1 DEF EntryWhole
    <3>3. CASE i # 1
      <4>1. i - 1 \in 1..n
        BY <2>1, <3>3
      <4> QED BY <2>3, <3>1, <4>1 DEF EntryWhole
    <3> QED BY <3>2, <3>3
  <2>6. EntryWhole(log', n + 1)
    <3>1. log'[n + 1][1] = w /\ log'[n + 1][2] = k /\ (n + 1) - 1 = n
      BY <2>1, <2>3
    <3>2. k > 1 => log'[n][1] = w
      BY <2>1, <2>3
    <3> QED BY <2>1, <3>1, <3>2 DEF EntryWhole
  <2>7. \A i \in 1..Len(log') : EntryWhole(log', i)
    BY <2>1, <2>3, <2>5, <2>6
  <2>8. /\ Len(log') % Length = IF part'[w] = Length THEN 0 ELSE part'[w]
        /\ log' # <<>> /\ log'[Len(log')][1] = w /\ part'[w] > 0
    BY <2>1, <2>2, <2>3, <2>4
  <2> QED BY <2>1, <2>2, <2>7, <2>8
<1>4. ASSUME NEW w \in Writers, Visit(w) PROVE LogInv'
  BY <1>4 DEF Visit, Put
<1>5. ASSUME NEW w \in Writers, EndChunk(w) PROVE LogInv'
  BY <1>5 DEF EndChunk
<1>6. ASSUME NEW w \in Writers, InstructionEnd(w) PROVE LogInv'
  BY <1>6 DEF InstructionEnd, RdpLockWithout
<1>7. ASSUME NEW u \in Users, AddUser(u) PROVE LogInv'
  BY <1>7 DEF AddUser
<1>8. ASSUME NEW u \in Users, Mouse(u) PROVE LogInv'
  BY <1>8 DEF Mouse, Begins
<1>9. ASSUME NEW u \in Users, Reply(u) PROVE LogInv'
  BY <1>9 DEF Reply, Begins
<1>10. ASSUME NEW u \in Users, WriteDirectly(u) PROVE LogInv'
  BY <1>10 DEF WriteDirectly, Put
<1>11. ASSUME NEW u \in Users, HandlerReturns(u) PROVE LogInv'
  BY <1>11 DEF HandlerReturns, RdpLockWithout
<1>12. ASSUME NEW u \in Users, StopUser(u) PROVE LogInv'
  BY <1>12 DEF StopUser
<1>13. ASSUME NEW u \in Users, RemoveUser(u) PROVE LogInv'
  BY <1>13 DEF RemoveUser
<1>14. ASSUME NEW t \in Threads, LockRdp(t) PROVE LogInv'
  BY <1>14 DEF LockRdp
<1>15. ASSUME NEW u \in Users, Drain(u) \/ GoAway(u)
      PROVE  UNCHANGED <<log, socketLock, part, pc>>
  BY <1>15 DEF Drain, GoAway
<1>16. UNCHANGED <<log, socketLock, part, pc>> => LogInv'
  OBVIOUS
<1> QED
  BY <1>1, <1>2, <1>3, <1>4, <1>5, <1>6, <1>7, <1>8, <1>9, <1>10, <1>11,
     <1>12, <1>13, <1>14, <1>15, <1>16 DEF Next, Working

\* A writer calls the users of the iteration once each.
LEMMA TodoKept ==
  ASSUME PlaceInv, CountersOK, ListsOK, HistoryOK, TodoInv, SinceInv, Next
  PROVE  TodoInv'
<1> USE BroadcastAssumption DEF PlaceInv, ListsOK, HistoryOK, TodoInv,
   Threads, Goto, lockVars, history
<1>a. \A w \in Writers : \A u \in ToSet(todo[w]) : u \in Users /\ u # w
  BY DEF ToSet
<1> USE <1>a
<1>1. ASSUME NEW w \in Writers, Draw(w) PROVE TodoInv'
  BY <1>1 DEF Draw, Begins
<1>2. ASSUME NEW w \in Writers, InstructionBegin(w) PROVE TodoInv'
  BY <1>2 DEF InstructionBegin
<1>3. ASSUME NEW w \in Writers, WriteChunk(w) PROVE TodoInv'
  <2>1. Len(log') = Len(log) + 1
    BY <1>3 DEF WriteChunk
  <2>2. \A u \in ToSet(users) : u \in Users /\ pc[u] # "new" /\ since[u] < Len(log')
    BY <2>1 DEF ToSet, SinceInv
  <2>3. /\ todo' = [todo EXCEPT ![w] = users] /\ since' = since
        /\ pc' = [pc EXCEPT ![w] = "visit"]
    BY <1>3 DEF WriteChunk
  <2>4. ASSUME NEW v \in Writers, v # w, NEW u \in ToSet(todo[v])
        PROVE  pc'[u] # "new" /\ since'[u] < Len(log')
    BY <2>1, <2>3, <2>4
  <2> QED BY <2>1, <2>2, <2>3, <2>4
<1>4. ASSUME NEW w \in Writers, Visit(w) PROVE TodoInv'
  <2>1. /\ IsInjective(Tail(todo[w])) /\ ToSet(Tail(todo[w])) \subseteq ToSet(todo[w])
    BY <1>4, TailWithoutHead DEF Visit
  <2> QED BY <1>4, <2>1 DEF Visit
<1>5. ASSUME NEW w \in Writers, EndChunk(w) PROVE TodoInv'
  BY <1>5 DEF EndChunk
<1>6. ASSUME NEW w \in Writers, InstructionEnd(w) PROVE TodoInv'
  BY <1>6 DEF InstructionEnd, RdpLockWithout
<1>7. ASSUME NEW u \in Users, AddUser(u) PROVE TodoInv'
  BY <1>7 DEF AddUser
<1>8. ASSUME NEW u \in Users, Mouse(u) PROVE TodoInv'
  BY <1>8 DEF Mouse, Begins
<1>9. ASSUME NEW u \in Users, Reply(u) PROVE TodoInv'
  BY <1>9 DEF Reply, Begins
<1>10. ASSUME NEW u \in Users, WriteDirectly(u) PROVE TodoInv'
  BY <1>10 DEF WriteDirectly, Put
<1>11. ASSUME NEW u \in Users, HandlerReturns(u) PROVE TodoInv'
  BY <1>11 DEF HandlerReturns, RdpLockWithout
<1>12. ASSUME NEW u \in Users, StopUser(u) PROVE TodoInv'
  BY <1>12 DEF StopUser
<1>13. ASSUME NEW u \in Users, RemoveUser(u) PROVE TodoInv'
  BY <1>13 DEF RemoveUser
<1>14. ASSUME NEW t \in Threads, LockRdp(t) PROVE TodoInv'
  <2>1. CASE t \in Writers
    BY <1>14, <2>1 DEF LockRdp
  <2>2. CASE t \in Users
    BY <1>14, <2>2 DEF LockRdp
  <2> QED BY <2>1, <2>2
<1>15. ASSUME NEW u \in Users, Drain(u) \/ GoAway(u)
      PROVE  UNCHANGED <<log, todo, pc, since>>
  BY <1>15 DEF Drain, GoAway
<1>16. UNCHANGED <<log, todo, pc, since>> => TodoInv'
  OBVIOUS
<1> QED
  BY <1>1, <1>2, <1>3, <1>4, <1>5, <1>6, <1>7, <1>8, <1>9, <1>10, <1>11,
     <1>12, <1>13, <1>14, <1>15, <1>16 DEF Next, Working

\* Who has not come gets nothing.
LEMMA SinceKept ==
  ASSUME PlaceInv, CountersOK, ListsOK, HistoryOK, TodoInv, SinceInv, Next
  PROVE  SinceInv'
<1> USE BroadcastAssumption DEF PlaceInv, HistoryOK, SinceInv, Threads, Goto,
   lockVars, history
<1>1. ASSUME NEW w \in Writers, Draw(w) PROVE SinceInv'
  BY <1>1 DEF Draw, Begins
<1>2. ASSUME NEW w \in Writers, InstructionBegin(w) PROVE SinceInv'
  BY <1>2 DEF InstructionBegin
<1>3. ASSUME NEW w \in Writers, WriteChunk(w) PROVE SinceInv'
  BY <1>3 DEF WriteChunk
<1>4. ASSUME NEW w \in Writers, Visit(w) PROVE SinceInv'
  <2>1. Head(todo[w]) \in ToSet(todo[w]) /\ Head(todo[w]) \in Users
    BY <1>4, TailWithoutHead DEF Visit, TodoInv, ListsOK
  <2>2. pc[Head(todo[w])] # "new"
    BY <2>1 DEF TodoInv
  <2> QED BY <1>4, <2>1, <2>2 DEF Visit
<1>5. ASSUME NEW w \in Writers, EndChunk(w) PROVE SinceInv'
  BY <1>5 DEF EndChunk
<1>6. ASSUME NEW w \in Writers, InstructionEnd(w) PROVE SinceInv'
  BY <1>6 DEF InstructionEnd, RdpLockWithout
<1>7. ASSUME NEW u \in Users, AddUser(u) PROVE SinceInv'
  <2>1. ToSet(users') = ToSet(users) \union {u}
    BY <1>7, PutFirst DEF AddUser, ListsOK
  <2>2. /\ since' = [since EXCEPT ![u] = Len(log)] /\ log' = log
        /\ pc' = [pc EXCEPT ![u] = "in"] /\ seen' = seen
    BY <1>7 DEF AddUser
  <2>3. Len(log) \in Nat
    OBVIOUS
  <2> QED BY <2>1, <2>2, <2>3
<1>8. ASSUME NEW u \in Users, Mouse(u) PROVE SinceInv'
  BY <1>8 DEF Mouse, Begins
<1>9. ASSUME NEW u \in Users, Reply(u) PROVE SinceInv'
  BY <1>9 DEF Reply, Begins
<1>10. ASSUME NEW u \in Users, HandlerReturns(u) PROVE SinceInv'
  BY <1>10 DEF HandlerReturns, RdpLockWithout
<1>11. ASSUME NEW u \in Users, StopUser(u) PROVE SinceInv'
  BY <1>11 DEF StopUser
<1>12. ASSUME NEW u \in Users, RemoveUser(u) PROVE SinceInv'
  <2>1. ToSet(users') \subseteq ToSet(users)
    BY <1>12, RemoveFirstOne DEF RemoveUser, ListsOK
  <2> QED BY <1>12, <2>1 DEF RemoveUser
<1>13. ASSUME NEW t \in Threads, LockRdp(t) PROVE SinceInv'
  BY <1>13 DEF LockRdp
<1>14. ASSUME NEW u \in Users, Drain(u) \/ GoAway(u) \/ WriteDirectly(u)
      PROVE  UNCHANGED <<log, users, pc, since, seen>>
  BY <1>14 DEF Drain, GoAway, WriteDirectly, Put
<1>15. UNCHANGED <<log, users, pc, since, seen>> => SinceInv'
  OBVIOUS
<1> QED
  BY <1>1, <1>2, <1>3, <1>4, <1>5, <1>6, <1>7, <1>8, <1>9, <1>10, <1>11,
     <1>12, <1>13, <1>14, <1>15 DEF Next, Working

\* Who has not got the chunk that is under way.
Outstanding(u) == \E w \in Writers : u \in ToSet(todo[w])

\* What u has got of the log.
SameFor(u) ==
  seen[u] = SubSeq(log, since[u] + 1, Len(log) - (IF Outstanding(u) THEN 1 ELSE 0))

\* SameForAll, user by user.
LEMMA SameForEach ==
  /\ SameForAll <=> \A u \in ToSet(users) : SameFor(u)
  /\ SameForAll' <=> \A u \in ToSet(users') : SameFor(u)'
  BY DEF SameForAll, SameFor, Outstanding

\* Steps that do not write to the broadcast socket, nor let a user come.
LEMMA SameAsBefore ==
  ASSUME SameForAll, UNCHANGED <<log, since, seen>>,
         ToSet(users') \subseteq ToSet(users),
         \A w \in Writers : todo'[w] = todo[w]
  PROVE  SameForAll'
<1>1. ASSUME NEW u PROVE Outstanding(u)' = Outstanding(u)
  BY DEF Outstanding
<1>2. ASSUME NEW u \in ToSet(users') PROVE SameFor(u)'
  BY <1>1, SameForEach DEF SameFor
<1> QED BY <1>2, SameForEach

\* A chunk goes to all users before the next one is begun.
LEMMA SameKept ==
  ASSUME PlaceInv, CountersOK, ListsOK, HistoryOK, TodoInv, SinceInv, SameForAll, Next
  PROVE  SameForAll'
<1> USE BroadcastAssumption DEF Threads, Goto, lockVars, history
<1>1. ASSUME NEW w \in Writers, WriteChunk(w) PROVE SameForAll'
  <2>1. /\ todo' = [todo EXCEPT ![w] = users] /\ UNCHANGED <<since, seen, users>>
        /\ socketLock = w /\ pc[w] = "chunk"
    BY <1>1 DEF WriteChunk, PlaceInv
  <2>2. PICK x \in Chunks : log' = Append(log, x)
    <3>1. part'[w] \in 1..Length
      BY <1>1 DEF WriteChunk, CountersOK
    <3>2. <<w, part'[w]>> \in Chunks
      BY <3>1 DEF Chunks
    <3> QED BY <1>1, <3>2 DEF WriteChunk
  <2>3. ASSUME NEW u \in ToSet(users) PROVE SameFor(u)'
    <3>1. ~Outstanding(u)
      BY <2>1 DEF Outstanding, TodoInv, PlaceInv, ToSet
    <3>2. Outstanding(u)'
      BY <2>1 DEF Outstanding, ListsOK
    <3>3. u \in Users /\ since[u] + 1 \in Nat \ {0}
      BY DEF ListsOK, HistoryOK, ToSet
    <3>4. /\ log \in Seq(Chunks) /\ Len(log) \in Nat
          /\ Len(log') - 1 = Len(log)
      BY <2>2 DEF HistoryOK
    <3>5. SubSeq(log', since[u] + 1, Len(log)) = SubSeq(log, since[u] + 1, Len(log))
      BY <2>2, <3>3, <3>4, PartOfLonger
    <3>6. seen[u] = SubSeq(log, since[u] + 1, Len(log))
      BY <3>1, <3>4, SameForEach DEF SameFor
    <3> QED BY <2>1, <3>2, <3>4, <3>5, <3>6 DEF SameFor
  <2> QED BY <2>1, <2>3, SameForEach
<1>2. ASSUME NEW w \in Writers, Visit(w) PROVE SameForAll'
  <2>0. PICK h : h = Head(todo[w])
    OBVIOUS
  <2>1. /\ todo[w] \in Seq(Users) /\ todo[w] # <<>> /\ IsInjective(todo[w])
        /\ pc[w] = "visit" /\ socketLock = w
    BY <1>2 DEF Visit, ListsOK, TodoInv, PlaceInv
  <2>2. /\ h \in Users /\ h \in ToSet(todo[w])
        /\ ToSet(Tail(todo[w])) = ToSet(todo[w]) \ {h}
    BY <2>0, <2>1, TailWithoutHead
  <2>3. /\ todo' = [todo EXCEPT ![w] = Tail(todo[w])]
        /\ seen' = [seen EXCEPT ![h] = Append(seen[h], log[Len(log)])]
        /\ UNCHANGED <<log, since, users>>
    BY <1>2, <2>0 DEF Visit, Last
  <2>4. \A v \in Writers : v # w => todo[v] = <<>>
    BY <2>1 DEF TodoInv, PlaceInv
  <2>5. ASSUME NEW u \in ToSet(users), u # h PROVE SameFor(u)'
    <3>1. Outstanding(u)' = Outstanding(u)
      BY <2>2, <2>3, <2>5 DEF Outstanding, ListsOK
    <3>2. u \in Users
      BY DEF ListsOK, ToSet
    <3> QED BY <2>3, <2>5, <3>1, <3>2, SameForEach DEF SameFor, HistoryOK
  <2>6. ASSUME h \in ToSet(users) PROVE SameFor(h)'
    <3>1. Outstanding(h)
      BY <2>2 DEF Outstanding
    <3>2. ~Outstanding(h)'
      <4>1. \A v \in Writers : h \notin ToSet(todo'[v])
        <5>1. ToSet(<<>>) = {}
          BY DEF ToSet
        <5> QED BY <2>2, <2>3, <2>4, <5>1 DEF ListsOK
      <4> QED BY <4>1 DEF Outstanding
    <3>3. since[h] \in Nat /\ since[h] < Len(log) /\ log \in Seq(Chunks)
      BY <2>2 DEF TodoInv, HistoryOK
    <3>4. since[h] + 1 \in 1..Len(log)
      BY <3>3
    <3>5. seen[h] = SubSeq(log, since[h] + 1, Len(log) - 1)
      BY <2>6, <3>1, SameForEach DEF SameFor
    <3>6. seen'[h] = SubSeq(log, since[h] + 1, Len(log))
      BY <2>2, <2>3, <3>3, <3>4, <3>5, PartGrows DEF HistoryOK
    <3>7. Len(log) - 0 = Len(log)
      BY <3>3
    <3> QED BY <2>3, <3>2, <3>6, <3>7 DEF SameFor
  <2> QED BY <2>3, <2>5, <2>6, SameForEach
<1>3. ASSUME NEW u \in Users, AddUser(u) PROVE SameForAll'
  <2>1. /\ ToSet(users') = ToSet(users) \union {u} /\ u \notin ToSet(users)
        /\ seen[u] = <<>>
    BY <1>3, PutFirst DEF AddUser, ListsOK, SinceInv
  <2>2. /\ since' = [since EXCEPT ![u] = Len(log)] /\ since'[u] = Len(log)
        /\ UNCHANGED <<log, seen, todo>>
    BY <1>3 DEF AddUser, HistoryOK
  <2>3. ASSUME NEW v \in ToSet(users) PROVE SameFor(v)'
    BY <2>1, <2>2, SameForEach DEF SameFor, Outstanding, HistoryOK
  <2>4. SameFor(u)'
    <3>1. ~Outstanding(u)
      BY <1>3 DEF AddUser, Outstanding, TodoInv
    <3>2. ~Outstanding(u)' /\ Len(log) \in Nat
      BY <2>2, <3>1 DEF Outstanding, HistoryOK
    <3>3. SubSeq(log, Len(log) + 1, Len(log)) = <<>>
      BY <3>2, SubSeqEmpty
    <3>4. Len(log) - 0 = Len(log)
      BY <3>2
    <3> QED BY <2>1, <2>2, <3>2, <3>3, <3>4 DEF SameFor
  <2> QED BY <2>1, <2>3, <2>4, SameForEach
<1>4. ASSUME NEW u \in Users, Reply(u) PROVE SameForAll'
  <2>1. /\ UNCHANGED <<log, since, seen, users>>
        /\ \A w \in Writers : todo'[w] = todo[w]
    BY <1>4 DEF Reply, ListsOK
  <2> QED BY <2>1, SameAsBefore
<1>5. ASSUME NEW u \in Users, WriteDirectly(u) PROVE SameForAll'
  <2>1. /\ UNCHANGED <<log, since, seen, users>>
        /\ \A w \in Writers : todo'[w] = todo[w]
    BY <1>5 DEF WriteDirectly, ListsOK
  <2> QED BY <2>1, SameAsBefore
<1>6. ASSUME NEW u \in Users, StopUser(u) PROVE SameForAll'
  <2>1. /\ UNCHANGED <<log, since, seen, users>>
        /\ \A w \in Writers : todo'[w] = todo[w]
    BY <1>6 DEF StopUser, ListsOK
  <2> QED BY <2>1, SameAsBefore
<1>7. ASSUME NEW u \in Users, RemoveUser(u) PROVE SameForAll'
  <2>1. ToSet(users') \subseteq ToSet(users)
    BY <1>7, RemoveFirstOne DEF RemoveUser, ListsOK
  <2> QED BY <1>7, <2>1, SameAsBefore DEF RemoveUser
<1>8. ASSUME NEW t \in Threads, LockRdp(t) PROVE SameForAll'
  <2>1. /\ UNCHANGED <<log, since, seen, users>>
        /\ t \in Writers => todo' = todo
        /\ t \in Users => todo' = [todo EXCEPT ![t] = RemoveFirst(users, t)]
    BY <1>8 DEF LockRdp
  <2>2. \A w \in Writers : todo'[w] = todo[w]
    BY <2>1 DEF ListsOK
  <2> QED BY <2>1, <2>2, SameAsBefore
<1>9. ASSUME NEW w \in Writers, Draw(w) \/ InstructionBegin(w) \/
             EndChunk(w) \/ InstructionEnd(w)
      PROVE  UNCHANGED <<log, since, seen, users, todo>>
  BY <1>9 DEF Draw, Begins, InstructionBegin, EndChunk, InstructionEnd,
     RdpLockWithout
<1>10. ASSUME NEW u \in Users, Mouse(u) \/ Drain(u) \/ GoAway(u) \/
             HandlerReturns(u)
      PROVE  UNCHANGED <<log, since, seen, users, todo>>
  BY <1>10 DEF Mouse, Begins, Drain, GoAway, HandlerReturns, RdpLockWithout
<1>11. UNCHANGED <<log, since, seen, users, todo>> => SameForAll'
  BY SameAsBefore
<1> QED
  BY <1>1, <1>2, <1>3, <1>4, <1>5, <1>6, <1>7, <1>8, <1>9, <1>10, <1>11 DEF
     Next, Working

\* The inductive invariant.
IInv == /\ PlaceInv /\ CountersOK /\ ListsOK /\ HistoryOK /\ OpenOK
        /\ LogInv /\ TodoInv /\ SinceInv /\ SameForAll

\* Every state of the broadcast socket satisfies it.
THEOREM Invariance == Spec => []IInv
<1>1. Init => IInv
  <2> SUFFICES ASSUME Init PROVE IInv
    OBVIOUS
  <2> USE BroadcastAssumption DEF Init, Threads
  <2>1. PlaceInv /\ CountersOK
    BY DEF PlaceInv, CountersOK, WriterPlaces, UserPlaces
  <2>2. ListsOK /\ HistoryOK /\ OpenOK
    BY DEF ListsOK, HistoryOK, OpenOK, IsInjective
  <2>3. LogInv
    <3>1. Len(log) = 0 /\ 0 % Length = 0
      OBVIOUS
    <3> QED BY <3>1 DEF LogInv
  <2>4. TodoInv /\ SinceInv /\ SameForAll
    BY DEF TodoInv, SinceInv, SameForAll, IsInjective, ToSet
  <2> QED BY <2>1, <2>2, <2>3, <2>4 DEF IInv
<1>2. IInv /\ [Next]_vars => IInv'
  <2>1. ASSUME IInv, Next PROVE IInv'
    BY <2>1, PlacesKept, CountersKept, ListsKept, HistoryKept, OpenKept,
       LogKept, TodoKept, SinceKept, SameKept DEF IInv
  <2>2. ASSUME IInv, UNCHANGED vars PROVE IInv'
    <3> USE <2>2 DEF IInv, vars, lockVars, history
    <3>1. PlaceInv' /\ CountersOK' /\ ListsOK' /\ HistoryOK' /\ OpenOK'
      BY DEF PlaceInv, CountersOK, ListsOK, HistoryOK, OpenOK
    <3>2. LogInv' /\ TodoInv' /\ SinceInv'
      BY DEF LogInv, EntryWhole, TodoInv, SinceInv
    <3>3. SameForAll'
      BY SameAsBefore
    <3> QED BY <3>1, <3>2, <3>3
  <2> QED BY <2>1, <2>2
<1> QED BY <1>1, <1>2, PTL DEF Spec

\* The types.
LEMMA TypesFollow == IInv => TypeOK
  BY DEF IInv, TypeOK, PlaceInv, CountersOK, ListsOK, HistoryOK, OpenOK,
     WriterPlaces, UserPlaces

\* The lock of the broadcast socket is held from the first chunk of an
\* instruction to the last one: the log is whole instructions, for any number
\* of threads that write and whatever their instructions' length.
THEOREM AlwaysLogWhole == Spec => []LogWhole
<1>1. IInv => LogWhole
  BY TypesFollow DEF IInv, LogInv, EntryWhole, LogWhole
<1> QED BY <1>1, Invariance, PTL

\* Every user has what was written to the broadcast socket since it came, up
\* to the chunk that is under way: guac_client_foreach_user calls each of them
\* once, and guac_socket_write does not give up.
THEOREM AlwaysSameForAll == Spec => []SameForAll
<1>1. IInv => SameForAll
  BY DEF IInv
<1> QED BY <1>1, Invariance, PTL

=============================================================================
