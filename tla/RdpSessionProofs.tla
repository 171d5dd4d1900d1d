-------------------------- MODULE RdpSessionProofs ---------------------------
(***************************************************************************)
(* What the handlers of an RDP session rest on, for every keymap, every    *)
(* number of sessions and every size: nothing freed is reached under       *)
(* rdp_lock; a size of positive dimensions is requested as one that fits   *)
(* the display update channel, and where a resize takes a new session that *)
(* session comes to have it; and, for one user that types, a keysym goes   *)
(* out with the modifiers and locks it needs, which are put back after it. *)
(***************************************************************************)
EXTENDS RdpSession, SequenceTheorems, TLAPS

\* What the client thread has made and freed at each of its steps.
ThreadInv ==
  /\ thread \in {"start", "keyboard", "connect"} => rdpInst = 0 /\ ~rdpLock
  /\ thread \in {"keyboard", "connect", "connected", "loop"} => display = "live"
  /\ thread = "connect" => instLive
  /\ thread \in {"start", "keyboard"} => ~instLive
  /\ thread \in {"disconnected", "forgotten", "freeing"} => ~instLive
  /\ thread \in {"connected", "loop"} =>
       rdpInst = session /\ instLive /\ (~rdpLock \/ blocked)
  /\ thread = "disconnected" => rdpLock
  /\ thread \in {"forgotten", "freeing"} => rdpLock /\ rdpInst = 0
  /\ thread = "done" /\ rdpInst # 0 =>
       rdpInst = session /\ instLive /\ display = "live"
  /\ thread \in {"start", "keyboard", "connect", "connected", "loop",
                 "disconnected", "forgotten", "freeing", "done", "blocked"}

LockInv == ThreadInv /\ InLockAlive

sharedVars == <<thread, session, instLive, display, blocked, rdpInst, rdpLock, strayed>>

\* A step that leaves what the lock protects alone preserves LockInv.
LEMMA SharedUntouched ==
  ASSUME LockInv, UNCHANGED sharedVars
  PROVE  LockInv'
  BY DEF LockInv, ThreadInv, InLockAlive, sharedVars

\* guac_rdp_client_thread frees only under the lock, after which the instance
\* is forgotten.
LEMMA ClientThreadKeepsLockInv ==
  ASSUME LockInv, ClientThread
  PROVE  LockInv'
<1>1. CASE Start
  BY <1>1 DEF Start, LockInv, ThreadInv, InLockAlive, keyboardVars, mouseVars
<1>2. CASE Prepare
  BY <1>2 DEF Prepare, LockInv, ThreadInv, InLockAlive, mouseVars
<1>3. CASE Connect
  BY <1>3 DEF Connect, LockInv, ThreadInv, InLockAlive
<1>4. CASE ConnectFails
  BY <1>4 DEF ConnectFails, LockInv, ThreadInv, InLockAlive, keyboardVars, mouseVars
<1>5. CASE ReconnectComplete
  BY <1>5 DEF ReconnectComplete, LockInv, ThreadInv, InLockAlive, keyboardVars, mouseVars
<1>6. CASE ServerCloses
  BY <1>6 DEF ServerCloses, LockInv, ThreadInv, InLockAlive, keyboardVars, mouseVars
<1>7. CASE Disconnect
  BY <1>7 DEF Disconnect, LockInv, ThreadInv, InLockAlive, mouseVars
<1>8. CASE ForgetInstance
  BY <1>8 DEF ForgetInstance, InstanceAfter, LockInv, ThreadInv, InLockAlive, mouseVars
<1>9. CASE FreeKeyboard
  BY <1>9 DEF FreeKeyboard, LockInv, ThreadInv, InLockAlive, mouseVars
<1>10. CASE FreeDisplay
  BY <1>10 DEF FreeDisplay, LockAfter, LockInv, ThreadInv, InLockAlive, mouseVars
<1>11. CASE Resized
  <2>1. UNCHANGED sharedVars
    BY <1>11 DEF Resized, sharedVars, keyboardVars, sessionVars, mouseVars
  <2> QED
    BY <2>1, SharedUntouched
<1> QED
  BY <1>1, <1>2, <1>3, <1>4, <1>5, <1>6, <1>7, <1>8, <1>9, <1>10, <1>11 DEF ClientThread

\* A thread that waits for ever in a write keeps what it has.
LEMMA BlockKeepsLockInv ==
  ASSUME LockInv, Block
  PROVE  LockInv'
<1>1. UNCHANGED <<rdpInst, session, instLive, display, strayed>> /\ blocked'
  BY DEF Block, mouseVars
<1>2. CASE thread \in {"start", "keyboard", "connect", "freeing"}
           /\ thread' = "blocked" /\ UNCHANGED rdpLock
  BY <1>1, <1>2 DEF LockInv, ThreadInv, InLockAlive
<1>3. CASE thread = "loop" /\ ~rdpLock /\ thread' = "blocked" /\ rdpLock' \in BOOLEAN
  BY <1>1, <1>3 DEF LockInv, ThreadInv, InLockAlive
<1>4. CASE rdpInst # 0 /\ ~rdpLock /\ rdpLock' = TRUE /\ UNCHANGED thread
  BY <1>1, <1>4 DEF LockInv, ThreadInv, InLockAlive
<1> QED
  BY <1>2, <1>3, <1>4 DEF Block

\* The calls of the keyboard change what is typed and what the session has of
\* it only.
LEMMA TypingKeepsShared ==
  ASSUME NEW u \in Users, Keyed(u) \/ \E k \in Keys : PressOrRelease(u, k)
  PROVE  UNCHANGED <<sharedVars, requested, asked, resizing, plan>>
<1>1. CASE \E k \in Keys : PressOrRelease(u, k)
  BY <1>1 DEF PressOrRelease, Key, sharedVars, sessionVars, sizeVars, mouseVars
<1>2. CASE Keyed(u)
  <2>1. Typing(u) /\ UNCHANGED <<sessionVars, sizeVars, mouseVars>>
    BY <1>2 DEF Keyed
  <2>2. UNCHANGED <<rdpInst, rdpLock>>
    BY <2>1 DEF Typing, Sync, Record, UpdateLocks, Change, Target, Fault
  <2> QED
    BY <2>1, <2>2 DEF sharedVars, sessionVars, sizeVars, mouseVars
<1> QED
  BY <1>1, <1>2

\* guac_rdp_user_mouse_handler has the lock, so it finds the instance and the
\* display of the session.
LEMMA MouseKeepsLockInv ==
  ASSUME LockInv, NEW mask, Mouse(mask)
  PROVE  LockInv'
  BY DEF Mouse, LockInv, ThreadInv, InLockAlive, keyboardVars, sessionVars

\* Every other step leaves what the lock protects alone.
LEMMA NextKeepsLockInv ==
  ASSUME LockInv, [Next]_vars, plan \in Plans
  PROVE  LockInv'
<1>1. CASE ClientThread
  BY <1>1, ClientThreadKeepsLockInv
<1>2. CASE Stop \/ UseDisplay
  <2>1. UNCHANGED sharedVars
    BY <1>2 DEF Stop, UseDisplay, sharedVars, keyboardVars, sessionVars, mouseVars
  <2> QED
    BY <2>1, SharedUntouched
<1>3. ASSUME NEW u \in Users, Keyed(u) PROVE LockInv'
  BY <1>3, TypingKeepsShared, SharedUntouched
<1>4. ASSUME NEW u \in Users, SetSize(u) PROVE LockInv'
  <2>1. UNCHANGED sharedVars
    BY <1>4 DEF SetSize, Miscalculates, sharedVars, sessionVars, mouseVars
  <2> QED
    BY <2>1, SharedUntouched
<1>5. ASSUME NEW mask, Mouse(mask) PROVE LockInv'
  BY <1>5, MouseKeepsLockInv
<1>6. ASSUME NEW u \in Users, NEW k \in plan.keys, PressOrRelease(u, k) PROVE LockInv'
  BY <1>6, TypingKeepsShared, SharedUntouched, SessionAssumption
<1>7. ASSUME NEW u \in Users, NEW wh, Resize(u, wh) PROVE LockInv'
  <2>1. UNCHANGED sharedVars
    BY <1>7 DEF Resize, Miscalculates, sharedVars, keyboardVars, sessionVars, mouseVars
  <2> QED
    BY <2>1, SharedUntouched
<1>8. CASE UNCHANGED vars
  <2>1. UNCHANGED sharedVars
    BY <1>8 DEF vars, sharedVars, keyboardVars, sessionVars, mouseVars
  <2> QED
    BY <2>1, SharedUntouched
<1>9. CASE Block
  BY <1>9, BlockKeepsLockInv
<1> QED
  BY <1>1, <1>2, <1>3, <1>4, <1>5, <1>6, <1>7, <1>8, <1>9 DEF Next

-----------------------------------------------------------------------------
\* The bounds of a division: how guac_rdp_disp_fit scales a dimension.
LEMMA DivBounds ==
  ASSUME NEW x \in Nat, NEW a \in Nat \ {0}
  PROVE  /\ x \div a \in Nat
         /\ (x \div a) * a <= x
         /\ x < (x \div a) * a + a
  BY SMT

\* Scaling up from a to m does not make the other dimension smaller.
LEMMA ScaledUp ==
  ASSUME NEW a \in Nat \ {0}, NEW b \in Nat, NEW m \in Nat, a <= m
  PROVE  /\ (b * m) \div a \in Nat
         /\ b <= (b * m) \div a
<1> DEFINE q == (b * m) \div a
<1>1. b * m \in Nat /\ b * a <= b * m
  BY SMT
<1>2. q \in Nat /\ b * m < q * a + a
  BY <1>1, DivBounds
<1>3. ASSUME q < b PROVE FALSE
  <2>1. q + 1 <= b
    BY <1>2, <1>3
  <2>2. (q + 1) * a <= b * a
    BY <1>2, <2>1, SMT
  <2>3. (q + 1) * a = q * a + a
    BY <1>2, SMT
  <2>4. q * a \in Nat /\ b * a \in Nat
    BY <1>2, SMT
  <2> HIDE DEF q
  <2> QED
    BY <1>1, <1>2, <2>2, <2>3, <2>4, SMT
<1> HIDE DEF q
<1>4. b <= q
  BY <1>2, <1>3
<1> QED
  BY <1>2, <1>4 DEF q

\* Scaling down from a to m does not make the other dimension larger.
LEMMA ScaledDown ==
  ASSUME NEW a \in Nat \ {0}, NEW b \in Nat, NEW m \in Nat, m <= a
  PROVE  /\ (b * m) \div a \in Nat
         /\ (b * m) \div a <= b
<1> DEFINE q == (b * m) \div a
<1>1. b * m \in Nat /\ b * m <= b * a
  BY SMT
<1>2. q \in Nat /\ q * a <= b * m
  BY <1>1, DivBounds
<1>3. ASSUME q > b PROVE FALSE
  <2>1. b + 1 <= q
    BY <1>2, <1>3
  <2>2. (b + 1) * a <= q * a
    BY <1>2, <2>1, SMT
  <2>3. (b + 1) * a = b * a + a
    BY SMT
  <2>4. q * a \in Nat /\ b * a \in Nat
    BY <1>2, SMT
  <2> HIDE DEF q
  <2> QED
    BY <1>1, <1>2, <2>2, <2>3, <2>4, SMT
<1> HIDE DEF q
<1>4. q <= b
  BY <1>2, <1>3
<1> QED
  BY <1>2, <1>4 DEF q

\* A division of positive ints needs no truncation.
LEMMA PositiveScaled ==
  ASSUME NEW x \in Nat \ {0}, NEW m \in Nat \ {0}, NEW d \in Nat \ {0}
  PROVE  Scaled(x, m, d) = (x * m) \div d
<1>1. Magnitude(x) = x /\ Magnitude(m) = m /\ Magnitude(d) = d
  BY DEF Magnitude
<1>2. ~((x < 0) # ((m < 0) # (d < 0)))
  OBVIOUS
<1> QED
  BY <1>1, <1>2 DEF Scaled

Within(x) == x \in MinSize .. MaxSize

\* guac_rdp_disp_fit brings the first dimension within the bounds, and one
\* that is within them does not leave them.
LEMMA FitBounds ==
  ASSUME NEW a \in Nat \ {0}, NEW b \in Nat \ {0}
  PROVE  /\ Fit(a, b)[1] \in Nat \ {0} /\ Fit(a, b)[2] \in Nat \ {0}
         /\ Within(Fit(a, b)[1])
         /\ Within(b) => Within(Fit(a, b)[2])
<1> USE SessionAssumption
<1>1. CASE a < MinSize
  <2> DEFINE q == (b * MinSize) \div a
  <2>1. q \in Nat /\ b <= q
    BY <1>1, ScaledUp
  <2>2. Fit(a, b) = <<MinSize, Least(q, MaxSize)>>
    BY <1>1, PositiveScaled DEF Fit
  <2> HIDE DEF q
  <2>3. Least(q, MaxSize) \in Nat \ {0} /\ (Within(b) => Within(Least(q, MaxSize)))
    BY <2>1 DEF Least, Within
  <2> QED
    BY <2>2, <2>3 DEF Within
<1>2. CASE a > MaxSize
  <2>0. MaxSize \in Nat \ {0} /\ ~(a < MinSize)
    BY <1>2
  <2> DEFINE q == (b * MaxSize) \div a
  <2>1. q \in Nat /\ q <= b
    BY <1>2, ScaledDown
  <2>2. Fit(a, b) = <<MaxSize, Most(q, MinSize)>>
    BY <1>2, <2>0, PositiveScaled DEF Fit
  <2> HIDE DEF q
  <2>3. Most(q, MinSize) \in Nat \ {0} /\ (Within(b) => Within(Most(q, MinSize)))
    BY <2>1 DEF Most, Within
  <2> QED
    BY <2>2, <2>3 DEF Within
<1>3. CASE ~(a < MinSize) /\ ~(a > MaxSize)
  <2>1. Fit(a, b) = <<a, b>>
    BY <1>3 DEF Fit
  <2> QED
    BY <2>1, <1>3 DEF Within
<1> QED
  BY <1>1, <1>2, <1>3

\* What guac_rdp_disp_set_size requests of a size of two positive dimensions.
LEMMA FittedFits ==
  ASSUME NEW wh \in (Nat \ {0}) \X (Nat \ {0})
  PROVE  InBounds(Fitted(wh[1], wh[2]))
<1> DEFINE f == Fit(wh[1], wh[2])
           g == Fit(f[2], f[1])
<1>1. f[1] \in Nat \ {0} /\ f[2] \in Nat \ {0} /\ Within(f[1])
  BY FitBounds
<1>2. g[2] \in Nat \ {0} /\ Within(g[1]) /\ Within(g[2])
  BY <1>1, FitBounds
<1>3. Fitted(wh[1], wh[2]) = <<Even(g[2]), g[1]>>
  BY DEF Fitted
<1> HIDE DEF f, g
<1>4. Within(Even(g[2])) /\ Even(g[2]) % 2 = 0
  BY <1>2, SessionAssumption, SMT DEF Within, Even
<1> QED
  BY <1>2, <1>3, <1>4 DEF InBounds, Within

Limit == IntMax \div MaxSize

\* A dimension that can be scaled to the greatest size can be to the least one.
LEMMA ScalesInside ==
  ASSUME NEW a \in Nat \ {0}, NEW b \in Nat \ {0}, b <= Limit
  PROVE  Scales(b, MinSize, a) /\ Scales(b, MaxSize, a)
<1> USE SessionAssumption
<1>1. Magnitude(b) = b /\ Magnitude(MinSize) = MinSize /\ Magnitude(MaxSize) = MaxSize
  BY DEF Magnitude
<1>2. MaxSize \in Nat \ {0} /\ MinSize \in Nat \ {0} /\ MinSize <= MaxSize
  OBVIOUS
<1>3. Limit \in Nat /\ Limit * MaxSize <= IntMax
  BY <1>2, DivBounds DEF Limit
<1> DEFINE q == IntMax \div MinSize
<1>4. q \in Nat /\ IntMax < q * MinSize + MinSize
  BY <1>2, DivBounds
<1>5. b * MinSize <= IntMax
  <2>1. b * MinSize <= b * MaxSize
    BY <1>2, SMT
  <2>2. b * MaxSize <= Limit * MaxSize
    BY <1>2, <1>3, SMT
  <2>3. b * MinSize \in Nat /\ b * MaxSize \in Nat /\ Limit * MaxSize \in Nat
    BY <1>2, <1>3, SMT
  <2> QED
    BY <1>3, <2>1, <2>2, <2>3
<1>6. ASSUME q < b PROVE FALSE
  <2>1. q + 1 <= b
    BY <1>4, <1>6
  <2>2. (q + 1) * MinSize <= b * MinSize
    BY <1>2, <1>4, <2>1, SMT
  <2>3. (q + 1) * MinSize = q * MinSize + MinSize
    BY <1>2, <1>4, SMT
  <2>4. q * MinSize \in Nat /\ b * MinSize \in Nat
    BY <1>2, <1>4, SMT
  <2> HIDE DEF q
  <2> QED
    BY <1>2, <1>4, <1>5, <2>2, <2>3, <2>4, SMT
<1>7. b <= q
  BY <1>4, <1>6
<1> QED
  BY <1>1, <1>7 DEF Scales, Limit

\* Both fits are defined for a size that is not at the edge: the first one
\* leaves no dimension that is.
LEMMA CanFitInside ==
  ASSUME NEW a \in Nat \ {0}, NEW b \in Nat \ {0}, a <= Limit, b <= Limit
  PROVE  CanFit(a, b)
<1> USE SessionAssumption
<1> DEFINE f == Fit(a, b)
<1>1. Fits(a, b)
  BY ScalesInside DEF Fits
<1>2. f[1] \in Nat \ {0} /\ f[2] \in Nat \ {0} /\ Within(f[1])
  BY FitBounds
<1>3. Limit \in Nat /\ MinSize <= MaxSize /\ MaxSize <= Limit
  <2>1. MaxSize \in Nat \ {0}
    OBVIOUS
  <2>2. Limit \in Nat /\ IntMax < Limit * MaxSize + MaxSize
    BY <2>1, DivBounds DEF Limit
  <2>3. ASSUME Limit < MaxSize PROVE FALSE
    <3>1. Limit + 1 <= MaxSize
      BY <2>2, <2>3
    <3>2. (Limit + 1) * MaxSize <= MaxSize * MaxSize
      BY <2>1, <2>2, <3>1, SMT
    <3>3. (Limit + 1) * MaxSize = Limit * MaxSize + MaxSize
      BY <2>1, <2>2, SMT
    <3>4. Limit * MaxSize \in Nat /\ MaxSize * MaxSize \in Nat
      BY <2>1, <2>2, SMT
    <3> QED
      BY <2>1, <2>2, <3>2, <3>3, <3>4, SMT
  <2> QED
    BY <2>2, <2>3
<1>4. f[1] <= Limit
  BY <1>2, <1>3 DEF Within
<1>5. f[2] <= Limit
  <2>1. CASE a < MinSize
    <3> DEFINE q == (b * MinSize) \div a
    <3>1. q \in Nat
      BY <2>1, ScaledUp
    <3>2. f[2] = Least(q, MaxSize)
      BY <2>1, PositiveScaled DEF Fit
    <3> HIDE DEF f, q
    <3> QED
      BY <1>3, <3>1, <3>2 DEF Least
  <2>2. CASE a > MaxSize
    <3> DEFINE q == (b * MaxSize) \div a
    <3>0. MaxSize \in Nat \ {0} /\ ~(a < MinSize)
      BY <2>2
    <3>1. q \in Nat /\ q <= b
      BY <2>2, ScaledDown
    <3>2. f[2] = Most(q, MinSize)
      BY <2>2, <3>0, PositiveScaled DEF Fit
    <3> HIDE DEF f, q
    <3> QED
      BY <1>3, <3>1, <3>2 DEF Most
  <2>3. CASE ~(a < MinSize) /\ ~(a > MaxSize)
    BY <2>3 DEF Fit
  <2> QED
    BY <2>1, <2>2, <2>3
<1> HIDE DEF f
<1>6. Fits(f[2], f[1])
  BY <1>2, <1>4, <1>5, ScalesInside DEF Fits
<1> QED
  BY <1>1, <1>6 DEF CanFit, f

\* What a defined division gives.
LEMMA ScaledInt ==
  ASSUME NEW x \in Int, NEW m \in Int, NEW d \in Int, Scales(x, m, d)
  PROVE  Scaled(x, m, d) \in Int
<1> DEFINE y == Magnitude(x) * Magnitude(m)
           n == Magnitude(d)
<1>1. Magnitude(x) \in Nat /\ Magnitude(m) \in Nat /\ n \in Nat \ {0}
  BY DEF Magnitude, Scales
<1>2. y \in Nat
  BY <1>1
<1>3. y \div n \in Int
  BY <1>1, <1>2, DivBounds
<1>4. Scaled(x, m, d) \in {y \div n, -(y \div n)}
  BY DEF Scaled
<1> HIDE DEF y, n
<1> QED
  BY <1>3, <1>4

SizeInv ==
  /\ plan \in Plans
  /\ \A u \in Users : IsSize(resizing[u])
  /\ DOMAIN resizing = Users
  /\ RequestFits

sizeInvVars == <<plan, resizing, requested, asked>>

\* A step that neither asks for a size nor handles one preserves SizeInv.
LEMMA SizesUntouched ==
  ASSUME SizeInv, UNCHANGED sizeInvVars, fault' = "arithmetic" => fault' = fault
  PROVE  SizeInv'
  BY DEF SizeInv, RequestFits, Proper, sizeInvVars

\* Only guac_rdp_user_size_handler asks for a size ...
LEMMA ResizeKeepsSizeInv ==
  ASSUME SizeInv, fault = "none",
         NEW u \in Users, NEW wh \in plan.sizes, Resize(u, wh)
  PROVE  SizeInv'
<1>1. CASE (\E x \in {wh[1], wh[2]} : ~Scales(x, Resolution, plan.optimal))
           /\ Miscalculates
  <2>1. UNCHANGED sizeInvVars
    BY <1>1 DEF Miscalculates, sizeVars, sizeInvVars
  <2> QED
    BY <1>1, <2>1 DEF SizeInv, RequestFits, Proper, sizeInvVars
<1>2. CASE ~((\E x \in {wh[1], wh[2]} : ~Scales(x, Resolution, plan.optimal))
             /\ Miscalculates)
  <2> DEFINE r == <<Scaled(wh[1], Resolution, plan.optimal),
                    Scaled(wh[2], Resolution, plan.optimal)>>
  <2>1. /\ \A x \in {wh[1], wh[2]} : Scales(x, Resolution, plan.optimal)
        /\ resizing' = [resizing EXCEPT ![u] = r]
        /\ UNCHANGED <<plan, requested, asked, fault>>
    BY <1>2 DEF Resize, keyboardVars
  <2>2. wh \in Int \X Int /\ Resolution \in Int /\ plan.optimal \in Int
    BY SessionAssumption DEF SizeInv
  <2>3. r \in Int \X Int
    <3>1. ASSUME NEW x \in Int, Scales(x, Resolution, plan.optimal)
          PROVE  Scaled(x, Resolution, plan.optimal) \in Int
      BY <2>2, <3>1, ScaledInt
    <3> QED
      BY <2>1, <2>2, <3>1
  <2> HIDE DEF r
  <2> QED
    BY <2>1, <2>3 DEF SizeInv, RequestFits, Proper, IsSize
<1> QED
  BY <1>1, <1>2

\* ... and guac_rdp_disp_set_size handles it.
LEMMA SetSizeKeepsSizeInv ==
  ASSUME SizeInv, fault = "none", NEW u \in Users, SetSize(u)
  PROVE  SizeInv'
<1>1. resizing[u] # NoSize /\ resizing[u] \in Int \X Int
  BY DEF SetSize, SizeInv, IsSize
<1>2. CASE ~CanFit(resizing[u][1], resizing[u][2]) /\ Miscalculates
  <2>1. Limit \in Int
    BY SessionAssumption, DivBounds DEF Limit
  <2>2. AtEdge(resizing[u])
    BY <1>1, <1>2, <2>1, CanFitInside DEF AtEdge, Limit
  <2>3. UNCHANGED sizeInvVars
    BY <1>2 DEF Miscalculates, sizeVars, sizeInvVars
  <2> QED
    BY <1>1, <2>2, <2>3 DEF SizeInv, RequestFits, Proper, AtEdge, sizeInvVars
<1>3. CASE ~(~CanFit(resizing[u][1], resizing[u][2]) /\ Miscalculates)
  <2>1. /\ resizing' = [resizing EXCEPT ![u] = NoSize]
        /\ requested' = Fitted(resizing[u][1], resizing[u][2])
        /\ asked' = resizing[u]
        /\ plan' = plan
        /\ fault' = fault \/ fault' = "instance"
    BY <1>3 DEF SetSize, UpdateSize
  <2>2. ASSUME resizing[u][1] > 0, resizing[u][2] > 0
        PROVE  resizing[u] \in (Nat \ {0}) \X (Nat \ {0})
    BY <1>1, <2>2
  <2>3. RequestFits'
    BY <2>1, <2>2, FittedFits DEF RequestFits, Proper
  <2> QED
    BY <2>1, <2>3 DEF SizeInv, IsSize
<1> QED
  BY <1>2, <1>3

LEMMA NextKeepsSizeInv ==
  ASSUME SizeInv, [Next]_vars
  PROVE  SizeInv'
<1>1. CASE UNCHANGED vars
  <2>1. UNCHANGED <<sizeInvVars, fault>>
    BY <1>1 DEF vars, sizeVars, sizeInvVars, keyboardVars
  <2> QED
    BY <2>1, SizesUntouched
<1>2. CASE Next
  <2>1. fault = "none"
    BY <1>2 DEF Next
  <2>2. CASE ClientThread
    <3>1. UNCHANGED <<sizeInvVars, fault>>
      BY <2>2 DEF ClientThread, Start, Prepare, Connect, ConnectFails, ReconnectComplete,
                  Resized, ServerCloses, Disconnect, ForgetInstance, FreeKeyboard,
                  FreeDisplay, keyboardVars, sizeVars, sizeInvVars
    <3> QED
      BY <3>1, SizesUntouched
  <2>3. CASE Stop \/ Block \/ UseDisplay \/ \E mask \in SUBSET plan.buttons : Mouse(mask)
    <3>1. UNCHANGED sizeInvVars /\ (fault' = fault \/ fault' = "display")
      BY <2>3 DEF Stop, Block, UseDisplay, Mouse, keyboardVars, sizeVars, sizeInvVars
    <3> QED
      BY <3>1, SizesUntouched
  <2>4. ASSUME NEW u \in Users, Keyed(u) PROVE SizeInv'
    <3>1. fault' = fault \/ fault' = "keyboard"
      BY <2>4 DEF Keyed, Typing, Sync, Record, UpdateLocks, Change, Target, Fault
    <3> QED
      BY <2>4, <3>1, TypingKeepsShared, SizesUntouched DEF sizeInvVars
  <2>5. ASSUME NEW u \in Users, SetSize(u) PROVE SizeInv'
    BY <2>1, <2>5, SetSizeKeepsSizeInv
  <2>6. ASSUME NEW u \in Users, NEW k \in plan.keys, PressOrRelease(u, k) PROVE SizeInv'
    <3>1. fault' = fault
      BY <2>6 DEF PressOrRelease, Key
    <3>2. plan.keys \subseteq Keys
      BY SessionAssumption DEF SizeInv
    <3> QED
      BY <2>6, <3>1, <3>2, TypingKeepsShared, SizesUntouched DEF sizeInvVars
  <2>7. ASSUME NEW u \in Users, NEW wh \in plan.sizes, Resize(u, wh) PROVE SizeInv'
    BY <2>1, <2>7, ResizeKeepsSizeInv
  <2> QED
    BY <1>2, <2>2, <2>3, <2>4, <2>5, <2>6, <2>7 DEF Next
<1> QED
  BY <1>1, <1>2

-----------------------------------------------------------------------------
\* Every size of two positive dimensions, of whatever resolution it was made
\* and however large, that is requested is requested as one that the display
\* update channel takes: fitting the height does not undo what fitting the
\* width did.  What is undefined is so for a size at the edge only, or for one
\* that its conversion is undefined for: no size away from the edge becomes one
\* by its first fit.  (A dimension of 0 or less is not fitted: README.md.)
THEOREM SizesFit == Spec => []RequestFits
<1>1. Init => SizeInv
  BY DEF Init, SizeInv, RequestFits, Proper, IsSize
<1>2. SizeInv /\ [Next]_vars => SizeInv'
  BY NextKeepsSizeInv
<1>3. SizeInv => RequestFits
  BY DEF SizeInv
<1> QED
  BY <1>1, <1>2, <1>3, PTL DEF Spec

\* However sessions end and begin, a handler that has rdp_lock finds the
\* instance and the display of the session or none.
THEOREM LockedIsAlive == Spec => []InLockAlive
<1>1. Init => LockInv /\ SizeInv
  BY DEF Init, LockInv, ThreadInv, InLockAlive, SizeInv, RequestFits, Proper, IsSize
<1>2. LockInv /\ SizeInv /\ [Next]_vars => (LockInv /\ SizeInv)'
  BY NextKeepsLockInv, NextKeepsSizeInv DEF SizeInv
<1>3. LockInv => InLockAlive
  BY DEF LockInv
<1> QED
  BY <1>1, <1>2, <1>3, PTL DEF Spec

-----------------------------------------------------------------------------
(* The types.                                                              *)

\* Steps of calls.
Ops == [what : {"sync", "record", "locks", "change", "key"}, key : Keys,
        to : BOOLEAN, from : BOOLEAN]

LinkTypes ==
  /\ rdpInst \in 0..MaxSessions /\ rdpLock \in BOOLEAN
  /\ keyboard \in 0..MaxSessions /\ keyboardLive \in BOOLEAN
  /\ dropped \in BOOLEAN

KeyTypes ==
  /\ lockFlags \subseteq Locks /\ synchronized \in BOOLEAN /\ keysymState \subseteq Keys
  /\ repeated \in BOOLEAN
  /\ remoteKeys \subseteq {Scancode(k) : k \in Keys} /\ remoteLocks \subseteq Locks

CallTypes ==
  /\ using \in [Users -> 0..MaxSessions] /\ held \in [Users -> SUBSET Keys]
  /\ todo \in [Users -> Seq(Ops)]

ThreadTypes ==
  /\ thread \in {"start", "keyboard", "connect", "connected", "loop", "disconnected",
                 "forgotten", "freeing", "done", "blocked"}
  /\ running \in BOOLEAN /\ session \in 0..MaxSessions /\ instLive \in BOOLEAN
  /\ display \in {"null", "live", "freed"} /\ blocked \in BOOLEAN
  /\ fault \in {"none", "keyboard", "instance", "display", "arithmetic"}

SizeTypes ==
  /\ reconnect \in BOOLEAN /\ late \in BOOLEAN
  /\ inst \in [Users -> 0..MaxSessions] /\ resizes \in 0..plan.resizes
  /\ mouseMask \subseteq Buttons /\ remoteButtons \subseteq Buttons

Typed == SizeInv /\ LinkTypes /\ KeyTypes /\ CallTypes /\ ThreadTypes /\ SizeTypes

LEMMA TypedIsTypeOK ==
  ASSUME Typed PROVE TypeOK
  BY DEF Typed, SizeInv, LinkTypes, KeyTypes, CallTypes, ThreadTypes, SizeTypes, TypeOK

\* The steps that a call is unrolled into.
LEMMA SomeEvents ==
  ASSUME NEW q \in Seq(Keys), NEW from \in BOOLEAN, NEW to \in BOOLEAN
  PROVE  /\ SendEvents(q, from, to) \in Seq(Ops)
         /\ Len(SendEvents(q, from, to)) = Len(q)
         /\ \A j \in 1..Len(q) : SendEvents(q, from, to)[j] =
              [what |-> "change", key |-> q[j], to |-> to, from |-> from]
<1>1. Len(q) \in Nat /\ DOMAIN q = 1..Len(q) /\ \A j \in 1..Len(q) : q[j] \in Keys
  OBVIOUS
<1>2. \A j \in 1..Len(q) :
        [what |-> "change", key |-> q[j], to |-> to, from |-> from] \in Ops
  BY <1>1 DEF Ops
<1>3. SendEvents(q, from, to) = [j \in 1..Len(q) |->
        [what |-> "change", key |-> q[j], to |-> to, from |-> from]]
  BY <1>1 DEF SendEvents
<1> QED
  BY <1>1, <1>2, <1>3

\* s has the elements of b after the first n.
Part(s, n, b) ==
  /\ n \in Nat /\ Len(b) \in Nat /\ n + Len(b) <= Len(s)
  /\ \A j \in 1..Len(b) : s[n + j] = b[j]

LEMMA Joined ==
  ASSUME NEW S, NEW a \in Seq(S), NEW b \in Seq(S)
  PROVE  /\ a \o b \in Seq(S) /\ Len(a \o b) = Len(a) + Len(b)
         /\ \A i \in 1..Len(a) : (a \o b)[i] = a[i]
         /\ \A i \in 1..Len(b) : (a \o b)[Len(a) + i] = b[i]
  OBVIOUS

\* What a concatenation has parts of.
IsJoined(s, a, b) ==
  /\ s \in Seq(Ops) /\ Len(s) = Len(a) + Len(b)
  /\ Part(s, 0, a) /\ Part(s, Len(a), b)
  /\ \A n, x : Part(a, n, x) => Part(s, n, x)
  /\ \A n, x : Part(b, n, x) => Part(s, Len(a) + n, x)

LEMMA PartsJoined ==
  ASSUME NEW a \in Seq(Ops), NEW b \in Seq(Ops)
  PROVE  IsJoined(a \o b, a, b)
<1> DEFINE s == a \o b
<1>1. /\ s \in Seq(Ops) /\ Len(s) = Len(a) + Len(b) /\ Len(a) \in Nat /\ Len(b) \in Nat
      /\ \A i \in 1..Len(a) : s[i] = a[i]
      /\ \A i \in 1..Len(b) : s[Len(a) + i] = b[i]
  BY Joined
<1> HIDE DEF s
<1>2. Part(s, 0, a) /\ Part(s, Len(a), b)
  BY <1>1 DEF Part
<1>3. ASSUME NEW n, NEW x, Part(a, n, x) PROVE Part(s, n, x)
  BY <1>1, <1>3, SMTT(30) DEF Part
<1>4. ASSUME NEW n, NEW x, Part(b, n, x) PROVE Part(s, Len(a) + n, x)
  <2>1. n \in Nat /\ Len(x) \in Nat /\ n + Len(x) <= Len(b)
    BY <1>4 DEF Part
  <2>2. ASSUME NEW j \in 1..Len(x) PROVE s[(Len(a) + n) + j] = x[j]
    <3>1. n + j \in 1..Len(b) /\ b[n + j] = x[j]
      BY <1>4, <2>1 DEF Part
    <3>2. s[Len(a) + (n + j)] = x[j]
      BY <1>1, <3>1
    <3>3. (Len(a) + n) + j = Len(a) + (n + j)
      BY <1>1, <2>1
    <3> QED
      BY <3>2, <3>3
  <2> QED
    BY <1>1, <2>1, <2>2 DEF Part
<1> QED
  BY <1>1, <1>2, <1>3, <1>4 DEF IsJoined, s

\* The last step of a call of k before the modifiers are restored.
KeyStep(k) == 4 + Len(Keymap[k].set) + Len(Keymap[k].clear)
CallLength(k) == KeyStep(k) + Len(Keymap[k].set) + Len(Keymap[k].clear)

ChangeOf(m, from, to) == [what |-> "change", key |-> m, to |-> to, from |-> from]

\* s has the changes of q from the place after n on.
Changes(s, n, q, from, to) == \A j \in 1..Len(q) : s[n + j] = ChangeOf(q[j], from, to)

LEMMA PartChanges ==
  ASSUME NEW s, NEW n, NEW b, NEW q, NEW from, NEW to, Part(s, n, b), Len(b) = Len(q),
         \A j \in 1..Len(q) : b[j] = ChangeOf(q[j], from, to)
  PROVE  Changes(s, n, q, from, to)
  BY DEF Part, Changes

\* guac_rdp_keyboard_update_keysym, step by step.
LEMMA CallSteps ==
  ASSUME NEW k \in Keys, NEW p \in BOOLEAN
  PROVE  LET s == UpdateKeysym(k, p) IN
         /\ s \in Seq(Ops) /\ Len(s) = CallLength(k)
         /\ s[1] = Op("sync", k, p) /\ s[2] = Op("record", k, p) /\ s[3] = Op("locks", k, p)
         /\ Changes(s, 3, Keymap[k].set, FALSE, TRUE)
         /\ Changes(s, 3 + Len(Keymap[k].set), Keymap[k].clear, TRUE, FALSE)
         /\ s[KeyStep(k)] = Op("key", k, p)
         /\ Changes(s, KeyStep(k), Keymap[k].set, FALSE, FALSE)
         /\ Changes(s, KeyStep(k) + Len(Keymap[k].set), Keymap[k].clear, TRUE, TRUE)
<1> DEFINE q  == Keymap[k].set
           c  == Keymap[k].clear
           o  == <<Op("sync", k, p), Op("record", k, p)>>
           l  == <<Op("locks", k, p)>>
           t  == <<Op("key", k, p)>>
           A  == SendEvents(q, FALSE, TRUE)
           B  == SendEvents(c, TRUE, FALSE)
           C  == SendEvents(q, FALSE, FALSE)
           D  == SendEvents(c, TRUE, TRUE)
           s1 == l \o A
           s2 == s1 \o B
           s3 == s2 \o t
           s4 == s3 \o C
           s5 == s4 \o D
           s  == o \o s5
<1>1. q \in Seq(Keys) /\ c \in Seq(Keys) /\ Len(q) \in Nat /\ Len(c) \in Nat
  BY KeymapAssumption
<1>2. o \in Seq(Ops) /\ l \in Seq(Ops) /\ t \in Seq(Ops)
  BY DEF Op, Ops
<1>3. /\ Len(o) = 2 /\ Len(l) = 1 /\ Len(t) = 1
      /\ o[1] = Op("sync", k, p) /\ o[2] = Op("record", k, p)
      /\ l[1] = Op("locks", k, p) /\ t[1] = Op("key", k, p)
  OBVIOUS
<1>4. UpdateKeysym(k, p) = s
  BY DEF UpdateKeysym, SendEvent
<1> HIDE DEF q, c
<1>5. /\ A \in Seq(Ops) /\ Len(A) = Len(q)
      /\ \A j \in 1..Len(q) : A[j] = ChangeOf(q[j], FALSE, TRUE)
  BY <1>1, SomeEvents DEF ChangeOf
<1>6. /\ B \in Seq(Ops) /\ Len(B) = Len(c)
      /\ \A j \in 1..Len(c) : B[j] = ChangeOf(c[j], TRUE, FALSE)
  BY <1>1, SomeEvents DEF ChangeOf
<1>7. /\ C \in Seq(Ops) /\ Len(C) = Len(q)
      /\ \A j \in 1..Len(q) : C[j] = ChangeOf(q[j], FALSE, FALSE)
  BY <1>1, SomeEvents DEF ChangeOf
<1>8. /\ D \in Seq(Ops) /\ Len(D) = Len(c)
      /\ \A j \in 1..Len(c) : D[j] = ChangeOf(c[j], TRUE, TRUE)
  BY <1>1, SomeEvents DEF ChangeOf
<1> HIDE DEF o, l, t, A, B, C, D
<1>9a. IsJoined(s1, l, A)
  BY <1>2, <1>5, PartsJoined
<1> HIDE DEF s1
<1>9. s1 \in Seq(Ops) /\ Len(s1) = 1 + Len(q) /\ Part(s1, 0, l) /\ Part(s1, 1, A)
  BY <1>1, <1>3, <1>5, <1>9a DEF IsJoined
<1>10a. IsJoined(s2, s1, B)
  BY <1>6, <1>9, PartsJoined
<1> HIDE DEF s2
<1>10. /\ s2 \in Seq(Ops) /\ Len(s2) = 1 + Len(q) + Len(c)
       /\ Part(s2, 0, l) /\ Part(s2, 1, A) /\ Part(s2, 1 + Len(q), B)
  BY <1>1, <1>6, <1>9, <1>10a DEF IsJoined
<1>11a. IsJoined(s3, s2, t)
  BY <1>2, <1>10, PartsJoined
<1> HIDE DEF s3
<1>11. /\ s3 \in Seq(Ops) /\ Len(s3) = 2 + Len(q) + Len(c)
       /\ Part(s3, 0, l) /\ Part(s3, 1, A) /\ Part(s3, 1 + Len(q), B)
       /\ Part(s3, 1 + Len(q) + Len(c), t)
  BY <1>1, <1>3, <1>10, <1>11a DEF IsJoined
<1>12a. IsJoined(s4, s3, C)
  BY <1>7, <1>11, PartsJoined
<1> HIDE DEF s4
<1>12. /\ s4 \in Seq(Ops) /\ Len(s4) = 2 + Len(q) + Len(c) + Len(q)
       /\ Part(s4, 0, l) /\ Part(s4, 1, A) /\ Part(s4, 1 + Len(q), B)
       /\ Part(s4, 1 + Len(q) + Len(c), t) /\ Part(s4, 2 + Len(q) + Len(c), C)
  BY <1>1, <1>7, <1>11, <1>12a DEF IsJoined
<1>13a. IsJoined(s5, s4, D)
  BY <1>8, <1>12, PartsJoined
<1> HIDE DEF s5
<1>13. /\ s5 \in Seq(Ops) /\ Len(s5) = 2 + Len(q) + Len(c) + Len(q) + Len(c)
       /\ Part(s5, 0, l) /\ Part(s5, 1, A) /\ Part(s5, 1 + Len(q), B)
       /\ Part(s5, 1 + Len(q) + Len(c), t) /\ Part(s5, 2 + Len(q) + Len(c), C)
       /\ Part(s5, 2 + Len(q) + Len(c) + Len(q), D)
  BY <1>1, <1>8, <1>12, <1>13a DEF IsJoined
<1>14a. IsJoined(s, o, s5)
  BY <1>2, <1>13, PartsJoined
<1> HIDE DEF s
<1>14. /\ s \in Seq(Ops) /\ Len(s) = 4 + Len(q) + Len(c) + Len(q) + Len(c)
       /\ Part(s, 0, o) /\ Part(s, 2, l) /\ Part(s, 3, A)
       /\ Part(s, 3 + Len(q), B) /\ Part(s, 3 + Len(q) + Len(c), t)
       /\ Part(s, 4 + Len(q) + Len(c), C) /\ Part(s, 4 + Len(q) + Len(c) + Len(q), D)
  BY <1>1, <1>3, <1>13, <1>14a DEF IsJoined
<1>15. /\ s[1] = Op("sync", k, p) /\ s[2] = Op("record", k, p) /\ s[3] = Op("locks", k, p)
       /\ s[4 + Len(q) + Len(c)] = Op("key", k, p)
  BY <1>1, <1>3, <1>14 DEF Part
<1>16. Changes(s, 3, q, FALSE, TRUE) /\ Changes(s, 3 + Len(q), c, TRUE, FALSE)
  BY <1>5, <1>6, <1>14, PartChanges
<1>17. /\ Changes(s, 4 + Len(q) + Len(c), q, FALSE, FALSE)
       /\ Changes(s, 4 + Len(q) + Len(c) + Len(q), c, TRUE, TRUE)
  BY <1>7, <1>8, <1>14, PartChanges
<1> QED
  BY <1>1, <1>4, <1>14, <1>15, <1>16, <1>17 DEF q, c, KeyStep, CallLength

\* Everything but SizeInv, which NextKeepsSizeInv is about.
OtherTypes == LinkTypes /\ KeyTypes /\ CallTypes /\ ThreadTypes /\ SizeTypes

\* The client thread.
LEMMA ClientThreadTyped ==
  ASSUME Typed, ClientThread
  PROVE  OtherTypes'
<1> USE DEF Typed, OtherTypes, LinkTypes, KeyTypes, CallTypes, ThreadTypes, SizeTypes,
            kbVars, remote, typing, keyboardVars, sizeVars, mouseVars
<1>1. CASE Start
  <2>1. /\ session' \in 0..MaxSessions /\ display' \in {"live", display}
        /\ thread' \in {"keyboard", "done"}
        /\ UNCHANGED <<keyboardVars, running, instLive, blocked, sizeVars, mouseVars>>
    BY <1>1, SessionAssumption DEF Start
  <2>2. (LinkTypes /\ KeyTypes /\ CallTypes)'
    BY <2>1
  <2>3. ThreadTypes'
    BY <2>1
  <2>4. SizeTypes'
    BY <2>1
  <2> QED
    BY <2>2, <2>3, <2>4
<1>2. CASE Prepare
  <2>1. (LinkTypes /\ KeyTypes /\ CallTypes)'
    BY <1>2, SessionAssumption, Zenon DEF Prepare
  <2>2. ThreadTypes'
    BY <1>2, SessionAssumption, Zenon DEF Prepare
  <2>3. SizeTypes'
    BY <1>2, SessionAssumption, Zenon DEF Prepare
  <2> QED
    BY <2>1, <2>2, <2>3
<1>3. CASE Connect
  <2>1. (LinkTypes /\ KeyTypes /\ CallTypes)'
    BY <1>3, SessionAssumption, Zenon DEF Connect
  <2>2. ThreadTypes'
    BY <1>3, SessionAssumption, Zenon DEF Connect
  <2>3. SizeTypes'
    BY <1>3, SessionAssumption, Zenon DEF Connect
  <2> QED
    BY <2>1, <2>2, <2>3
<1>4. CASE ConnectFails
  <2>1. (LinkTypes /\ KeyTypes /\ CallTypes)'
    BY <1>4, SessionAssumption, Zenon DEF ConnectFails
  <2>2. ThreadTypes'
    BY <1>4, SessionAssumption, Zenon DEF ConnectFails
  <2>3. SizeTypes'
    BY <1>4, SessionAssumption, Zenon DEF ConnectFails
  <2> QED
    BY <2>1, <2>2, <2>3
<1>5. CASE ReconnectComplete
  <2>1. (LinkTypes /\ KeyTypes /\ CallTypes)'
    BY <1>5, SessionAssumption, Zenon DEF ReconnectComplete
  <2>2. ThreadTypes'
    BY <1>5, SessionAssumption, Zenon DEF ReconnectComplete
  <2>3. SizeTypes'
    BY <1>5, SessionAssumption, Zenon DEF ReconnectComplete
  <2> QED
    BY <2>1, <2>2, <2>3
<1>6. CASE ServerCloses
  <2>1. (LinkTypes /\ KeyTypes /\ CallTypes)'
    BY <1>6, SessionAssumption, Zenon DEF ServerCloses
  <2>2. ThreadTypes'
    BY <1>6, SessionAssumption, Zenon DEF ServerCloses
  <2>3. SizeTypes'
    BY <1>6, SessionAssumption, Zenon DEF ServerCloses
  <2> QED
    BY <2>1, <2>2, <2>3
<1>7. CASE Disconnect
  <2>1. (LinkTypes /\ KeyTypes /\ CallTypes)'
    BY <1>7, SessionAssumption, Zenon DEF Disconnect
  <2>2. ThreadTypes'
    BY <1>7, SessionAssumption, Zenon DEF Disconnect
  <2>3. SizeTypes'
    BY <1>7, SessionAssumption, Zenon DEF Disconnect
  <2> QED
    BY <2>1, <2>2, <2>3
<1>8. CASE ForgetInstance
  BY <1>8, SessionAssumption, SMTT(30) DEF ForgetInstance, InstanceAfter
<1>9. CASE FreeKeyboard
  <2>1. (LinkTypes /\ KeyTypes /\ CallTypes)'
    BY <1>9, SessionAssumption, Zenon DEF FreeKeyboard
  <2>2. ThreadTypes'
    BY <1>9, SessionAssumption, Zenon DEF FreeKeyboard
  <2>3. SizeTypes'
    BY <1>9, SessionAssumption, Zenon DEF FreeKeyboard
  <2> QED
    BY <2>1, <2>2, <2>3
<1>10. CASE FreeDisplay
  BY <1>10, SessionAssumption, ZenonT(40) DEF FreeDisplay, LockAfter
<1>11. CASE Resized
  BY <1>11, SessionAssumption, ZenonT(40) DEF Resized, sessionVars
<1> QED
  BY <1>1, <1>2, <1>3, <1>4, <1>5, <1>6, <1>7, <1>8, <1>9, <1>10, <1>11 DEF ClientThread

\* The steps of a call are those that it was unrolled into.
LEMMA CallTyped ==
  ASSUME Typed, NEW t \in Users, todo[t] # <<>>
  PROVE  /\ Head(todo[t]) \in Ops
         /\ Step(t) => todo' \in [Users -> Seq(Ops)]
<1>1. todo \in [Users -> Seq(Ops)] /\ todo[t] \in Seq(Ops)
  BY DEF Typed, CallTypes
<1>2. Head(todo[t]) \in Ops /\ Tail(todo[t]) \in Seq(Ops)
  BY <1>1, HeadTailProperties
<1> QED
  BY <1>1, <1>2 DEF Step

\* What is sent is what there is.
LEMMA SendKeyTyped ==
  ASSUME Typed, NEW k \in Keys, NEW p \in BOOLEAN, SendKey(k, p)
  PROVE  /\ remoteKeys' \subseteq {Scancode(n) : n \in Keys} /\ remoteLocks' \subseteq Locks
         /\ dropped' \in BOOLEAN
  BY KeymapAssumption, ZenonT(40) DEF Typed, KeyTypes, LinkTypes, SendKey, Send, remote

LEMMA SendSyncTyped ==
  ASSUME Typed, NEW flags \in SUBSET Locks, SendSync(flags)
  PROVE  /\ remoteKeys' \subseteq {Scancode(n) : n \in Keys} /\ remoteLocks' \subseteq Locks
         /\ dropped' \in BOOLEAN
  BY DEF Typed, KeyTypes, LinkTypes, SendSync, Send, remote

\* The handler of keys and the steps of its call.
LEMMA TypingTyped ==
  ASSUME Typed, NEW t \in Users, Typing(t)
  PROVE  (LinkTypes /\ KeyTypes /\ CallTypes)' /\ fault' \in {fault, "keyboard"}
<1>1. todo[t] # <<>>
  BY DEF Typing, Sync, Record, UpdateLocks, Change, Target, At
<1>2. /\ Head(todo[t]) \in Ops /\ Head(todo[t]).key \in Keys /\ Head(todo[t]).to \in BOOLEAN
      /\ Step(t) => todo' \in [Users -> Seq(Ops)]
  BY <1>1, CallTyped DEF Ops
<1>3. LinkTypes /\ KeyTypes /\ CallTypes
  BY DEF Typed
<1>4. CASE Sync(t)
  <2>1. CASE synchronized
    BY <1>2, <1>3, <1>4, <2>1 DEF Sync, LinkTypes, KeyTypes, CallTypes, remote
  <2>2. CASE ~synchronized
    BY <1>2, <1>3, <1>4, <2>2, SendSyncTyped DEF Sync, LinkTypes, KeyTypes, CallTypes
  <2> QED BY <2>1, <2>2
<1>5. CASE Record(t)
  <2>1. lockFlags' = Toggled(Head(todo[t]).key, Head(todo[t]).to) /\ keysymState' \subseteq Keys
    BY <1>2, <1>3, <1>5 DEF Record, KeyTypes
  <2>2. lockFlags' \subseteq Locks
    BY <1>2, <1>3, <2>1, KeymapAssumption DEF Toggled, KeyTypes
  <2> QED
    BY <1>2, <1>3, <1>5, <2>1, <2>2 DEF Record, LinkTypes, KeyTypes, CallTypes, remote
<1>6. CASE UpdateLocks(t)
  <2> DEFINE flags == (lockFlags \union Keymap[Head(todo[t]).key].setLocks)
                      \ Keymap[Head(todo[t]).key].clearLocks
  <2>1. flags \in SUBSET Locks
    BY <1>2, <1>3, KeymapAssumption DEF KeyTypes
  <2>2. lockFlags' = flags /\ (SendSync(flags) \/ UNCHANGED <<remote, dropped>>)
    BY <1>6 DEF UpdateLocks
  <2> HIDE DEF flags
  <2>3. /\ remoteKeys' \subseteq {Scancode(n) : n \in Keys} /\ remoteLocks' \subseteq Locks
        /\ dropped' \in BOOLEAN
    BY <1>3, <2>1, <2>2, SendSyncTyped DEF KeyTypes, LinkTypes, remote
  <2> QED
    BY <1>2, <1>3, <1>6, <2>1, <2>2, <2>3 DEF UpdateLocks, LinkTypes, KeyTypes, CallTypes
<1>7. CASE Change(t)
  <2>1. /\ remoteKeys' \subseteq {Scancode(n) : n \in Keys} /\ remoteLocks' \subseteq Locks
        /\ dropped' \in BOOLEAN
    BY <1>2, <1>3, <1>7, SendKeyTyped DEF Change, KeyTypes, LinkTypes, remote
  <2> QED
    BY <1>2, <1>3, <1>7, <2>1 DEF Change, LinkTypes, KeyTypes, CallTypes, kbVars
<1>8. CASE Target(t)
  <2>1. /\ remoteKeys' \subseteq {Scancode(n) : n \in Keys} /\ remoteLocks' \subseteq Locks
        /\ dropped' \in BOOLEAN
    BY <1>2, <1>8, SendKeyTyped DEF Target
  <2> QED
    BY <1>2, <1>3, <1>8, <2>1 DEF Target, LinkTypes, KeyTypes, CallTypes, kbVars
<1>9. CASE Fault(t)
  BY <1>3, <1>9 DEF Fault, LinkTypes, KeyTypes, CallTypes, kbVars, remote, typing
<1> QED
  BY <1>4, <1>5, <1>6, <1>7, <1>8, <1>9 DEF Typing

LEMMA KeyTyped ==
  ASSUME Typed, NEW t \in Users, NEW k \in Keys, NEW p \in BOOLEAN, Key(t, k, p)
  PROVE  (LinkTypes /\ KeyTypes /\ CallTypes)' /\ fault' = fault
<1>1. UpdateKeysym(k, p) \in Seq(Ops)
  BY CallSteps
<1>2. todo' \in [Users -> Seq(Ops)]
  BY <1>1 DEF Key, Typed, CallTypes
<1>3. held' \in [Users -> SUBSET Keys] /\ using' \in [Users -> 0..MaxSessions]
  BY DEF Key, Typed, CallTypes, LinkTypes
<1> QED
  BY <1>2, <1>3 DEF Key, Typed, LinkTypes, KeyTypes, CallTypes, kbVars, remote

\* Every step keeps the types.
LEMMA NextKeepsTyped ==
  ASSUME Typed, [Next]_vars
  PROVE  Typed'
<1>1. SizeInv'
  BY NextKeepsSizeInv DEF Typed
<1>2. OtherTypes
  BY DEF Typed, OtherTypes
<1> USE DEF LinkTypes, KeyTypes, CallTypes, ThreadTypes, SizeTypes
<1>3. ASSUME ClientThread PROVE OtherTypes'
  BY <1>3, ClientThreadTyped
<1>4. ASSUME Stop \/ UseDisplay PROVE OtherTypes'
  <2> USE DEF Stop, UseDisplay, OtherTypes, sizeVars, mouseVars, sessionVars,
              keyboardVars, kbVars, remote, typing
  <2>1. UNCHANGED <<rdpInst, rdpLock, kbVars, remote, typing, dropped, sizeVars, mouseVars>>
    BY <1>4
  <2>2. /\ UNCHANGED <<thread, session, instLive, display, blocked>>
        /\ running' \in {running, FALSE}
        /\ fault' \in {fault, "display"}
    BY <1>4
  <2>3. ThreadTypes'
    BY <1>2, <2>2
  <2>4. (LinkTypes /\ KeyTypes /\ CallTypes /\ SizeTypes)'
    BY <1>2, <2>1
  <2> QED
    BY <2>3, <2>4
<1>5. ASSUME NEW u \in Users, Keyed(u) PROVE OtherTypes'
  <2>1. (LinkTypes /\ KeyTypes /\ CallTypes)' /\ fault' \in {fault, "keyboard"}
    BY <1>5, TypingTyped DEF Keyed
  <2> QED
    BY <1>2, <1>5, <2>1 DEF Keyed, OtherTypes, sessionVars, sizeVars, mouseVars
<1>4a. ASSUME Block PROVE OtherTypes'
  <2>1. /\ rdpLock' \in {rdpLock, TRUE, FALSE} /\ thread' \in {thread, "blocked"} /\ blocked' = TRUE
        /\ UNCHANGED <<rdpInst, kbVars, remote, typing, dropped, fault, running, session,
                       instLive, display, sizeVars, mouseVars>>
    BY <1>4a DEF Block
  <2>2. LinkTypes'
    BY <1>2, <2>1 DEF OtherTypes, kbVars
  <2>3. (KeyTypes /\ CallTypes)'
    BY <1>2, <2>1 DEF OtherTypes, kbVars, remote, typing
  <2>4. ThreadTypes'
    BY <1>2, <2>1 DEF OtherTypes
  <2>5. SizeTypes'
    BY <1>2, <2>1 DEF OtherTypes, sizeVars, mouseVars
  <2> QED
    BY <2>2, <2>3, <2>4, <2>5 DEF OtherTypes
<1>4b. ASSUME Miscalculates PROVE OtherTypes'
  BY <1>2, <1>4b DEF Miscalculates, OtherTypes, kbVars, remote, typing, sessionVars, sizeVars,
                    mouseVars
<1>6. ASSUME NEW u \in Users, SetSize(u), ~Miscalculates PROVE OtherTypes'
  <2>1. UpdateSize(requested', inst[u])
    BY <1>6 DEF SetSize
  <2>2. /\ reconnect' \in {reconnect, TRUE} /\ fault' \in {fault, "instance"}
        /\ late' = TRUE \/ late' = reconnect \/ late' = (thread \in {"connect", "connected"})
    BY <2>1 DEF UpdateSize
  <2>3. /\ UNCHANGED <<rdpInst, rdpLock, kbVars, remote, typing, dropped, sessionVars>>
        /\ UNCHANGED <<inst, plan, resizes, mouseVars>>
    BY <1>6 DEF SetSize
  <2>4. (LinkTypes /\ KeyTypes /\ CallTypes /\ ThreadTypes)'
    BY <1>2, <2>2, <2>3 DEF OtherTypes, kbVars, remote, typing, sessionVars
  <2>5. reconnect' \in BOOLEAN
    BY <1>2, <2>2 DEF OtherTypes
  <2>6. late' \in BOOLEAN
    <3>1. (thread \in {"connect", "connected"}) \in BOOLEAN /\ reconnect \in BOOLEAN
      BY <1>2 DEF OtherTypes
    <3> QED
      BY <2>2, <3>1, Zenon
  <2>7. SizeTypes'
    BY <1>2, <2>3, <2>5, <2>6 DEF OtherTypes, mouseVars
  <2> QED
    BY <2>4, <2>7 DEF OtherTypes
<1>7. ASSUME NEW mask \in SUBSET plan.buttons, Mouse(mask) PROVE OtherTypes'
  <2>1. mask \subseteq Buttons
    BY SessionAssumption DEF Typed, SizeInv
  <2> QED
    BY <1>2, <1>7, <2>1 DEF OtherTypes, Mouse, keyboardVars, kbVars, remote, typing,
                            sessionVars, sizeVars
<1>8. ASSUME NEW u \in Users, NEW k \in plan.keys, PressOrRelease(u, k) PROVE OtherTypes'
  <2>1. k \in Keys
    BY SessionAssumption DEF Typed, SizeInv
  <2>2. (LinkTypes /\ KeyTypes /\ CallTypes)' /\ fault' = fault
    BY <1>8, <2>1, KeyTyped DEF PressOrRelease
  <2> QED
    BY <1>2, <1>8, <2>2 DEF PressOrRelease, OtherTypes, sessionVars, sizeVars, mouseVars
<1>9. ASSUME NEW u \in Users, NEW wh \in plan.sizes, Resize(u, wh), ~Miscalculates
      PROVE  OtherTypes'
  <2>1. plan.resizes \in Nat
    BY SessionAssumption DEF Typed, SizeInv
  <2>2. /\ resizes' \in 0..plan'.resizes
        /\ inst' = [inst EXCEPT ![u] = rdpInst]
        /\ UNCHANGED <<keyboardVars, sessionVars, reconnect, late, mouseVars>>
    BY <1>2, <1>9, <2>1 DEF Resize, OtherTypes
  <2>3. inst' \in [Users -> 0..MaxSessions]
    BY <1>2, <2>2 DEF OtherTypes
  <2> QED
    BY <1>2, <2>2, <2>3 DEF OtherTypes, keyboardVars, kbVars, remote, typing, sessionVars,
                           mouseVars
<1>10. ASSUME UNCHANGED vars PROVE OtherTypes'
  BY <1>2, <1>10 DEF OtherTypes, vars, keyboardVars, kbVars, remote, typing, sessionVars,
                     sizeVars, mouseVars
<1>11. OtherTypes'
  BY <1>3, <1>4, <1>4a, <1>4b, <1>5, <1>6, <1>7, <1>8, <1>9, <1>10 DEF Next
<1> QED
  BY <1>1, <1>11 DEF Typed, OtherTypes

LEMMA InitTyped ==
  ASSUME Init PROVE Typed
<1>1. SizeInv
  BY DEF Init, SizeInv, RequestFits, Proper, IsSize
<1>2. 0 \in 0..MaxSessions /\ plan.resizes \in Nat /\ <<>> \in Seq(Ops)
  BY SessionAssumption DEF Init
<1>3. LinkTypes /\ KeyTypes /\ CallTypes
  BY <1>2 DEF Init, LinkTypes, KeyTypes, CallTypes
<1>4. ThreadTypes
  BY <1>2 DEF Init, ThreadTypes
<1>5. /\ reconnect = FALSE /\ late = FALSE /\ resizes = 0 /\ mouseMask = {} /\ remoteButtons = {}
      /\ inst = [u \in Users |-> 0]
  BY DEF Init
<1>6. resizes \in 0..plan.resizes
  BY <1>2, <1>5
<1>7. inst \in [Users -> 0..MaxSessions]
  BY <1>2, <1>5
<1>8. SizeTypes
  BY <1>5, <1>6, <1>7 DEF SizeTypes
<1> QED
  BY <1>1, <1>3, <1>4, <1>8 DEF Typed

-----------------------------------------------------------------------------
(* The size that a session comes to have.                                  *)

\* Where the session, or the next one, will get the last size that was asked
\* for from, unless nothing will come of it: a loop that ends while the client
\* runs ends for a new size.
SizeComes == plan.method = "reconnect" =>
  /\ layout = NoSize
  /\ ~late /\ asked # NoSize =>
       /\ thread \in {"connect", "connected"} => size = requested
       /\ thread = "loop" => IF reconnect THEN settings = requested ELSE size = requested
       /\ running /\ thread \in {"disconnected", "forgotten", "freeing", "start"} =>
            settings = requested
       /\ thread = "keyboard" => settings = requested

RunInv == Typed /\ LockInv /\ SizeComes

\* A step that neither moves the client thread nor asks for a size.
LEMMA SizeUntouched ==
  ASSUME SizeComes, thread' \in {thread, "blocked"}, running' => running,
         UNCHANGED <<size, settings, requested, reconnect, layout, plan, asked, late>>
  PROVE  SizeComes'
  BY DEF SizeComes

\* A session takes the settings, which have the size that was asked for.
LEMMA ClientThreadSize ==
  ASSUME Typed, SizeComes, ClientThread
  PROVE  SizeComes'
<1> USE DEF SizeComes, sizeVars
<1>1. CASE Start
  BY <1>1 DEF Start
<1>2. CASE Prepare
  BY <1>2 DEF Prepare
<1>3. CASE Connect
  BY <1>3 DEF Connect
<1>4. CASE ConnectFails
  BY <1>4 DEF ConnectFails
<1>5. CASE ReconnectComplete
  BY <1>5 DEF ReconnectComplete
<1>6. CASE ServerCloses
  BY <1>6 DEF ServerCloses
<1>7. CASE Disconnect
  BY <1>7 DEF Disconnect
<1>8. CASE ForgetInstance
  BY <1>8 DEF ForgetInstance
<1>9. CASE FreeKeyboard
  BY <1>9 DEF FreeKeyboard
<1>10. CASE FreeDisplay
  BY <1>10 DEF FreeDisplay
<1>11. CASE Resized
  BY <1>11 DEF Resized, sessionVars
<1> QED
  BY <1>1, <1>2, <1>3, <1>4, <1>5, <1>6, <1>7, <1>8, <1>9, <1>10, <1>11 DEF ClientThread

\* guac_rdp_disp_update_size: the session has the size, or the settings get it
\* for the next one.
LEMMA SetSizeSize ==
  ASSUME Typed, LockInv, SizeComes, NEW u \in Users, SetSize(u), ~Miscalculates
  PROVE  SizeComes'
<1>1. UpdateSize(requested', inst[u]) /\ plan' = plan
  BY DEF SetSize
<1>2. CASE plan.method # "reconnect"
  BY <1>1, <1>2 DEF SizeComes
<1>3. CASE plan.method = "reconnect"
  <2>1. layout' = NoSize
    BY <1>1, <1>3 DEF SizeComes, UpdateSize
  <2>2. CASE late'
    BY <2>1, <2>2 DEF SizeComes
  <2>3. CASE ~late'
    <3>1. /\ thread' = thread /\ running' = running /\ size' = size
          /\ thread \notin {"disconnected", "forgotten", "freeing"}
          /\ thread \in {"start", "keyboard"} => ~instLive
      BY DEF SetSize, sessionVars, LockInv, ThreadInv
    <3>2. CASE inst[u] # 0 /\ requested' = size
      <4>1. UNCHANGED <<settings, reconnect>> /\ ~reconnect /\ instLive
        BY <1>1, <2>3, <3>2 DEF UpdateSize
      <4> QED
        BY <2>1, <3>1, <3>2, <4>1 DEF SizeComes
    <3>3. CASE ~(inst[u] # 0 /\ requested' = size)
      <4>1. /\ settings' = requested' /\ reconnect' = TRUE
            /\ thread \notin {"connect", "connected"}
        BY <1>1, <1>3, <2>3, <3>3 DEF UpdateSize, SettingsAfter
      <4> QED
        BY <2>1, <3>1, <4>1 DEF SizeComes
    <3> QED BY <3>2, <3>3
  <2> QED BY <2>2, <2>3
<1> QED
  BY <1>2, <1>3

LEMMA NextKeepsSize ==
  ASSUME RunInv, [Next]_vars
  PROVE  SizeComes'
<1> USE DEF RunInv
<1>1. CASE ClientThread
  BY <1>1, ClientThreadSize
<1>2. CASE Stop \/ Block \/ UseDisplay \/ \E mask \in SUBSET plan.buttons : Mouse(mask)
  BY <1>2, SizeUntouched DEF Stop, Block, UseDisplay, Mouse, sizeVars, sessionVars
<1>3. ASSUME NEW u \in Users, Keyed(u) PROVE SizeComes'
  BY <1>3, SizeUntouched DEF Keyed, sizeVars, sessionVars
<1>2a. CASE Miscalculates
  BY <1>2a, SizeUntouched DEF Miscalculates, sizeVars, sessionVars
<1>4. ASSUME NEW u \in Users, SetSize(u) PROVE SizeComes'
  BY <1>2a, <1>4, SetSizeSize
<1>5. ASSUME NEW u \in Users, NEW k \in plan.keys, PressOrRelease(u, k) PROVE SizeComes'
  BY <1>5, SizeUntouched DEF PressOrRelease, sizeVars, sessionVars
<1>6. ASSUME NEW u \in Users, NEW wh \in plan.sizes, Resize(u, wh) PROVE SizeComes'
  BY <1>2a, <1>6, SizeUntouched DEF Resize, sessionVars
<1>7. CASE UNCHANGED vars
  BY <1>7, SizeUntouched DEF vars, sizeVars, sessionVars
<1> QED
  BY <1>1, <1>2, <1>3, <1>4, <1>5, <1>6, <1>7 DEF Next

LEMMA InitRun ==
  ASSUME Init PROVE RunInv
  BY InitTyped DEF Init, RunInv, LockInv, ThreadInv, InLockAlive, SizeComes

LEMMA NextKeepsRun ==
  ASSUME RunInv, [Next]_vars PROVE RunInv'
  BY NextKeepsTyped, NextKeepsLockInv, NextKeepsSize DEF RunInv, Typed, SizeInv

\* Every variable has its type, and where a resize asks for a new session that
\* session has, once it is up, the last size that was asked for, unless that
\* came too soon or while connecting.
THEOREM ResizesAreDone == Spec => []ResizeDone
<1>1. Init => RunInv
  BY InitRun
<1>2. RunInv /\ [Next]_vars => RunInv'
  BY NextKeepsRun
<1>3. RunInv => ResizeDone
  BY TypedIsTypeOK DEF RunInv, SizeComes, ResizeDone, Proper
<1> QED
  BY <1>1, <1>2, <1>3, PTL DEF Spec

-----------------------------------------------------------------------------
(* The keyboard of one user.                                               *)

\* Whose keyboard there is at each step of the client thread, and that the
\* session heard nothing of it before it was connected.
KeyboardLife ==
  /\ keyboard <= session
  /\ thread = "keyboard" => keyboard < session
  /\ \A t \in Users : using[t] <= keyboard
  /\ keyboardLive =>
       /\ thread \in {"connect", "connected", "loop", "disconnected", "forgotten", "done",
                      "blocked"}
       /\ keyboard = session /\ rdpInst \in {0, session}
  /\ keyboardLive \/ synchronized => keyboard # 0
  /\ thread = "connect" /\ synchronized => dropped
  /\ ~synchronized => keysymState = {} /\ lockFlags = {}

\* The session heard everything that the keyboard had to say.
Linked == keyboardLive /\ ~dropped /\ (synchronized \/ keyboard = rdpInst)

Toggle(flags, some) == (flags \union some) \ (flags \intersect some)

\* The session is as the keyboard says, except that the modifiers P are
\* pressed and R released for the time being, that the events of the keys K
\* are due, and that the locks L are yet to be toggled.
Matches(P, R, K, L) ==
  /\ \A m \in Modifiers \ K :
       Scancode(m) \in remoteKeys <=> m \in (keysymState \union P) \ R
  /\ remoteKeys \subseteq Down \union {Scancode(m) : m \in P \union K}
  /\ synchronized /\ ~repeated => lockFlags = Toggle(remoteLocks, L)

\* The keysyms of q, the steps for which follow `from' others, once i steps of
\* a call are done.
Done(q, from, i) == {q[j] : j \in {n \in DOMAIN q : from + n <= i}}

Pressed(k, i)  == Done(Keymap[k].set, 3, i) \ Done(Keymap[k].set, KeyStep(k), i)
Released(k, i) == Done(Keymap[k].clear, 3 + Len(Keymap[k].set), i)
                  \ Done(Keymap[k].clear, KeyStep(k) + Len(Keymap[k].set), i)
Due(k, i)      == IF 2 <= i /\ i < KeyStep(k) THEN {k} ELSE {}
DueLocks(k, p, i) == IF p /\ Due(k, i) # {} THEN LockFlags[k] ELSE {}

\* r is what is left of s after i elements.
Remains(s, i, r) == Len(r) = Len(s) - i /\ \A j \in 1..Len(r) : r[j] = s[i + j]

\* A press of k is not one of a lock key that was down already.
NotAgain(k, i) == IF i < 2 THEN k \notin keysymState ELSE ~repeated

\* What is known of a call whose keyboard is not freed.
CallMatches(k, p, i) ==
  /\ i >= 1 => synchronized
  /\ i >= 2 => (k \in keysymState <=> p)
  /\ i >= 3 => Keymap[k].setLocks \subseteq lockFlags
  /\ Linked =>
       /\ Matches(Pressed(k, i), Released(k, i), Due(k, i), DueLocks(k, p, i))
       /\ p /\ LockFlags[k] # {} /\ i < KeyStep(k) /\ NotAgain(k, i) =>
            Scancode(k) \notin remoteKeys

\* t presses or releases k, and i steps of that are done.
InCall(t, k, p, i) ==
  /\ Remains(UpdateKeysym(k, p), i, todo[t])
  /\ p => k \in held[t]
  /\ keysymState \subseteq held[t] \union (IF i < 2 THEN {k} ELSE {})
  /\ ~Freed(t) => CallMatches(k, p, i)

AtRest(t) ==
  /\ keysymState \subseteq held[t]
  /\ Linked => Matches({}, {}, {}, {})

TypesRight(t) ==
  /\ todo[t] = <<>> => AtRest(t)
  /\ todo[t] # <<>> =>
       \E k \in Keys, p \in BOOLEAN : \E i \in 0 .. CallLength(k) - 1 : InCall(t, k, p, i)

TypingInv == \A t \in Users : TypesRight(t)

KeyInv == RunInv /\ KeyboardLife /\ TypingInv

\* What Done has before, during and after the steps for q.
LEMMA DoneSteps ==
  ASSUME NEW S, NEW q \in Seq(S), NEW from \in Nat, NEW i \in Nat
  PROVE  /\ i <= from => Done(q, from, i) = {}
         /\ i >= from + Len(q) => Done(q, from, i) = ToSet(q)
         /\ Done(q, from, i) \subseteq ToSet(q)
<1>1. Len(q) \in Nat /\ DOMAIN q = 1..Len(q)
  OBVIOUS
<1>2. ASSUME i <= from PROVE Done(q, from, i) = {}
  BY <1>1, <1>2 DEF Done
<1>3. ASSUME i >= from + Len(q) PROVE Done(q, from, i) = ToSet(q)
  BY <1>1, <1>3 DEF Done, ToSet
<1>4. Done(q, from, i) \subseteq ToSet(q)
  BY <1>1 DEF Done, ToSet
<1> QED
  BY <1>2, <1>3, <1>4

LEMMA DoneMore ==
  ASSUME NEW S, NEW q \in Seq(S), NEW from \in Nat, NEW j \in 1..Len(q)
  PROVE  Done(q, from, from + j) = Done(q, from, from + j - 1) \union {q[j]}
<1>1. Len(q) \in Nat /\ DOMAIN q = 1..Len(q)
  OBVIOUS
<1>2. \A n \in 1..Len(q) : from + n <= from + j <=> from + n <= from + j - 1 \/ n = j
  BY <1>1
<1> QED
  BY <1>1, <1>2 DEF Done

\* The step o that a call makes when i are done.
IsPlace(k, p, i, o) ==
  LET q == Keymap[k].set
      c == Keymap[k].clear
  IN \/ i = 0 /\ o = Op("sync", k, p)
     \/ i = 1 /\ o = Op("record", k, p)
     \/ i = 2 /\ o = Op("locks", k, p)
     \/ \E j \in 1..Len(q) : i = 2 + j /\ o = ChangeOf(q[j], FALSE, TRUE)
     \/ \E j \in 1..Len(c) : i = 2 + Len(q) + j /\ o = ChangeOf(c[j], TRUE, FALSE)
     \/ i = KeyStep(k) - 1 /\ o = Op("key", k, p)
     \/ \E j \in 1..Len(q) : i = KeyStep(k) - 1 + j /\ o = ChangeOf(q[j], FALSE, FALSE)
     \/ \E j \in 1..Len(c) : i = KeyStep(k) - 1 + Len(q) + j /\ o = ChangeOf(c[j], TRUE, TRUE)

LEMMA Place ==
  ASSUME NEW k \in Keys, NEW p \in BOOLEAN, NEW i \in 0 .. CallLength(k) - 1
  PROVE  IsPlace(k, p, i, UpdateKeysym(k, p)[i + 1])
<1> DEFINE s == UpdateKeysym(k, p)
           q == Keymap[k].set
           c == Keymap[k].clear
<1>1. Len(q) \in Nat /\ Len(c) \in Nat
  BY KeymapAssumption
<1>2. /\ s[1] = Op("sync", k, p) /\ s[2] = Op("record", k, p) /\ s[3] = Op("locks", k, p)
      /\ Changes(s, 3, q, FALSE, TRUE) /\ Changes(s, 3 + Len(q), c, TRUE, FALSE)
      /\ s[KeyStep(k)] = Op("key", k, p)
      /\ Changes(s, KeyStep(k), q, FALSE, FALSE)
      /\ Changes(s, KeyStep(k) + Len(q), c, TRUE, TRUE)
  BY CallSteps
<1>3. KeyStep(k) = 4 + Len(q) + Len(c) /\ CallLength(k) = KeyStep(k) + Len(q) + Len(c)
  BY DEF KeyStep, CallLength
<1> HIDE DEF IsPlace, s, q, c
<1>3a. i \in Nat /\ i < KeyStep(k) + Len(q) + Len(c)
  BY <1>1, <1>3
<1>4. CASE i <= 2
  <2>1. (i = 0 /\ i + 1 = 1) \/ (i = 1 /\ i + 1 = 2) \/ (i = 2 /\ i + 1 = 3)
    BY <1>3a, <1>4
  <2> QED
    BY <1>2, <2>1 DEF s, IsPlace
<1>5. CASE 3 <= i /\ i < 3 + Len(q)
  <2>1. i - 2 \in 1..Len(q) /\ 3 + (i - 2) = i + 1 /\ i = 2 + (i - 2)
    BY <1>1, <1>5
  <2>2. s[3 + (i - 2)] = ChangeOf(q[i - 2], FALSE, TRUE)
    BY <1>2, <2>1 DEF Changes
  <2> QED
    BY <2>1, <2>2 DEF IsPlace, s, q, c
<1>6. CASE 3 + Len(q) <= i /\ i < KeyStep(k) - 1
  <2> DEFINE j == i - 2 - Len(q)
  <2>1. j \in 1..Len(c) /\ 3 + Len(q) + j = i + 1 /\ i = 2 + Len(q) + j
    BY <1>1, <1>3, <1>6
  <2> HIDE DEF j
  <2>2. s[3 + Len(q) + j] = ChangeOf(c[j], TRUE, FALSE)
    BY <1>2, <2>1 DEF Changes
  <2> QED
    BY <2>1, <2>2 DEF IsPlace, s, q, c
<1>7. CASE i = KeyStep(k) - 1
  <2>1. i + 1 = KeyStep(k)
    BY <1>1, <1>3, <1>7
  <2> QED
    BY <1>2, <1>7, <2>1 DEF IsPlace, s, q, c
<1>8. CASE KeyStep(k) <= i /\ i < KeyStep(k) + Len(q)
  <2> DEFINE j == i + 1 - KeyStep(k)
  <2>1. j \in 1..Len(q) /\ KeyStep(k) + j = i + 1 /\ i = KeyStep(k) - 1 + j
    BY <1>1, <1>3, <1>8
  <2> HIDE DEF j
  <2>2. s[KeyStep(k) + j] = ChangeOf(q[j], FALSE, FALSE)
    BY <1>2, <2>1 DEF Changes
  <2> QED
    BY <2>1, <2>2 DEF IsPlace, s, q, c
<1>9. CASE KeyStep(k) + Len(q) <= i
  <2> DEFINE j == i + 1 - KeyStep(k) - Len(q)
  <2>1. j \in 1..Len(c) /\ KeyStep(k) + Len(q) + j = i + 1 /\ i = KeyStep(k) - 1 + Len(q) + j
    BY <1>1, <1>3, <1>9
  <2> HIDE DEF j
  <2>2. s[KeyStep(k) + Len(q) + j] = ChangeOf(c[j], TRUE, TRUE)
    BY <1>2, <2>1 DEF Changes
  <2> QED
    BY <2>1, <2>2 DEF IsPlace, s, q, c
<1> QED
  BY <1>1, <1>3, <1>3a, <1>4, <1>5, <1>6, <1>7, <1>8, <1>9

\* Which modifiers are pressed and released for the time being, before and
\* after each of the steps.
LEMMA Marks ==
  ASSUME NEW k \in Keys, NEW i \in Nat
  PROVE  LET q == Keymap[k].set
             c == Keymap[k].clear
         IN /\ i <= 3 => Pressed(k, i) = {} /\ Released(k, i) = {}
            /\ i >= CallLength(k) => Pressed(k, i) = {} /\ Released(k, i) = {}
            /\ i \in {KeyStep(k) - 1, KeyStep(k)} =>
                 Pressed(k, i) = ToSet(q) /\ Released(k, i) = ToSet(c)
            /\ Pressed(k, i) \subseteq ToSet(q) /\ Released(k, i) \subseteq ToSet(c)
<1> DEFINE q == Keymap[k].set
           c == Keymap[k].clear
<1>1. /\ q \in Seq(Keys) /\ c \in Seq(Keys) /\ Len(q) \in Nat /\ Len(c) \in Nat
      /\ KeyStep(k) = 4 + Len(q) + Len(c) /\ CallLength(k) = KeyStep(k) + Len(q) + Len(c)
  BY KeymapAssumption DEF KeyStep, CallLength
<1> HIDE DEF q, c
<1> DEFINE A == Done(q, 3, i)
           B == Done(c, 3 + Len(q), i)
           C == Done(q, KeyStep(k), i)
           D == Done(c, KeyStep(k) + Len(q), i)
<1>2. Pressed(k, i) = A \ C /\ Released(k, i) = B \ D
  BY DEF Pressed, Released, q, c
<1>3. (i <= 3 => A = {}) /\ (i >= 3 + Len(q) => A = ToSet(q)) /\ A \subseteq ToSet(q)
  BY <1>1, DoneSteps
<1>4. /\ i <= 3 + Len(q) => B = {}
      /\ i >= 3 + Len(q) + Len(c) => B = ToSet(c)
      /\ B \subseteq ToSet(c)
  BY <1>1, DoneSteps
<1>5. (i <= KeyStep(k) => C = {}) /\ (i >= KeyStep(k) + Len(q) => C = ToSet(q))
  BY <1>1, DoneSteps
<1>6. /\ i <= KeyStep(k) + Len(q) => D = {}
      /\ i >= KeyStep(k) + Len(q) + Len(c) => D = ToSet(c)
  BY <1>1, DoneSteps
<1> HIDE DEF A, B, C, D
<1>7. i <= 3 => Pressed(k, i) = {} /\ Released(k, i) = {}
  BY <1>1, <1>2, <1>3, <1>4
<1>8. i >= CallLength(k) => Pressed(k, i) = {} /\ Released(k, i) = {}
  BY <1>1, <1>2, <1>3, <1>4, <1>5, <1>6
<1>9. i \in {KeyStep(k) - 1, KeyStep(k)} =>
        Pressed(k, i) = ToSet(q) /\ Released(k, i) = ToSet(c)
  BY <1>1, <1>2, <1>3, <1>4, <1>5, <1>6
<1> QED
  BY <1>2, <1>3, <1>4, <1>7, <1>8, <1>9 DEF q, c

\* The same, for a modifier that is changed.
LEMMA MarksChange ==
  ASSUME NEW k \in Keys, NEW i \in Nat
  PROVE  LET q == Keymap[k].set
             c == Keymap[k].clear
             P(n) == Pressed(k, n)
             R(n) == Released(k, n)
         IN /\ \A j \in 1..Len(q) : i = 2 + j =>
                 P(i + 1) = P(i) \union {q[j]} /\ R(i + 1) = R(i)
            /\ \A j \in 1..Len(c) : i = 2 + Len(q) + j =>
                 P(i + 1) = P(i) /\ R(i + 1) = R(i) \union {c[j]}
            /\ \A j \in 1..Len(q) : i = KeyStep(k) - 1 + j =>
                 P(i + 1) = P(i) \ {q[j]} /\ R(i + 1) = R(i)
            /\ \A j \in 1..Len(c) : i = KeyStep(k) - 1 + Len(q) + j =>
                 P(i + 1) = P(i) /\ R(i + 1) = R(i) \ {c[j]}
<1> DEFINE q == Keymap[k].set
           c == Keymap[k].clear
<1>1. /\ q \in Seq(Keys) /\ c \in Seq(Keys) /\ Len(q) \in Nat /\ Len(c) \in Nat
      /\ KeyStep(k) = 4 + Len(q) + Len(c)
  BY KeymapAssumption DEF KeyStep
<1> HIDE DEF q, c
<1> DEFINE A(n) == Done(q, 3, n)
           B(n) == Done(c, 3 + Len(q), n)
           C(n) == Done(q, KeyStep(k), n)
           D(n) == Done(c, KeyStep(k) + Len(q), n)
<1>2. \A n : Pressed(k, n) = A(n) \ C(n) /\ Released(k, n) = B(n) \ D(n)
  BY DEF Pressed, Released, q, c
<1> USE <1>1
<1>3. \A n \in Nat : (n <= 3 => A(n) = {}) /\ (n >= 3 + Len(q) => A(n) = ToSet(q))
  BY DoneSteps
<1>4. \A n \in Nat : (n <= 3 + Len(q) => B(n) = {}) /\ (n >= 3 + Len(q) + Len(c) => B(n) = ToSet(c))
  BY DoneSteps
<1>5. \A n \in Nat : (n <= KeyStep(k) => C(n) = {}) /\ (n >= KeyStep(k) + Len(q) => C(n) = ToSet(q))
  BY DoneSteps
<1>6. \A n \in Nat : n <= KeyStep(k) + Len(q) => D(n) = {}
  BY DoneSteps
<1>7. /\ \A n : Pressed(k, n) = A(n) \ C(n)
      /\ \A n : Released(k, n) = B(n) \ D(n)
  BY <1>2
<1>9. ASSUME NEW j \in 1..Len(q), i = 2 + j
      PROVE  Pressed(k, i + 1) = Pressed(k, i) \union {q[j]} /\ Released(k, i + 1) = Released(k, i)
  <2>1. A(i + 1) = A(i) \union {q[j]}
    <3>1. i + 1 = 3 + j /\ i = 3 + j - 1 /\ 3 \in Nat
      BY <1>9
    <3> QED BY <3>1, DoneMore
  <2>2. C(i) = {} /\ C(i + 1) = {} /\ B(i) = {} /\ B(i + 1) = {}
    BY <1>4, <1>5, <1>9
  <2> HIDE DEF A, B, C, D
  <2> QED BY <1>7, <2>1, <2>2
<1>10. ASSUME NEW j \in 1..Len(c), i = 2 + Len(q) + j
       PROVE  Pressed(k, i + 1) = Pressed(k, i) /\ Released(k, i + 1) = Released(k, i) \union {c[j]}
  <2>1. B(i + 1) = B(i) \union {c[j]}
    <3>1. i + 1 = 3 + Len(q) + j /\ i = 3 + Len(q) + j - 1 /\ 3 + Len(q) \in Nat
      BY <1>10
    <3> QED BY <3>1, DoneMore
  <2>2. C(i) = {} /\ C(i + 1) = {} /\ A(i) = A(i + 1) /\ D(i) = {} /\ D(i + 1) = {}
    BY <1>3, <1>5, <1>6, <1>10
  <2> HIDE DEF A, B, C, D
  <2> QED BY <1>7, <2>1, <2>2
<1>11. ASSUME NEW j \in 1..Len(q), i = KeyStep(k) - 1 + j
       PROVE  Pressed(k, i + 1) = Pressed(k, i) \ {q[j]} /\ Released(k, i + 1) = Released(k, i)
  <2>1. C(i + 1) = C(i) \union {q[j]}
    <3>1. i + 1 = KeyStep(k) + j /\ i = KeyStep(k) + j - 1 /\ KeyStep(k) \in Nat
      BY <1>11
    <3> QED BY <3>1, DoneMore
  <2>2. A(i) = A(i + 1) /\ B(i) = B(i + 1) /\ D(i) = {} /\ D(i + 1) = {}
    BY <1>3, <1>4, <1>6, <1>11
  <2> HIDE DEF A, B, C, D
  <2> QED BY <1>7, <2>1, <2>2
<1>12. ASSUME NEW j \in 1..Len(c), i = KeyStep(k) - 1 + Len(q) + j
       PROVE  Pressed(k, i + 1) = Pressed(k, i) /\ Released(k, i + 1) = Released(k, i) \ {c[j]}
  <2>1. D(i + 1) = D(i) \union {c[j]}
    <3>1. i + 1 = KeyStep(k) + Len(q) + j /\ i = KeyStep(k) + Len(q) + j - 1 /\ KeyStep(k) + Len(q) \in Nat
      BY <1>12
    <3> QED BY <3>1, DoneMore
  <2>2. A(i) = A(i + 1) /\ B(i) = B(i + 1) /\ C(i) = C(i + 1)
    BY <1>3, <1>4, <1>5, <1>12
  <2> HIDE DEF A, B, C, D
  <2> QED BY <1>7, <2>1, <2>2
<1> QED
  BY <1>9, <1>10, <1>11, <1>12 DEF q, c

\* The modifiers are keys that no other keysym is mapped to, and are mapped
\* plainly themselves.
LEMMA ModifierKeys ==
  /\ Modifiers \subseteq Keys
  /\ \A m \in Modifiers : /\ LockFlags[m] = {} /\ Keymap[m].set = <<>> /\ Keymap[m].clear = <<>>
                         /\ \A k \in Keys \ {m} : Scancode(k) # Scancode(m)
  /\ \A k \in Keys : /\ ToSet(Keymap[k].set) \subseteq Modifiers
                    /\ ToSet(Keymap[k].clear) \subseteq Modifiers
                    /\ ToSet(Keymap[k].set) \intersect ToSet(Keymap[k].clear) = {}
<1>1. \A k \in Keys : ToSet(Keymap[k].set) \union ToSet(Keymap[k].clear) \subseteq Modifiers
  BY DEF Modifiers
<1>2. Modifiers \subseteq Keys
  BY KeymapAssumption DEF Modifiers, ToSet
<1> QED
  BY <1>1, <1>2, KeymapAssumption DEF Scancode

\* What an event does to the session.
LEMMA KeySent ==
  ASSUME NEW k \in Keys, NEW pressed \in BOOLEAN, SendKey(k, pressed)
  PROVE  \/ rdpInst = 0 /\ dropped' = TRUE /\ UNCHANGED remote
         \/ /\ rdpInst # 0 /\ dropped' = dropped
            /\ remoteKeys' = IF pressed THEN remoteKeys \union {Scancode(k)}
                                        ELSE remoteKeys \ {Scancode(k)}
            /\ remoteLocks' = IF pressed /\ Scancode(k) \notin remoteKeys
                              THEN Toggle(remoteLocks, LockFlags[k]) ELSE remoteLocks
  BY DEF SendKey, Send, Toggle, remote

\* The sets P and R after a modifier was changed.
PressedAfter(P, m, from, to)  == IF from THEN P ELSE IF to THEN P \union {m} ELSE P \ {m}
ReleasedAfter(R, m, from, to) == IF ~from THEN R ELSE IF to THEN R \ {m} ELSE R \union {m}

\* guac_rdp_keyboard_send_events keeps track of what it presses and releases by
\* the keyboard alone: it changes a modifier exactly if the keyboard does not
\* have it as the keysym needs it, and later exactly if it did.
LEMMA ChangeKeepsMatch ==
  ASSUME NEW P, NEW R, NEW K \in SUBSET Keys, NEW L,
         NEW m \in Modifiers \ K, NEW from \in BOOLEAN, NEW to \in BOOLEAN,
         P \subseteq Modifiers, R \subseteq Modifiers,
         from => m \notin P, ~from => m \notin R,
         Matches(P, R, K, L), UNCHANGED kbVars,
         IF (m \in keysymState) = from THEN SendKey(m, to) ELSE UNCHANGED <<remote, dropped>>,
         ~dropped'
  PROVE  Matches(PressedAfter(P, m, from, to), ReleasedAfter(R, m, from, to), K, L)'
<1> DEFINE P2 == PressedAfter(P, m, from, to)
           R2 == ReleasedAfter(R, m, from, to)
<1>1. /\ m \in Keys /\ LockFlags[m] = {}
      /\ \A k \in Keys \ {m} : Scancode(k) # Scancode(m)
      /\ Modifiers \subseteq Keys
  BY ModifierKeys
<1>2. Down' = Down /\ keysymState' = keysymState /\ lockFlags' = lockFlags
      /\ synchronized' = synchronized /\ repeated' = repeated
  BY DEF kbVars, Down
<1>3. remoteLocks' = remoteLocks
  BY <1>1, KeySent DEF Toggle, remote
<1>4. CASE (m \in keysymState) = from
  <2>1. remoteKeys' = IF to THEN remoteKeys \union {Scancode(m)} ELSE remoteKeys \ {Scancode(m)}
    BY <1>1, <1>4, KeySent
  <2>2. \A n \in Modifiers \ K : Scancode(n) \in remoteKeys' <=> n \in (keysymState \union P2) \ R2
    <3> SUFFICES ASSUME NEW n \in Modifiers \ K
                 PROVE  Scancode(n) \in remoteKeys' <=> n \in (keysymState \union P2) \ R2
      OBVIOUS
    <3>1. Scancode(n) \in remoteKeys <=> n \in (keysymState \union P) \ R
      BY DEF Matches
    <3>2. CASE n = m
      BY <1>4, <2>1, <3>1, <3>2 DEF PressedAfter, ReleasedAfter
    <3>3. CASE n # m
      BY <1>1, <2>1, <3>1, <3>3 DEF PressedAfter, ReleasedAfter
    <3> QED BY <3>2, <3>3
  <2>3. remoteKeys' \subseteq Down \union {Scancode(n) : n \in P2 \union K}
    <3> SUFFICES ASSUME NEW x \in remoteKeys'
                 PROVE  x \in Down \union {Scancode(n) : n \in P2 \union K}
      OBVIOUS
    <3>1. CASE to /\ x = Scancode(m)
      BY <1>4, <3>1 DEF PressedAfter, Down
    <3>2. CASE ~(to /\ x = Scancode(m))
      <4>1. x \in remoteKeys /\ (~to => x # Scancode(m))
        BY <2>1, <3>2
      <4>2. x \in Down \/ \E n \in P \union K : x = Scancode(n)
        BY <4>1 DEF Matches
      <4> QED
        BY <4>1, <4>2 DEF PressedAfter
    <3> QED BY <3>1, <3>2
  <2> QED
    BY <1>2, <1>3, <2>2, <2>3 DEF Matches
<1>5. CASE (m \in keysymState) # from
  <2>1. UNCHANGED remote
    BY <1>5
  <2>2. \A n \in Modifiers \ K : Scancode(n) \in remoteKeys <=> n \in (keysymState \union P2) \ R2
    BY <1>5 DEF Matches, PressedAfter, ReleasedAfter
  <2>3. remoteKeys \subseteq Down \union {Scancode(n) : n \in P2 \union K}
    <3> SUFFICES ASSUME NEW x \in remoteKeys
                 PROVE  x \in Down \union {Scancode(n) : n \in P2 \union K}
      OBVIOUS
    <3>1. x \in Down \/ \E n \in P \union K : x = Scancode(n)
      BY DEF Matches
    <3>2. ~from => Scancode(m) \in Down
      BY <1>5 DEF Down
    <3> QED
      BY <3>1, <3>2 DEF PressedAfter
  <2> QED
    BY <1>2, <2>1, <2>2, <2>3 DEF Matches, remote
<1> QED
  BY <1>4, <1>5

\* What the kind of a step says of its place.
LEMMA PlaceOfKind ==
  ASSUME NEW k, NEW p, NEW i, NEW o, IsPlace(k, p, i, o)
  PROVE  /\ o.what = "sync" => i = 0
         /\ o.what = "record" => i = 1 /\ o.key = k /\ o.to = p
         /\ o.what = "locks" => i = 2 /\ o.key = k
         /\ o.what = "key" => i = KeyStep(k) - 1 /\ o.key = k /\ o.to = p
<1>1. \/ i = 0 /\ o = Op("sync", k, p)
      \/ i = 1 /\ o = Op("record", k, p)
      \/ i = 2 /\ o = Op("locks", k, p)
      \/ i = KeyStep(k) - 1 /\ o = Op("key", k, p)
      \/ \E m, from, to : o = ChangeOf(m, from, to)
  BY DEF IsPlace
<1>2. CASE \E m, from, to : o = ChangeOf(m, from, to)
  BY <1>2 DEF ChangeOf
<1> QED
  BY <1>1, <1>2 DEF Op

LEMMA CallNumbers ==
  ASSUME NEW k \in Keys
  PROVE  /\ CallLength(k) \in Nat /\ KeyStep(k) \in Nat /\ KeyStep(k) >= 4
         /\ KeyStep(k) <= CallLength(k)
<1> DEFINE a == Len(Keymap[k].set)
           b == Len(Keymap[k].clear)
<1>1. a \in Nat /\ b \in Nat
  BY KeymapAssumption
<1>2. KeyStep(k) = 4 + a + b /\ CallLength(k) = KeyStep(k) + a + b
  BY DEF KeyStep, CallLength
<1> HIDE DEF a, b
<1> QED
  BY <1>1, <1>2

\* The next step of a call, and what is left after it.
LEMMA CallAt ==
  ASSUME Typed, NEW t \in Users, NEW k \in Keys, NEW p \in BOOLEAN,
         NEW i \in 0 .. CallLength(k) - 1, InCall(t, k, p, i)
  PROVE  /\ IsPlace(k, p, i, Head(todo[t]))
         /\ Step(t) => Remains(UpdateKeysym(k, p), i + 1, todo'[t])
         /\ CallLength(k) \in Nat /\ KeyStep(k) \in Nat /\ KeyStep(k) >= 4
         /\ KeyStep(k) <= CallLength(k)
<1> DEFINE s == UpdateKeysym(k, p)
           r == todo[t]
<1>1. todo \in [Users -> Seq(Ops)] /\ r \in Seq(Ops)
  BY DEF Typed, CallTypes
<1>2. s \in Seq(Ops) /\ Len(s) = CallLength(k)
  BY CallSteps
<1>3. CallLength(k) \in Nat /\ KeyStep(k) \in Nat /\ KeyStep(k) >= 4 /\ KeyStep(k) <= CallLength(k)
  BY CallNumbers
<1>4. IsPlace(k, p, i, s[i + 1])
  BY Place
<1>5. Len(r) = CallLength(k) - i /\ \A j \in 1..Len(r) : r[j] = s[i + j]
  BY <1>2 DEF InCall, Remains
<1> HIDE DEF s, r
<1>6. Len(r) > 0 /\ i \in Nat
  BY <1>3, <1>5
<1>7. Head(r) = r[1] /\ Len(Tail(r)) = Len(r) - 1 /\ \A j \in 1..Len(r) - 1 : Tail(r)[j] = r[j + 1]
  BY <1>1, <1>6, HeadTailProperties
<1>8. Head(r) = s[i + 1]
  BY <1>5, <1>6, <1>7
<1>9. Remains(s, i + 1, Tail(r))
  <2>1. Len(Tail(r)) = Len(s) - (i + 1)
    BY <1>2, <1>3, <1>5, <1>6, <1>7
  <2>2. ASSUME NEW j \in 1..Len(Tail(r)) PROVE Tail(r)[j] = s[(i + 1) + j]
    <3>1. j \in 1..Len(r) - 1 /\ j + 1 \in 1..Len(r)
      BY <1>1, <1>6, <1>7
    <3>2. r[j + 1] = s[i + (j + 1)] /\ i + (j + 1) = (i + 1) + j
      BY <1>5, <1>6, <3>1
    <3> QED BY <1>7, <3>1, <3>2
  <2> QED BY <2>1, <2>2 DEF Remains
<1>10. Step(t) => todo'[t] = Tail(r)
  BY <1>1 DEF Step, r
<1> QED
  BY <1>3, <1>4, <1>8, <1>9, <1>10 DEF r, s

\* What a call starts from, and what is the same throughout a step of it.
Steps(t) ==
  /\ RunInv /\ KeyboardLife /\ ~Freed(t) /\ Step(t)
  /\ UNCHANGED <<rdpInst, keyboard, keyboardLive, using, held, thread, session>>

LEMMA StepKeeps ==
  ASSUME NEW t \in Users, Steps(t)
  PROVE  /\ ~Freed(t)'
         /\ keyboardLive
         /\ rdpInst # 0 => keyboard = rdpInst
<1>1. keyboardLive /\ keyboard = session /\ rdpInst \in {0, session}
  BY DEF Steps, Freed, KeyboardLife
<1>2. ~Freed(t)'
  BY DEF Steps, Freed
<1> QED
  BY <1>1, <1>2

\* The session and the keyboard stay as they are.
LEMMA MatchSame ==
  ASSUME NEW P, NEW R, NEW K, NEW L, Matches(P, R, K, L),
         UNCHANGED <<remote, lockFlags, synchronized, keysymState, repeated>>
  PROVE  Matches(P, R, K, L)'
  BY DEF Matches, Down, remote, Toggle

\* Nothing is sent while the client thread is about to connect.
LEMMA NotConnected ==
  ASSUME RunInv, thread = "connect"
  PROVE  \A locks : SendSync(locks) => dropped'
<1>1. rdpInst = 0
  BY DEF RunInv, LockInv, ThreadInv
<1> QED
  BY <1>1 DEF Send, SendSync

\* guac_rdp_keyboard_update_keysym tells the session the locks.
LEMMA SyncStep ==
  ASSUME NEW t \in Users, NEW k \in Keys, NEW p \in BOOLEAN,
         NEW i \in 0 .. CallLength(k) - 1, InCall(t, k, p, i), Steps(t), Sync(t)
  PROVE  InCall(t, k, p, i + 1)' /\ KeyboardLife'
<1>1. /\ IsPlace(k, p, i, Head(todo[t])) /\ Remains(UpdateKeysym(k, p), i + 1, todo'[t])
      /\ KeyStep(k) \in Nat /\ KeyStep(k) >= 4
  BY CallAt DEF RunInv, Steps
<1>2. i = 0
  BY <1>1, PlaceOfKind DEF Sync, At
<1>3. /\ Pressed(k, 0) = {} /\ Released(k, 0) = {} /\ Pressed(k, 1) = {} /\ Released(k, 1) = {}
      /\ Due(k, 0) = {} /\ Due(k, 1) = {} /\ DueLocks(k, p, 0) = {} /\ DueLocks(k, p, 1) = {}
  <2>1. 0 \in Nat /\ 1 \in Nat /\ 0 <= 3 /\ 1 <= 3
    OBVIOUS
  <2> QED
    BY <2>1, Marks DEF Due, DueLocks
<1>4. ~Freed(t)' /\ keyboardLive /\ (rdpInst # 0 => keyboard = rdpInst)
  BY StepKeeps
<1>5. Linked => /\ Matches({}, {}, {}, {})
                /\ p /\ LockFlags[k] # {} /\ NotAgain(k, 0) => Scancode(k) \notin remoteKeys
  <2>1. CallMatches(k, p, 0)
    BY <1>2 DEF InCall, Steps
  <2>2. 0 < KeyStep(k)
    BY <1>1
  <2> QED
    BY <1>3, <2>1, <2>2 DEF CallMatches
<1>6. synchronized' = TRUE /\ UNCHANGED <<lockFlags, keysymState, repeated>>
  BY DEF Sync
<1>6a. NotAgain(k, 0)' = NotAgain(k, 0) /\ NotAgain(k, 1) = NotAgain(k, 0)
  BY <1>6 DEF NotAgain
<1>7. ASSUME Linked'
      PROVE  /\ Matches({}, {}, {}, {})'
             /\ p /\ LockFlags[k] # {} /\ NotAgain(k, 0) => Scancode(k) \notin remoteKeys'
  <2>1. CASE synchronized
    <3>1. UNCHANGED <<remote, dropped>>
      BY <2>1 DEF Sync
    <3>2. Linked
      BY <1>4, <1>7, <2>1, <3>1 DEF Linked
    <3> QED
      BY <1>5, <1>6, <2>1, <3>1, <3>2, MatchSame DEF remote
  <2>2. CASE ~synchronized
    <3>1. SendSync(lockFlags)
      BY <2>2 DEF Sync
    <3>2. /\ rdpInst # 0 /\ remoteKeys' = remoteKeys /\ remoteLocks' = lockFlags
          /\ dropped' = dropped /\ ~dropped
      BY <1>7, <3>1 DEF SendSync, Send, Linked
    <3>3. Linked
      BY <1>4, <3>2 DEF Linked
    <3> QED
      BY <1>5, <1>6, <3>2, <3>3 DEF Matches, Toggle, Down
  <2> QED BY <2>1, <2>2
<1>8. CallMatches(k, p, 1)'
  <2>1. NotAgain(k, 1)' => NotAgain(k, 0)
    BY <1>6 DEF NotAgain
  <2> QED
    BY <1>3, <1>6, <1>7, <2>1 DEF CallMatches
<1>9. InCall(t, k, p, 1)'
  BY <1>1, <1>2, <1>6, <1>8 DEF InCall, Sync
<1>10. thread = "connect" => (synchronized /\ UNCHANGED dropped) \/ dropped'
  BY NotConnected DEF Sync, Steps
<1>11. KeyboardLife'
  BY <1>4, <1>6, <1>10 DEF KeyboardLife, Steps
<1> QED
  BY <1>2, <1>9, <1>11

\* What is known in a call that began to record.
LEMMA Synced ==
  ASSUME NEW t \in Users, NEW k \in Keys, NEW p \in BOOLEAN, NEW i \in Nat, i >= 1,
         InCall(t, k, p, i), Steps(t)
  PROVE  /\ synchronized
         /\ synchronized' = synchronized /\ (dropped => dropped') =>
              KeyboardLife' /\ (Linked' => Linked)
<1>1. synchronized
  BY DEF InCall, CallMatches, Steps
<1>2. keyboardLive /\ KeyboardLife /\ UNCHANGED <<keyboard, keyboardLive>>
  BY StepKeeps DEF Steps
<1>3. ASSUME synchronized' = synchronized, dropped => dropped'
      PROVE  KeyboardLife' /\ (Linked' => Linked)
  BY <1>1, <1>2, <1>3 DEF KeyboardLife, Linked, Steps
<1> QED
  BY <1>1, <1>3

\* Its record: the event of the keysym is due.
LEMMA RecordStep ==
  ASSUME NEW t \in Users, NEW k \in Keys, NEW p \in BOOLEAN,
         NEW i \in 0 .. CallLength(k) - 1, InCall(t, k, p, i), Steps(t), Record(t)
  PROVE  InCall(t, k, p, i + 1)' /\ KeyboardLife'
<1> DEFINE L2 == IF p THEN LockFlags[k] ELSE {}
<1>1. /\ IsPlace(k, p, i, Head(todo[t])) /\ Remains(UpdateKeysym(k, p), i + 1, todo'[t])
      /\ KeyStep(k) \in Nat /\ KeyStep(k) >= 4
  BY CallAt DEF RunInv, Steps
<1>2. i = 1 /\ Head(todo[t]).key = k /\ Head(todo[t]).to = p
  BY <1>1, PlaceOfKind DEF Record, At
<1>3. /\ Pressed(k, 1) = {} /\ Released(k, 1) = {} /\ Pressed(k, 2) = {} /\ Released(k, 2) = {}
      /\ Due(k, 1) = {} /\ Due(k, 2) = {k} /\ DueLocks(k, p, 1) = {} /\ DueLocks(k, p, 2) = L2
  <2>1. 1 \in Nat /\ 2 \in Nat /\ 1 <= 3 /\ 2 <= 3
    OBVIOUS
  <2>2. Due(k, 1) = {} /\ Due(k, 2) = {k}
    BY <1>1 DEF Due
  <2> QED
    BY <2>1, <2>2, Marks DEF DueLocks
<1>4. ~Freed(t)'
  BY StepKeeps
<1>5. /\ keysymState' = IF p THEN keysymState \union {k} ELSE keysymState \ {k}
      /\ lockFlags' = IF p THEN Toggle(lockFlags, LockFlags[k]) ELSE lockFlags
      /\ repeated' = (repeated \/ (p /\ LockFlags[k] # {} /\ k \in keysymState))
      /\ UNCHANGED <<synchronized, remote, dropped, held>>
  BY <1>2 DEF Record, Toggled, Toggle
<1>6. synchronized /\ KeyboardLife' /\ (Linked' => Linked)
  BY <1>2, <1>5, Synced
<1>7. Linked => /\ Matches({}, {}, {}, {})
                /\ p /\ LockFlags[k] # {} /\ NotAgain(k, 1) => Scancode(k) \notin remoteKeys
  <2>1. CallMatches(k, p, 1)
    BY <1>2 DEF InCall, Steps
  <2>2. 1 < KeyStep(k)
    BY <1>1
  <2> QED
    BY <1>3, <2>1, <2>2 DEF CallMatches
<1>8. k \in keysymState' <=> p
  BY <1>5
<1>9. ASSUME Linked
      PROVE  Matches({}, {}, {k}, L2)'
  <2>1. Matches({}, {}, {}, {})
    BY <1>7, <1>9
  <2>2. \A m \in Modifiers \ {k} : m \in keysymState' <=> m \in keysymState
    BY <1>5
  <2>3. Down \subseteq Down' \union {Scancode(n) : n \in {} \union {k}}
    BY <1>5 DEF Down
  <2>4. ~repeated' => lockFlags' = Toggle(remoteLocks, L2)
    BY <1>5, <1>6, <2>1 DEF Matches, Toggle
  <2> HIDE DEF L2
  <2>5. \A m \in Modifiers \ {k} : Scancode(m) \in remoteKeys <=> m \in (keysymState' \union {}) \ {}
    BY <2>1, <2>2 DEF Matches
  <2>6. remoteKeys \subseteq Down' \union {Scancode(n) : n \in {} \union {k}}
    BY <2>1, <2>3 DEF Matches
  <2> QED
    BY <1>5, <2>4, <2>5, <2>6 DEF Matches, remote
<1>10. CallMatches(k, p, 2)'
  <2>1. ~(2 < 2) /\ 1 < 2
    OBVIOUS
  <2>2. p /\ LockFlags[k] # {} /\ NotAgain(k, 2)' => NotAgain(k, 1)
    BY <1>5, <2>1 DEF NotAgain
  <2> HIDE DEF L2
  <2> QED
    BY <1>3, <1>5, <1>6, <1>7, <1>8, <1>9, <2>2 DEF CallMatches, remote
<1>11. keysymState' \subseteq held'[t] /\ (p => k \in held'[t])
  BY <1>2, <1>5 DEF InCall
<1>12. InCall(t, k, p, 2)'
  BY <1>1, <1>2, <1>10, <1>11 DEF InCall
<1> QED
  BY <1>2, <1>6, <1>12

\* guac_rdp_keyboard_update_locks: the session gets the locks that the keysym
\* needs, unless it toggles one itself.
LEMMA LocksStep ==
  ASSUME NEW t \in Users, NEW k \in Keys, NEW p \in BOOLEAN,
         NEW i \in 0 .. CallLength(k) - 1, InCall(t, k, p, i), Steps(t), UpdateLocks(t)
  PROVE  InCall(t, k, p, i + 1)' /\ KeyboardLife'
<1> DEFINE flags == (lockFlags \union Keymap[k].setLocks) \ Keymap[k].clearLocks
           L2 == IF p THEN LockFlags[k] ELSE {}
<1>1. /\ IsPlace(k, p, i, Head(todo[t])) /\ Remains(UpdateKeysym(k, p), i + 1, todo'[t])
      /\ KeyStep(k) \in Nat /\ KeyStep(k) >= 4
  BY CallAt DEF RunInv, Steps
<1>2. i = 2 /\ Head(todo[t]).key = k
  BY <1>1, PlaceOfKind DEF UpdateLocks, At
<1>3. /\ Pressed(k, 2) = {} /\ Released(k, 2) = {} /\ Pressed(k, 3) = {} /\ Released(k, 3) = {}
      /\ Due(k, 2) = {k} /\ Due(k, 3) = {k} /\ DueLocks(k, p, 2) = L2 /\ DueLocks(k, p, 3) = L2
  <2>1. 2 \in Nat /\ 3 \in Nat /\ 2 <= 3 /\ 3 <= 3
    OBVIOUS
  <2>2. Due(k, 2) = {k} /\ Due(k, 3) = {k}
    BY <1>1 DEF Due
  <2> QED
    BY <2>1, <2>2, Marks DEF DueLocks
<1>4. ~Freed(t)'
  BY StepKeeps
<1>5. /\ lockFlags' = flags
      /\ IF flags # lockFlags THEN SendSync(flags) ELSE UNCHANGED <<remote, dropped>>
      /\ UNCHANGED <<synchronized, keysymState, repeated, held>>
  BY <1>2 DEF UpdateLocks
<1>6. dropped => dropped'
  BY <1>5 DEF SendSync, Send
<1>7. synchronized /\ KeyboardLife' /\ (Linked' => Linked)
  BY <1>2, <1>5, <1>6, Synced
<1>8. /\ k \in keysymState <=> p
      /\ Linked => /\ Matches({}, {}, {k}, L2)
                   /\ p /\ LockFlags[k] # {} /\ ~repeated => Scancode(k) \notin remoteKeys
  <2>1. CallMatches(k, p, 2)
    BY <1>2 DEF InCall, Steps
  <2>2. 2 < KeyStep(k)
    BY <1>1
  <2> HIDE DEF L2
  <2>3. k \in keysymState <=> p
    BY <2>1 DEF CallMatches
  <2>4. Linked => /\ Matches({}, {}, {k}, L2)
                  /\ p /\ LockFlags[k] # {} /\ 2 < KeyStep(k) /\ NotAgain(k, 2) =>
                       Scancode(k) \notin remoteKeys
    BY <1>3, <2>1, Zenon DEF CallMatches
  <2>5. NotAgain(k, 2) = ~repeated
    BY DEF NotAgain
  <2> QED
    BY <2>2, <2>3, <2>4, <2>5, Zenon
<1>9. Keymap[k].setLocks \subseteq lockFlags'
  BY <1>5, KeymapAssumption
<1>10. ASSUME Linked'
       PROVE  Matches({}, {}, {k}, L2)' /\ remoteKeys' = remoteKeys
  <2>1. Matches({}, {}, {k}, L2)
    BY <1>7, <1>8, <1>10
  <2>2. CASE flags = lockFlags
    <3>1. UNCHANGED <<remote, lockFlags, synchronized, keysymState, repeated>>
      BY <1>5, <2>2
    <3> HIDE DEF L2
    <3> QED
      BY <2>1, <3>1, MatchSame DEF remote
  <2>3. CASE flags # lockFlags
    <3>1. LockFlags[k] = {}
      BY <2>3, KeymapAssumption
    <3>2. L2 = {}
      BY <3>1
    <3>3. remoteKeys' = remoteKeys /\ remoteLocks' = flags
      BY <1>5, <1>10, <2>3 DEF SendSync, Send, Linked
    <3> HIDE DEF L2, flags
    <3>4. Down' = Down
      BY <1>5 DEF Down
    <3> QED
      BY <1>5, <2>1, <3>2, <3>3, <3>4 DEF Matches, Toggle
  <2> QED BY <2>2, <2>3
<1>11. CallMatches(k, p, 3)'
  <2> HIDE DEF L2, flags
  <2>1. NotAgain(k, 3)' = ~repeated
    BY <1>5 DEF NotAgain
  <2> QED
    BY <1>3, <1>5, <1>7, <1>8, <1>9, <1>10, <2>1 DEF CallMatches
<1>12. keysymState' \subseteq held'[t] /\ (p => k \in held'[t])
  BY <1>2, <1>5 DEF InCall
<1>13. InCall(t, k, p, 3)'
  BY <1>1, <1>2, <1>11, <1>12 DEF InCall
<1> QED
  BY <1>2, <1>7, <1>13

\* A modifier m that k needs changed at a step, and what that does.
IsChange(k, i, o, m, from, to) ==
  /\ o = ChangeOf(m, from, to)
  /\ m \in ToSet(Keymap[k].set) \union ToSet(Keymap[k].clear)
  /\ Pressed(k, i + 1) = PressedAfter(Pressed(k, i), m, from, to)
  /\ Released(k, i + 1) = ReleasedAfter(Released(k, i), m, from, to)
  /\ from => m \notin Pressed(k, i)
  /\ ~from => m \notin Released(k, i)
  /\ i >= 3 /\ i + 1 # KeyStep(k)

LEMMA ChangePlace ==
  ASSUME NEW k \in Keys, NEW p \in BOOLEAN, NEW i \in Nat, NEW o, IsPlace(k, p, i, o),
         o.what = "change"
  PROVE  \E m \in Modifiers, from \in BOOLEAN, to \in BOOLEAN : IsChange(k, i, o, m, from, to)
<1> DEFINE q == Keymap[k].set
           c == Keymap[k].clear
<1>1. /\ Len(q) \in Nat /\ Len(c) \in Nat /\ q \in Seq(Keys) /\ c \in Seq(Keys)
      /\ KeyStep(k) = 4 + Len(q) + Len(c)
  BY KeymapAssumption DEF KeyStep
<1>2. /\ Pressed(k, i) \subseteq ToSet(q) /\ Released(k, i) \subseteq ToSet(c)
      /\ ToSet(q) \intersect ToSet(c) = {}
      /\ ToSet(q) \subseteq Modifiers /\ ToSet(c) \subseteq Modifiers
  BY Marks, ModifierKeys
<1>3. /\ \A j \in 1..Len(q) : q[j] \in ToSet(q)
      /\ \A j \in 1..Len(c) : c[j] \in ToSet(c)
  BY <1>1 DEF ToSet
<1>4. /\ \A j \in 1..Len(q) : i = 2 + j =>
           Pressed(k, i + 1) = Pressed(k, i) \union {q[j]} /\ Released(k, i + 1) = Released(k, i)
      /\ \A j \in 1..Len(c) : i = 2 + Len(q) + j =>
           Pressed(k, i + 1) = Pressed(k, i) /\ Released(k, i + 1) = Released(k, i) \union {c[j]}
      /\ \A j \in 1..Len(q) : i = KeyStep(k) - 1 + j =>
           Pressed(k, i + 1) = Pressed(k, i) \ {q[j]} /\ Released(k, i + 1) = Released(k, i)
      /\ \A j \in 1..Len(c) : i = KeyStep(k) - 1 + Len(q) + j =>
           Pressed(k, i + 1) = Pressed(k, i) /\ Released(k, i + 1) = Released(k, i) \ {c[j]}
  BY MarksChange
<1> HIDE DEF q, c
<1> USE DEF PressedAfter, ReleasedAfter
<1>5. ASSUME NEW j \in 1..Len(q), i = 2 + j, o = ChangeOf(q[j], FALSE, TRUE)
      PROVE  IsChange(k, i, o, q[j], FALSE, TRUE)
  <2>1. i >= 3 /\ i + 1 # KeyStep(k)
    BY <1>1, <1>5
  <2> QED BY <1>2, <1>3, <1>4, <1>5, <2>1 DEF IsChange, q, c
<1>6. ASSUME NEW j \in 1..Len(c), i = 2 + Len(q) + j, o = ChangeOf(c[j], TRUE, FALSE)
      PROVE  IsChange(k, i, o, c[j], TRUE, FALSE)
  <2>1. i >= 3 /\ i + 1 # KeyStep(k)
    BY <1>1, <1>6
  <2> QED BY <1>2, <1>3, <1>4, <1>6, <2>1 DEF IsChange, q, c
<1>7. ASSUME NEW j \in 1..Len(q), i = KeyStep(k) - 1 + j, o = ChangeOf(q[j], FALSE, FALSE)
      PROVE  IsChange(k, i, o, q[j], FALSE, FALSE)
  <2>1. i >= 3 /\ i + 1 # KeyStep(k)
    BY <1>1, <1>7
  <2> QED BY <1>2, <1>3, <1>4, <1>7, <2>1 DEF IsChange, q, c
<1>8. ASSUME NEW j \in 1..Len(c), i = KeyStep(k) - 1 + Len(q) + j, o = ChangeOf(c[j], TRUE, TRUE)
      PROVE  IsChange(k, i, o, c[j], TRUE, TRUE)
  <2>1. i >= 3 /\ i + 1 # KeyStep(k)
    BY <1>1, <1>8
  <2> QED BY <1>2, <1>3, <1>4, <1>8, <2>1 DEF IsChange, q, c
<1>9. o \notin {Op("sync", k, p), Op("record", k, p), Op("locks", k, p), Op("key", k, p)}
  BY DEF Op
<1>10. /\ \A j \in 1..Len(q) : q[j] \in Modifiers
       /\ \A j \in 1..Len(c) : c[j] \in Modifiers
  BY <1>2, <1>3
<1>11. \/ \E j \in 1..Len(q) : i = 2 + j /\ o = ChangeOf(q[j], FALSE, TRUE)
       \/ \E j \in 1..Len(c) : i = 2 + Len(q) + j /\ o = ChangeOf(c[j], TRUE, FALSE)
       \/ \E j \in 1..Len(q) : i = KeyStep(k) - 1 + j /\ o = ChangeOf(q[j], FALSE, FALSE)
       \/ \E j \in 1..Len(c) : i = KeyStep(k) - 1 + Len(q) + j /\ o = ChangeOf(c[j], TRUE, TRUE)
  BY <1>9 DEF IsPlace, q, c
<1> QED
  BY <1>5, <1>6, <1>7, <1>8, <1>10, <1>11

\* guac_rdp_keyboard_send_events: a modifier is changed, or need not be.
LEMMA ChangeStep ==
  ASSUME NEW t \in Users, NEW k \in Keys, NEW p \in BOOLEAN,
         NEW i \in 0 .. CallLength(k) - 1, InCall(t, k, p, i), Steps(t), Change(t)
  PROVE  InCall(t, k, p, i + 1)' /\ KeyboardLife'
<1>1. /\ IsPlace(k, p, i, Head(todo[t])) /\ Remains(UpdateKeysym(k, p), i + 1, todo'[t])
      /\ KeyStep(k) \in Nat /\ KeyStep(k) >= 4 /\ i \in Nat
  BY CallAt DEF RunInv, Steps
<1>2. PICK m \in Modifiers, from \in BOOLEAN, to \in BOOLEAN :
        IsChange(k, i, Head(todo[t]), m, from, to)
  BY <1>1, ChangePlace DEF Change, At
<1> DEFINE P == Pressed(k, i)
           R == Released(k, i)
           P2 == Pressed(k, i + 1)
           R2 == Released(k, i + 1)
           K == Due(k, i)
           L == DueLocks(k, p, i)
<1>3. /\ P \subseteq Modifiers /\ R \subseteq Modifiers
      /\ P2 = PressedAfter(P, m, from, to) /\ R2 = ReleasedAfter(R, m, from, to)
      /\ from => m \notin P
      /\ ~from => m \notin R
  BY <1>1, <1>2, Marks, ModifierKeys DEF IsChange
<1>4. i >= 3 /\ i + 1 >= 3 /\ (i < KeyStep(k) <=> i + 1 < KeyStep(k))
  BY <1>1, <1>2 DEF IsChange
<1>5. K \subseteq {k} /\ Due(k, i + 1) = K /\ DueLocks(k, p, i + 1) = L
  BY <1>1, <1>4 DEF Due, DueLocks
<1>6. m \in Keys /\ k \notin Modifiers /\ LockFlags[k] = {}
  <2>1. ToSet(<<>>) = {}
    BY DEF ToSet
  <2> QED
    BY <1>2, <2>1, ModifierKeys, KeymapAssumption DEF IsChange
<1>7. /\ IF (m \in keysymState) = from THEN SendKey(m, to) ELSE UNCHANGED <<remote, dropped>>
      /\ UNCHANGED kbVars
  BY <1>2 DEF Change, IsChange, ChangeOf
<1>8. synchronized' = synchronized /\ (dropped => dropped')
  BY <1>6, <1>7, KeySent DEF kbVars
<1>9. synchronized /\ KeyboardLife' /\ (Linked' => Linked)
  BY <1>1, <1>4, <1>8, Synced
<1>10. CallMatches(k, p, i) /\ ~Freed(t)'
  BY StepKeeps DEF InCall, Steps
<1>11. ASSUME Linked'
       PROVE  Matches(P2, R2, K, L)'
  <2>1. Matches(P, R, K, L)
    BY <1>9, <1>10, <1>11 DEF CallMatches
  <2>2. ~dropped'
    BY <1>11 DEF Linked
  <2>3. m \in Modifiers \ K /\ K \in SUBSET Keys
    BY <1>5, <1>6
  <2> HIDE DEF P, R, P2, R2, K, L
  <2>4. Matches(PressedAfter(P, m, from, to), ReleasedAfter(R, m, from, to), K, L)'
    BY <1>3, <1>7, <2>1, <2>2, <2>3, ChangeKeepsMatch
  <2> QED
    BY <1>3, <2>4
<1>12. CallMatches(k, p, i + 1)'
  <2>1. k \in keysymState' <=> p
    BY <1>4, <1>7, <1>10 DEF CallMatches, kbVars
  <2>2. Keymap[k].setLocks \subseteq lockFlags'
    BY <1>4, <1>7, <1>10 DEF CallMatches, kbVars
  <2>3. Linked' => Matches(Pressed(k, i + 1), Released(k, i + 1), Due(k, i + 1),
                           DueLocks(k, p, i + 1))'
    BY <1>5, <1>11
  <2> QED
    BY <1>6, <1>8, <1>9, <2>1, <2>2, <2>3 DEF CallMatches
<1>13. keysymState' \subseteq held'[t] /\ (p => k \in held'[t])
  BY <1>4, <1>7 DEF InCall, kbVars, Steps
<1>14. InCall(t, k, p, i + 1)'
  BY <1>1, <1>4, <1>12, <1>13 DEF InCall
<1> QED
  BY <1>9, <1>14

\* What the event of the keysym itself does to a session that waits for it.
LEMMA EventDone ==
  ASSUME NEW k \in Keys, NEW p \in BOOLEAN, NEW P \in SUBSET Modifiers, NEW R \in SUBSET Modifiers,
         Matches(P, R, {k}, IF p THEN LockFlags[k] ELSE {}), synchronized,
         k \in keysymState <=> p,
         p /\ LockFlags[k] # {} /\ ~repeated => Scancode(k) \notin remoteKeys,
         k \in Modifiers => P = {} /\ R = {},
         SendKey(k, p), ~dropped', UNCHANGED kbVars
  PROVE  Matches(P, R, {}, {})'
<1>1. /\ remoteKeys' = IF p THEN remoteKeys \union {Scancode(k)} ELSE remoteKeys \ {Scancode(k)}
      /\ remoteLocks' = IF p /\ Scancode(k) \notin remoteKeys
                        THEN Toggle(remoteLocks, LockFlags[k]) ELSE remoteLocks
  BY KeySent
<1>2. UNCHANGED <<keysymState, lockFlags, synchronized, repeated>> /\ Down' = Down
  BY DEF kbVars, Down
<1>3. ASSUME NEW m \in Modifiers
      PROVE  Scancode(m) \in remoteKeys' <=> m \in (keysymState \union P) \ R
  <2>1. CASE m = k
    BY <1>1, <2>1
  <2>2. CASE m # k
    <3>1. Scancode(m) # Scancode(k)
      BY <2>2, ModifierKeys
    <3>2. Scancode(m) \in remoteKeys' <=> Scancode(m) \in remoteKeys
      BY <1>1, <3>1
    <3> QED
      BY <2>2, <3>2 DEF Matches
  <2> QED BY <2>1, <2>2
<1>4. ASSUME NEW x \in remoteKeys'
      PROVE  x \in Down \union {Scancode(n) : n \in P \union {}}
  <2>1. p => Scancode(k) \in Down
    BY DEF Down
  <2>2. x = Scancode(k) => p
    BY <1>1
  <2>3. CASE x # Scancode(k)
    <3>1. x \in remoteKeys
      BY <1>1, <2>3
    <3> QED
      BY <2>3, <3>1 DEF Matches
  <2> QED BY <2>1, <2>2, <2>3
<1>5. ASSUME ~repeated PROVE lockFlags = Toggle(remoteLocks', {})
  <2>1. lockFlags = Toggle(remoteLocks, IF p THEN LockFlags[k] ELSE {})
    BY <1>5 DEF Matches
  <2>2. CASE p /\ LockFlags[k] # {}
    BY <1>1, <1>5, <2>1, <2>2 DEF Toggle
  <2>3. CASE ~p
    BY <1>1, <2>1, <2>3 DEF Toggle
  <2>4. CASE LockFlags[k] = {}
    BY <1>1, <2>1, <2>4 DEF Toggle
  <2> QED BY <2>2, <2>3, <2>4
<1> QED
  BY <1>2, <1>3, <1>4, <1>5 DEF Matches

\* The event of the keysym.
LEMMA TargetStep ==
  ASSUME NEW t \in Users, NEW k \in Keys, NEW p \in BOOLEAN,
         NEW i \in 0 .. CallLength(k) - 1, InCall(t, k, p, i), Steps(t), Target(t)
  PROVE  InCall(t, k, p, i + 1)' /\ KeyboardLife'
<1>1. /\ IsPlace(k, p, i, Head(todo[t])) /\ Remains(UpdateKeysym(k, p), i + 1, todo'[t])
      /\ KeyStep(k) \in Nat /\ KeyStep(k) >= 4 /\ i \in Nat
  BY CallAt DEF RunInv, Steps
<1>2. i = KeyStep(k) - 1 /\ Head(todo[t]).key = k /\ Head(todo[t]).to = p
  BY <1>1, PlaceOfKind DEF Target, At
<1> DEFINE P == ToSet(Keymap[k].set)
           R == ToSet(Keymap[k].clear)
           L == IF p THEN LockFlags[k] ELSE {}
<1>3. /\ i >= 3 /\ i + 1 = KeyStep(k) /\ i < KeyStep(k) /\ i + 1 >= 3 /\ i + 1 \in Nat
  BY <1>1, <1>2
<1>4. /\ Pressed(k, i) = P /\ Released(k, i) = R
      /\ Pressed(k, i + 1) = P /\ Released(k, i + 1) = R
  BY <1>1, <1>2, <1>3, Marks
<1>5. /\ Due(k, i) = {k} /\ Due(k, i + 1) = {}
      /\ DueLocks(k, p, i) = L /\ DueLocks(k, p, i + 1) = {}
  <2>1. Due(k, i) = {k} /\ Due(k, i + 1) = {}
    BY <1>1, <1>3 DEF Due
  <2> QED
    BY <2>1 DEF DueLocks
<1>6. P \subseteq Modifiers /\ R \subseteq Modifiers /\ (k \in Modifiers => P = {} /\ R = {})
  BY ModifierKeys DEF ToSet
<1>7. SendKey(k, p) /\ UNCHANGED kbVars
  BY <1>2 DEF Target
<1>8. synchronized' = synchronized /\ (dropped => dropped')
  BY <1>7, KeySent DEF kbVars
<1>9. synchronized /\ KeyboardLife' /\ (Linked' => Linked)
  BY <1>1, <1>3, <1>8, Synced
<1>10. CallMatches(k, p, i) /\ ~Freed(t)'
  BY StepKeeps DEF InCall, Steps
<1>11. k \in keysymState <=> p
  BY <1>3, <1>10 DEF CallMatches
<1>12. ASSUME Linked'
       PROVE  Matches(P, R, {}, {})'
  <2> HIDE DEF P, R, L
  <2>1. Linked /\ ~dropped'
    BY <1>9, <1>12 DEF Linked
  <2>2. Matches(P, R, {k}, L)
    BY <1>4, <1>5, <1>10, <2>1 DEF CallMatches
  <2>3. p /\ LockFlags[k] # {} /\ ~repeated => Scancode(k) \notin remoteKeys
    BY <1>3, <1>10, <2>1 DEF CallMatches, NotAgain
  <2> QED
    BY <1>6, <1>7, <1>9, <1>11, <2>1, <2>2, <2>3, EventDone DEF L
<1>13. CallMatches(k, p, i + 1)'
  <2>1. k \in keysymState' <=> p
    BY <1>7, <1>11 DEF kbVars
  <2>2. Keymap[k].setLocks \subseteq lockFlags'
    BY <1>3, <1>7, <1>10 DEF CallMatches, kbVars
  <2>3. Linked' => Matches(Pressed(k, i + 1), Released(k, i + 1), Due(k, i + 1),
                           DueLocks(k, p, i + 1))'
    BY <1>4, <1>5, <1>12
  <2>4. ~(i + 1 < KeyStep(k))
    BY <1>1, <1>3
  <2> QED
    BY <1>8, <1>9, <2>1, <2>2, <2>3, <2>4 DEF CallMatches
<1>14. keysymState' \subseteq held'[t] /\ (p => k \in held'[t])
  BY <1>3, <1>7 DEF InCall, kbVars, Steps
<1>15. InCall(t, k, p, i + 1)'
  BY <1>1, <1>3, <1>13, <1>14 DEF InCall
<1> QED
  BY <1>9, <1>15

\* After a step a call goes on, or it is done.
LEMMA CallGoesOn ==
  ASSUME Typed', NEW t \in Users, NEW k \in Keys, NEW p \in BOOLEAN,
         NEW i \in 0 .. CallLength(k) - 1, InCall(t, k, p, i + 1)', ~Freed(t)'
  PROVE  TypesRight(t)'
<1>1. /\ CallLength(k) \in Nat /\ KeyStep(k) \in Nat /\ KeyStep(k) >= 4
      /\ KeyStep(k) <= CallLength(k) /\ i \in Nat
  BY CallNumbers
<1>2. Len(todo'[t]) = CallLength(k) - (i + 1) /\ todo'[t] \in Seq(Ops)
  <2>1. Len(UpdateKeysym(k, p)) = CallLength(k)
    BY CallSteps
  <2> QED
    BY <2>1 DEF InCall, Remains, Typed, CallTypes
<1>3. CASE i + 1 < CallLength(k)
  <2>1. i + 1 \in 0 .. CallLength(k) - 1
    BY <1>1, <1>3
  <2>2. todo'[t] # <<>>
    BY <1>1, <1>2, <1>3
  <2> QED
    BY <2>1, <2>2 DEF TypesRight
<1>4. CASE i + 1 >= CallLength(k)
  <2> DEFINE n == i + 1
  <2>1. n \in Nat /\ n >= CallLength(k) /\ n >= 2 /\ ~(n < KeyStep(k)) /\ Len(todo'[t]) = 0
    BY <1>1, <1>2, <1>4
  <2>2. todo'[t] = <<>>
    BY <1>2, <2>1
  <2> HIDE DEF n
  <2>3. Pressed(k, n) = {} /\ Released(k, n) = {}
    BY <2>1, Marks
  <2>4. Due(k, n) = {} /\ DueLocks(k, p, n) = {}
    BY <2>1 DEF Due, DueLocks
  <2>5. InCall(t, k, p, n)'
    BY DEF n
  <2>6. keysymState' \subseteq held'[t]
    <3>1. ~(n < 2)
      BY <2>1
    <3> QED
      BY <2>5, <3>1 DEF InCall
  <2>7. CallMatches(k, p, n)'
    BY <2>5 DEF InCall
  <2>8. Linked' => Matches({}, {}, {}, {})'
    BY <2>3, <2>4, <2>7 DEF CallMatches
  <2> QED
    BY <2>2, <2>6, <2>8 DEF TypesRight, AtRest
<1> QED
  BY <1>1, <1>3, <1>4

\* A step that leaves the typing alone, and links nothing.
LEMMA TypingKept ==
  ASSUME TypingInv,
         UNCHANGED <<todo, held, keysymState, lockFlags, synchronized, repeated, remote>>,
         Linked' => Linked, \A t \in Users : Freed(t) => Freed(t)'
  PROVE  TypingInv'
<1> SUFFICES ASSUME NEW t \in Users PROVE TypesRight(t)'
  BY DEF TypingInv
<1>1. TypesRight(t)
  BY DEF TypingInv
<1>2. AtRest(t) => AtRest(t)'
  BY MatchSame DEF AtRest
<1>3. ASSUME NEW k \in Keys, NEW p \in BOOLEAN, NEW i \in 0 .. CallLength(k) - 1,
             InCall(t, k, p, i)
      PROVE  InCall(t, k, p, i)'
  <2>1. ASSUME CallMatches(k, p, i) PROVE CallMatches(k, p, i)'
    <3>1. Linked' => Matches(Pressed(k, i), Released(k, i), Due(k, i), DueLocks(k, p, i))'
      BY <2>1, MatchSame DEF CallMatches
    <3> QED
      BY <2>1, <3>1 DEF CallMatches, NotAgain, remote
  <2> QED
    BY <1>3, <2>1 DEF InCall
<1> QED
  BY <1>1, <1>2, <1>3 DEF TypesRight

\* The steps of the call that the only user makes.
LEMMA TypingKeepsKeyInv ==
  ASSUME NEW u, Users = {u}, KeyInv, Keyed(u), Typed'
  PROVE  KeyboardLife' /\ TypingInv'
<1>1. Typing(u) /\ UNCHANGED <<thread, session>>
  BY DEF Keyed, sessionVars
<1>2. CASE Fault(u)
  <2>1. UNCHANGED <<rdpInst, kbVars, remote, typing, dropped>>
    BY <1>2 DEF Fault
  <2>2. (Linked' => Linked) /\ \A t \in Users : Freed(t) => Freed(t)'
    BY <2>1 DEF Linked, Freed, kbVars, typing
  <2>3. TypingInv'
    BY <2>1, <2>2, TypingKept DEF KeyInv, kbVars, typing
  <2> QED
    BY <1>1, <2>1, <2>3 DEF KeyInv, KeyboardLife, kbVars, typing
<1>3. CASE ~Fault(u)
  <2>1. /\ ~Freed(u) /\ Step(u) /\ todo[u] # <<>>
        /\ UNCHANGED <<rdpInst, keyboard, keyboardLive, using, held>>
    BY <1>1, <1>3 DEF Typing, Sync, Record, UpdateLocks, Change, Target, At, kbVars
  <2>2. Steps(u)
    BY <1>1, <2>1 DEF Steps, KeyInv
  <2>3. PICK k \in Keys, p \in BOOLEAN : \E i \in 0 .. CallLength(k) - 1 : InCall(u, k, p, i)
    BY <2>1 DEF KeyInv, TypingInv, TypesRight
  <2>4. PICK i \in 0 .. CallLength(k) - 1 : InCall(u, k, p, i)
    BY <2>3
  <2>5. InCall(u, k, p, i + 1)' /\ KeyboardLife'
    BY <1>1, <1>3, <2>1, <2>2, <2>4, SyncStep, RecordStep, LocksStep, ChangeStep, TargetStep
       DEF Typing
  <2>6. ~Freed(u)'
    BY <2>2, StepKeeps
  <2>7. TypesRight(u)'
    BY <2>5, <2>6, CallGoesOn
  <2> QED
    BY <2>5, <2>7 DEF TypingInv
<1> QED
  BY <1>2, <1>3

\* guac_rdp_user_key_handler, of the only user.
LEMMA KeyKeepsKeyInv ==
  ASSUME NEW u, Users = {u}, KeyInv, NEW k \in Keys, PressOrRelease(u, k)
  PROVE  KeyboardLife' /\ TypingInv'
<1>0. PICK p \in BOOLEAN : Key(u, k, p)
  BY DEF PressOrRelease
<1> DEFINE s == UpdateKeysym(k, p)
<1>1. Key(u, k, p) /\ UNCHANGED <<thread, session>>
  BY <1>0 DEF PressOrRelease, sessionVars
<1>2. /\ todo[u] = <<>> /\ todo \in [Users -> Seq(Ops)] /\ using \in [Users -> 0..MaxSessions]
      /\ held \in [Users -> SUBSET Keys]
      /\ held'[u] = IF p THEN held[u] \union {k} ELSE held[u] \ {k}
      /\ todo'[u] = IF keyboard = 0 THEN <<>> ELSE s
      /\ using'[u] = keyboard
      /\ UNCHANGED <<rdpInst, kbVars, remote, dropped>>
  BY <1>0, <1>1 DEF Key, KeyInv, RunInv, Typed, CallTypes
<1>3. AtRest(u) /\ keysymState \subseteq held[u] /\ (Linked => Matches({}, {}, {}, {}))
  BY <1>2 DEF KeyInv, TypingInv, TypesRight, AtRest
<1>4. KeyboardLife'
  <2>1. \A t \in Users : using'[t] = keyboard
    BY <1>2
  <2>2. keyboard <= keyboard
    BY DEF KeyInv, RunInv, Typed, LinkTypes
  <2> QED
    BY <1>1, <1>2, <2>1, <2>2 DEF KeyInv, KeyboardLife, kbVars
<1>5. Linked' => Linked /\ Matches({}, {}, {}, {})'
  <2>1. Linked' => Linked
    BY <1>2 DEF Linked, kbVars
  <2> QED
    BY <1>2, <1>3, <2>1, MatchSame DEF kbVars
<1>6. CASE keyboard = 0
  <2>1. keysymState = {} /\ ~keyboardLive
    BY <1>6 DEF KeyInv, KeyboardLife
  <2>2. keysymState' = {} /\ ~Linked'
    BY <1>2, <2>1 DEF kbVars, Linked
  <2> QED
    BY <1>2, <1>4, <1>6, <2>2 DEF TypingInv, TypesRight, AtRest
<1>7. CASE keyboard # 0
  <2>1. /\ Len(s) = CallLength(k) /\ s \in Seq(Ops) /\ CallLength(k) \in Nat
        /\ KeyStep(k) \in Nat /\ KeyStep(k) >= 4 /\ KeyStep(k) <= CallLength(k)
    BY CallSteps, CallNumbers
  <2>2. /\ 0 \in 0 .. CallLength(k) - 1
        /\ s # <<>>
        /\ Due(k, 0) = {} /\ DueLocks(k, p, 0) = {}
        /\ Pressed(k, 0) = {} /\ Released(k, 0) = {}
    <3>1. 0 \in Nat /\ 0 <= 3
      OBVIOUS
    <3>2. Pressed(k, 0) = {} /\ Released(k, 0) = {}
      BY <3>1, Marks
    <3>3. Due(k, 0) = {} /\ DueLocks(k, p, 0) = {}
      BY DEF Due, DueLocks
    <3>4. 0 \in 0 .. CallLength(k) - 1 /\ s # <<>>
      BY <2>1
    <3> QED BY <3>2, <3>3, <3>4
  <2>3. todo'[u] = s /\ Remains(s, 0, s)
    <3>1. Len(s) = Len(s) - 0 /\ \A j \in 1..Len(s) : s[j] = s[0 + j]
      BY <2>1
    <3> QED BY <1>2, <1>7, <3>1 DEF Remains
  <2>4. ASSUME Linked', p, LockFlags[k] # {}, NotAgain(k, 0)'
        PROVE  Scancode(k) \notin remoteKeys'
    <3>1. remoteKeys \subseteq {Scancode(n) : n \in keysymState}
      BY <1>3, <1>5, <2>4 DEF Matches, Down
    <3>2. k \notin keysymState /\ keysymState \subseteq Keys
      BY <1>2, <2>4 DEF NotAgain, KeyInv, RunInv, Typed, KeyTypes, kbVars
    <3>3. \A n \in Keys \ {k} : Scancode(n) # Scancode(k)
      BY <2>4, KeymapAssumption DEF Scancode
    <3> QED
      BY <1>2, <3>1, <3>2, <3>3 DEF remote
  <2> HIDE DEF s
  <2>5. CallMatches(k, p, 0)'
    <3>1. Linked' => Matches(Pressed(k, 0), Released(k, 0), Due(k, 0), DueLocks(k, p, 0))'
      BY <1>5, <2>2
    <3>2. Linked' /\ p /\ LockFlags[k] # {} /\ NotAgain(k, 0)' => Scancode(k) \notin remoteKeys'
      BY <2>4
    <3>3. ~(0 >= 1) /\ ~(0 >= 2) /\ ~(0 >= 3)
      OBVIOUS
    <3> QED
      BY <3>1, <3>2, <3>3, Zenon DEF CallMatches
  <2>6. s = UpdateKeysym(k, p)
    BY DEF s
  <2>7. (p => k \in held'[u]) /\ keysymState' \subseteq held'[u] \union {k}
    BY <1>2, <1>3 DEF kbVars
  <2>8. InCall(u, k, p, 0)'
    <3>1. Remains(UpdateKeysym(k, p), 0, todo[u])'
      BY <2>3, <2>6
    <3> QED
      BY <2>5, <2>7, <3>1 DEF InCall
  <2>9. TypesRight(u)'
    BY <2>2, <2>3, <2>6, <2>8 DEF TypesRight
  <2> QED
    BY <1>4, <2>9 DEF TypingInv
<1> QED
  BY <1>6, <1>7

\* A step that only moves the client thread, or not even that.
LEMMA KeyboardUntouched ==
  ASSUME KeyInv,
         UNCHANGED <<rdpInst, kbVars, remote, typing, dropped, session>>,
         \/ thread' \in {thread, "blocked"}
         \/ thread' \in {"connected", "loop", "disconnected", "done"}
            /\ thread \in {"connect", "connected", "loop"}
         \/ thread' \in {"start", "done"} /\ ~keyboardLive
  PROVE  KeyboardLife' /\ TypingInv'
<1>1. KeyboardLife'
  BY DEF KeyInv, KeyboardLife, kbVars, typing
<1>2. (Linked' => Linked) /\ \A t \in Users : Freed(t) => Freed(t)'
  BY DEF Linked, Freed, kbVars, typing
<1>3. TypingInv'
  BY <1>2, TypingKept DEF KeyInv, kbVars, typing
<1> QED
  BY <1>1, <1>3

\* The keyboard of a session is new, and no call has it yet.
LEMMA PrepareKeepsKeyInv ==
  ASSUME KeyInv, Prepare
  PROVE  KeyboardLife' /\ TypingInv'
<1>1. /\ thread = "keyboard" /\ thread' = "connect" /\ keyboard' = session /\ session' = session
      /\ keyboardLive' = TRUE /\ lockFlags' = {} /\ synchronized' = FALSE
      /\ keysymState' = {} /\ dropped' = FALSE
      /\ UNCHANGED <<rdpInst, todo, using, held>>
  BY DEF Prepare, typing
<1>2. /\ keyboard < session /\ rdpInst = 0 /\ session \in Nat /\ keyboard \in Nat
      /\ \A t \in Users : using[t] <= keyboard /\ using[t] \in Nat
  BY <1>1, SessionAssumption DEF KeyInv, KeyboardLife, RunInv, LockInv, ThreadInv, Typed,
                                 ThreadTypes, LinkTypes, CallTypes
<1>3. session # 0 /\ \A t \in Users : using[t] <= session /\ using[t] # session
  BY <1>2
<1>4. KeyboardLife'
  BY <1>1, <1>2, <1>3 DEF KeyboardLife
<1>5. ~Linked' /\ \A t \in Users : Freed(t)'
  BY <1>1, <1>2, <1>3 DEF Linked, Freed
<1>6. TypingInv'
  <2> SUFFICES ASSUME NEW t \in Users PROVE TypesRight(t)'
    BY DEF TypingInv
  <2>1. TypesRight(t)
    BY DEF KeyInv, TypingInv
  <2>2. AtRest(t)'
    BY <1>1, <1>5 DEF AtRest
  <2>3. ASSUME NEW k \in Keys, NEW p \in BOOLEAN, NEW i \in 0 .. CallLength(k) - 1,
               InCall(t, k, p, i)
        PROVE  InCall(t, k, p, i)'
    BY <1>1, <1>5, <2>3 DEF InCall
  <2> QED
    BY <1>1, <2>1, <2>2, <2>3 DEF TypesRight
<1> QED
  BY <1>4, <1>6

\* The session starts with no key down, and the keyboard has not spoken yet or
\* was not heard.
LEMMA ConnectKeepsKeyInv ==
  ASSUME KeyInv, Connect
  PROVE  KeyboardLife' /\ TypingInv'
<1>1. /\ thread = "connect" /\ thread' = "connected" /\ rdpInst' = session
      /\ session' = session /\ remoteKeys' = {}
      /\ UNCHANGED <<keyboard, keyboardLive, lockFlags, synchronized, keysymState,
                     dropped, todo, using, held>>
  BY DEF Connect, kbVars, typing
<1>2. KeyboardLife'
  BY <1>1 DEF KeyInv, KeyboardLife
<1>3. Linked' => ~synchronized /\ keysymState = {} /\ lockFlags = {}
  BY <1>1 DEF Linked, KeyInv, KeyboardLife
<1>4. Linked' => Matches({}, {}, {}, {})'
  <2>1. ASSUME keysymState' = {}, ~synchronized', remoteKeys' = {}
        PROVE  Matches({}, {}, {}, {})'
    BY <2>1 DEF Matches
  <2> QED
    BY <1>1, <1>3, <2>1
<1>5. ASSUME NEW t \in Users PROVE TypesRight(t)'
  <2>1. TypesRight(t)
    BY DEF KeyInv, TypingInv
  <2>2. AtRest(t) => AtRest(t)'
    BY <1>1, <1>4 DEF AtRest
  <2>3. ASSUME NEW k \in Keys, NEW p \in BOOLEAN, NEW i \in 0 .. CallLength(k) - 1,
               InCall(t, k, p, i)
        PROVE  InCall(t, k, p, i)'
    <3>1. i \in Nat
      BY CallNumbers
    <3>2. ASSUME CallMatches(k, p, i), Linked'
          PROVE  /\ Matches(Pressed(k, i), Released(k, i), Due(k, i), DueLocks(k, p, i))'
                 /\ Scancode(k) \notin remoteKeys'
      <4>1. i = 0
        BY <1>3, <3>1, <3>2 DEF CallMatches
      <4>2. /\ Pressed(k, i) = {} /\ Released(k, i) = {}
            /\ Due(k, i) = {} /\ DueLocks(k, p, i) = {}
        <5>1. i <= 3 /\ ~(2 <= i)
          BY <4>1
        <5> QED
          BY <3>1, <5>1, Marks DEF Due, DueLocks
      <4> QED
        BY <1>1, <1>4, <3>2, <4>2
    <3>3. ASSUME CallMatches(k, p, i) PROVE CallMatches(k, p, i)'
      BY <1>1, <3>2, <3>3 DEF CallMatches
    <3> QED
      BY <1>1, <2>3, <3>3 DEF InCall, Freed
  <2> QED
    BY <1>1, <2>1, <2>2, <2>3 DEF TypesRight
<1> QED
  BY <1>2, <1>5 DEF TypingInv

\* Sessions end and begin.
LEMMA ClientThreadKeepsKeyInv ==
  ASSUME KeyInv, ClientThread
  PROVE  KeyboardLife' /\ TypingInv'
<1>1. CASE Start
  <2>1. CASE running
    <3>1. /\ thread' = "keyboard" /\ session' = session + 1 /\ ~keyboardLive
          /\ UNCHANGED <<rdpInst, kbVars, remote, typing, dropped>>
      BY <1>1, <2>1 DEF Start, KeyInv, KeyboardLife, keyboardVars
    <3>2. keyboard <= session /\ session \in Nat /\ keyboard \in Nat
      BY SessionAssumption DEF KeyInv, KeyboardLife, RunInv, Typed, ThreadTypes, LinkTypes
    <3>3. keyboard <= session' /\ keyboard < session'
      BY <3>1, <3>2
    <3>4. KeyboardLife'
      BY <3>1, <3>3 DEF KeyInv, KeyboardLife, kbVars, typing
    <3>5. (Linked' => Linked) /\ \A t \in Users : Freed(t) => Freed(t)'
      BY <3>1 DEF Linked, Freed, kbVars, typing
    <3>6. TypingInv'
      BY <3>1, <3>5, TypingKept DEF KeyInv, kbVars, typing
    <3> QED
      BY <3>4, <3>6
  <2>2. CASE ~running
    <3>1. ~keyboardLive
      BY <1>1 DEF Start, KeyInv, KeyboardLife
    <3> QED
      BY <1>1, <2>2, <3>1, KeyboardUntouched DEF Start, keyboardVars
  <2> QED BY <2>1, <2>2
<1>2. CASE Prepare
  BY <1>2, PrepareKeepsKeyInv
<1>3. CASE Connect
  BY <1>3, ConnectKeepsKeyInv
<1>4. CASE ConnectFails
  BY <1>4, KeyboardUntouched DEF ConnectFails, keyboardVars
<1>5. CASE ReconnectComplete
  BY <1>5, KeyboardUntouched DEF ReconnectComplete, keyboardVars
<1>6. CASE ServerCloses
  BY <1>6, KeyboardUntouched DEF ServerCloses, keyboardVars
<1>7. CASE Disconnect
  BY <1>7, KeyboardUntouched DEF Disconnect
<1>8. CASE ForgetInstance
  <2>1. /\ thread' = "forgotten" /\ rdpInst' = 0 /\ session' = session
        /\ UNCHANGED <<kbVars, remote, typing, dropped>>
    BY <1>8 DEF ForgetInstance, InstanceAfter
  <2>2. KeyboardLife'
    BY <2>1 DEF KeyInv, KeyboardLife, kbVars, typing
  <2>3. (Linked' => Linked) /\ \A t \in Users : Freed(t) => Freed(t)'
    BY <2>1 DEF Linked, Freed, kbVars, typing, KeyInv, KeyboardLife
  <2>4. TypingInv'
    BY <2>1, <2>3, TypingKept DEF KeyInv, kbVars, typing
  <2> QED BY <2>2, <2>4
<1>9. CASE FreeKeyboard
  <2>1. /\ thread' = "freeing" /\ keyboardLive' = FALSE
        /\ UNCHANGED <<rdpInst, keyboard, lockFlags, synchronized, keysymState, repeated,
                       remote, typing, dropped, session>>
    BY <1>9 DEF FreeKeyboard
  <2>2. KeyboardLife'
    BY <2>1 DEF KeyInv, KeyboardLife, typing
  <2>3. (Linked' => Linked) /\ \A t \in Users : Freed(t) => Freed(t)'
    BY <2>1 DEF Linked, Freed
  <2>4. TypingInv'
    BY <2>1, <2>3, TypingKept DEF KeyInv, typing
  <2> QED BY <2>2, <2>4
<1>10. CASE FreeDisplay
  <2>1. ~keyboardLive
    BY <1>10 DEF FreeDisplay, KeyInv, KeyboardLife
  <2> QED
    BY <1>10, <2>1, KeyboardUntouched DEF FreeDisplay
<1>11. CASE Resized
  BY <1>11, KeyboardUntouched DEF Resized, keyboardVars, sessionVars
<1> QED
  BY <1>1, <1>2, <1>3, <1>4, <1>5, <1>6, <1>7, <1>8, <1>9, <1>10, <1>11 DEF ClientThread

LEMMA NextKeepsKeyInv ==
  ASSUME NEW u, Users = {u}, KeyInv, [Next]_vars
  PROVE  KeyInv'
<1>1. RunInv' /\ Typed'
  BY NextKeepsRun DEF KeyInv, RunInv
<1>2. CASE ClientThread
  BY <1>1, <1>2, ClientThreadKeepsKeyInv DEF KeyInv
<1>3. CASE Stop \/ Block \/ UseDisplay \/ \E mask \in SUBSET plan.buttons : Mouse(mask)
  <2>1. /\ UNCHANGED <<rdpInst, kbVars, remote, typing, dropped, session>>
        /\ thread' \in {thread, "blocked"}
    BY <1>3 DEF Stop, Block, UseDisplay, Mouse, keyboardVars, sessionVars
  <2> QED
    BY <1>1, <2>1, KeyboardUntouched DEF KeyInv
<1>4. ASSUME NEW t \in Users, Keyed(t) PROVE KeyInv'
  BY <1>1, <1>4, TypingKeepsKeyInv DEF KeyInv
<1>5. ASSUME NEW t \in Users, SetSize(t) PROVE KeyInv'
  <2>1. UNCHANGED <<rdpInst, kbVars, remote, typing, dropped, session, thread>>
    BY <1>5 DEF SetSize, Miscalculates, sessionVars
  <2> QED
    BY <1>1, <2>1, KeyboardUntouched DEF KeyInv
<1>6. ASSUME NEW t \in Users, NEW k \in plan.keys, PressOrRelease(t, k) PROVE KeyInv'
  <2>1. k \in Keys
    BY SessionAssumption DEF KeyInv, RunInv, Typed, SizeInv
  <2> QED
    BY <1>1, <1>6, <2>1, KeyKeepsKeyInv DEF KeyInv
<1>7. ASSUME NEW t \in Users, NEW wh \in plan.sizes, Resize(t, wh) PROVE KeyInv'
  <2>1. UNCHANGED <<rdpInst, kbVars, remote, typing, dropped, session, thread>>
    BY <1>7 DEF Resize, Miscalculates, sessionVars, keyboardVars
  <2> QED
    BY <1>1, <2>1, KeyboardUntouched DEF KeyInv
<1>8. CASE UNCHANGED vars
  <2>1. UNCHANGED <<rdpInst, kbVars, remote, typing, dropped, session, thread>>
    BY <1>8 DEF vars, sessionVars, keyboardVars
  <2> QED
    BY <1>1, <2>1, KeyboardUntouched DEF KeyInv
<1> QED
  BY <1>2, <1>3, <1>4, <1>5, <1>6, <1>7, <1>8 DEF Next

LEMMA InitKeyInv ==
  ASSUME Init PROVE KeyInv
<1>1. KeyboardLife
  BY DEF Init, KeyboardLife
<1>2. TypingInv
  BY DEF Init, TypingInv, TypesRight, AtRest, Linked
<1> QED
  BY <1>1, <1>2, InitRun DEF KeyInv

\* What the invariant says of a session between calls.
LEMMA RestIsRestored ==
  ASSUME NEW u, Users = {u}, KeyInv
  PROVE  KeysRestored
<1> SUFFICES ASSUME Settled
             PROVE  /\ remoteKeys \subseteq Down
                    /\ \A m \in Modifiers : m \in keysymState => Scancode(m) \in remoteKeys
                    /\ synchronized /\ ~repeated => remoteLocks = lockFlags
  BY DEF KeysRestored
<1>1. Linked /\ todo[u] = <<>>
  BY DEF Settled, Linked
<1>2. Matches({}, {}, {}, {})
  BY <1>1 DEF KeyInv, TypingInv, TypesRight, AtRest
<1> QED
  BY <1>2 DEF Matches, Toggle

\* ... and of one that gets the event of a keysym.
LEMMA HeldForTarget ==
  ASSUME KeyInv
  PROVE  PrerequisitesHeld
<1> SUFFICES ASSUME NEW t \in Users, At(t, "key"), ~Freed(t), ~dropped,
                    Modifiers \intersect {Head(todo[t]).key} = {}
             PROVE  LET k == Head(todo[t]).key IN
                    /\ \A m \in ToSet(Keymap[k].set) : Scancode(m) \in remoteKeys
                    /\ \A m \in ToSet(Keymap[k].clear) : Scancode(m) \notin remoteKeys
                    /\ ~repeated => Keymap[k].setLocks \subseteq remoteLocks
  BY DEF PrerequisitesHeld
<1>1. todo[t] # <<>>
  BY DEF At
<1>2. PICK k \in Keys, p \in BOOLEAN : \E i \in 0 .. CallLength(k) - 1 : InCall(t, k, p, i)
  BY <1>1 DEF KeyInv, TypingInv, TypesRight
<1>3. PICK i \in 0 .. CallLength(k) - 1 : InCall(t, k, p, i)
  BY <1>2
<1>4. IsPlace(k, p, i, Head(todo[t])) /\ KeyStep(k) \in Nat /\ KeyStep(k) >= 4
  BY <1>3, CallAt DEF KeyInv, RunInv
<1>5. i = KeyStep(k) - 1 /\ Head(todo[t]).key = k
  BY <1>4, PlaceOfKind DEF At
<1> DEFINE P == ToSet(Keymap[k].set)
           R == ToSet(Keymap[k].clear)
<1>6. i >= 3 /\ i \in Nat /\ 2 <= i /\ i < KeyStep(k)
  BY <1>4, <1>5
<1>7. Pressed(k, i) = P /\ Released(k, i) = R
  BY <1>5, <1>6, Marks
<1>8. Due(k, i) = {k} /\ (LockFlags[k] = {} => DueLocks(k, p, i) = {})
  BY <1>6 DEF Due, DueLocks
<1>9. CallMatches(k, p, i)
  BY <1>3 DEF InCall
<1>10. Linked
  BY <1>6, <1>9 DEF CallMatches, Linked, Freed
<1>11. Matches(P, R, {k}, DueLocks(k, p, i)) /\ synchronized /\ Keymap[k].setLocks \subseteq lockFlags
  BY <1>6, <1>7, <1>8, <1>9, <1>10 DEF CallMatches
<1>12. P \subseteq Modifiers \ {k} /\ R \subseteq Modifiers \ {k} /\ P \intersect R = {}
  BY <1>5, ModifierKeys
<1> HIDE DEF P, R
<1>13. /\ \A m \in P : Scancode(m) \in remoteKeys
       /\ \A m \in R : Scancode(m) \notin remoteKeys
  BY <1>11, <1>12 DEF Matches
<1>14. ~repeated => Keymap[k].setLocks \subseteq remoteLocks
  <2>1. CASE LockFlags[k] = {}
    BY <1>8, <1>11, <2>1 DEF Matches, Toggle
  <2>2. CASE LockFlags[k] # {}
    BY <2>2, KeymapAssumption
  <2> QED BY <2>1, <2>2
<1> QED
  BY <1>5, <1>13, <1>14 DEF P, R

\* One user types, sessions end and begin: between calls the modifiers of the
\* session are as they are held, and its locks as the keyboard has them.  (The
\* calls of two users mix, because rdp_lock is taken for each event only, and
\* leave modifiers down: README.md.)
THEOREM KeysAreRestored ==
  ASSUME NEW u, Users = {u}
  PROVE  Spec => []KeysRestored
<1>1. Init => KeyInv
  BY InitKeyInv
<1>2. KeyInv /\ [Next]_vars => KeyInv'
  BY NextKeepsKeyInv
<1>3. KeyInv => KeysRestored
  BY RestIsRestored
<1> QED
  BY <1>1, <1>2, <1>3, PTL DEF Spec

\* One user types: a keysym goes to the session with the modifiers and locks
\* that its mapping asks for.
THEOREM KeysArePrepared ==
  ASSUME NEW u, Users = {u}
  PROVE  Spec => []PrerequisitesHeld
<1>1. Init => KeyInv
  BY InitKeyInv
<1>2. KeyInv /\ [Next]_vars => KeyInv'
  BY NextKeepsKeyInv
<1>3. KeyInv => PrerequisitesHeld
  BY HeldForTarget
<1> QED
  BY <1>1, <1>2, <1>3, PTL DEF Spec
=============================================================================
