---------------------------- MODULE MCRdpSession ----------------------------
(* Instances of RdpSession for TLC: some keys of the en-us-qwerty keymap. *)
EXTENDS RdpSession

CONSTANTS u1, ShiftL, ShiftR, lowerA, upperA, NumLock, KP1, num, left

Desc(scancode, set, clear, setLocks) ==
  [scancode |-> scancode, set |-> set, clear |-> clear,
   setLocks |-> setLocks, clearLocks |-> {}]

EnUs == [k \in Keys |->
  CASE k = ShiftL  -> Desc(42, <<>>, <<>>, {})
    [] k = ShiftR  -> Desc(54, <<>>, <<>>, {})
    [] k = lowerA  -> Desc(30, <<>>, <<ShiftL, ShiftR>>, {})
    [] k = upperA  -> Desc(30, <<ShiftL>>, <<>>, {})
    [] k = NumLock -> Desc(69, <<>>, <<>>, {})
    [] k = KP1     -> Desc(79, <<>>, <<ShiftL, ShiftR>>, {num})]

EnUsLocks == [k \in Keys |-> IF k = NumLock THEN {num} ELSE {}]

First == <<1024, 768>>
Wide == <<1921, 1080>>
Narrow == <<3, 9000>>
Low == <<1001, 100>>
Strip == <<1, 600>>        \* nothing is left of it at half the resolution
Huge == <<20000, 600000>>  \* times 8192 it is no int, halved neither
Below == <<-100, 600>>
Asked == {First, Wide, Narrow, Low, Strip, Huge, Below}

Plan(keys, buttons, sizes, n, method, optimal) ==
  [keys |-> keys, buttons |-> buttons, sizes |-> sizes, resizes |-> n,
   method |-> method, optimal |-> optimal]
Planned ==
  {Plan({ShiftL, ShiftR, lowerA, upperA}, {}, {}, 0, "none", 96),
   Plan({ShiftL, NumLock, KP1}, {}, {}, 0, "none", 96),
   Plan({upperA}, {}, {Wide}, 1, "reconnect", 96),
   Plan({}, {left}, {First, Narrow, Low}, 3, "reconnect", 96),
   Plan({}, {}, {Strip, Wide, Huge, Below}, 2, "reconnect", 192),
   Plan({}, {}, {First, Wide, Low}, 2, "update", 96),
   Plan({}, {}, {First, Wide}, 1, "none", 0)}

\* A narrow size, at half the resolution.
Halved == {Plan({}, {}, {Strip}, 1, "none", 192)}
=============================================================================
