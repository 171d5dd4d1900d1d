------------------------------ MODULE MCParser ------------------------------
(* Instances of Parser for TLC: short instructions with characters of one  *)
(* and two bytes in a buffer that holds little more than one of them, and  *)
(* input that is none.                                                     *)
EXTENDS Parser

a == <<"a">>
u == <<"L", "T">>

Input(instructions, rest) == [instructions |-> instructions, rest |-> rest]

Short == <<<<a>>>>
Wide == <<<<u>>, <<a>>>>
Long == <<<<a, u>>, <<>>>>
MCInputs ==
  {Input(s, <<>>) : s \in [1..3 -> {Short, Wide, Long}]} \union {
  Input(<<Short, Long>>, <<"a">>),                       \* no length
  Input(<<Short, Wide>>, <<"d1", ".", "a", "a">>),       \* no terminator
  Input(<<Wide, Short>>, <<"d1", "d0", ".", "L">>),      \* the end too soon
  Input(<<Short, <<<<>>, <<>>, <<>>, <<>>>>>>, <<>>),    \* many elements
  Input(<<Short, <<<<a, a, a, a>>>>>>, <<>>),            \* a long element
  Input(<<Short, <<<<u, u, u>>, <<u>>>>>>, <<>>)}        \* a long instruction
=============================================================================
