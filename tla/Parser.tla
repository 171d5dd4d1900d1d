------------------------------- MODULE Parser -------------------------------
(***************************************************************************)
(* The parser of Guacamole instructions (libguac's parser.c).  The bytes of *)
(* a socket come in pieces of any size; guac_parser_read puts them into a  *)
(* buffer of a fixed size, parses what is there with guac_parser_append    *)
(* and asks for more until an instruction is complete.  Elements of the    *)
(* instruction are pointers into the buffer, which moves.                  *)
(*                                                                         *)
(* A step is a branch of the loops of guac_parser_append, or what          *)
(* guac_parser_read does between two calls of it.  A parser is used by one *)
(* thread, and by nobody after a call of guac_parser_read that failed.     *)
(*                                                                         *)
(* An element is a sequence of characters, a character the sequence of its *)
(* bytes.  "L" is the first byte of a character of two bytes, "T" the      *)
(* second one, "0" the terminating null byte.                              *)
(***************************************************************************)
EXTENDS Naturals, Sequences, SequencesExt

CONSTANTS
  Inputs,      \* what a socket delivers: instructions, then other bytes
  Capacity,    \* bytes of __instructionbuf
  MaxElements, \* GUAC_INSTRUCTION_MAX_ELEMENTS
  MaxLength,   \* GUAC_INSTRUCTION_MAX_LENGTH, of an element
  Base         \* of the numbers, 10; scaled down to have numbers of two digits

ASSUME SizeAssumption ==
  Capacity \in Nat \ {0} /\ MaxElements \in Nat \ {0} /\ MaxLength \in Nat
ASSUME BaseAssumption == Base \in 2..10

\* guac_utf8_charsize
CharSize(byte) == IF byte = "L" THEN 2 ELSE 1

IsCharacter(c) ==
  /\ c # <<>> /\ Len(c) = CharSize(c[1])
  /\ \A b \in 1..Len(c) : c[b] # "0"

\* What follows the instructions does not complete another one.
ASSUME InputAssumption == \A in \in Inputs :
  /\ in.instructions \in Seq(Seq(Seq(Seq(STRING)))) /\ in.rest \in Seq(STRING)
  /\ \A k \in 1..Len(in.instructions) :
       LET elements == in.instructions[k]
       IN  /\ elements # <<>>
           /\ \A i \in 1..Len(elements) : \A c \in 1..Len(elements[i]) :
                IsCharacter(elements[i][c])
  /\ \A b \in 1..Len(in.rest) : in.rest[b] # ";"

VARIABLES
  input,             \* the element of Inputs
  arrived,           \* how many of its bytes were read from the socket
  state,             \* of the parser
  __element_length,  \* characters of the current element still to come
  __elementv,        \* where the elements begin
  instructionbuf,    \* __instructionbuf
  instr_start, unparsed_start, unparsed_end,
  at,                \* where guac_parser_read is; "idle" outside of it
  pos,               \* char_buffer of guac_parser_append
  parsed_length,
  delivered,         \* the instructions that were returned
  shifted,           \* the bytes that guac_parser_shift handed over
  failure            \* why guac_parser_read failed

parserVars == <<state, __element_length, __elementv>>
bufferVars == <<instructionbuf, instr_start, unparsed_start, unparsed_end>>
localVars == <<pos, parsed_length>>
outVars == <<delivered, shifted, failure>>
allVars == <<input, arrived, parserVars, bufferVars, at, localVars, outVars>>

-----------------------------------------------------------------------------
(* How instructions are written.                                           *)
DigitSymbols == <<"d0", "d1", "d2", "d3", "d4", "d5", "d6", "d7", "d8", "d9">>
Digit(n) == DigitSymbols[n + 1]
IsDigit(byte) == \E i \in 1..Base : DigitSymbols[i] = byte
Value(byte) == (CHOOSE i \in 1..Base : DigitSymbols[i] = byte) - 1

Number(n) ==
  LET Digits[m \in 0..n] == IF m < Base THEN <<Digit(m)>>
                            ELSE Append(Digits[m \div Base], Digit(m % Base))
  IN  Digits[n]

Element(e) == Number(Len(e)) \o <<".">> \o FlattenSeq(e)
Instruction(elements) ==
  FlattenSeq([i \in 1..Len(elements) |->
    Element(elements[i]) \o <<IF i = Len(elements) THEN ";" ELSE ",">>])
Bytes == FlattenSeq([i \in 1..Len(input.instructions) |->
           Instruction(input.instructions[i])]) \o input.rest

-----------------------------------------------------------------------------
InitParser ==
  /\ input \in Inputs
  /\ arrived = 0
  /\ state = "LENGTH"
  /\ __element_length = 0
  /\ __elementv = <<>>
  /\ instructionbuf = [p \in 0..(Capacity - 1) |-> "0"]
  /\ instr_start = 0 /\ unparsed_start = 0 /\ unparsed_end = 0
  /\ at = "idle"
  /\ pos = 0 /\ parsed_length = 0
  /\ delivered = <<>> /\ shifted = <<>>
  /\ failure = "none"

(* guac_parser_read is called; a completed instruction is forgotten.       *)
Read ==
  /\ at = "idle" /\ shifted = <<>>
  /\ instr_start' = unparsed_start
  /\ IF state = "COMPLETE"
     THEN state' = "LENGTH" /\ __element_length' = 0 /\ __elementv' = <<>>
     ELSE UNCHANGED parserVars
  /\ at' = "append"
  /\ UNCHANGED <<input, arrived, instructionbuf, unparsed_start, unparsed_end,
                 localVars, outVars>>

\* guac_parser_append returns.
Error == state' = "ERROR" /\ at' = "appended"

(* guac_parser_append: no more elements than the maximum ...               *)
TooManyElements ==
  /\ at = "append" /\ Len(__elementv) = MaxElements
  /\ Error
  /\ UNCHANGED <<input, arrived, __element_length, __elementv, bufferVars,
                 localVars, outVars>>

(* ... otherwise it goes on where the last call left off.                  *)
Resume ==
  /\ at = "append" /\ Len(__elementv) # MaxElements
  /\ at' = IF state = "LENGTH" THEN "length" ELSE "content"
  /\ pos' = unparsed_start
  /\ parsed_length' = __element_length
  /\ UNCHANGED <<input, arrived, parserVars, bufferVars, outVars>>

(* The length: a digit ...                                                 *)
LengthDigit ==
  /\ at = "length" /\ pos < unparsed_end
  /\ IsDigit(instructionbuf[pos])
  /\ parsed_length' = parsed_length * Base + Value(instructionbuf[pos])
  /\ pos' = pos + 1
  /\ UNCHANGED <<input, arrived, parserVars, bufferVars, at, outVars>>

(* ... the period, after which the content begins ...                      *)
LengthPeriod ==
  /\ at = "length" /\ pos < unparsed_end
  /\ instructionbuf[pos] = "."
  /\ __elementv' = Append(__elementv, pos + 1)
  /\ state' = "CONTENT"
  /\ at' = "lengthEnd"
  /\ pos' = pos + 1
  /\ UNCHANGED <<input, arrived, __element_length, bufferVars, parsed_length,
                 outVars>>

(* ... anything else is an error.                                          *)
LengthOther ==
  /\ at = "length" /\ pos < unparsed_end
  /\ ~IsDigit(instructionbuf[pos]) /\ instructionbuf[pos] # "."
  /\ Error
  /\ UNCHANGED <<input, arrived, __element_length, __elementv, bufferVars,
                 localVars, outVars>>

(* The buffer may end first.                                               *)
LengthOut ==
  /\ at = "length" /\ pos = unparsed_end
  /\ at' = "lengthEnd"
  /\ UNCHANGED <<input, arrived, parserVars, bufferVars, localVars, outVars>>

\* The length so far is forgotten.
MutantForgetsDigits == 0
\* The length is saved for the content, or for the next call.
SavedLength == parsed_length

LengthEnd ==
  /\ at = "lengthEnd"
  /\ IF parsed_length > MaxLength
     THEN Error /\ UNCHANGED __element_length
     ELSE /\ __element_length' = SavedLength
          /\ at' = IF state = "CONTENT" THEN "content" ELSE "appended"
          /\ UNCHANGED state
  /\ UNCHANGED <<input, arrived, __elementv, bufferVars, localVars, outVars>>

\* A whole character is there.
CharacterThere ==
  pos < unparsed_end /\ pos + CharSize(instructionbuf[pos]) <= unparsed_end

(* The content: a character ...                                            *)
ContentCharacter ==
  /\ at = "content" /\ CharacterThere /\ __element_length > 0
  /\ __element_length' = __element_length - 1
  /\ pos' = pos + CharSize(instructionbuf[pos])
  /\ UNCHANGED <<input, arrived, state, __elementv, bufferVars, at,
                 parsed_length, outVars>>

(* ... the terminator, which a null byte replaces, or an error ...         *)
ContentTerminator ==
  /\ at = "content" /\ CharacterThere /\ __element_length = 0
  /\ instructionbuf' = [instructionbuf EXCEPT ![pos] = "0"]
  /\ state' = CASE instructionbuf[pos] = ";" -> "COMPLETE"
                [] instructionbuf[pos] = "," -> "LENGTH"
                [] OTHER -> "ERROR"
  /\ at' = "appended"
  /\ pos' = pos + CharSize(instructionbuf[pos])
  /\ UNCHANGED <<input, arrived, __element_length, __elementv, instr_start,
                 unparsed_start, unparsed_end, parsed_length, outVars>>

(* ... or the end of what is there.                                        *)
ContentOut ==
  /\ at = "content" /\ ~CharacterThere
  /\ at' = "appended"
  /\ UNCHANGED <<input, arrived, parserVars, bufferVars, localVars, outVars>>

-----------------------------------------------------------------------------
\* The element that begins at p, up to its null byte.
Content(p) ==
  LET end == CHOOSE q \in p..(Capacity - 1) :
        instructionbuf[q] = "0" /\ \A r \in p..(q - 1) : instructionbuf[r] # "0"
  IN  [i \in 1..(end - p) |-> instructionbuf[p + i - 1]]

Fail(reason) == at' = "failed" /\ failure' = reason

(* guac_parser_read: something was parsed ...                              *)
Parsed ==
  /\ at = "appended" /\ state # "ERROR" /\ pos > unparsed_start
  /\ unparsed_start' = pos
  /\ IF state = "COMPLETE"
     THEN /\ at' = "idle"
          /\ delivered' = Append(delivered,
               [i \in 1..Len(__elementv) |-> Content(__elementv[i])])
     ELSE at' = "append" /\ UNCHANGED delivered
  /\ UNCHANGED <<input, arrived, parserVars, instructionbuf, instr_start,
                 unparsed_end, localVars, shifted, failure>>

(* ... nothing can be parsed ...                                           *)
ParseError ==
  /\ at = "appended" /\ state = "ERROR"
  /\ Fail("parse")
  /\ UNCHANGED <<input, arrived, parserVars, bufferVars, localVars, delivered,
                 shifted>>

\* The parser tries again with what it has.
MutantTriesAgain == "append"
WhenOut == "fill"

(* ... or more is needed.                                                  *)
NeedMore ==
  /\ at = "appended" /\ state # "ERROR" /\ pos = unparsed_start
  /\ at' = WhenOut
  /\ UNCHANGED <<input, arrived, parserVars, bufferVars, localVars, outVars>>

\* The elements stay where they are.
MutantForgetsElements(offset) == __elementv
ElementsMoved(offset) ==
  [i \in 1..Len(__elementv) |-> __elementv[i] - offset]

(* A full buffer: the instruction is moved to its beginning ...            *)
ShiftBuffer ==
  /\ at = "fill" /\ unparsed_end = Capacity /\ instr_start # 0
  /\ instructionbuf' = [p \in 0..(Capacity - 1) |->
       IF p < Capacity - instr_start THEN instructionbuf[p + instr_start]
                                     ELSE instructionbuf[p]]
  /\ unparsed_end' = unparsed_end - instr_start
  /\ unparsed_start' = unparsed_start - instr_start
  /\ instr_start' = 0
  /\ __elementv' = ElementsMoved(instr_start)
  /\ UNCHANGED <<input, arrived, state, __element_length, at, localVars, outVars>>

(* ... if it is not there already.                                         *)
NoMemory ==
  /\ at = "fill" /\ unparsed_end = Capacity /\ instr_start = 0
  /\ Fail("memory")
  /\ UNCHANGED <<input, arrived, parserVars, bufferVars, localVars, delivered,
                 shifted>>

(* A hundred calls of guac_socket_select had nothing.                      *)
Timeout ==
  /\ at = "fill" /\ unparsed_end < Capacity
  /\ Fail("timeout")
  /\ UNCHANGED <<input, arrived, parserVars, bufferVars, localVars, delivered,
                 shifted>>

(* guac_socket_read gets some of the bytes ...                             *)
Receive ==
  /\ at = "fill" /\ unparsed_end < Capacity
  /\ \E n \in 1..(Capacity - unparsed_end) :
       /\ arrived + n <= Len(Bytes)
       /\ instructionbuf' = [p \in 0..(Capacity - 1) |->
            IF p \in unparsed_end..(unparsed_end + n - 1)
            THEN Bytes[arrived + (p - unparsed_end) + 1]
            ELSE instructionbuf[p]]
       /\ unparsed_end' = unparsed_end + n
       /\ arrived' = arrived + n
  /\ at' = "append"
  /\ UNCHANGED <<input, parserVars, instr_start, unparsed_start, localVars,
                 outVars>>

(* ... or there are no more.                                               *)
Closed ==
  /\ at = "fill" /\ unparsed_end < Capacity /\ arrived = Len(Bytes)
  /\ Fail("closed")
  /\ UNCHANGED <<input, arrived, parserVars, bufferVars, localVars, delivered,
                 shifted>>

\* The bytes are handed over but stay.
MutantKeepsStart(n) == unparsed_start
AfterShift(n) == unparsed_start + n

(* guac_parser_shift hands over bytes that were not parsed, to somebody who *)
(* reads the socket from then on.                                          *)
Shift ==
  /\ at = "idle" /\ state = "COMPLETE" /\ unparsed_start < unparsed_end
  /\ \E n \in 1..(unparsed_end - unparsed_start) :
       /\ shifted' = shifted \o
            [i \in 1..n |-> instructionbuf[unparsed_start + i - 1]]
       /\ unparsed_start' = AfterShift(n)
  /\ UNCHANGED <<input, arrived, parserVars, instructionbuf, instr_start,
                 unparsed_end, at, localVars, delivered, failure>>

Step ==
  \/ TooManyElements \/ Resume
  \/ LengthDigit \/ LengthPeriod \/ LengthOther \/ LengthOut \/ LengthEnd
  \/ ContentCharacter \/ ContentTerminator \/ ContentOut
  \/ Parsed \/ ParseError \/ NeedMore \/ ShiftBuffer \/ NoMemory
  \/ Receive \/ Closed

NextParser == Read \/ Step \/ Timeout \/ Shift

\* A read goes on; what the socket has, it gives.
SpecParser == InitParser /\ [][NextParser]_allVars /\ WF_allVars(Step)

-----------------------------------------------------------------------------
\* The types, and the order of the pointers into the buffer.
ParserTypeOK ==
  /\ arrived \in 0..Len(Bytes)
  /\ state \in {"LENGTH", "CONTENT", "COMPLETE", "ERROR"}
  /\ __element_length \in 0..MaxLength
  /\ Len(__elementv) <= MaxElements
  /\ \A i \in 1..Len(__elementv) : __elementv[i] \in instr_start..unparsed_end
  /\ 0 <= instr_start /\ instr_start <= unparsed_start
  /\ unparsed_start <= unparsed_end /\ unparsed_end <= Capacity
  /\ at \in {"idle", "append", "length", "lengthEnd", "content", "appended",
             "fill", "failed"}
  /\ failure \in {"none", "parse", "memory", "timeout", "closed"}

\* What a receiver of the instructions expects: the content of every element.
Meant == [k \in 1..Len(input.instructions) |->
           [i \in 1..Len(input.instructions[k]) |->
             FlattenSeq(input.instructions[k][i])]]

\* However the bytes are cut into pieces, and wherever in the buffer an
\* instruction lies or is moved to, the instructions that are returned are
\* those that were sent, in order, and nothing else ever is.
InstructionsKept == ParserTypeOK /\ IsPrefix(delivered, Meant)

\* An instruction that the parser promises to take.
Regular(elements) ==
  /\ Len(elements) < MaxElements
  /\ \A i \in 1..Len(elements) : Len(elements[i]) <= MaxLength
  /\ Len(Instruction(elements)) <= Capacity

\* Nothing is refused that could be parsed: a failure other than a timeout
\* means that the next instruction is too big, or that there is none.
RefusedForCause ==
  failure \in {"parse", "memory", "closed"} =>
    \/ Len(delivered) = Len(input.instructions)
    \/ ~Regular(input.instructions[Len(delivered) + 1])

\* The bytes that are handed over are those after the last instruction that
\* was returned: none is lost in the buffer and none is given twice.
HandedOverInOrder == shifted # <<>> =>
  LET before == FlattenSeq([k \in 1..Len(delivered) |->
                             Instruction(input.instructions[k])])
  IN  IsPrefix(before \o shifted, Bytes)

\* A call of guac_parser_read returns, however little every read brings.
ReadReturns == at # "idle" ~> at \in {"idle", "failed"}
=============================================================================
