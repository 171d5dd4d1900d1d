\* Instructions in pieces of any size.
CONSTANTS
  Inputs <- MCInputs
  Capacity = 11
  MaxElements = 3
  MaxLength = 3
  Base = 2
SPECIFICATION SpecParser
INVARIANTS
  InstructionsKept
  RefusedForCause
  HandedOverInOrder
PROPERTY ReadReturns
CHECK_DEADLOCK FALSE
