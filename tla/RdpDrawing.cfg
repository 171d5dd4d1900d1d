\* Two bitmaps and the screen, of two pixels each.
CONSTANTS
  b1 = b1
  b2 = b2
  Bitmaps = {b1, b2}
  Width = 2
  Screen = Screen
  None = None
  Images <- Pictures
SPECIFICATION Spec
SYMMETRY Alike
CONSTRAINT WithinBounds
INVARIANTS
  Faithful
  BuffersOwned
CHECK_DEADLOCK FALSE
