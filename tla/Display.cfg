CONSTANTS
  QueueSize = 2
  NegligibleWidth = 1
  NegligibleHeight = 1
  DataFactor = 2
  BaseCost = 0
  NegligibleIncrease = 4
  FillFactor = 1
  BlockSize = 2
  JpegMinSize = 1
  SupportsWebp = TRUE
  Default = "layer"
  Buffers = {"buffer"}
  SizeOf <- TwoSizes
  Sizes <- NewSizes
  Requests <- SomeRequests
  Moves <- SomeMoves
  Spots <- SomeSpots
  Clips <- SomeClips
  Opacity = {TRUE, FALSE}
SPECIFICATION Spec
INVARIANTS
  QueueFits
  Shown
  JoinerShown
CHECK_DEADLOCK FALSE
CONSTRAINT Explored
