SPECIFICATION Spec
CONSTANTS
  b1 = b1
  b2 = b2
  c1 = c1
  c2 = c2
  None = None
  Blocks <- SomeBlocks
  Channels <- SomeChannels
  BufferTypes = {"argb"}
  IdMod = 3
  MaxAllocs = 4
SYMMETRY Symmetry
INVARIANT RefsMatchHolders
INVARIANT NothingLostBeforeWrap
PROPERTY ObjectsKept
\* A user who has allocated all it may can stop.
CHECK_DEADLOCK FALSE
