SPECIFICATION FairSpec
CONSTANTS
  Size = 21
  Hdr = 2
  MinSize = 3
  Sizes <- MCSizes
  UpWindows <- AnyWindow
  DownWindows <- Idle
INVARIANT WellFormed
PROPERTY HeapImplements
PROPERTY MallocEnds
