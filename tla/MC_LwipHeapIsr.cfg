SPECIFICATION Spec
CONSTANTS
  Size = 24
  Hdr = 2
  MinSize = 3
  Sizes <- MCSizes
  UpWindows <- SplitWindow
  DownWindows <- NoWindow
INVARIANT WellFormed
