SPECIFICATION Spec
CONSTANTS
  Size = 21
  Hdr = 2
  MinSize = 3
  Sizes <- MCSizes
  UpWindows <- NoWindow
  DownWindows <- SearchWindow
INVARIANT WellFormed
