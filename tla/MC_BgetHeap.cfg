SPECIFICATION BgetSpec
CONSTANTS
  Size = 24
  Hdr = 2
  SizeQ = 2
  Sizes <- MCSizes
INVARIANT BoundaryTags
PROPERTY BgetImplements
