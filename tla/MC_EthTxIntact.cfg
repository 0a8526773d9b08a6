SPECIFICATION Spec
CONSTANTS
  N = 4
  MaxSegs = 1
  Windows = {"between", "during"}
  MaxFrames = 6
INVARIANT WireIntact
\* Nobody has to send.
CHECK_DEADLOCK FALSE
