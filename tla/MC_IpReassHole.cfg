SPECIFICATION ReassSpec
CONSTANTS
  Frags <- FourFrags
  IP_REASS_MAX_PBUFS = 10
  MEMP_NUM_REASSDATA = 5
INVARIANT ReassembledWhole
CHECK_DEADLOCK FALSE
