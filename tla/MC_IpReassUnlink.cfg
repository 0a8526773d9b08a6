SPECIFICATION ReassSpec
CONSTANTS
  Frags <- ThreeDatagrams
  IP_REASS_MAX_PBUFS = 4
  MEMP_NUM_REASSDATA = 3
INVARIANT ListIntact
CHECK_DEADLOCK FALSE
