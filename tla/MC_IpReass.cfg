SPECIFICATION ReassSpec
CONSTANTS
  Frags <- FewFrags
  IP_REASS_MAX_PBUFS = 5
  MEMP_NUM_REASSDATA = 3
INVARIANT Accounts
INVARIANT ReassembledWhole
INVARIANT NothingCompleteWaits
PROPERTY NeverAtItsOwnCost
CHECK_DEADLOCK FALSE
