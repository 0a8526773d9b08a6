SPECIFICATION Spec
CONSTANTS
  Modes <- SomeModes
  MaxChanges = 3
  Windows <- NoWindows
INVARIANT MacModeFollowsPhy
\* The boot ends and the cable may stay as it is for ever.
CHECK_DEADLOCK FALSE
