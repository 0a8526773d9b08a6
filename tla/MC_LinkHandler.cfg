SPECIFICATION FairSpec
CONSTANTS
  Modes <- SomeModes
  MaxChanges = 3
  Windows <- InHandler
PROPERTY LinkAlwaysFollowed
\* The boot ends and the cable may stay as it is for ever.
CHECK_DEADLOCK FALSE
