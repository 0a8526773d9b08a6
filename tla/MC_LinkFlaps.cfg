SPECIFICATION FairSpec
CONSTANTS
  Modes <- SomeModes
  MaxChanges = 6
  Windows <- Anywhere
INVARIANT UpMeansRunning
INVARIANT LatchedMeansPending
PROPERTY CallbackAgrees
PROPERTY LinkFollowed
\* The boot ends and the cable may stay as it is for ever.
CHECK_DEADLOCK FALSE
