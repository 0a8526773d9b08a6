SPECIFICATION FairSpec
CONSTANTS
  N = 3
  MaxSegs = 2
  Windows = {"between"}
  MaxFrames = 5
INVARIANT CopiesIntoOwnBuffers
INVARIANT ToSetInStep
INVARIANT NoLostDemand
INVARIANT OkMeansQueued
PROPERTY ImplementsService
PROPERTY AcceptedAreSent
\* Nobody has to send.
CHECK_DEADLOCK FALSE
