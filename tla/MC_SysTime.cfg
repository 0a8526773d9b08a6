SPECIFICATION FairSpec
CONSTANTS
  W = 31
  SlowMs = 2
  FastMs = 1
  PowerDelay = 2
  ResetDelay = 3
  RegDelays = 2
  Interval = 5
  MaxPass = 2
  MaxIrqs = 2
INVARIANT DelaysDoNotOverlap
PROPERTY DelayNotCutShort
PROPERTY ArpInTime
PROPERTY ArpKeepsRunning
