\* The ring of the firmware (ETH_RXBUFNB = 4), frames of one or two buffers.
SPECIFICATION FairSpec
CONSTANTS
  N = 4
  MaxSegs = 2
  FifoDepth = 2
  MaxFrames = 4
INVARIANTS
  CpuTouchesOwnDescriptors
  PollInStepWithDma
PROPERTIES
  ImplementsService
  DescriptorsReturn
  FifoDrains
CHECK_DEADLOCK FALSE
