SPECIFICATION FairSpec
CONSTANTS
  p1 = p1
  p2 = p2
  p3 = p3
  c1 = c1
  c2 = c2
  None = None
  Pbufs <- SomePbufs
  Channels <- SomeChannels
  Datagrams <- SomeDatagrams
  MaxDatagrams = 5
  IdMod = 16
  MaxAllocs = 15
PROPERTY RetainedPbufsFreed
\* The firmware stops in _exit, and the network may fall silent.
CHECK_DEADLOCK FALSE
