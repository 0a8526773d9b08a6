SPECIFICATION Spec
CONSTANTS
  a = a
  b = b
  c = c
  m1 = m1
  m2 = m2
  N = 2
  Hosts = {a, b, c}
  NoHost = NoHost
  Macs = {m1, m2}
  NoMac = NoMac
  MaxAge = 3
  Rerequest = 2
  MaxPending = 2
  Windows <- Anywhere
  MaxPackets = 2
SYMMETRY Symmetric
PROPERTY DeliveredToOwnHost
