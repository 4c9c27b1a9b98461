SPECIFICATION RegFairSpec
CONSTANTS
  Nodes = {n1}
  Streams = {s1, s2}
  None = None
  Addrs = {TRUE, FALSE}
  ReapAfter = 2
PROPERTY LiveStreamHasHandle
