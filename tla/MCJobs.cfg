SPECIFICATION JobFairSpec
CONSTANTS
  Nodes = {n1}
  Streams = {s1, s2}
  None = None
  Addrs = {FALSE}
  ReapAfter = 0
  QueueSize = 1
  Window = 1
  JobIds = {j1}
  Grace = 3
  LiveKinds = {"RUNNING", "LOG"}
  Outcomes = {"SUCCEEDED"}
  MaxFaults = 2
INVARIANT JobTypeOK
PROPERTY NoFalseLoss
PROPERTY TerminalKept
PROPERTY JobsSettle
INVARIANT HandleSound
INVARIANT HandleLossExplained
PROPERTY SilenceNoticed
