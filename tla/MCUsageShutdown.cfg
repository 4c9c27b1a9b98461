\* The claim about a clean shutdown.
CONSTANTS
  Requests = {r1, r2}
  Nodes = {n1}
  None = None
  QueueSize = 2
  Durable = TRUE
SPECIFICATION UseSpec
INVARIANT ShutdownKeepsUsage
