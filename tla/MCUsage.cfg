\* Two requests over two nodes, a queue of one record, a JSONL file.
CONSTANTS
  Requests = {r1, r2}
  Nodes = {n1, n2}
  None = None
  QueueSize = 1
  Durable = FALSE
SPECIFICATION UseFairSpec
INVARIANTS UseTypeOK CloseFlushes
PROPERTIES ImplementsLedger CloseReturns
