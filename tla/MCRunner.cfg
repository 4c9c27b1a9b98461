\* A pull with one status, two lines of output, a channel of one update.
CONSTANTS
  BufferSize = 1
  MaxStatus = 1
  MaxOutput = 2
SPECIFICATION RunnerFairSpec
INVARIANTS RunnerTypeOK OutputComplete NoContainerLeft
PROPERTIES ImplementsStream  CancelEnds
\* The job is over: nothing is left to do.
CHECK_DEADLOCK FALSE
