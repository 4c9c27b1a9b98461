SPECIFICATION SessFairSpec
CONSTANTS
  Tasks = {t1, t2}
  Supported = {t1}
  QueueSize = 2
  BackoffBase = 2
  BackoffCap = 5
CHECK_DEADLOCK FALSE
INVARIANT SessTypeOK
INVARIANT RegisterFirst
PROPERTY LostSessionRetried
PROPERTY ShutdownReturns
