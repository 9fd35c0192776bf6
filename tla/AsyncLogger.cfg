\* One thread logs one message and may flush; then the logger is destroyed.
\* A flush() that reads size_ != 0 just before the worker empties the queue
\* misses the worker's only notify_all and never returns.
CONSTANTS
  l1 = l1
  l2 = l2
  w = w
  o = o
  Loggers <- OneLogger
  Worker = w
  Owner = o
  QueueSize = 2
  LogOps = 1
  FlushOps = 1
  BatchSize = 2
  SizeWidth = 3
  BlocksPerChunk = 2
  MaxChunks = 2

SPECIFICATION Spec
PROPERTY FlushReturns
CHECK_DEADLOCK FALSE
