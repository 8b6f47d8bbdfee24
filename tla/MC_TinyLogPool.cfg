\* Default logCount = 1, logQueue never full: shutdown commits every log.
CONSTANTS
  d1 = d1  d2 = d2
  Dispatchers = {d1}
  PoolCapacity = 4
  MaxLogs = 4
SPECIFICATION Spec
PROPERTY ShutdownCommitsAll
\* After close() every goroutine of the pool has exited: the program stops.
CHECK_DEADLOCK FALSE
