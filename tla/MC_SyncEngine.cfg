\* Write, window and fsync errors, flushes after every topic, and crashes.
CONSTANTS
    t1 = t1
    t2 = t2
    Topics <- MCTopics
    Entries <- MCEntries
    BufferSize = 0
    MemGetFails = FALSE
    WriteFails = TRUE
    MaxFaults = 2
    MaxCrashes = 1
SPECIFICATION Spec
INVARIANT NoLoss
\* The syncer stops once every entry is synced and the window is empty.
CHECK_DEADLOCK FALSE
