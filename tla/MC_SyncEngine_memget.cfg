\* A failed mem.Get or data append in the entry loop.
CONSTANTS
    t1 = t1
    t2 = t2
    Topics <- MCTopics
    Entries <- MCEntries
    BufferSize = 0
    MemGetFails = TRUE
    WriteFails = FALSE
    MaxFaults = 1
    MaxCrashes = 1
SPECIFICATION Spec
INVARIANT NoLoss
\* The syncer stops once every entry is synced and the window is empty.
CHECK_DEADLOCK FALSE
