\* One client, up to three frames: every uniq input over two topics and
\* two payloads, every Commit path and both ends of the deferred Abort.
CONSTANTS
    c1 = c1
    c2 = c2
    t1 = t1
    t2 = t2
    p1 = p1
    p2 = p2
    Topics <- MCTopics
    Payloads <- MCPayloads
    Existing <- MCExisting
    Clients <- MCClients1
    AllowDuplicates = FALSE
    MaxEntries = 3
SPECIFICATION Spec
INVARIANT TypeOK
INVARIANT UniqKeepsLast
\* A client stops once its deferred Abort has run, or at a panic.
CHECK_DEADLOCK FALSE
