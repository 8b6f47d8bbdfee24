CONSTANTS
    c1 = c1
    c2 = c2
    t1 = t1
    t2 = t2
    p1 = p1
    p2 = p2
    Topics <- MCTopics
    Payloads <- MCPayloads
    Existing <- MCExisting
    Clients <- MCClients1
    AllowDuplicates = FALSE
    MaxEntries = 3
SPECIFICATION Spec
INVARIANT WriteAppliesAll
CHECK_DEADLOCK FALSE
