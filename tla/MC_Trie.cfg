CONSTANTS
    q1 = q1
    q2 = q2
    s1 = s1
    s2 = s2
    Queries <- MCQueries
    SeqIds <- MCSeqIds
    MaxWild = 1
    MaxParts = 2
    TopicMaxDepth = 2
    MaxAdds = 3
SYMMETRY Symmetry
INIT Init
NEXT Next
INVARIANTS
    TypeOK
    LookupMatchesReference
    NoOrphans
    CountMatches
