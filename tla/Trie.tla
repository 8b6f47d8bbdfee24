--------------------------------- MODULE Trie ---------------------------------
(***************************************************************************)
(* The topic trie of src/message/trie.go (lines 1-220).  A node is named  *)
(* by its path from the root, a sequence of keys [query, wildchars]; a    *)
(* node exists iff its path is in nodes.  Every node holds its seq list   *)
(* ss (an ssid, duplicates kept) and the depth of the topic last added to *)
(* it.  Add descends creating nodes and appends the seq; Remove descends, *)
(* deletes one occurrence of the seq and prunes orphans upward; Lookup    *)
(* (ilookup) collects the seqs of every node the query parts reach.       *)
(* Add and Remove of one contract hold the contract's stripe mutex and    *)
(* the structural edits hold the trie lock, so each is one step here.     *)
(***************************************************************************)
EXTENDS Naturals, Sequences, SequencesExt, FiniteSets, Folds

CONSTANTS
    Queries,       \* part query hashes
    MaxWild,       \* largest wildchars of a stored part
    MaxParts,      \* longest topic, in parts
    TopicMaxDepth, \* message.TopicMaxDepth
    SeqIds,        \* message seqs
    MaxAdds        \* bound on Add calls

Key == [query : Queries, wildchars : 0..MaxWild]
Paths == UNION {[1..n -> Key] : n \in 0..MaxParts}
Root == <<>>

VARIABLES nodes, ss, depth, count, adds

vars == <<nodes, ss, depth, count, adds>>

Children(N, p) == {c \in N : Len(c) = Len(p) + 1 /\ Front(c) = p}

-----------------------------------------------------------------------------
(* part.orphan: delete the node from its parent's children, and go on    *)
(* with the parent while the parent has no seqs and no children; the     *)
(* root has no parent and stays.                                          *)
OrphanNoPropagation(N, p) == IF p = Root THEN N ELSE N \ {p}

RECURSIVE Orphan(_, _)
Orphan(N, p) ==
    IF p = Root THEN N
    ELSE LET N1 == N \ {p}
             q  == Front(p)
         IN  IF ss[q] = <<>> /\ Children(N1, q) = {} THEN Orphan(N1, q) ELSE N1

\* ssid.remove: swap the first occurrence with the last element and shrink.
RemoveOne(l, s) ==
    LET j == Min({k \in DOMAIN l : l[k] = s})
    IN  SubSeq([l EXCEPT ![j] = l[Len(l)]], 1, Len(l) - 1)

(* ilookup: take the seqs of this node whose depth matches the query     *)
(* depth, then follow every child whose query equals the next part and   *)
(* that has wildchars+1 parts left, consuming those parts.               *)
RECURSIVE ILookupOffByOne(_, _, _)
ILookupOffByOne(parts, d, p) ==
    LET own == SelectSeq(ss[p], LAMBDA s :
                   depth[p] = d \/ (depth[p] >= TopicMaxDepth /\ d > depth[p] - TopicMaxDepth))
        kids == {c \in Children(nodes, p) :
                   Len(parts) > 0 /\ c[Len(c)].query = parts[1]
                   /\ Len(parts) >= c[Len(c)].wildchars}
    IN  own \o FoldSet(LAMBDA c, acc :
                   acc \o ILookupOffByOne(SubSeq(parts, c[Len(c)].wildchars + 2, Len(parts)), d, c),
                 <<>>, kids)

RECURSIVE ILookup(_, _, _)
ILookup(parts, d, p) ==
    LET own == SelectSeq(ss[p], LAMBDA s :
                   depth[p] = d \/ (depth[p] >= TopicMaxDepth /\ d > depth[p] - TopicMaxDepth))
        kids == {c \in Children(nodes, p) :
                   Len(parts) > 0 /\ c[Len(c)].query = parts[1]
                   /\ Len(parts) >= c[Len(c)].wildchars + 1}
    IN  own \o FoldSet(LAMBDA c, acc :
                   acc \o ILookup(SubSeq(parts, c[Len(c)].wildchars + 2, Len(parts)), d, c),
                 <<>>, kids)

\* Lookup: the query depth is uint8(len(parts)-1), 255 for no parts.
Lookup(parts) == ILookup(parts, (Len(parts) + 255) % 256, Root)

-----------------------------------------------------------------------------
Init ==
    /\ nodes = {Root}
    /\ ss = [p \in Paths |-> <<>>]
    /\ depth = [p \in Paths |-> 0]
    /\ count = 0
    /\ adds = 0

\* Add: create the missing nodes of the path, append the seq (no
\* uniqueness check), record the depth, count++.  The caller's depth is
\* the topic's: one less than its parts, plus TopicMaxDepth for a topic
\* ending in a multi-level wildcard.
TrieAdd(path, d, s) ==
    /\ adds < MaxAdds
    /\ nodes' = nodes \cup {SubSeq(path, 1, n) : n \in 0..Len(path)}
    /\ ss' = [ss EXCEPT ![path] = Append(@, s)]
    /\ depth' = [depth EXCEPT ![path] = d]
    /\ count' = count + 1
    /\ adds' = adds + 1

\* The seq list left at the node, with one occurrence of s removed if any.
Removed(path, s) == IF s \in Range(ss[path]) THEN RemoveOne(ss[path], s) ELSE ss[path]

\* Store the node's new seq list and, when the node is left with no seqs and
\* no children, orphan it; a pruned node is gone, and a later Add creates it
\* afresh.
Prune(path, l) ==
    LET N1 == IF l = <<>> /\ Children(nodes, path) = {}
              THEN Orphan(nodes, path) ELSE nodes
    IN  /\ nodes' = N1
        /\ ss' = [p \in Paths |-> IF p \notin N1 THEN <<>>
                                  ELSE IF p = path THEN l ELSE ss[p]]
        /\ depth' = [p \in Paths |-> IF p \in N1 THEN depth[p] ELSE 0]

TrieRemoveCountsAlways(path, s) ==
    \/ /\ path \notin nodes
       /\ UNCHANGED vars
    \/ /\ path \in nodes
       /\ Prune(path, Removed(path, s))
       /\ count' = count - 1
       /\ UNCHANGED adds

\* Remove: a missing node on the path returns; otherwise remove one
\* occurrence (count-- only when found) and prune the node if it is empty.
TrieRemove(path, s) ==
    \/ /\ path \notin nodes
       /\ UNCHANGED vars
    \/ /\ path \in nodes
       /\ Prune(path, Removed(path, s))
       /\ count' = IF s \in Range(ss[path]) THEN count - 1 ELSE count
       /\ UNCHANGED adds

\* The number of topic parts a stored path spans: a key consumes wildchars+1.
Offset(p, j) == FoldLeft(LAMBDA acc, k : acc + k.wildchars + 1, 0, SubSeq(p, 1, j))

TopicDepth(p) == Offset(p, Len(p)) - 1

\* Topics of at least one part: the contract is always a part.
TopicPaths == Paths \ {Root}

Next ==
    \/ \E p \in TopicPaths, s \in SeqIds :
          \E d \in {TopicDepth(p), TopicDepth(p) + TopicMaxDepth} : TrieAdd(p, d, s)
    \/ \E p \in TopicPaths, s \in SeqIds : TrieRemove(p, s)

Spec == Init /\ [][Next]_vars

-----------------------------------------------------------------------------
TypeOK ==
    /\ nodes \subseteq Paths /\ Root \in nodes
    /\ ss \in [Paths -> Seq(SeqIds)]
    /\ count \in Nat

(* Reference matching, stated over a stored path as a whole: its keys   *)
(* consume the query parts in turn, key j starting at the part after the *)
(* wildchars+1 parts of the keys before it; every key's query equals the *)
(* part it starts at and its parts fit in the query.                    *)
Reaches(p, qs) ==
    \A j \in 1..Len(p) :
        /\ Offset(p, j - 1) < Len(qs)
        /\ p[j].query = qs[Offset(p, j - 1) + 1]
        /\ Offset(p, j) <= Len(qs)

DepthMatches(p, d) == depth[p] = d \/ (depth[p] >= TopicMaxDepth /\ d > depth[p] - TopicMaxDepth)

QueryParts == UNION {[1..n -> Queries] : n \in 0..MaxParts}

\* Lookup (trie.go:195) returns, for every query, exactly the seqs held by
\* the nodes the query reaches whose depth matches (spec 4.4), as a set: a
\* seq held twice may come back twice, which ssid's "unique values" comment
\* rules out, so multiplicity is not part of what is checked here.
LookupMatchesReference ==
    \A qs \in QueryParts :
        LET d == (Len(qs) + 255) % 256
        IN  Range(Lookup(qs)) =
              UNION {Range(ss[p]) : p \in {p \in nodes : Reaches(p, qs) /\ DepthMatches(p, d)}}

\* Orphan pruning (spec section 8): after every Remove, every node other
\* than the root holds a seq or has a child, and every node's parent exists.
NoOrphans ==
    \A p \in nodes \ {Root} :
        /\ Front(p) \in nodes
        /\ ss[p] # <<>> \/ Children(nodes, p) # {}

\* Count() is the number of seqs the trie holds: Add counts every append and
\* Remove only a seq it found.
CountMatches ==
    count = FoldSet(LAMBDA p, acc : acc + Len(ss[p]), 0, nodes)
=============================================================================
