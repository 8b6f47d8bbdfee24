-------------------------------- MODULE MC_Trie --------------------------------
(* Two part hashes, single-part wildcards, topics of up to two keys, two    *)
(* seqs and three Add calls: enough for a shared prefix, a wildcard branch *)
(* beside an exact one, a duplicate seq and a cascade of orphans.  Part     *)
(* hashes and seqs are only compared for equality, so both are symmetric.  *)
EXTENDS Trie, TLC

CONSTANTS q1, q2, s1, s2

MCQueries == {q1, q2}
MCSeqIds == {s1, s2}
Symmetry == Permutations(MCQueries) \cup Permutations(MCSeqIds)
==============================================================================
