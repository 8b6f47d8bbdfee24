---------------------------- MODULE MC_HashIndex ----------------------------
(***************************************************************************)
(* Model-checking instance of HashIndex: three keys, one or two values,  *)
(* one or two clients, blocks of two slots, two-bit hashes chosen by the  *)
(* seed, at most four keys.                                               *)
(* With two slots per block the 0.7 load factor splits after the second  *)
(* key, so splits, cursor wrap, level 2 and overflow chains all occur.    *)
(***************************************************************************)
EXTENDS HashIndex, TLC

CONSTANTS k1, k2, k3, v1, v2, c1, c2

MCKeys == {k1, k2, k3}
MCVals == {v1, v2}
MCClients == {c1, c2}
OneClient == {c1}
OneVal == {v1}

Symmetry == Permutations(MCKeys) \cup Permutations(MCVals)

ClientSymmetry == Symmetry \cup Permutations(MCClients)
==============================================================================
