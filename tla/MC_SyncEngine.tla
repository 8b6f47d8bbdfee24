----------------------------- MODULE MC_SyncEngine -----------------------------
(* Two topics; t1 holds seqs 1 and 3, t2 holds seq 2, so upperSeq of one   *)
(* topic can exceed the seqs of the other.                                *)
EXTENDS SyncEngine, TLC

CONSTANTS t1, t2

MCTopics == {t1, t2}
MCEntries == (t1 :> <<1, 3>>) @@ (t2 :> <<2>>)
=============================================================================
