------------------------------- MODULE MC_Batch -------------------------------
(* Model values for the batch assembler. *)
EXTENDS Batch, TLC

CONSTANTS c1, c2, t1, t2, p1, p2

MCClients1 == {c1}
MCClients2 == {c1, c2}
MCTopics == {t1, t2}
MCPayloads == {p1, p2}
MCExisting == {1}

\* Clients and payloads are interchangeable; topics are not, since a
\* delete's key is its topic and a put's key pairs topic and payload.
Symmetry == Permutations(MCClients2) \cup Permutations(MCPayloads)
=============================================================================
