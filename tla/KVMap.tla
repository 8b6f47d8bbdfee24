-------------------------------- MODULE KVMap --------------------------------
(***************************************************************************)
(* What the key/value index of the store promises its callers: a map from *)
(* keys to values in which Put(k, v) makes k map to v and Delete(k) makes  *)
(* k absent.  lastOp names the operation that produced the current map so *)
(* that an implementation step is matched against the operation it        *)
(* performed, not against any operation that happens to yield the map.    *)
(***************************************************************************)
CONSTANTS Keys, Vals, Nil

VARIABLES store, lastOp

Ops == {<<"put", k, v>> : k \in Keys, v \in Vals} \cup {<<"del", k>> : k \in Keys}
       \cup {<<"none">>}

Init ==
  /\ store = [k \in Keys |-> Nil]
  /\ lastOp = <<"none">>

Put(k, v) ==
  /\ store' = [store EXCEPT ![k] = v]
  /\ lastOp' = <<"put", k, v>>

Delete(k) ==
  /\ store' = [store EXCEPT ![k] = Nil]
  /\ lastOp' = <<"del", k>>

Next == \E k \in Keys : Delete(k) \/ \E v \in Vals : Put(k, v)

Spec == Init /\ [][Next]_<<store, lastOp>>
==============================================================================
