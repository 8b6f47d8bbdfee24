------------------------------ MODULE MC_Lifecycle ------------------------------
(* Both background goroutines, as Open starts them with a positive sync     *)
(* interval and key expiry on; two metric moves give the syncer two Syncs.  *)
EXTENDS Lifecycle, TLC
==============================================================================
