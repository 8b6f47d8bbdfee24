------------------------------ MODULE Lifecycle ------------------------------
(***************************************************************************)
(* The background goroutines of the DB (src/db.go, first version) and     *)
(* Close.  Open starts the syncer when BackgroundSyncInterval > 0 and the *)
(* expirer when BackgroundKeyExpiry; each stores its context's cancel     *)
(* function in the one field db.cancelSyncer.  The syncer calls db.Sync   *)
(* whenever the Puts+Dels metric changed; the expirer runs                *)
(* expireOldEntries, which locks db.mu once per expired entry that passes *)
(* the filter and defers every unlock to its return.  Close locks db.mu,  *)
(* waits on closeW, calls cancelSyncer, closes the files and returns.     *)
(*                                                                         *)
(* db.mu is an owner variable.  Files are one flag.  Which entries expire *)
(* is decided by timeWindow.expireOldEntries, outside src/: each round    *)
(* takes any number of filter-passing entries up to MaxExpired.          *)
(***************************************************************************)
EXTENDS Naturals

CONSTANTS
    SyncerOn,    \* opts.BackgroundSyncInterval > 0
    ExpirerOn,   \* opts.BackgroundKeyExpiry
    MaxExpired,  \* most filter-passing entries one expiry round returns
    MaxMods      \* bound on the Puts+Dels metric

NoOwner == "none"

VARIABLES
    mu,         \* holder of db.mu
    spc, slast, ssnap, \* syncer: place, lastModifications, modifications
    epc, eleft, eheld, \* expirer: place, entries left, deferred unlocks
    cpc,        \* the client: "open", "lock" (Close called), "files", "return", "done"
    cancelled,  \* contexts whose cancel function has run
    filesOpen,
    mods        \* db.metrics.Puts + db.metrics.Dels

vars == <<mu, spc, slast, ssnap, epc, eleft, eheld, cpc, cancelled, filesOpen, mods>>

\* Open: startSyncer, then startExpirer, each overwriting db.cancelSyncer.
cancelSyncer == IF ExpirerOn THEN "expirer" ELSE "syncer"

Init ==
    /\ mu = NoOwner
    /\ spc = IF SyncerOn THEN "check" ELSE "done"
    /\ slast = 0 /\ ssnap = 0
    /\ epc = IF ExpirerOn THEN "check" ELSE "done"
    /\ eleft = 0 /\ eheld = 0
    /\ cpc = "open"
    /\ cancelled = {}
    /\ filesOpen = TRUE
    /\ mods = 0

-----------------------------------------------------------------------------
\* Syncer loop: ctx.Done returns; otherwise Sync when the metric moved, then
\* sleep.  An unchanged metric is a sleep and a recheck: a stutter.
SyncerCheck ==
    /\ spc = "check"
    /\ \/ /\ "syncer" \in cancelled
          /\ spc' = "done" /\ UNCHANGED ssnap
       \/ /\ "syncer" \notin cancelled /\ mods # slast
          /\ spc' = "lock" /\ ssnap' = mods
    /\ UNCHANGED <<mu, slast, epc, eleft, eheld, cpc, cancelled, filesOpen, mods>>

\* DB.Sync: db.mu.Lock.
SyncerLock ==
    /\ spc = "lock" /\ mu = NoOwner
    /\ mu' = "syncer" /\ spc' = "sync"
    /\ UNCHANGED <<slast, ssnap, epc, eleft, eheld, cpc, cancelled, filesOpen, mods>>

\* db.sync: fsync the data and index files; unlock; lastModifications.
SyncerSync ==
    /\ spc = "sync"
    /\ mu' = NoOwner /\ slast' = ssnap /\ spc' = "check"
    /\ UNCHANGED <<ssnap, epc, eleft, eheld, cpc, cancelled, filesOpen, mods>>

\* Expirer loop: ctx.Done returns; otherwise expireOldEntries takes the
\* expired entries out of the time window (rounds with none are stutters).
ExpirerCheck ==
    /\ epc = "check"
    /\ \/ /\ "expirer" \in cancelled
          /\ epc' = "done" /\ UNCHANGED eleft
       \/ /\ "expirer" \notin cancelled
          /\ \E n \in 1..MaxExpired : mods + n <= MaxMods /\ eleft' = n
          /\ epc' = "entry"
    /\ UNCHANGED <<mu, spc, slast, ssnap, eheld, cpc, cancelled, filesOpen, mods>>

\* One entry that passes the filter: Dels.Add(1); db.mu.Lock with its
\* unlock deferred to the function's return; find the entry in the index,
\* trie.Remove, b.del, b.write, data.free, count--.
ExpirerLock ==
    /\ epc = "entry" /\ eleft > 0
    /\ mu = NoOwner
    /\ mu' = "expirer"
    /\ eheld' = eheld + 1 /\ eleft' = eleft - 1
    /\ mods' = mods + 1
    /\ UNCHANGED <<spc, slast, ssnap, epc, cpc, cancelled, filesOpen>>

ExpirerFinishNoUnlock ==
    /\ epc = "entry" /\ eleft = 0
    /\ epc' = "check" /\ eheld' = 0
    /\ UNCHANGED <<mu, spc, slast, ssnap, eleft, cpc, cancelled, filesOpen, mods>>

\* End of the loop: db.sync if syncWrites (an fsync, no state here), then
\* the deferred unlocks run.
ExpirerFinish ==
    /\ epc = "entry" /\ eleft = 0
    /\ mu' = IF eheld > 0 THEN NoOwner ELSE mu
    /\ epc' = "check" /\ eheld' = 0
    /\ UNCHANGED <<spc, slast, ssnap, eleft, cpc, cancelled, filesOpen, mods>>

-----------------------------------------------------------------------------
\* A client's Put or Delete moves the metric.
Put ==
    /\ cpc = "open" /\ mods < MaxMods
    /\ mods' = mods + 1
    /\ UNCHANGED <<mu, spc, slast, ssnap, epc, eleft, eheld, cpc, cancelled, filesOpen>>

CallClose ==
    /\ cpc = "open"
    /\ cpc' = "lock"
    /\ UNCHANGED <<mu, spc, slast, ssnap, epc, eleft, eheld, cancelled, filesOpen, mods>>

\* Close: db.mu.Lock; closeW.Wait (nothing ever joins closeW); cancelSyncer.
CloseLock ==
    /\ cpc = "lock" /\ mu = NoOwner
    /\ mu' = "close"
    /\ cancelled' = cancelled \cup {cancelSyncer}
    /\ cpc' = "files"
    /\ UNCHANGED <<spc, slast, ssnap, epc, eleft, eheld, filesOpen, mods>>

\* writeHeader, data.Close, index.Close, lock.Unlock, filter.close.
CloseFiles ==
    /\ cpc = "files"
    /\ filesOpen' = FALSE /\ cpc' = "return"
    /\ UNCHANGED <<mu, spc, slast, ssnap, epc, eleft, eheld, cancelled, mods>>

\* close(closeC), closer.Close, clearMems; the deferred db.mu.Unlock.
CloseReturn ==
    /\ cpc = "return"
    /\ mu' = NoOwner /\ cpc' = "done"
    /\ UNCHANGED <<spc, slast, ssnap, epc, eleft, eheld, cancelled, filesOpen, mods>>

Next ==
    \/ SyncerCheck \/ SyncerLock \/ SyncerSync
    \/ ExpirerCheck \/ ExpirerLock \/ ExpirerFinish
    \/ Put \/ CallClose \/ CloseLock \/ CloseFiles \/ CloseReturn

(* The Go scheduler runs every runnable goroutine: weak fairness for each *)
(* step.  A goroutine waiting in Mutex.Lock is handed the mutex once it   *)
(* has waited past the starvation threshold, so a lock acquisition that   *)
(* is enabled again and again is eventually taken: strong fairness.  The  *)
(* client's Put and CallClose are the environment.                        *)
Fairness ==
    /\ WF_vars(SyncerCheck) /\ SF_vars(SyncerLock) /\ WF_vars(SyncerSync)
    /\ WF_vars(ExpirerCheck) /\ SF_vars(ExpirerLock) /\ WF_vars(ExpirerFinish)
    /\ SF_vars(CloseLock) /\ WF_vars(CloseFiles) /\ WF_vars(CloseReturn)

Spec == Init /\ [][Next]_vars /\ Fairness

-----------------------------------------------------------------------------
\* A call of Close (db.go:319) eventually returns, whatever the syncer and
\* the expirer are doing when it is called.
CloseReturns == cpc = "lock" ~> cpc = "done"

=============================================================================
