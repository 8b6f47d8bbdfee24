-------------------------------- MODULE Batch --------------------------------
(***************************************************************************)
(* The batch assembler of src/batch.go: clients frame Put and Delete      *)
(* entries into a batch (PutEntry, DeleteEntry), Write deduplicates the    *)
(* index (uniq) and applies the pending writes to the memtable under the   *)
(* DB write lock (writeInternal), Commit hands the whole frame buffer to   *)
(* the WAL, and Abort releases the batch (Reset, buffer to the pool, db =  *)
(* nil).  Each client follows the usage of the repository's example:       *)
(* defer Abort; Put/Delete ...; Write; Commit; (deferred) Abort.            *)
(*                                                                         *)
(* A frame is abstracted to its batchIndex fields and the entry fields     *)
(* writeInternal reads back: del flag, dedup key, seq and topic.  Hash     *)
(* values are modelled injectively: the put key hash.WithSalt(val, code)   *)
(* is <<"put", topic, payload>>, the delete key topic.GetHashCode() is     *)
(* <<"code", topic>>, and the zero key of AllowDuplicates is <<"zero">>.   *)
(***************************************************************************)
EXTENDS Naturals, Sequences, SequencesExt, FiniteSets

CONSTANTS
    Clients,         \* the batches, one per client goroutine
    Topics,          \* topics
    Payloads,        \* payloads
    Existing,        \* seqs of messages already synced: in the filter
    AllowDuplicates, \* BatchOptions.AllowDuplicates
    MaxEntries       \* bound on entries framed into one batch

ASSUME Existing \subseteq Nat \ {0} /\ AllowDuplicates \in BOOLEAN

VARIABLES
    bpc,        \* client's place: "build", "written", "deferring", "finished"
    released,   \* b.db = nil: Abort has run on the batch
    index,      \* b.index: the frames in PutEntry/DeleteEntry order
    pending,    \* b.pendingWrites
    nextSeq,    \* the DB's next sequence number (setEntry)
    mem,        \* seqs inserted into the memtable (mem.Set, trie, window)
    deleted,    \* seqs passed to db.delete
    wal,        \* WAL records in append order: <<client, frames>>
    panicked

vars == <<bpc, released, index, pending, nextSeq, mem, deleted, wal,
          panicked>>

\* The DB's filter: the seqs it holds when the batches run.  Entries put by
\* the batches are only added to it by a later sync.
filter == Existing

Keys == ({"put"} \X Topics \X Payloads) \cup ({"code"} \X Topics) \cup {<<"zero">>}

Frame == [del : BOOLEAN, key : Keys,
          seq : Nat, topic : Topics]

-----------------------------------------------------------------------------
(* uniq: scan the index from the end; the first time a key is seen it gets *)
(* newidx = the number of distinct keys seen before it; the entry is then  *)
(* placed at position len(uniqueSet) - newidx.                             *)
uniqForward(idx) ==
    LET n     == Len(idx)
        kept  == {p \in 1..n : \A q \in 1..(p - 1) : idx[q].key # idx[p].key}
        newidx(p) == Cardinality({idx[q].key : q \in 1..(p - 1)})
        u     == Cardinality(kept)
    IN  [j \in 1..u |-> idx[CHOOSE p \in kept : u - newidx(p) = j]]

uniq(idx) ==
    IF AllowDuplicates THEN idx
    ELSE LET n     == Len(idx)
             kept  == {p \in 1..n : \A q \in (p + 1)..n : idx[q].key # idx[p].key}
             newidx(p) == Cardinality({idx[q].key : q \in (p + 1)..n})
             u     == Cardinality(kept)
         IN  [j \in 1..u |-> idx[CHOOSE p \in kept : u - newidx(p) = j]]

(* writeInternal: apply the pending writes in order.  A delete whose seq   *)
(* the filter does not hold returns nil, abandoning the writes after it;   *)
(* a delete in the filter goes to db.delete; a put goes to the memtable.   *)
WriteStep(acc, e) ==
    IF acc.stopped THEN acc
    ELSE IF e.del /\ e.seq \notin filter THEN [acc EXCEPT !.stopped = TRUE]
    ELSE IF e.del THEN [acc EXCEPT !.deleted = @ \cup {e.seq}]
    ELSE [acc EXCEPT !.mem = @ \cup {e.seq}]

writeInternal(pw) ==
    FoldLeft(WriteStep, [mem |-> mem, deleted |-> deleted, stopped |-> FALSE], pw)

-----------------------------------------------------------------------------
Init ==
    /\ bpc = [b \in Clients |-> "build"]
    /\ released = [b \in Clients |-> FALSE]
    /\ index = [b \in Clients |-> <<>>]
    /\ pending = [b \in Clients |-> <<>>]
    /\ nextSeq = 1 + Max(Existing \cup {0})
    /\ mem = {}
    /\ deleted = {}
    /\ wal = <<>>
    /\ panicked = FALSE

\* PutEntry: setEntry gives the entry the next seq; the frame and its
\* batchIndex are appended.
PutEntry(b, t, p) ==
    /\ bpc[b] = "build"
    /\ Len(index[b]) < MaxEntries
    /\ nextSeq' = nextSeq + 1
    /\ index' = [index EXCEPT ![b] = Append(@,
                   [del |-> FALSE, key |-> IF AllowDuplicates THEN <<"zero">> ELSE <<"put", t, p>>,
                    seq |-> nextSeq, topic |-> t])]
    /\ UNCHANGED <<bpc, released, pending, mem, deleted, wal, panicked>>

\* DeleteEntry: the seq comes from the message id, one of a message already
\* synced or one put earlier; the key is the topic's hash code.
DeleteEntry(b, t, s) ==
    /\ bpc[b] = "build"
    /\ Len(index[b]) < MaxEntries
    /\ index' = [index EXCEPT ![b] = Append(@,
                   [del |-> TRUE, key |-> <<"code", t>>, seq |-> s, topic |-> t])]
    /\ UNCHANGED <<bpc, released, pending, nextSeq, mem, deleted, wal,
                   panicked>>

\* Write: under writeLockC, uniq then writeInternal; the lock makes the
\* whole call one step with respect to the other clients' Writes.
Write(b) ==
    /\ bpc[b] = "build"
    /\ LET pw  == uniq(index[b])
           res == writeInternal(pw)
       IN  /\ pending' = [pending EXCEPT ![b] = pw]
           /\ mem' = res.mem
           /\ deleted' = res.deleted
    /\ bpc' = [bpc EXCEPT ![b] = "written"]
    /\ UNCHANGED <<released, index, nextSeq, wal, panicked>>

AbortNoReset(b) ==
    IF released[b] THEN /\ panicked' = TRUE
                        /\ UNCHANGED <<released, index, pending>>
    ELSE /\ released' = [released EXCEPT ![b] = TRUE]
         /\ UNCHANGED <<index, pending, panicked>>

\* Abort on a batch whose db is already nil dereferences nil: a panic.
Abort(b) ==
    IF released[b] THEN /\ panicked' = TRUE
                        /\ UNCHANGED <<released, index, pending>>
    ELSE /\ index' = [index EXCEPT ![b] = <<>>]
         /\ pending' = [pending EXCEPT ![b] = <<>>]
         /\ released' = [released EXCEPT ![b] = TRUE]
         /\ UNCHANGED panicked

\* Commit: an empty batch is aborted; otherwise the whole buffer (every
\* frame, duplicates included) is put to the WAL, whose error is logged.
Commit(b) ==
    /\ bpc[b] = "written"
    /\ IF pending[b] = <<>> \/ index[b] = <<>>
       THEN Abort(b) /\ UNCHANGED wal
       ELSE /\ wal' = Append(wal, <<b, index[b]>>)
            /\ UNCHANGED <<released, index, pending, panicked>>
    /\ bpc' = [bpc EXCEPT ![b] = "deferring"]
    /\ UNCHANGED <<nextSeq, mem, deleted>>

\* The client's deferred Abort when its function returns.
DeferredAbort(b) ==
    /\ bpc[b] = "deferring"
    /\ Abort(b)
    /\ bpc' = [bpc EXCEPT ![b] = "finished"]
    /\ UNCHANGED <<nextSeq, mem, deleted, wal>>

DeleteIds == Existing \cup 1..(nextSeq - 1)

Next ==
    /\ ~panicked
    /\ \E b \in Clients :
          \/ \E t \in Topics, p \in Payloads : PutEntry(b, t, p)
          \/ \E t \in Topics, s \in DeleteIds : DeleteEntry(b, t, s)
          \/ Write(b)
          \/ Commit(b)
          \/ DeferredAbort(b)

Spec == Init /\ [][Next]_vars

-----------------------------------------------------------------------------
TypeOK ==
    /\ bpc \in [Clients -> {"build", "written", "deferring", "finished"}]
    /\ released \in [Clients -> BOOLEAN]
    /\ index \in [Clients -> Seq(Frame)]
    /\ pending \in [Clients -> Seq(Frame)]
    /\ mem \subseteq 1..(nextSeq - 1)
    /\ deleted \subseteq filter
    \* Reset has emptied every released batch
    /\ \A b \in Clients : released[b] => index[b] = <<>> /\ pending[b] = <<>>
    /\ panicked \in BOOLEAN

(* Reference for uniq, stated independently of the code's algorithm: drop *)
(* every entry whose key occurs again later in the batch.                 *)
RECURSIVE LastOccurrences(_)
LastOccurrences(s) ==
    IF s = <<>> THEN <<>>
    ELSE LET rest == LastOccurrences(Tail(s))
         IN  IF \E q \in 2..Len(s) : s[q].key = Head(s).key THEN rest
             ELSE <<Head(s)>> \o rest

\* uniq (batch.go:293) keeps exactly the last occurrence of every dedup key,
\* in the order of the PutEntry/DeleteEntry calls (spec section 8), and with
\* AllowDuplicates keeps every frame.
UniqKeepsLast ==
    \A b \in Clients :
        bpc[b] \in {"written", "deferring"} /\ ~released[b] =>
            pending[b] = IF AllowDuplicates THEN index[b]
                         ELSE LastOccurrences(index[b])

\* Every put a client framed reaches the memtable when its Write returns
\* nil (batch.go:228): writeInternal must not skip a pending put.
WriteAppliesAll ==
    \A b \in Clients :
        bpc[b] = "written" =>
            \A i \in 1..Len(pending[b]) :
                ~pending[b][i].del => pending[b][i].seq \in mem
=============================================================================
