------------------------------ MODULE SyncEngine ------------------------------
(***************************************************************************)
(* The sync pipeline of src/db_sync.go with the WAL it releases: Sync     *)
(* detaches a sealed time-window bucket (foreachTimeWindow with drain),   *)
(* walks it topic by topic, reads every entry from the memtable, appends  *)
(* it to the data and block writers and to the filter, appends the        *)
(* topic's window, frees the topic's memtable entries up to upperSeq, and *)
(* flushes with sync(false,false) when the raw data buffer is over        *)
(* BufferSize.  The final sync(false,true) writes and fsyncs what is left *)
(* and, if syncComplete, wal.SignalLogApplied(logSeq) releases the WAL    *)
(* record.  A failed flush runs abort (deferred in sync), which truncates *)
(* the files back to the offsets startSync took; an error returned from   *)
(* the callback also runs startRecovery, which replays the WAL.           *)
(*                                                                         *)
(* An entry is its seq.  Files are abstracted to the set of seqs whose    *)
(* index entry and data are fsync'd (durable).  The process may crash at  *)
(* any point: memtable, time window, writers and filter are lost; open    *)
(* replays the WAL records that were not signalled applied.               *)
(***************************************************************************)
EXTENDS Naturals, Sequences, SequencesExt, FiniteSets

CONSTANTS
    Topics,
    Entries,      \* [Topics -> Seq(seq)]: the bucket's window entries per topic
    BufferSize,   \* opts.BufferSize, in entries
    MemGetFails,  \* whether mem.Get or dataWriter.append may fail
    WriteFails,   \* whether window append, file writes or fsync may fail
    MaxFaults,    \* bound on injected I/O errors
    MaxCrashes    \* bound on process crashes

Seqs == UNION {Range(Entries[t]) : t \in Topics}

VARIABLES
    wal,          \* seqs of WAL records not yet signalled applied
    mem,          \* seqs in the memtable
    win,          \* the time window: [Topics -> Seq(seq)]
    durable,      \* seqs fsync'd to the index and data files
    filter,       \* seqs appended to the filter
    spc,          \* syncer: "idle", "topic", "entry", "window", "flush",
                  \*         "error", "last"
    bucket,       \* the bucket Sync detached from the window
    todo,         \* topics of the bucket not yet visited
    h, i,         \* current topic and position of the entry loop
    err1,         \* Sync's err1
    buf,          \* seqs appended to the writers and not yet written
    upper,        \* blockWriter.UpperSeq(): largest seq appended since startSync
    startDurable, \* files at the offsets startSync recorded
    logged,       \* the WAL record logSeq names, taken at startSync
    syncComplete,
    faults, crashes

vars == <<wal, mem, win, durable, filter, spc, bucket, todo, h, i, err1, buf,
          upper, startDurable, logged, syncComplete, faults, crashes>>

NoEntries == [t \in Topics |-> <<>>]

\* The window entries a WAL replay rebuilds: the logged seqs of each topic.
Replayed(S) == [t \in Topics |-> SelectSeq(Entries[t], LAMBDA s : s \in S)]

CanFail(flag) == flag /\ faults < MaxFaults

\* abort (run when syncComplete is false): truncate the files to the offsets
\* startSync took and roll the writers back; internal.reset empties the
\* buffers.
AbortToStart ==
    /\ durable' = startDurable
    /\ buf' = {} /\ upper' = 0

\* wal.SignalLogApplied(logSeq): the log store deletes the record.
SignalLogApplied(S) == wal' = wal \ S

-----------------------------------------------------------------------------
Init ==
    /\ wal = Seqs /\ mem = Seqs /\ win = Entries
    /\ durable = {} /\ filter = {}
    /\ spc = "idle" /\ bucket = NoEntries /\ todo = {}
    /\ h = (CHOOSE t \in Topics : TRUE) /\ i = 1
    /\ err1 = FALSE /\ buf = {} /\ upper = 0
    /\ startDurable = {} /\ logged = {} /\ syncComplete = FALSE
    /\ faults = 0 /\ crashes = 0

\* startSync takes the snapshot (offsets, logSeq) when there is something
\* new; Sync then detaches the sealed bucket from the window.
StartSync ==
    /\ spc = "idle"
    /\ win # NoEntries
    /\ startDurable' = durable
    /\ logged' = wal
    /\ bucket' = win
    /\ win' = NoEntries
    /\ todo' = {t \in Topics : win[t] # <<>>}
    /\ err1' = FALSE /\ buf' = {} /\ upper' = 0
    /\ spc' = "topic"
    /\ UNCHANGED <<wal, mem, durable, filter, h, i, syncComplete, faults, crashes>>

\* for h, wEntries := range windowEntries: any order; the loop ends when
\* every topic is visited and Sync goes on to the final sync.
NextTopic ==
    /\ spc = "topic"
    /\ IF todo = {}
       THEN spc' = "last" /\ UNCHANGED <<todo, h, i>>
       ELSE \E t \in todo : /\ h' = t /\ i' = 1 /\ todo' = todo \ {t}
                            /\ spc' = "entry"
    /\ UNCHANGED <<wal, mem, win, durable, filter, bucket, err1, buf, upper,
                   startDurable, logged, syncComplete, faults, crashes>>

\* One window entry: mem.Get, dataWriter.append, blockWriter.append (which
\* reports an entry already in the index as existing), filter.Append.
\* A failed mem.Get or data append sets err1 and leaves the entry loop.
SyncEntry ==
    /\ spc = "entry"
    /\ IF i > Len(bucket[h])
       THEN spc' = "window" /\ UNCHANGED <<i, err1, buf, upper, filter, faults>>
       ELSE LET s == bucket[h][i] IN
            \/ /\ CanFail(MemGetFails) /\ s \in mem
               /\ faults' = faults + 1 /\ err1' = TRUE /\ spc' = "window"
               /\ UNCHANGED <<i, buf, upper, filter>>
            \/ /\ s \in mem
               /\ IF s \in durable \cup buf
                  THEN UNCHANGED <<buf, upper, filter>>
                  ELSE /\ buf' = buf \cup {s}
                       /\ upper' = IF s > upper THEN s ELSE upper
                       /\ filter' = filter \cup {s}
               /\ i' = i + 1
               /\ UNCHANGED <<err1, spc, faults>>
    /\ UNCHANGED <<wal, mem, win, durable, bucket, todo, h, startDurable,
                   logged, syncComplete, crashes>>

\* windowWriter.append of the topic; an error is returned from the callback.
\* Otherwise mem.Free(h, upperSeq), then break on err1, else sync(false,false).
TopicWindow ==
    /\ spc = "window"
    /\ \/ /\ CanFail(WriteFails)
          /\ faults' = faults + 1 /\ spc' = "error"
          /\ UNCHANGED mem
       \/ /\ mem' = mem \ {s \in Range(bucket[h]) : s <= upper}
          /\ spc' = IF err1 THEN "last" ELSE "flush"
          /\ UNCHANGED faults
    /\ UNCHANGED <<wal, win, durable, filter, bucket, todo, h, i, err1, buf,
                   upper, startDurable, logged, syncComplete, crashes>>

(* sync(recovery, last): flush when last or the buffer is over BufferSize *)
(* and something was appended; data write, extendBlocks, window write,    *)
(* block write and fsync may each fail, and the deferred abort then       *)
(* truncates the files to startSync's offsets and rolls the writers back. *)
Flush(last) ==
    IF (~last /\ Cardinality(buf) <= BufferSize) \/ upper = 0
    THEN /\ UNCHANGED <<durable, buf, upper, syncComplete, faults>>
         /\ err1' = err1
    ELSE \/ /\ CanFail(WriteFails)
            /\ faults' = faults + 1
            /\ AbortToStart
            /\ syncComplete' = FALSE
            /\ err1' = TRUE
         \/ /\ durable' = durable \cup buf /\ buf' = {}
            /\ syncComplete' = TRUE
            /\ UNCHANGED <<upper, faults, err1>>

\* The intermediate sync(false,false) after a topic; an error breaks out.
TopicFlush ==
    /\ spc = "flush"
    /\ Flush(FALSE)
    /\ spc' = IF err1' THEN "last" ELSE "topic"
    /\ UNCHANGED <<wal, mem, win, filter, bucket, todo, h, i, startDurable,
                   logged, crashes>>

\* The callback returned an error: syncComplete is cleared, so abort always
\* truncates to startSync's offsets; startRecovery then replays the WAL
\* records still held into the memtable and the window.
SyncError ==
    /\ spc = "error"
    /\ syncComplete' = FALSE
    /\ AbortToStart
    /\ mem' = mem \cup wal
    /\ win' = Replayed(wal)
    /\ spc' = "last"
    /\ UNCHANGED <<wal, filter, bucket, todo, h, i, err1, startDurable, logged,
                   faults, crashes>>

LastSyncAlwaysSignals ==
    /\ spc = "last"
    /\ Flush(TRUE)
    /\ SignalLogApplied(logged)
    /\ spc' = "idle"
    /\ UNCHANGED <<mem, win, filter, bucket, todo, h, i, startDurable, logged,
                   crashes>>

\* The final sync(false,true); if syncComplete, SignalLogApplied(logSeq)
\* removes the record from the WAL; finish ends the attempt.
LastSync ==
    /\ spc = "last"
    /\ Flush(TRUE)
    /\ IF syncComplete' THEN SignalLogApplied(logged) ELSE UNCHANGED wal
    /\ spc' = "idle"
    /\ UNCHANGED <<mem, win, filter, bucket, todo, h, i, startDurable, logged,
                   crashes>>

\* A crash loses every volatile structure; open replays the WAL.
CrashRecover ==
    /\ crashes < MaxCrashes
    /\ crashes' = crashes + 1
    /\ mem' = wal
    /\ win' = Replayed(wal)
    /\ filter' = durable
    /\ spc' = "idle" /\ bucket' = NoEntries /\ todo' = {}
    /\ err1' = FALSE /\ buf' = {} /\ upper' = 0 /\ syncComplete' = FALSE
    /\ UNCHANGED <<wal, durable, h, i, startDurable, logged, faults>>

Next ==
    \/ StartSync \/ NextTopic \/ SyncEntry \/ TopicWindow \/ TopicFlush
    \/ SyncError \/ LastSync \/ CrashRecover

Spec == Init /\ [][Next]_vars

-----------------------------------------------------------------------------
\* Crash safety (spec I1): every entry committed to the WAL is at all times
\* either still in a WAL record or durable in the index and data files, so
\* SignalLogApplied (db_sync.go:304) never releases an entry sync did not
\* write.
NoLoss == \A s \in Seqs : s \in wal \/ s \in durable
=============================================================================
