------------------------------ MODULE HashIndex ------------------------------
(***************************************************************************)
(* The linear-hashing key index of src/db.go: a directory of nBlocks       *)
(* index blocks of entriesPerBlock slots each, every block heading a chain *)
(* of overflow blocks; blockIndex picks the chain from the key hash, the   *)
(* level and the split cursor splitBlockIdx; PutEntry splits one block     *)
(* when the load factor is exceeded.  A chain is a sequence of blocks, a   *)
(* block a tuple of E slots, a slot Empty (kvOffset = 0) or the key and    *)
(* value it stores.  The presence filter is the set of hashes appended.    *)
(* Data-file offsets, the freelist and fsync are not modelled.             *)
(***************************************************************************)
EXTENDS Naturals, Sequences, SequencesExt, Header

CONSTANTS
  Keys,        \* keys (model values)
  Vals,        \* values (model values)
  E,           \* entriesPerBlock
  HashBits,    \* hash width: hashes range over 0 .. 2^HashBits - 1
  MaxKeys,     \* MaxKeys: put of a new key fails with errFull at this count
  LoadNum,     \* loadFactor = LoadNum / LoadDen
  LoadDen,
  Empty,       \* a slot with kvOffset = 0
  Nil,         \* "no value" returned by a lookup
  HashSeed,    \* the seed hash.RandSeed gave the new index
  FreelistOff, \* the offset data.fl.write returns at Close
  Clients,     \* goroutines calling PutEntry and DeleteEntry
  MaxFaults    \* bound on failed index or data writes

ASSUME E \in Nat \ {0} /\ HashBits \in Nat /\ MaxKeys \in Nat

VARIABLES
  db,          \* dbInfo and the index: [dir, level, splitBlockIdx, nBlocks, count, filter]
  hashOf,      \* hash.WithSalt(key, hashSeed): fixed by the random seed of Open
  lastOp,      \* history: the last operation that returned success
  hdr,         \* the header bytes at offset 0 of the index file
  isOpen,      \* between Open and Close
  kv,          \* the abstract map (KVMap) of the calls that returned nil
  pc,          \* per client: "idle", the split check, or a step of split
  sp,          \* per client: split's locals updatedBlockIdx, newBlockOff, the rehashed entries
  faults       \* write errors so far

vars == <<db, hashOf, lastOp, hdr, isOpen, kv, pc, sp, faults>>

KV == INSTANCE KVMap WITH store <- kv

Hashes == 0 .. 2^HashBits - 1
Slot == [key : Keys, val : Vals]
EmptyBlock == [i \in 1 .. E |-> Empty]

\* The chain of directory block i (index blocks are numbered from 0).
Chain(d, i) == d.dir[i + 1]

\* Flat positions of a chain: position p is slot SlotOf(p) of block BlockOf(p).
BlockOf(p) == (p - 1) \div E + 1
SlotOf(p) == ((p - 1) % E) + 1

(***************************************************************************)
(* blockIndex: h & (1<<level - 1), one more bit below the split cursor.   *)
(***************************************************************************)
BlockIndex(d, h) ==
  LET idx == h % 2^d.level
  IN IF idx < d.splitBlockIdx THEN h % 2^(d.level + 1) ELSE idx

(***************************************************************************)
(* forEachBlock scan of Get and Delete: within a block the scan leaves at *)
(* the first empty slot and goes on with the overflow block, so a slot is *)
(* seen only when every slot before it in its block is used.              *)
(***************************************************************************)
Seen(ch, p) ==
  LET f == FlattenSeq(ch)
  IN \A q \in (BlockOf(p) - 1) * E + 1 .. p : f[q] # Empty

FindKey(ch, k) ==
  LET f == FlattenSeq(ch)
      I == {p \in 1 .. Len(f) : Seen(ch, p) /\ f[p].key = k}
  IN IF I = {} THEN 0 ELSE Min(I)

ChainLookup(d, k) ==
  LET ch == Chain(d, BlockIndex(d, hashOf[k]))
      p == FindKey(ch, k)
  IN IF p = 0 THEN Nil ELSE FlattenSeq(ch)[p].val

\* Get: the filter is tested first; a miss answers "not found".
Get(d, k) == IF hashOf[k] \notin d.filter THEN Nil ELSE ChainLookup(d, k)

(***************************************************************************)
(* put: walk the chain to the first slot that is empty or holds the key;  *)
(* when none, allocate an overflow block behind the last one.  A new slot *)
(* bumps count (errFull at MaxKeys).  When an overflow block was created  *)
(* put writes the linking block and returns before filter.Append.         *)
(***************************************************************************)
\* Fault variant: put takes the first empty slot without looking for the key.
PutTargetFirstEmpty(d, k) ==
  LET f == FlattenSeq(Chain(d, BlockIndex(d, hashOf[k])))
      I == {p \in 1 .. Len(f) : f[p] = Empty}
  IN IF I = {} THEN Len(f) + 1 ELSE Min(I)

PutTarget(d, k) ==
  LET f == FlattenSeq(Chain(d, BlockIndex(d, hashOf[k])))
      I == {p \in 1 .. Len(f) : f[p] = Empty \/ f[p].key = k}
  IN IF I = {} THEN Len(f) + 1 ELSE Min(I)

PutOverflows(d, k) ==
  PutTarget(d, k) > Len(FlattenSeq(Chain(d, BlockIndex(d, hashOf[k]))))

PutIsNew(d, k) ==
  PutOverflows(d, k)
  \/ FlattenSeq(Chain(d, BlockIndex(d, hashOf[k])))[PutTarget(d, k)] = Empty

\* Fault variant: the errFull check is dropped.
PutFullDropped(d, k) == FALSE

PutFull(d, k) == PutIsNew(d, k) /\ d.count = MaxKeys

\* Fault variant: an overwrite also bumps count.
putCountsOverwrite(d, k, v) ==
  LET b == BlockIndex(d, hashOf[k])
      p == PutTarget(d, k)
      ch == IF PutOverflows(d, k) THEN Append(Chain(d, b), EmptyBlock)
                                  ELSE Chain(d, b)
  IN [d EXCEPT
        !.dir[b + 1] = [ch EXCEPT ![BlockOf(p)][SlotOf(p)] = [key |-> k, val |-> v]],
        !.count = @ + 1,
        !.filter = IF PutOverflows(d, k) THEN @ ELSE @ \cup {hashOf[k]}]

put(d, k, v) ==
  LET b == BlockIndex(d, hashOf[k])
      p == PutTarget(d, k)
      ch == IF PutOverflows(d, k) THEN Append(Chain(d, b), EmptyBlock)
                                  ELSE Chain(d, b)
  IN [d EXCEPT
        !.dir[b + 1] = [ch EXCEPT ![BlockOf(p)][SlotOf(p)] = [key |-> k, val |-> v]],
        !.count = IF PutIsNew(d, k) THEN @ + 1 ELSE @,
        !.filter = IF PutOverflows(d, k) THEN @ ELSE @ \cup {hashOf[k]}]

(***************************************************************************)
(* split runs after put has released db.mu and takes no lock itself; its  *)
(* steps are separate actions below.  entryWriter.insert packs the        *)
(* entries it is given into a head block and overflow blocks in order.    *)
(***************************************************************************)
UsedPrefix(blk) ==
  LET I == {i \in 1 .. E : blk[i] = Empty}
  IN IF I = {} THEN blk ELSE SubSeq(blk, 1, Min(I) - 1)

Entries(ch) == FlattenSeq([j \in 1 .. Len(ch) |-> UsedPrefix(ch[j])])

Pack(es) ==
  LET n == IF Len(es) = 0 THEN 1 ELSE (Len(es) + E - 1) \div E
  IN [j \in 1 .. n |->
        [i \in 1 .. E |-> IF (j - 1) * E + i <= Len(es) THEN es[(j - 1) * E + i]
                                                      ELSE Empty]]

AdvanceCursor(d) ==
  IF d.splitBlockIdx + 1 = 2^d.level
  THEN [d EXCEPT !.level = @ + 1, !.splitBlockIdx = 0]
  ELSE [d EXCEPT !.splitBlockIdx = @ + 1]

Overloaded(d) == d.count * LoadDen > LoadNum * d.nBlocks * E

\* writeHeader: the header of dbInfo, with the freelist just written.
HeaderOf(d) ==
  [signature |-> Signature, version |-> Version, level |-> d.level,
   count |-> d.count, nBlocks |-> d.nBlocks, splitBlockIdx |-> d.splitBlockIdx,
   freelistOff |-> FreelistOff, hashSeed |-> HashSeed]

NoSplit == [u |-> 0, off |-> 0, stay |-> <<>>, move |-> <<>>]

(***************************************************************************)
(* Open on an empty index: one block, level 0, a random hash seed, and    *)
(* writeHeader.                                                           *)
(***************************************************************************)
Init ==
  /\ db = [dir |-> <<<<EmptyBlock>>>>, level |-> 0, splitBlockIdx |-> 0,
           nBlocks |-> 1, count |-> 0, filter |-> {}]
  /\ hashOf \in [Keys -> Hashes]
  /\ hdr = MarshalBinary(HeaderOf(db))
  /\ isOpen = TRUE
  /\ KV!Init
  /\ pc = [c \in Clients |-> "idle"]
  /\ sp = [c \in Clients |-> NoSplit]
  /\ faults = 0

(***************************************************************************)
(* PutEntry's put, under db.mu: errFull returns before the split check,   *)
(* a put that returned nil goes on to the split check.                    *)
(***************************************************************************)
PutEntry(c, k, v) ==
  /\ isOpen /\ pc[c] = "idle"
  /\ IF PutFull(db, k)
     THEN UNCHANGED vars
     ELSE /\ db' = put(db, k, v)
          /\ KV!Put(k, v)
          /\ pc' = [pc EXCEPT ![c] = "check"]
          /\ UNCHANGED <<hashOf, hdr, isOpen, sp, faults>>

(***************************************************************************)
(* put's error returns after count++: writeKeyValue, b.write or, for a    *)
(* new overflow block, originalB.write fails.  The block with the entry   *)
(* is not linked into the chain, but count keeps the increment.  PutEntry *)
(* returns the error before the split check.                              *)
(***************************************************************************)
PutWriteFails(c, k) ==
  /\ isOpen /\ pc[c] = "idle" /\ faults < MaxFaults
  /\ ~PutFull(db, k)
  /\ db' = [db EXCEPT !.count = IF PutIsNew(db, k) THEN @ + 1 ELSE @]
  /\ faults' = faults + 1
  /\ UNCHANGED <<hashOf, lastOp, hdr, isOpen, kv, pc, sp>>

\* PutEntry, after db.mu is released: the load factor is read without a lock.
SplitCheck(c) ==
  /\ pc[c] = "check"
  /\ pc' = [pc EXCEPT ![c] = IF Overloaded(db) THEN "extend" ELSE "idle"]
  /\ UNCHANGED <<db, hashOf, lastOp, hdr, isOpen, kv, sp, faults>>

\* split: updatedBlockIdx is read and index.extend appends a block to the file.
SplitExtend(c) ==
  /\ pc[c] = "extend"
  /\ sp' = [sp EXCEPT ![c] = [NoSplit EXCEPT !.u = db.splitBlockIdx, !.off = Len(db.dir)]]
  /\ db' = [db EXCEPT !.dir = Append(@, <<EmptyBlock>>)]
  /\ pc' = [pc EXCEPT ![c] = "advance"]
  /\ UNCHANGED <<hashOf, lastOp, hdr, isOpen, kv, faults>>

\* splitBlockIdx++, and the level goes up when the cursor wraps.
SplitAdvance(c) ==
  /\ pc[c] = "advance"
  /\ db' = AdvanceCursor(db)
  /\ pc' = [pc EXCEPT ![c] = "rehash"]
  /\ UNCHANGED <<hashOf, lastOp, hdr, isOpen, kv, sp, faults>>

(***************************************************************************)
(* forEachBlock over the chain of updatedBlockIdx: the used prefix of     *)
(* every block is read and routed by blockIndex with the directory as it  *)
(* is now; those that stay are inserted into updatedBlock, the others     *)
(* into newBlock.                                                         *)
(***************************************************************************)
SplitRehash(c) ==
  LET u == sp[c].u
      es == Entries(Chain(db, u))
  IN /\ pc[c] = "rehash"
     /\ sp' = [sp EXCEPT
                 ![c].stay = SelectSeq(es, LAMBDA e : BlockIndex(db, hashOf[e.key]) = u),
                 ![c].move = SelectSeq(es, LAMBDA e : BlockIndex(db, hashOf[e.key]) # u)]
     /\ pc' = [pc EXCEPT ![c] = "writeNew"]
     /\ UNCHANGED <<db, hashOf, lastOp, hdr, isOpen, kv, faults>>

\* newBlock.write at the offset extend returned.
SplitWriteNew(c) ==
  /\ pc[c] = "writeNew"
  /\ db' = [db EXCEPT !.dir[sp[c].off + 1] = Pack(sp[c].move)]
  /\ pc' = [pc EXCEPT ![c] = "writeUpdated"]
  /\ UNCHANGED <<hashOf, lastOp, hdr, isOpen, kv, sp, faults>>

\* updatedBlock.write, then nBlocks++.
SplitWriteUpdated(c) ==
  /\ pc[c] = "writeUpdated"
  /\ db' = [db EXCEPT !.dir[sp[c].u + 1] = Pack(sp[c].stay), !.nBlocks = @ + 1]
  /\ pc' = [pc EXCEPT ![c] = "idle"]
  /\ sp' = [sp EXCEPT ![c] = NoSplit]
  /\ UNCHANGED <<hashOf, lastOp, hdr, isOpen, kv, faults>>

(***************************************************************************)
(* split's error returns after the cursor moved: an insert, newBlock.write *)
(* or updatedBlock.write fails; nBlocks is not incremented, and PutEntry  *)
(* ignores the error.                                                     *)
(***************************************************************************)
SplitFails(c) ==
  /\ pc[c] \in {"rehash", "writeNew", "writeUpdated"} /\ faults < MaxFaults
  /\ pc' = [pc EXCEPT ![c] = "idle"]
  /\ sp' = [sp EXCEPT ![c] = NoSplit]
  /\ faults' = faults + 1
  /\ UNCHANGED <<db, hashOf, lastOp, hdr, isOpen, kv>>

(***************************************************************************)
(* Delete: under db.mu, a filter miss returns nil; otherwise the first    *)
(* seen slot with the key is removed by blockHandle.del, which shifts the *)
(* later slots of that block left, and count is decremented.              *)
(***************************************************************************)
del(blk, i) == [x \in 1 .. E |-> IF x < i THEN blk[x]
                                ELSE IF x < E THEN blk[x + 1] ELSE Empty]

\* count-- on the uint32 count: 0 wraps to math.MaxUint32, which MaxKeys stands for.
Decr(n) == IF n = 0 THEN MaxKeys ELSE n - 1

Delete(c, k) ==
  LET b == BlockIndex(db, hashOf[k])
      p == FindKey(Chain(db, b), k)
  IN /\ isOpen /\ pc[c] = "idle"
     /\ db' = IF hashOf[k] \notin db.filter \/ p = 0 THEN db
              ELSE [db EXCEPT !.dir[b + 1][BlockOf(p)] = del(@, SlotOf(p)),
                              !.count = Decr(@)]
     /\ KV!Delete(k)
     /\ UNCHANGED <<hashOf, hdr, isOpen, pc, sp, faults>>

Quiescent == \A c \in Clients : pc[c] = "idle"

(***************************************************************************)
(* Close: under db.mu, writeHeader stores the marshalled header at offset *)
(* 0 of the index, then the files are closed.  Callers close the DB after *)
(* their PutEntry and DeleteEntry calls have returned.                    *)
(***************************************************************************)
Close ==
  /\ isOpen /\ Quiescent
  /\ hdr' = MarshalBinary(HeaderOf(db))
  /\ isOpen' = FALSE
  /\ UNCHANGED <<db, hashOf, lastOp, kv, pc, sp, faults>>

(***************************************************************************)
(* Open of an existing index: readHeader unmarshals the header, returns   *)
(* errCorrupted (Open fails) on a wrong signature, else takes its dbInfo; *)
(* the hash function is the one of the seed read back.                    *)
(***************************************************************************)
Open ==
  LET h == UnmarshalBinary(hdr)
  IN /\ ~isOpen
     /\ h.signature = Signature
     /\ db' = [db EXCEPT !.level = h.level, !.count = h.count,
                         !.nBlocks = h.nBlocks, !.splitBlockIdx = h.splitBlockIdx]
     /\ hashOf' \in IF h.hashSeed = HashSeed THEN {hashOf} ELSE [Keys -> Hashes]
     /\ isOpen' = TRUE
     /\ UNCHANGED <<lastOp, hdr, kv, pc, sp, faults>>

SplitStep(c) ==
  \/ SplitCheck(c) \/ SplitExtend(c) \/ SplitAdvance(c) \/ SplitRehash(c)
  \/ SplitWriteNew(c) \/ SplitWriteUpdated(c) \/ SplitFails(c)

Next ==
  \/ \E c \in Clients :
       \/ SplitStep(c)
       \/ \E k \in Keys : \/ Delete(c, k) \/ PutWriteFails(c, k)
                          \/ \E v \in Vals : PutEntry(c, k, v)
  \/ Close \/ Open

\* The put/split workload alone, without Delete.
PutNext ==
  \/ \E c \in Clients :
       \/ SplitStep(c)
       \/ \E k \in Keys : \/ PutWriteFails(c, k)
                          \/ \E v \in Vals : PutEntry(c, k, v)
  \/ Close \/ Open

Spec == Init /\ [][Next]_vars
PutSpec == Init /\ [][PutNext]_vars

------------------------------------------------------------------------------
TypeOK ==
  /\ db.level \in Nat /\ db.splitBlockIdx \in Nat /\ db.nBlocks \in Nat
  /\ db.count \in 0 .. MaxKeys
  /\ db.filter \subseteq Hashes
  /\ Len(db.dir) >= db.nBlocks
  /\ \A i \in 1 .. Len(db.dir) :
       /\ Len(db.dir[i]) >= 1
       /\ \A j \in 1 .. Len(db.dir[i]) : db.dir[i][j] \in [1 .. E -> Slot \cup {Empty}]
  /\ hashOf \in [Keys -> Hashes]
  /\ isOpen \in BOOLEAN
  /\ hdr \in [0 .. UsedBytes - 1 -> 0 .. 255]
  /\ pc \in [Clients -> {"idle", "check", "extend", "advance", "rehash",
                         "writeNew", "writeUpdated"}]
  /\ faults \in 0 .. MaxFaults

(***************************************************************************)
(* Get answers from the index: whatever a chain scan finds for a key, Get *)
(* returns too (the presence filter has no false negatives).              *)
(***************************************************************************)
GetSeesIndex == \A k \in Keys : Get(db, k) = ChainLookup(db, k)

(***************************************************************************)
(* Whenever no PutEntry is between its put and the end of its split, a    *)
(* chain scan finds for every key the value of the map KVMap holds after  *)
(* the puts and deletes that returned nil (PutEntry, split, DeleteEntry;  *)
(* the DB promises safety for concurrent use).                            *)
(***************************************************************************)
SplitKeepsKeys ==
  Quiescent => \A k \in Keys : ChainLookup(db, k) = kv[k]

(***************************************************************************)
(* Close then Open gives back the index Close left: the header codec      *)
(* carries level, count, nBlocks, splitBlockIdx and the hash seed through *)
(* the bytes of the index file unchanged (writeHeader, readHeader).       *)
(***************************************************************************)
ReopenRestoresIndex ==
  [][~isOpen /\ isOpen' => db' = db /\ hashOf' = hashOf]_vars
==============================================================================
