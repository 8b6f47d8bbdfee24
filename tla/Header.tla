-------------------------------- MODULE Header --------------------------------
(***************************************************************************)
(* The file header codec of src/message/trie.go (lines 221-266): the       *)
(* header struct and its MarshalBinary / UnmarshalBinary, which DB.Close   *)
(* and DB.Open use to store dbInfo at offset 0 of the index file.  Bytes   *)
(* are numbers 0..255 at 0-based offsets.  Only the first 37 of the        *)
(* headerSize (align512, 512) bytes are written or read; the rest of the   *)
(* buffer stays zero.  Multi-byte fields are little-endian; int64 travels  *)
(* as its two's-complement uint64.                                         *)
(***************************************************************************)
EXTENDS Naturals, Integers, Sequences, SequencesExt

\* signature = [7]byte{'t', 'r', 'a', 'c', 'e', 'd', 'b'}
Signature == <<116, 114, 97, 99, 101, 100, 98>>

Version == 1

UsedBytes == 37

\* binary.LittleEndian.PutUintW: w bytes, least significant first.
RECURSIVE LE(_, _)
LE(n, w) == IF w = 0 THEN <<>> ELSE <<n % 256>> \o LE(n \div 256, w - 1)

\* binary.LittleEndian.UintW of the bytes.
FromLE(bs) == FoldRight(LAMBDA b, acc : b + 256 * acc, bs, 0)

\* uint64(i) for an int64: the complement of |i|-1 for a negative i.
I64Bytes(i) == IF i >= 0 THEN LE(i, 8) ELSE [j \in 1 .. 8 |-> 255 - LE(-i - 1, 8)[j]]

\* int64(u) of eight bytes whose top bit is the sign.
I64Of(bs) == IF bs[8] < 128 THEN FromLE(bs)
             ELSE -(FromLE([j \in 1 .. 8 |-> 255 - bs[j]])) - 1

\* copy(buf[off:], bs): bytes off .. off+Len(bs)-1 are replaced.
PutAt(buf, off, bs) ==
  [i \in DOMAIN buf |-> IF i \in off .. off + Len(bs) - 1 THEN bs[i - off + 1] ELSE buf[i]]

\* data[lo:hi] as a sequence.
Slice(buf, lo, hi) == [j \in 1 .. hi - lo |-> buf[lo + j - 1]]

ZeroBuf == [i \in 0 .. UsedBytes - 1 |-> 0]

(***************************************************************************)
(* MarshalBinary: copy(buf[:8], signature) copies the 7 signature bytes   *)
(* and leaves buf[7] zero; version at 8, level at 12, count 13, nBlocks   *)
(* 17, splitBlockIdx 21, freelistOff 25 (8 bytes), hashSeed 33.           *)
(***************************************************************************)
MarshalBinary(h) ==
  LET b0 == PutAt(ZeroBuf, 0, h.signature)
      b1 == PutAt(b0, 8, LE(h.version, 4))
      b2 == [b1 EXCEPT ![12] = h.level]
      b3 == PutAt(b2, 13, LE(h.count, 4))
      b4 == PutAt(b3, 17, LE(h.nBlocks, 4))
      b5 == PutAt(b4, 21, LE(h.splitBlockIdx, 4))
      b6 == PutAt(b5, 25, I64Bytes(h.freelistOff))
  IN  PutAt(b6, 33, LE(h.hashSeed, 4))

\* Fault variant: splitBlockIdx is read from the nBlocks field.
UnmarshalBinaryShifted(data) ==
  [signature     |-> Slice(data, 0, 7),
   version       |-> FromLE(Slice(data, 8, 12)),
   level         |-> data[12],
   count         |-> FromLE(Slice(data, 13, 17)),
   nBlocks       |-> FromLE(Slice(data, 17, 21)),
   splitBlockIdx |-> FromLE(Slice(data, 17, 21)),
   freelistOff   |-> I64Of(Slice(data, 25, 33)),
   hashSeed      |-> FromLE(Slice(data, 33, 37))]

\* UnmarshalBinary: copy(h.signature[:], data[:8]) fills the 7 bytes.
UnmarshalBinary(data) ==
  [signature     |-> Slice(data, 0, 7),
   version       |-> FromLE(Slice(data, 8, 12)),
   level         |-> data[12],
   count         |-> FromLE(Slice(data, 13, 17)),
   nBlocks       |-> FromLE(Slice(data, 17, 21)),
   splitBlockIdx |-> FromLE(Slice(data, 21, 25)),
   freelistOff   |-> I64Of(Slice(data, 25, 33)),
   hashSeed      |-> FromLE(Slice(data, 33, 37))]
==============================================================================
