---------------------------- MODULE ObjectReader ----------------------------
(***************************************************************************)
(* TAEObjectReader: one object file, from the format probe to the columns  *)
(* of its blocks.  ReadBytes hides the two formats of a file: raw, or cut  *)
(* into blocks of a checksum and content.  ReadBlock sorts the extents of  *)
(* the columns asked for, reads near ones together and cuts the columns    *)
(* out again.                                                              *)
(*                                                                         *)
(* A content byte is named by its logical offset, so that bytes from a     *)
(* wrong place can be told from the right ones; Crc is a byte of a         *)
(* checksum.  What follows the bytes of an extent, decompression and       *)
(* decoding, depends on nothing else and is left out.  Offsets count from  *)
(* 0 as in the code, blocks, columns and sequences from 1.                 *)
(***************************************************************************)
EXTENDS Integers, Sequences, FiniteSets, Functions

CONSTANTS CrcSize, CrcContentSize,   \* 4 and 2044
          MagicSize, HeaderSize,     \* 8 and 64
          LengthMod,                 \* 2^32, the modulus of a read's length
          Files,                     \* the files considered
          Calls,                     \* the calls of ReadBlock considered
          Gaps, Thresholds           \* the reader's two settings

VARIABLES
  file, coalesce_gap, prefetch_threshold,    \* chosen once
  prefetch_attempted, prefetch_buf,          \* the cache of a small file
  crc_block_format,
  pc, error,                                 \* where the reader is, why it threw
  call, reqs, coalesced, req_to_coalesced,   \* the locals of ReadBlock
  buffers, sliced, result,
  file_reads                                 \* history: reads of the file, 2 for more

settings == <<file, coalesce_gap, prefetch_threshold>>
cache == <<prefetch_attempted, prefetch_buf, file_reads>>
plan == <<call, reqs, coalesced, req_to_coalesced>>
output == <<buffers, sliced, result>>
vars == <<settings, cache, crc_block_format, pc, error, plan, output>>

Extent == [offset : Nat, length : 0 .. LengthMod - 1]

(* A file: its format and size, where its metadata is, and for every block
   the extents of its columns. *)
File == [format : {"raw", "crc", "other"}, size : Nat, meta : Extent, blocks : Seq(Seq(Extent))]

ASSUME ObjectReaderAssumption ==
  /\ {CrcSize, CrcContentSize, MagicSize, HeaderSize, LengthMod} \subseteq Nat \ {0}
  /\ MagicSize <= HeaderSize /\ MagicSize <= CrcContentSize
  /\ Files \subseteq File
  /\ Calls \subseteq [block_idx : Nat \ {0}, seqnums : Seq(Nat \ {0})]
  /\ Gaps \subseteq Nat /\ Thresholds \subseteq Nat

CrcBlockSize == CrcSize + CrcContentSize

Crc == -1

(* What a file has at a physical offset. *)
ByteAt(f, p) ==
  CASE f.format = "raw" -> p
    [] f.format = "crc" ->
         IF p % CrcBlockSize < CrcSize THEN Crc
         ELSE (p \div CrcBlockSize) * CrcContentSize + (p % CrcBlockSize) - CrcSize
    [] f.format = "other" -> Crc

Disk(offset, length) == [i \in 1 .. length |-> ByteAt(file, offset + i - 1)]

(* The logical bytes from offset on. *)
Content(offset, length) == [i \in 1 .. length |-> offset + i - 1]

Slice(buf, offset, length) == SubSeq(buf, offset + 1, offset + length)

---------------------------------------------------------------------------
(* ReadRawBytes: the first call reads a small file whole *)

WholeFileRead == ~prefetch_attempted /\ file.size <= prefetch_threshold

Cache == IF WholeFileRead THEN Disk(0, file.size) ELSE prefetch_buf

(* Mutant: the file's last byte does not count as cached. *)
CachedButLast(offset, length) == Cache # <<>> /\ offset + length < Len(Cache)

Cached(offset, length) == Cache # <<>> /\ offset + length <= Len(Cache)

ReadRawBytes(offset, length) ==
  IF Cached(offset, length) THEN Slice(Cache, offset, length) ELSE Disk(offset, length)

InFile(offset, length) == offset + length <= file.size

NewReads(offset, length) ==
  (IF WholeFileRead THEN 1 ELSE 0) + (IF Cached(offset, length) THEN 0 ELSE 1)

(* The cache after a read of these raw bytes. *)
RawRead(offset, length) ==
  /\ prefetch_attempted' = TRUE
  /\ prefetch_buf' = Cache
  /\ file_reads' = IF file_reads + NewReads(offset, length) > 2 THEN 2
                   ELSE file_reads + NewReads(offset, length)

---------------------------------------------------------------------------
(* ReadBytes: logical bytes *)

(* The content bytes in a raw range that starts with a checksum. *)
StrippedLen(n) ==
  (n \div CrcBlockSize) * CrcContentSize
    + (IF n % CrcBlockSize > CrcSize THEN (n % CrcBlockSize) - CrcSize ELSE 0)

StripCrc32Blocks(raw) ==
  [j \in 1 .. StrippedLen(Len(raw)) |->
     raw[((j - 1) \div CrcContentSize) * CrcBlockSize + CrcSize + ((j - 1) % CrcContentSize) + 1]]

FirstBlock(offset) == offset \div CrcContentSize

(* Mutant: a range is taken to end in the block it starts in. *)
LastBlockOfStart(offset, length) == offset \div CrcContentSize

LastBlock(offset, length) == (offset + length - 1) \div CrcContentSize

PhysStart(offset) == FirstBlock(offset) * CrcBlockSize

PhysEnd(offset, length) ==
  LET end == (LastBlock(offset, length) + 1) * CrcBlockSize
  IN  IF end < file.size THEN end ELSE file.size

(* The raw range that holds a logical range. *)
RawRange(offset, length) ==
  IF crc_block_format
  THEN [offset |-> PhysStart(offset), length |-> PhysEnd(offset, length) - PhysStart(offset)]
  ELSE [offset |-> offset, length |-> length]

LocalOffset(offset) == offset - FirstBlock(offset) * CrcContentSize

ReadBytes(offset, length) ==
  LET range == RawRange(offset, length)
      raw == ReadRawBytes(range.offset, range.length)
  IN  IF crc_block_format THEN Slice(StripCrc32Blocks(raw), LocalOffset(offset), length)
      ELSE raw

(* Nothing throws: the raw range is in the file, and the content stripped from
   it reaches far enough. *)
CanRead(offset, length) ==
  LET range == RawRange(offset, length)
  IN  /\ range.length >= 0 /\ InFile(range.offset, range.length)
      /\ crc_block_format => LocalOffset(offset) + length <= StrippedLen(range.length)

LogicalRead(offset, length) ==
  LET range == RawRange(offset, length) IN RawRead(range.offset, range.length)

---------------------------------------------------------------------------
NoCall == [block_idx |-> 1, seqnums |-> <<>>]

Init ==
  /\ file \in Files /\ coalesce_gap \in Gaps /\ prefetch_threshold \in Thresholds
  /\ prefetch_attempted = FALSE /\ prefetch_buf = <<>> /\ file_reads = 0
  /\ crc_block_format = FALSE
  /\ pc = "opened" /\ error = "none"
  /\ call = NoCall
  /\ reqs = <<>> /\ coalesced = <<>> /\ req_to_coalesced = <<>>
  /\ buffers = <<>> /\ sliced = 0 /\ result = <<>>

(* An exception.  Its callers destroy the reader, and with it what it kept. *)
Throw(reason) ==
  /\ pc' = "failed"
  /\ error' = reason
  /\ UNCHANGED <<settings, cache, crc_block_format, plan, output>>

ProbeSize == CrcSize + MagicSize

MagicAt(buf, offset) == Slice(buf, offset, MagicSize) = Content(0, MagicSize)

Probe == ReadRawBytes(0, ProbeSize)

DetectCrcFormat ==
  /\ pc = "opened" /\ InFile(0, ProbeSize)
  /\ MagicAt(Probe, 0) \/ MagicAt(Probe, CrcSize)
  /\ crc_block_format' = ~MagicAt(Probe, 0)
  /\ RawRead(0, ProbeSize)
  /\ pc' = "header"
  /\ UNCHANGED <<settings, error, plan, output>>

UnknownFormat ==
  /\ pc = "opened"
  /\ ~InFile(0, ProbeSize) \/ (~MagicAt(Probe, 0) /\ ~MagicAt(Probe, CrcSize))
  /\ Throw("format")

(* The header leads to the metadata. *)
ReadHeader ==
  /\ pc = "header" /\ CanRead(0, HeaderSize)
  /\ MagicAt(ReadBytes(0, HeaderSize), 0)
  /\ LogicalRead(0, HeaderSize)
  /\ pc' = "metadata"
  /\ UNCHANGED <<settings, crc_block_format, error, plan, output>>

(* The metadata gives the extents of all columns. *)
ReadMetadata ==
  /\ pc = "metadata" /\ CanRead(file.meta.offset, file.meta.length)
  /\ ReadBytes(file.meta.offset, file.meta.length) = Content(file.meta.offset, file.meta.length)
  /\ LogicalRead(file.meta.offset, file.meta.length)
  /\ pc' = "ready"
  /\ UNCHANGED <<settings, crc_block_format, error, plan, output>>

MetaRejected ==
  \/ /\ pc = "header"
     /\ CanRead(0, HeaderSize) => ~MagicAt(ReadBytes(0, HeaderSize), 0)
     /\ Throw("format")
  \/ /\ pc = "metadata"
     /\ CanRead(file.meta.offset, file.meta.length) =>
          ReadBytes(file.meta.offset, file.meta.length)
            # Content(file.meta.offset, file.meta.length)
     /\ Throw("format")

---------------------------------------------------------------------------
(* ReadBlock *)

ColumnExtent(c, i) == file.blocks[c.block_idx][c.seqnums[i]]

Requests(c) ==
  [i \in DOMAIN c.seqnums |->
     [result_idx |-> i, offset |-> ColumnExtent(c, i).offset, length |-> ColumnExtent(c, i).length]]

(* std::sort by offset; requests with equal offsets come in any order. *)
SortedByOffset(s) ==
  {t \in {[i \in DOMAIN s |-> s[p[i]]] : p \in Bijection(DOMAIN s, DOMAIN s)} :
     \A i, j \in DOMAIN t : i < j => t[i].offset <= t[j].offset}

InRange(c) ==
  /\ c.block_idx <= Len(file.blocks)
  /\ \A i \in DOMAIN c.seqnums : c.seqnums[i] <= Len(file.blocks[c.block_idx])

ReadBlock(c) ==
  /\ pc = "ready" /\ InRange(c)
  /\ call' = c
  /\ reqs' \in SortedByOffset(Requests(c))
  /\ coalesced' = <<>> /\ req_to_coalesced' = <<>>
  /\ buffers' = <<>> /\ sliced' = 0
  /\ result' = [i \in DOMAIN c.seqnums |-> <<>>]
  /\ pc' = "coalesce"
  /\ UNCHANGED <<settings, cache, crc_block_format, error>>

OutOfRange(c) == pc = "ready" /\ ~InRange(c) /\ Throw("range")

(* The request that the coalescing loop looks at. *)
Req == reqs[Len(req_to_coalesced) + 1]
ReqEnd == Req.offset + Req.length
Last == coalesced[Len(coalesced)]
LastEnd == Last.offset + Last.length

GapBefore == IF Req.offset > LastEnd THEN Req.offset - LastEnd ELSE 0

(* Mutant: a gap of the full threshold is not bridged. *)
NearExclusive == coalesced # <<>> /\ GapBefore < coalesce_gap

Near == coalesced # <<>> /\ GapBefore <= coalesce_gap

(* Mutant: the length of a read is not kept in 32 bits. *)
WideLength(length) == length

ReadLength(length) == length % LengthMod

(* The request joins the last read, which grows if the request ends after it. *)
ExtendRead ==
  /\ pc = "coalesce" /\ Len(req_to_coalesced) < Len(reqs) /\ Near
  /\ coalesced' =
       IF ReqEnd > LastEnd
       THEN [coalesced EXCEPT ![Len(coalesced)].length = ReadLength(ReqEnd - Last.offset)]
       ELSE coalesced
  /\ req_to_coalesced' = Append(req_to_coalesced, Len(coalesced))
  /\ UNCHANGED <<settings, cache, crc_block_format, pc, error, call, reqs, output>>

StartRead ==
  /\ pc = "coalesce" /\ Len(req_to_coalesced) < Len(reqs) /\ ~Near
  /\ coalesced' = Append(coalesced, [offset |-> Req.offset, length |-> Req.length])
  /\ req_to_coalesced' = Append(req_to_coalesced, Len(coalesced) + 1)
  /\ UNCHANGED <<settings, cache, crc_block_format, pc, error, call, reqs, output>>

EndCoalesce ==
  /\ pc = "coalesce" /\ Len(req_to_coalesced) = Len(reqs)
  /\ pc' = "read"
  /\ UNCHANGED <<settings, cache, crc_block_format, error, plan, output>>

(* The next coalesced read to issue. *)
ToRead == coalesced[Len(buffers) + 1]
ReadsLeft == pc = "read" /\ Len(buffers) < Len(coalesced)

IssueRead ==
  /\ ReadsLeft /\ CanRead(ToRead.offset, ToRead.length)
  /\ buffers' = Append(buffers, ReadBytes(ToRead.offset, ToRead.length))
  /\ LogicalRead(ToRead.offset, ToRead.length)
  /\ UNCHANGED <<settings, crc_block_format, pc, error, plan, sliced, result>>

ReadPastEnd == ReadsLeft /\ ~CanRead(ToRead.offset, ToRead.length) /\ Throw("bounds")

EndReads ==
  /\ pc = "read" /\ Len(buffers) = Len(coalesced)
  /\ pc' = "slice"
  /\ UNCHANGED <<settings, cache, crc_block_format, error, plan, output>>

(* The request to cut out, the buffer it is in, and its place there. *)
ToSlice == reqs[sliced + 1]
SourceIdx == req_to_coalesced[sliced + 1]
SourceOffset == ToSlice.offset - coalesced[SourceIdx].offset
Fits == SourceOffset + ToSlice.length <= Len(buffers[SourceIdx])

(* Mutant: columns come out in the order of the file. *)
ResultIdxOfFile(req) == sliced + 1

ResultIdx(req) == req.result_idx

SliceColumn ==
  /\ pc = "slice" /\ sliced < Len(reqs) /\ Fits
  /\ result' = [result EXCEPT ![ResultIdx(ToSlice)] =
                  Slice(buffers[SourceIdx], SourceOffset, ToSlice.length)]
  /\ sliced' = sliced + 1
  /\ UNCHANGED <<settings, cache, crc_block_format, pc, error, plan, buffers>>

ColumnReadOverflow == pc = "slice" /\ sliced < Len(reqs) /\ ~Fits /\ Throw("bounds")

Return ==
  /\ pc = "slice" /\ sliced = Len(reqs)
  /\ pc' = "ready"
  /\ UNCHANGED <<settings, cache, crc_block_format, error, plan, output>>

---------------------------------------------------------------------------
(* PrefetchBlock: while one block is worked on, the system is told which bytes
   of a local file the next one will need.  Nothing is told of a cached file. *)

(* Mutant: logical offsets, also in a file with checksums. *)
HintOfRawFile(e) == [offset |-> e.offset, length |-> e.length]

NoBytes == [offset : Nat, length : {0}]

(* PrefetchRange *)
Hint(e) ==
  IF crc_block_format
  THEN [offset |-> PhysStart(e.offset),
        length |-> (LastBlock(e.offset, e.length) + 1) * CrcBlockSize - PhysStart(e.offset)]
  ELSE [offset |-> e.offset, length |-> e.length]

PrefetchBlock(c) ==
  IF prefetch_buf # <<>> \/ c.block_idx > Len(file.blocks) THEN {}
  ELSE {Hint(e) : e \in {file.blocks[c.block_idx][q] :
                           q \in {c.seqnums[i] : i \in DOMAIN c.seqnums}
                                  \cap DOMAIN file.blocks[c.block_idx]} \ NoBytes}

---------------------------------------------------------------------------
NewReadsOf(range) == NewReads(range.offset, range.length)

(* The step at hand reaches the disk. *)
TouchesDisk ==
  \/ pc = "opened" /\ InFile(0, ProbeSize) /\ NewReads(0, ProbeSize) > 0
  \/ pc = "header" /\ NewReadsOf(RawRange(0, HeaderSize)) > 0
  \/ pc = "metadata" /\ NewReadsOf(RawRange(file.meta.offset, file.meta.length)) > 0
  \/ ReadsLeft /\ NewReadsOf(RawRange(ToRead.offset, ToRead.length)) > 0

(* The file system throws. *)
IoFails == TouchesDisk /\ Throw("io")

(* The reader has been destroyed. *)
Destroyed == pc = "failed" /\ UNCHANGED vars

Next ==
  \/ DetectCrcFormat \/ UnknownFormat \/ ReadHeader \/ ReadMetadata \/ MetaRejected
  \/ \E c \in Calls : ReadBlock(c) \/ OutOfRange(c)
  \/ ExtendRead \/ StartRead \/ EndCoalesce
  \/ IssueRead \/ ReadPastEnd \/ EndReads
  \/ SliceColumn \/ ColumnReadOverflow \/ Return
  \/ IoFails \/ Destroyed

Spec == Init /\ [][Next]_vars

---------------------------------------------------------------------------
(* Properties *)

TypeOK ==
  /\ file \in Files /\ coalesce_gap \in Gaps /\ prefetch_threshold \in Thresholds
  /\ prefetch_attempted \in BOOLEAN /\ crc_block_format \in BOOLEAN
  /\ prefetch_buf \in Seq(Int)
  /\ file_reads \in 0 .. 2
  /\ pc \in {"opened", "header", "metadata", "ready", "coalesce", "read", "slice", "failed"}
  /\ error \in {"none", "io", "format", "range", "bounds"}
  /\ call \in Calls \cup {NoCall}
  /\ reqs \in Seq([result_idx : Nat \ {0}, offset : Nat, length : 0 .. LengthMod - 1])
  /\ coalesced \in Seq([offset : Nat, length : 0 .. LengthMod - 1])
  /\ req_to_coalesced \in Seq(Nat \ {0})
  /\ buffers \in Seq(Seq(Int)) /\ result \in Seq(Seq(Int))
  /\ sliced \in 0 .. Len(reqs)

(* When ReadBlock returns, each column asked for has the bytes of its own
   extent, in the order asked, whatever the file's format, the cache, the sort,
   the gaps bridged and even a read's length that wrapped: it throws or it is
   right. *)
ColumnsExact ==
  pc = "ready" =>
    /\ Len(result) = Len(call.seqnums)
    /\ \A i \in DOMAIN result :
         result[i] = Content(ColumnExtent(call, i).offset, ColumnExtent(call, i).length)

(* The content of a file, without checksums. *)
ContentSize(f) ==
  IF f.format = "crc" THEN StrippedLen(f.size) ELSE f.size

EndsBy(e, n) == e.offset + e.length <= n

(* The extents and the header lie in the content, and the columns of a block
   within one read's length of each other. *)
Intact(f) ==
  /\ f.format # "other" /\ f.size >= ProbeSize /\ HeaderSize <= ContentSize(f)
  /\ EndsBy(f.meta, ContentSize(f)) /\ f.meta.length > 0
  /\ \A b \in DOMAIN f.blocks : \A c \in DOMAIN f.blocks[b] :
       /\ EndsBy(f.blocks[b][c], ContentSize(f)) /\ f.blocks[b][c].length > 0
       /\ \A d \in DOMAIN f.blocks[b] :
            EndsBy(f.blocks[b][c], f.blocks[b][d].offset + LengthMod - 1)

(* An intact file is readable to its last byte: only the file system, or a
   call for a block or column it does not have, makes the reader throw. *)
IntactIsReadable == Intact(file) => error \in {"none", "io", "range"}

(* The reads of one block are issued in file order: no byte is fetched twice, and
   no two reads are left that a gap above 0 should have made one.  Nothing is said
   of extents that touch under a gap of 0: tae_object_reader.hpp:203 has it "disable
   coalescing", the code merges them. *)
ReadsApart ==
  Intact(file) =>
    \A i, j \in DOMAIN coalesced : i < j =>
      LET end == coalesced[i].offset + coalesced[i].length
      IN  /\ end <= coalesced[j].offset
          /\ coalesce_gap > 0 => end + coalesce_gap < coalesced[j].offset

(* "Reduces S3 round-trips ... to exactly 1 for small-to-medium files": a file
   up to the threshold is read once, however many blocks are read from it. *)
SmallFileReadOnce == Intact(file) /\ file.size <= prefetch_threshold => file_reads <= 1

(* What is announced for a block is what reading it takes: the bytes of every
   column that are read from the file, checksums and all, are a range that
   PrefetchBlock named, which is longer only by what a last checksum block that
   the end of the file cuts off would have had. *)
PrefetchCovers ==
  pc = "ready" /\ Intact(file) =>
    \A c \in Calls : InRange(c) /\ prefetch_buf = <<>> =>
      \A i \in DOMAIN c.seqnums :
        LET range == RawRange(ColumnExtent(c, i).offset, ColumnExtent(c, i).length)
        IN  \E h \in PrefetchBlock(c) :
              /\ h.offset = range.offset
              /\ range.length <= h.length /\ h.length < range.length + CrcBlockSize
===========================================================================
