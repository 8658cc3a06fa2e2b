------------------------- MODULE ObjectReader_proofs -------------------------
(***************************************************************************)
(* What holds of TAEObjectReader for every size of checksum blocks, every  *)
(* file and every call: ReadBytes gives the logical bytes asked for, and   *)
(* ReadBlock the bytes of the columns asked for.  An intact file is read   *)
(* to its last byte, in reads that are apart, and only once if it is small.*)
(***************************************************************************)
EXTENDS ObjectReader, SequenceTheorems, TLAPS

---------------------------------------------------------------------------
(* Arithmetic *)

LEMMA DivMod ==
  ASSUME NEW a \in Nat, NEW c \in Nat \ {0}
  PROVE  a = (a \div c) * c + (a % c) /\ a % c \in 0 .. c - 1 /\ a \div c \in Nat
  OBVIOUS

LEMMA DivModUnique ==
  ASSUME NEW k \in Nat, NEW m \in Nat, NEW b \in Nat \ {0}, m < b
  PROVE  (k * b + m) \div b = k /\ (k * b + m) % b = m
  OBVIOUS

LEMMA TimesPlus ==
  ASSUME NEW k \in Nat, NEW m \in Nat, NEW b \in Nat
  PROVE  (k + m) * b = k * b + m * b /\ k * b \in Nat
  OBVIOUS

LEMMA TimesMonotone ==
  ASSUME NEW k \in Nat, NEW m \in Nat, NEW b \in Nat, k <= m
  PROVE  k * b <= m * b
  OBVIOUS

LEMMA Sizes ==
  /\ CrcSize \in Nat \ {0} /\ CrcContentSize \in Nat \ {0} /\ MagicSize \in Nat \ {0}
  /\ HeaderSize \in Nat \ {0} /\ LengthMod \in Nat \ {0}
  /\ CrcBlockSize \in Nat \ {0} /\ CrcBlockSize = CrcSize + CrcContentSize
  BY ObjectReaderAssumption DEF CrcBlockSize

---------------------------------------------------------------------------
(* Buffers *)

LEMMA ContentFacts ==
  ASSUME NEW offset \in Nat, NEW length \in Nat
  PROVE  /\ Content(offset, length) \in Seq(Int)
         /\ Len(Content(offset, length)) = length
         /\ DOMAIN Content(offset, length) = 1 .. length
         /\ \A i \in 1 .. length : Content(offset, length)[i] = offset + i - 1
  BY DEF Content

(* A part of a buffer that holds f(offset), f(offset + 1) and so on. *)
LEMMA SliceFacts ==
  ASSUME NEW buf \in Seq(Int), NEW offset \in Nat, NEW length \in Nat,
         offset + length <= Len(buf)
  PROVE  Slice(buf, offset, length) = [i \in 1 .. length |-> buf[offset + i]]
<1>1. Slice(buf, offset, length) \in Seq(Int) /\ Len(Slice(buf, offset, length)) = length
  BY SubSeqProperties DEF Slice
<1>2. \A i \in 1 .. length : Slice(buf, offset, length)[i] = buf[offset + i]
  BY SubSeqProperties DEF Slice
<1> QED BY <1>1, <1>2

LEMMA SliceOfContent ==
  ASSUME NEW start \in Nat, NEW size \in Nat, NEW offset \in Nat, NEW length \in Nat,
         offset + length <= size
  PROVE  Slice(Content(start, size), offset, length) = Content(start + offset, length)
<1> DEFINE buf == Content(start, size)
<1>1. buf \in Seq(Int) /\ Len(buf) = size
  BY ContentFacts
<1>2. \A i \in 1 .. length : buf[offset + i] = start + offset + i - 1
  BY ContentFacts
<1>3. Content(start + offset, length) = [i \in 1 .. length |-> start + offset + i - 1]
  BY DEF Content
<1> HIDE DEF buf
<1>4. Slice(buf, offset, length) = [i \in 1 .. length |-> buf[offset + i]]
  BY <1>1, SliceFacts
<1>5. Slice(buf, offset, length) = Content(start + offset, length)
  BY <1>2, <1>3, <1>4
<1> QED BY <1>5 DEF buf

(* The place of a stripped byte in the raw range lies in the range. *)
LEMMA StrippedPlace ==
  ASSUME NEW n \in Nat, NEW a \in Nat, a < StrippedLen(n)
  PROVE  (a \div CrcContentSize) * CrcBlockSize + CrcSize + (a % CrcContentSize) < n
<1> DEFINE q == a \div CrcContentSize
           r == a % CrcContentSize
           k == n \div CrcBlockSize
           m == n % CrcBlockSize
<1>1. a = q * CrcContentSize + r /\ r \in 0 .. CrcContentSize - 1 /\ q \in Nat
  BY DivMod, Sizes
<1>2. n = k * CrcBlockSize + m /\ m \in 0 .. CrcBlockSize - 1 /\ k \in Nat
  BY DivMod, Sizes
<1>3. a < k * CrcContentSize + (IF m > CrcSize THEN m - CrcSize ELSE 0)
  BY DEF StrippedLen
<1> HIDE DEF q, r, k, m
<1>4. CASE q < k
  <2>1. (q + 1) * CrcBlockSize <= k * CrcBlockSize
    BY <1>1, <1>2, <1>4, TimesMonotone, Sizes
  <2>2. (q + 1) * CrcBlockSize = q * CrcBlockSize + CrcBlockSize /\ q * CrcBlockSize \in Nat
    BY <1>1, TimesPlus, Sizes
  <2> QED BY <1>1, <1>2, <2>1, <2>2, Sizes DEF q, r
<1>5. CASE q = k
  <2>1. k * CrcContentSize \in Nat /\ k * CrcBlockSize \in Nat
    BY <1>2, TimesPlus, Sizes
  <2>2. m > CrcSize /\ r < m - CrcSize
    BY <1>1, <1>2, <1>3, <1>5, <2>1, Sizes
  <2> QED BY <1>1, <1>2, <1>5, <2>1, <2>2, Sizes DEF q, r
<1>6. CASE q > k
  <2>1. (k + 1) * CrcContentSize <= q * CrcContentSize
    BY <1>1, <1>2, <1>6, TimesMonotone, Sizes
  <2>2. (k + 1) * CrcContentSize = k * CrcContentSize + CrcContentSize
        /\ k * CrcContentSize \in Nat
    BY <1>2, TimesPlus, Sizes
  <2> QED BY <1>1, <1>2, <1>3, <2>1, <2>2, Sizes
<1> QED BY <1>1, <1>2, <1>4, <1>5, <1>6

(* Stripping a raw range that starts at checksum block k gives content bytes
   from the first one of that block on. *)
LEMMA StripExact ==
  ASSUME NEW k \in Nat, NEW n \in Nat, file.format = "crc"
  PROVE  /\ StrippedLen(n) \in Nat
         /\ StripCrc32Blocks(Disk(k * CrcBlockSize, n))
              = Content(k * CrcContentSize, StrippedLen(n))
<1> DEFINE raw == Disk(k * CrcBlockSize, n)
<1>1. StrippedLen(n) \in Nat
  <2>1. n \div CrcBlockSize \in Nat /\ n % CrcBlockSize \in Nat
    BY DivMod, Sizes
  <2>2. (n \div CrcBlockSize) * CrcContentSize \in Nat
    BY <2>1, TimesPlus, Sizes
  <2> QED BY <2>1, <2>2, Sizes DEF StrippedLen
<1>2. Len(raw) = n /\ \A i \in 1 .. n : raw[i] = ByteAt(file, k * CrcBlockSize + i - 1)
  BY DEF Disk
<1>3. ASSUME NEW j \in 1 .. StrippedLen(n)
      PROVE  raw[((j - 1) \div CrcContentSize) * CrcBlockSize + CrcSize
                   + ((j - 1) % CrcContentSize) + 1] = k * CrcContentSize + j - 1
  <2> DEFINE q == (j - 1) \div CrcContentSize
             r == (j - 1) % CrcContentSize
             place == q * CrcBlockSize + CrcSize + r
  <2>1. j - 1 \in Nat /\ j - 1 < StrippedLen(n)
    BY <1>1
  <2>2. j - 1 = q * CrcContentSize + r /\ r \in 0 .. CrcContentSize - 1 /\ q \in Nat
    BY <2>1, DivMod, Sizes
  <2>3. place < n
    BY <2>1, StrippedPlace
  <2> HIDE DEF q, r
  <2>4. q * CrcBlockSize \in Nat /\ k * CrcBlockSize \in Nat /\ k * CrcContentSize \in Nat
        /\ q * CrcContentSize \in Nat
    BY <2>2, TimesPlus, Sizes
  <2>5. raw[place + 1] = ByteAt(file, k * CrcBlockSize + place)
    BY <1>2, <2>2, <2>3, <2>4, Sizes
  <2>6. k * CrcBlockSize + place = (k + q) * CrcBlockSize + (CrcSize + r)
    BY <2>2, <2>4, TimesPlus, Sizes
  <2>7. /\ (k * CrcBlockSize + place) \div CrcBlockSize = k + q
        /\ (k * CrcBlockSize + place) % CrcBlockSize = CrcSize + r
    <3> DEFINE m == CrcSize + r
               kq == k + q
    <3>1. m \in Nat /\ m < CrcBlockSize /\ kq \in Nat
      BY <2>2, Sizes
    <3> HIDE DEF m, kq
    <3>2. (kq * CrcBlockSize + m) \div CrcBlockSize = kq /\ (kq * CrcBlockSize + m) % CrcBlockSize = m
      BY <3>1, DivModUnique, Sizes
    <3> QED BY <2>6, <3>2 DEF m, kq
  <2>8. ByteAt(file, k * CrcBlockSize + place) = (k + q) * CrcContentSize + r
    BY <2>2, <2>7, Sizes DEF ByteAt
  <2>9. (k + q) * CrcContentSize = k * CrcContentSize + q * CrcContentSize
    BY <2>2, TimesPlus, Sizes
  <2> QED BY <2>2, <2>4, <2>5, <2>8, <2>9 DEF q, r
<1>4. StripCrc32Blocks(raw)
        = [j \in 1 .. StrippedLen(n) |-> k * CrcContentSize + j - 1]
  BY <1>2, <1>3 DEF StripCrc32Blocks
<1> QED BY <1>1, <1>4 DEF Content

---------------------------------------------------------------------------
(* The invariant *)

(* The cache holds the whole file or nothing. *)
CacheExact == prefetch_buf # <<>> => prefetch_buf = Disk(0, file.size)

FormatKnown == pc \notin {"opened", "failed"} =>
                 file.format = (IF crc_block_format THEN "crc" ELSE "raw")

LEMMA FileFacts ==
  ASSUME TypeOK
  PROVE  file \in File /\ file.size \in Nat /\ file.meta \in Extent
  BY ObjectReaderAssumption DEF TypeOK, File

LEMMA DiskFacts ==
  ASSUME TypeOK, NEW offset \in Nat, NEW length \in Nat
  PROVE  /\ Disk(offset, length) \in Seq(Int)
         /\ Len(Disk(offset, length)) = length
<1>1. ASSUME NEW p \in Nat PROVE ByteAt(file, p) \in Int
  <2>1. file.format \in {"raw", "crc", "other"}
    BY FileFacts DEF File
  <2>2. CASE file.format = "crc"
    <3>1. p \div CrcBlockSize \in Nat /\ p % CrcBlockSize \in Nat
      BY DivMod, Sizes
    <3>2. (p \div CrcBlockSize) * CrcContentSize \in Nat
      BY <3>1, TimesPlus, Sizes
    <3> QED BY <2>2, <3>1, <3>2, Sizes DEF ByteAt, Crc
  <2> QED BY <2>1, <2>2 DEF ByteAt, Crc
<1>2. \A i \in 1 .. length : ByteAt(file, offset + i - 1) \in Int
  BY <1>1
<1> QED BY <1>2 DEF Disk

(* What the first read of a small file leaves in the cache is the file. *)
LEMMA CacheFacts ==
  ASSUME TypeOK, CacheExact
  PROVE  Cache \in Seq(Int) /\ (Cache # <<>> => Cache = Disk(0, file.size))
  BY FileFacts, DiskFacts DEF Cache, CacheExact, TypeOK

(* Raw bytes are the file's, cached or not. *)
LEMMA RawExact ==
  ASSUME TypeOK, CacheExact, NEW offset \in Nat, NEW length \in Nat
  PROVE  ReadRawBytes(offset, length) = Disk(offset, length)
<1>1. CASE Cached(offset, length)
  <2>1. /\ Cache = Disk(0, file.size) /\ Len(Cache) = file.size
        /\ offset + length <= file.size /\ Cache \in Seq(Int)
    BY <1>1, CacheFacts, DiskFacts, FileFacts DEF Cached
  <2>2. Slice(Cache, offset, length) = [i \in 1 .. length |-> Cache[offset + i]]
    BY <2>1, SliceFacts
  <2>3. \A i \in 1 .. length : Cache[offset + i] = ByteAt(file, offset + i - 1)
    BY <2>1, FileFacts DEF Disk
  <2> QED BY <1>1, <2>2, <2>3 DEF ReadRawBytes, Disk
<1> QED BY <1>1 DEF ReadRawBytes

(* Logical bytes are the ones asked for, in both formats. *)
LEMMA ReadExact ==
  ASSUME TypeOK, CacheExact, FormatKnown, pc \notin {"opened", "failed"},
         NEW offset \in Nat, NEW length \in Nat, CanRead(offset, length)
  PROVE  ReadBytes(offset, length) = Content(offset, length)
<1>1. CASE ~crc_block_format
  <2>1. ReadBytes(offset, length) = Disk(offset, length)
    BY <1>1, RawExact DEF ReadBytes, RawRange
  <2>2. \A p : ByteAt(file, p) = p
    BY <1>1 DEF FormatKnown, ByteAt
  <2> QED BY <2>1, <2>2 DEF Disk, Content
<1>2. CASE crc_block_format
  <2> DEFINE k == FirstBlock(offset)
             n == PhysEnd(offset, length) - PhysStart(offset)
             skip == LocalOffset(offset)
  <2>1. k \in Nat /\ k * CrcContentSize \in Nat /\ k * CrcBlockSize \in Nat
        /\ skip \in Nat /\ offset = k * CrcContentSize + skip
    <3>0. /\ offset = (offset \div CrcContentSize) * CrcContentSize + (offset % CrcContentSize)
          /\ offset % CrcContentSize \in 0 .. CrcContentSize - 1
          /\ offset \div CrcContentSize \in Nat
      BY DivMod, Sizes
    <3>1. /\ k \in Nat
          /\ offset = k * CrcContentSize + (offset % CrcContentSize)
          /\ offset % CrcContentSize \in Nat
      BY <3>0, Sizes DEF FirstBlock
    <3>2. skip = offset - k * CrcContentSize
      BY DEF LocalOffset
    <3> HIDE DEF k, skip
    <3>3. k * CrcContentSize \in Nat /\ k * CrcBlockSize \in Nat
      BY <3>1, TimesPlus, Sizes
    <3>4. skip = offset % CrcContentSize
      BY <3>1, <3>2, <3>3
    <3> QED BY <3>1, <3>3, <3>4
  <2>2. n >= 0 /\ skip + length <= StrippedLen(n)
    BY <1>2 DEF CanRead, RawRange
  <2>3. n \in Int
    <3>1. offset + length - 1 \in Int /\ LastBlock(offset, length) \in Int
      BY Sizes DEF LastBlock
    <3>2. (LastBlock(offset, length) + 1) * CrcBlockSize \in Int
      BY <3>1, Sizes
    <3> QED BY <2>1, <3>2, FileFacts DEF PhysEnd, PhysStart
  <2>4. n \in Nat
    BY <2>2, <2>3
  <2>5. ReadBytes(offset, length)
          = Slice(StripCrc32Blocks(ReadRawBytes(PhysStart(offset), n)), skip, length)
    BY <1>2 DEF ReadBytes, RawRange
  <2>6. ReadRawBytes(PhysStart(offset), n) = Disk(k * CrcBlockSize, n)
    BY <2>1, <2>4, RawExact DEF PhysStart
  <2>7. file.format = "crc"
    BY <1>2 DEF FormatKnown
  <2> HIDE DEF k, n, skip
  <2>8. /\ StrippedLen(n) \in Nat
        /\ StripCrc32Blocks(Disk(k * CrcBlockSize, n))
             = Content(k * CrcContentSize, StrippedLen(n))
    BY <2>1, <2>4, <2>7, StripExact
  <2>9. Slice(Content(k * CrcContentSize, StrippedLen(n)), skip, length)
          = Content(k * CrcContentSize + skip, length)
    BY <2>1, <2>2, <2>8, SliceOfContent
  <2> QED BY <2>1, <2>5, <2>6, <2>8, <2>9
<1> QED BY <1>1, <1>2

(* The requests are those of the call, in the order of the file. *)
ReqsMatch ==
  /\ call \in Calls /\ InRange(call)
  /\ Len(reqs) = Len(call.seqnums)
  /\ \A i \in DOMAIN reqs :
       /\ reqs[i].result_idx \in DOMAIN call.seqnums
       /\ reqs[i] = Requests(call)[reqs[i].result_idx]
  /\ \A k \in DOMAIN call.seqnums : \E i \in DOMAIN reqs : reqs[i].result_idx = k
  /\ \A i, j \in DOMAIN reqs : i < j => reqs[i].offset <= reqs[j].offset

(* A request starts no earlier than its read, and the requests still to be
   placed no earlier than any read. *)
ReadsStartBefore ==
  /\ Len(req_to_coalesced) <= Len(reqs)
  /\ \A i \in DOMAIN req_to_coalesced :
       /\ req_to_coalesced[i] \in DOMAIN coalesced
       /\ coalesced[req_to_coalesced[i]].offset <= reqs[i].offset
  /\ \A k \in DOMAIN coalesced : \A i \in DOMAIN reqs :
       i > Len(req_to_coalesced) => coalesced[k].offset <= reqs[i].offset

BuffersExact ==
  \A k \in DOMAIN buffers :
    /\ k \in DOMAIN coalesced
    /\ buffers[k] = Content(coalesced[k].offset, coalesced[k].length)

SlicedExact ==
  /\ Len(result) = Len(call.seqnums)
  /\ \A i \in 1 .. sliced :
       result[reqs[i].result_idx] = Content(reqs[i].offset, reqs[i].length)

(* The stages of ReadBlock. *)
Staged ==
  /\ pc = "coalesce" => buffers = <<>>
  /\ pc \in {"coalesce", "read"} => sliced = 0
  /\ pc \in {"read", "slice"} => Len(req_to_coalesced) = Len(reqs)
  /\ pc = "slice" => Len(buffers) = Len(coalesced)

InReadBlock ==
  pc \in {"coalesce", "read", "slice"} =>
    ReqsMatch /\ ReadsStartBefore /\ BuffersExact /\ SlicedExact /\ Staged

(* Before the first call of ReadBlock. *)
NoResultYet == pc \in {"opened", "header", "metadata"} => call = NoCall /\ result = <<>>

IInv == TypeOK /\ CacheExact /\ FormatKnown /\ NoResultYet /\ InReadBlock /\ ColumnsExact

---------------------------------------------------------------------------
(* Facts for the steps *)

LEMMA SeqFacts ==
  ASSUME TypeOK
  PROVE  /\ Len(reqs) \in Nat /\ DOMAIN reqs = 1 .. Len(reqs)
         /\ Len(coalesced) \in Nat /\ DOMAIN coalesced = 1 .. Len(coalesced)
         /\ Len(req_to_coalesced) \in Nat
         /\ DOMAIN req_to_coalesced = 1 .. Len(req_to_coalesced)
         /\ Len(buffers) \in Nat /\ DOMAIN buffers = 1 .. Len(buffers)
         /\ Len(result) \in Nat /\ DOMAIN result = 1 .. Len(result)
         /\ \A i \in DOMAIN reqs :
              /\ reqs[i].offset \in Nat /\ reqs[i].length \in 0 .. LengthMod - 1
              /\ reqs[i].length \in Nat
         /\ \A k \in DOMAIN coalesced :
              /\ coalesced[k].offset \in Nat /\ coalesced[k].length \in 0 .. LengthMod - 1
              /\ coalesced[k].length \in Nat
<1>1. /\ Len(reqs) \in Nat /\ DOMAIN reqs = 1 .. Len(reqs)
      /\ Len(coalesced) \in Nat /\ DOMAIN coalesced = 1 .. Len(coalesced)
      /\ Len(req_to_coalesced) \in Nat
      /\ DOMAIN req_to_coalesced = 1 .. Len(req_to_coalesced)
      /\ Len(buffers) \in Nat /\ DOMAIN buffers = 1 .. Len(buffers)
      /\ Len(result) \in Nat /\ DOMAIN result = 1 .. Len(result)
  BY LenProperties DEF TypeOK
<1>2. ASSUME NEW i \in DOMAIN reqs
      PROVE  /\ reqs[i].offset \in Nat /\ reqs[i].length \in 0 .. LengthMod - 1
             /\ reqs[i].length \in Nat
  <2>1. reqs[i] \in [result_idx : Nat \ {0}, offset : Nat, length : 0 .. LengthMod - 1]
    BY <1>1, ElementOfSeq DEF TypeOK
  <2> QED BY <2>1, Sizes
<1>3. ASSUME NEW k \in DOMAIN coalesced
      PROVE  /\ coalesced[k].offset \in Nat /\ coalesced[k].length \in 0 .. LengthMod - 1
             /\ coalesced[k].length \in Nat
  <2>1. coalesced[k] \in [offset : Nat, length : 0 .. LengthMod - 1]
    BY <1>1, ElementOfSeq DEF TypeOK
  <2> QED BY <2>1, Sizes
<1> QED BY <1>1, <1>2, <1>3

LEMMA RawReadKeeps ==
  ASSUME TypeOK, CacheExact, NEW offset, NEW length, RawRead(offset, length),
         UNCHANGED settings
  PROVE  /\ prefetch_attempted' \in BOOLEAN /\ prefetch_buf' \in Seq(Int)
         /\ file_reads' \in 0 .. 2 /\ CacheExact'
<1>1. prefetch_attempted' \in BOOLEAN /\ prefetch_buf' \in Seq(Int)
  BY CacheFacts DEF RawRead
<1>2. file_reads' \in 0 .. 2
  <2>1. NewReads(offset, length) \in 0 .. 2
    BY DEF NewReads
  <2> QED BY <2>1 DEF RawRead, TypeOK
<1>3. CacheExact'
  <2>1. prefetch_buf' = Cache /\ file' = file
    BY DEF RawRead, settings
  <2>2. Disk(0, file.size)' = Disk(0, file.size)
    BY <2>1 DEF Disk, ByteAt
  <2> QED BY <2>1, <2>2, CacheFacts DEF CacheExact
<1> QED BY <1>1, <1>2, <1>3

LEMMA LogicalReadKeeps ==
  ASSUME TypeOK, CacheExact, NEW offset, NEW length, LogicalRead(offset, length),
         UNCHANGED settings
  PROVE  /\ prefetch_attempted' \in BOOLEAN /\ prefetch_buf' \in Seq(Int)
         /\ file_reads' \in 0 .. 2 /\ CacheExact'
  BY RawReadKeeps DEF LogicalRead

(* Nothing read. *)
LEMMA CacheUnchanged ==
  ASSUME CacheExact, UNCHANGED <<settings, cache>>
  PROVE  CacheExact'
  BY DEF CacheExact, settings, cache, Disk, ByteAt

LEMMA PlanUnchanged ==
  ASSUME UNCHANGED <<settings, plan>>
  PROVE  /\ ReqsMatch => ReqsMatch'
         /\ ReadsStartBefore => ReadsStartBefore'
  BY DEF settings, plan, ReqsMatch, ReadsStartBefore, Requests, ColumnExtent, InRange

(* The extents a legal call asks for. *)
LEMMA RequestFacts ==
  ASSUME TypeOK, NEW c \in Calls, InRange(c)
  PROVE  /\ Len(c.seqnums) \in Nat /\ DOMAIN c.seqnums = 1 .. Len(c.seqnums)
         /\ DOMAIN Requests(c) = 1 .. Len(c.seqnums)
         /\ \A i \in DOMAIN c.seqnums :
              /\ Requests(c)[i]
                   \in [result_idx : Nat \ {0}, offset : Nat, length : 0 .. LengthMod - 1]
              /\ Requests(c)[i].result_idx = i
              /\ Requests(c)[i].offset = ColumnExtent(c, i).offset
              /\ Requests(c)[i].length = ColumnExtent(c, i).length
<1>1. c \in [block_idx : Nat \ {0}, seqnums : Seq(Nat \ {0})]
  BY ObjectReaderAssumption
<1>2. /\ c.block_idx \in Nat \ {0} /\ c.seqnums \in Seq(Nat \ {0})
      /\ Len(c.seqnums) \in Nat /\ DOMAIN c.seqnums = 1 .. Len(c.seqnums)
  BY <1>1, LenProperties
<1>3. ASSUME NEW i \in DOMAIN c.seqnums PROVE ColumnExtent(c, i) \in Extent
  <2>1. file.blocks \in Seq(Seq(Extent)) /\ c.block_idx \in 1 .. Len(file.blocks)
    BY <1>2, FileFacts, LenProperties DEF File, InRange
  <2>2. file.blocks[c.block_idx] \in Seq(Extent)
    BY <2>1, ElementOfSeq
  <2>3. c.seqnums[i] \in Nat \ {0}
    BY <1>2, ElementOfSeq
  <2>4. c.seqnums[i] \in 1 .. Len(file.blocks[c.block_idx])
    BY <2>2, <2>3, LenProperties DEF InRange
  <2> QED BY <2>2, <2>4, ElementOfSeq DEF ColumnExtent
<1>4. \A i \in DOMAIN c.seqnums :
        ColumnExtent(c, i).offset \in Nat /\ ColumnExtent(c, i).length \in 0 .. LengthMod - 1
  BY <1>3 DEF Extent
<1> QED BY <1>2, <1>4 DEF Requests

---------------------------------------------------------------------------
(* The steps *)

LEMMA InitStep == Init => IInv
<1> SUFFICES ASSUME Init PROVE IInv
  OBVIOUS
<1>1. TypeOK
  <2>1. \A S : <<>> \in Seq(S)
    BY EmptySeq
  <2>2. sliced \in 0 .. Len(reqs)
    BY DEF Init
  <2>3. call = NoCall /\ file_reads \in 0 .. 2
    BY DEF Init
  <2> QED BY <2>1, <2>2, <2>3 DEF Init, TypeOK
<1>2. CacheExact /\ FormatKnown /\ NoResultYet /\ InReadBlock /\ ColumnsExact
  BY DEF Init, CacheExact, FormatKnown, NoResultYet, InReadBlock, ColumnsExact
<1> QED BY <1>1, <1>2 DEF IInv

LEMMA ThrowStep ==
  ASSUME IInv, NEW reason \in {"io", "format", "range", "bounds"}, Throw(reason)
  PROVE  IInv'
<1>1. TypeOK'
  BY DEF IInv, TypeOK, Throw, settings, cache, plan, output
<1>2. CacheExact'
  BY CacheUnchanged DEF IInv, Throw
<1>3. FormatKnown' /\ NoResultYet' /\ InReadBlock' /\ ColumnsExact'
  BY DEF Throw, FormatKnown, NoResultYet, InReadBlock, ColumnsExact
<1> QED BY <1>1, <1>2, <1>3 DEF IInv

(* The magic number tells the format. *)
LEMMA DetectStep ==
  ASSUME IInv, DetectCrcFormat
  PROVE  IInv'
<1> USE DEF IInv
<1>1. ProbeSize \in Nat /\ CrcSize + MagicSize <= ProbeSize
  BY Sizes DEF ProbeSize
<1>2. Probe = Disk(0, ProbeSize)
  BY <1>1, RawExact DEF Probe
<1>3. Probe \in Seq(Int) /\ Len(Probe) = ProbeSize
  BY <1>1, <1>2, DiskFacts
<1>4. \A i \in 1 .. ProbeSize : Probe[i] = ByteAt(file, i - 1)
  BY <1>1, <1>2 DEF Disk
<1>5. ASSUME NEW at \in {0, CrcSize}, MagicAt(Probe, at)
      PROVE  ByteAt(file, at) = 0
  <2>1. at \in Nat /\ at + MagicSize <= Len(Probe) /\ at + 1 \in 1 .. ProbeSize
    BY <1>1, <1>3, Sizes
  <2>2. Slice(Probe, at, MagicSize) = [i \in 1 .. MagicSize |-> Probe[at + i]]
    BY <1>3, <2>1, Sizes, SliceFacts
  <2>3. Content(0, MagicSize) = [i \in 1 .. MagicSize |-> 0 + i - 1]
    BY DEF Content
  <2>4. Probe[at + 1] = 0
    <3>1. Slice(Probe, at, MagicSize) = Content(0, MagicSize) /\ 1 \in 1 .. MagicSize
      BY <1>5, Sizes DEF MagicAt
    <3>2. Slice(Probe, at, MagicSize)[1] = Probe[at + 1]
      BY <2>2, <3>1
    <3>3. Content(0, MagicSize)[1] = 0
      <4>1. Content(0, MagicSize)[1] = 0 + 1 - 1
        BY <2>3, <3>1
      <4> QED BY <4>1
    <3> QED BY <3>1, <3>2, <3>3
  <2>5. Probe[at + 1] = ByteAt(file, at + 1 - 1)
    BY <1>4, <2>1
  <2> QED BY <2>1, <2>4, <2>5
<1>6. file.format \in {"raw", "crc", "other"}
  BY FileFacts DEF File
<1>7. ASSUME MagicAt(Probe, 0) PROVE file.format = "raw"
  <2>1. ByteAt(file, 0) = 0
    BY <1>5, <1>7
  <2>2. 0 % CrcBlockSize = 0
    BY Sizes
  <2> QED BY <1>6, <2>1, <2>2, Sizes DEF ByteAt, Crc
<1>8. ASSUME ~MagicAt(Probe, 0) PROVE file.format = "crc"
  <2>1. ByteAt(file, CrcSize) = 0
    BY <1>5, <1>8 DEF DetectCrcFormat
  <2>2. file.format # "other"
    BY <2>1 DEF ByteAt, Crc
  <2>3. file.format # "raw"
    BY <2>1, Sizes DEF ByteAt
  <2> QED BY <1>6, <2>2, <2>3
<1>9. FormatKnown'
  <2>1. file' = file /\ crc_block_format' = ~MagicAt(Probe, 0)
    BY DEF DetectCrcFormat, settings
  <2> QED BY <1>7, <1>8, <2>1 DEF FormatKnown
<1>10. CacheExact' /\ prefetch_attempted' \in BOOLEAN /\ prefetch_buf' \in Seq(Int)
       /\ file_reads' \in 0 .. 2
  BY RawReadKeeps DEF DetectCrcFormat
<1>11. crc_block_format' \in BOOLEAN
  BY DEF DetectCrcFormat, MagicAt
<1>12. TypeOK'
  BY <1>10, <1>11 DEF TypeOK, DetectCrcFormat, settings, plan, output
<1>13. NoResultYet' /\ InReadBlock' /\ ColumnsExact'
  BY DEF DetectCrcFormat, NoResultYet, InReadBlock, ColumnsExact, plan, output
<1> QED BY <1>9, <1>10, <1>12, <1>13

LEMMA HeaderStep ==
  ASSUME IInv, ReadHeader
  PROVE  IInv'
<1> USE DEF IInv
<1>1. CacheExact' /\ prefetch_attempted' \in BOOLEAN /\ prefetch_buf' \in Seq(Int)
      /\ file_reads' \in 0 .. 2
  BY LogicalReadKeeps DEF ReadHeader
<1>2. TypeOK'
  BY <1>1 DEF TypeOK, ReadHeader, settings, plan, output
<1>3. FormatKnown' /\ NoResultYet' /\ InReadBlock' /\ ColumnsExact'
  BY DEF ReadHeader, FormatKnown, NoResultYet, InReadBlock, ColumnsExact, settings, plan,
         output
<1> QED BY <1>1, <1>2, <1>3

LEMMA MetadataStep ==
  ASSUME IInv, ReadMetadata
  PROVE  IInv'
<1> USE DEF IInv
<1>1. CacheExact' /\ prefetch_attempted' \in BOOLEAN /\ prefetch_buf' \in Seq(Int)
      /\ file_reads' \in 0 .. 2
  BY LogicalReadKeeps DEF ReadMetadata
<1>2. TypeOK'
  BY <1>1 DEF TypeOK, ReadMetadata, settings, plan, output
<1>3. FormatKnown' /\ NoResultYet' /\ InReadBlock'
  BY DEF ReadMetadata, FormatKnown, NoResultYet, InReadBlock, settings
<1>4. ColumnsExact'
  BY DEF ReadMetadata, NoResultYet, NoCall, ColumnsExact, plan, output
<1> QED BY <1>1, <1>2, <1>3, <1>4

(* Sorting puts every request somewhere. *)
LEMMA ReadBlockStep ==
  ASSUME IInv, NEW c \in Calls, ReadBlock(c)
  PROVE  IInv'
<1> USE DEF IInv
<1> DEFINE R == [result_idx : Nat \ {0}, offset : Nat, length : 0 .. LengthMod - 1]
           n == Len(c.seqnums)
           s == Requests(c)
<1>1. InRange(c)
  BY DEF ReadBlock
<1>2. /\ n \in Nat /\ DOMAIN c.seqnums = 1 .. n /\ DOMAIN s = 1 .. n
      /\ \A i \in 1 .. n : s[i] \in R /\ s[i].result_idx = i
  BY <1>1, RequestFacts
<1>3. PICK p \in Bijection(1 .. n, 1 .. n) :
        /\ reqs' = [i \in 1 .. n |-> s[p[i]]]
        /\ \A i, j \in DOMAIN reqs' : i < j => reqs'[i].offset <= reqs'[j].offset
  BY <1>2 DEF ReadBlock, SortedByOffset
<1>4. p \in [1 .. n -> 1 .. n] /\ \A k \in 1 .. n : \E i \in 1 .. n : p[i] = k
  BY <1>3 DEF Bijection, Surjection, Injection
<1> HIDE DEF s, n, R
<1>5. reqs' \in Seq(R) /\ Len(reqs') = n /\ DOMAIN reqs' = 1 .. n
  <2>1. \A i \in 1 .. n : s[p[i]] \in R
    BY <1>2, <1>4
  <2>2. reqs' \in [1 .. n -> R]
    BY <1>3, <2>1
  <2>3. reqs' \in Seq(R)
    BY <1>2, <2>2
  <2> QED BY <1>2, <2>2, <2>3, LenProperties
<1>6. \A i \in 1 .. n :
        p[i] \in 1 .. n /\ reqs'[i] = s[p[i]] /\ reqs'[i].result_idx = p[i]
  BY <1>2, <1>3, <1>4
<1>7. /\ call' = c /\ file' = file /\ pc' = "coalesce"
      /\ coalesced' = <<>> /\ req_to_coalesced' = <<>> /\ buffers' = <<>> /\ sliced' = 0
      /\ result' = [i \in 1 .. n |-> <<>>]
  BY <1>2 DEF ReadBlock, settings
<1>8. result' \in Seq(Seq(Int)) /\ Len(result') = n
  <2>1. <<>> \in Seq(Int)
    BY EmptySeq
  <2> QED BY <1>2, <1>7, <2>1
<1>9. TypeOK'
  <2>1. /\ coalesced' \in Seq([offset : Nat, length : 0 .. LengthMod - 1])
        /\ req_to_coalesced' \in Seq(Nat \ {0}) /\ buffers' \in Seq(Seq(Int))
    BY <1>7, EmptySeq
  <2>2. sliced' \in 0 .. Len(reqs')
    BY <1>2, <1>5, <1>7
  <2> QED BY <1>5, <1>7, <1>8, <2>1, <2>2 DEF TypeOK, ReadBlock, settings, cache, R
<1>10. CacheExact'
  BY CacheUnchanged DEF ReadBlock
<1>11. FormatKnown' /\ NoResultYet' /\ ColumnsExact'
  BY DEF ReadBlock, FormatKnown, NoResultYet, ColumnsExact, settings
<1>12. ReqsMatch'
  <2>1. Requests(call)' = s /\ InRange(call)'
    BY <1>1, <1>7 DEF Requests, ColumnExtent, InRange, s
  <2>2. DOMAIN call'.seqnums = 1 .. n /\ Len(call'.seqnums) = n
    BY <1>2, <1>7 DEF n
  <2>3. call' \in Calls
    BY <1>7
  <2>4. \A i \in DOMAIN reqs' :
          /\ reqs'[i].result_idx \in DOMAIN call'.seqnums
          /\ reqs'[i] = Requests(call)'[reqs'[i].result_idx]
    BY <1>5, <1>6, <2>1, <2>2
  <2>5. \A k \in DOMAIN call'.seqnums : \E i \in DOMAIN reqs' : reqs'[i].result_idx = k
    <3> SUFFICES ASSUME NEW k \in 1 .. n
                 PROVE  \E i \in 1 .. n : reqs'[i].result_idx = k
      BY <1>5, <2>2
    <3>1. PICK i \in 1 .. n : p[i] = k
      BY <1>4
    <3> QED BY <1>6, <3>1
  <2>6. Len(reqs') = Len(call'.seqnums)
    BY <1>5, <2>2
  <2> QED BY <1>3, <2>1, <2>3, <2>4, <2>5, <2>6 DEF ReqsMatch
<1>13. ReadsStartBefore'
  BY <1>2, <1>5, <1>7 DEF ReadsStartBefore
<1>14. BuffersExact' /\ SlicedExact' /\ Staged'
  BY <1>2, <1>7, <1>8 DEF BuffersExact, SlicedExact, Staged, n
<1> QED BY <1>9, <1>10, <1>11, <1>12, <1>13, <1>14 DEF InReadBlock

(* The request at hand comes after what was coalesced. *)
LEMMA ReqFacts ==
  ASSUME IInv, pc = "coalesce", Len(req_to_coalesced) < Len(reqs)
  PROVE  /\ Len(req_to_coalesced) + 1 \in DOMAIN reqs
         /\ Req.offset \in Nat /\ Req.length \in 0 .. LengthMod - 1
         /\ ReqEnd \in Nat /\ ReqEnd >= Req.offset
         /\ \A k \in DOMAIN coalesced : coalesced[k].offset <= Req.offset
<1>1. Len(req_to_coalesced) + 1 \in DOMAIN reqs
  BY SeqFacts DEF IInv
<1>2. Req.offset \in Nat /\ Req.length \in 0 .. LengthMod - 1 /\ Req.length \in Nat
  BY <1>1, SeqFacts DEF IInv, Req
<1>3. ReqEnd \in Nat /\ ReqEnd >= Req.offset
  BY <1>2 DEF ReqEnd
<1>4. \A k \in DOMAIN coalesced : coalesced[k].offset <= Req.offset
  BY <1>1, SeqFacts DEF IInv, InReadBlock, ReadsStartBefore, Req
<1> QED BY <1>1, <1>2, <1>3, <1>4

(* A request that joins the last read may make it longer, never earlier. *)
LEMMA ExtendStep ==
  ASSUME IInv, ExtendRead
  PROVE  IInv'
<1> USE DEF IInv
<1> DEFINE C == [offset : Nat, length : 0 .. LengthMod - 1]
           last == Len(coalesced)
           placed == Len(req_to_coalesced)
<1>1. /\ pc = "coalesce" /\ pc' = pc /\ placed < Len(reqs) /\ coalesced # <<>>
      /\ file' = file /\ call' = call /\ reqs' = reqs
      /\ buffers' = buffers /\ sliced' = sliced /\ result' = result
      /\ req_to_coalesced' = Append(req_to_coalesced, last)
  BY DEF ExtendRead, Near, settings, output
<1>2. last \in Nat \ {0} /\ last \in DOMAIN coalesced /\ coalesced \in Seq(C)
  BY <1>1, SeqFacts, EmptySeq DEF TypeOK
<1>3. coalesced[last] \in C /\ LastEnd \in Nat /\ LastEnd >= Last.offset /\ Last = coalesced[last]
  <2>1. coalesced[last] \in C
    BY <1>2, ElementOfSeq, SeqFacts
  <2> QED BY <2>1, Sizes DEF Last, LastEnd
<1>4. /\ coalesced' \in Seq(C) /\ Len(coalesced') = last
      /\ DOMAIN coalesced' = DOMAIN coalesced
      /\ \A k \in DOMAIN coalesced : coalesced'[k].offset = coalesced[k].offset
  <2>1. CASE ReqEnd > LastEnd
    <3> DEFINE len == ReadLength(ReqEnd - Last.offset)
               grown == [coalesced[last] EXCEPT !.length = len]
    <3>1. len \in 0 .. LengthMod - 1
      BY <1>1, <1>3, <2>1, ReqFacts, Sizes DEF ReadLength
    <3>2. grown \in C /\ grown.offset = coalesced[last].offset
      BY <1>3, <3>1
    <3>3. coalesced' = [coalesced EXCEPT ![last] = grown]
      BY <2>1 DEF ExtendRead
    <3> HIDE DEF grown
    <3> QED BY <1>2, <3>2, <3>3, ExceptSeq, SeqFacts
  <2>2. CASE ~(ReqEnd > LastEnd)
    BY <1>2, <2>2 DEF ExtendRead
  <2> QED BY <2>1, <2>2
<1> HIDE DEF C
<1>5. /\ req_to_coalesced' \in Seq(Nat \ {0})
      /\ Len(req_to_coalesced') = placed + 1
      /\ DOMAIN req_to_coalesced' = 1 .. placed + 1
      /\ req_to_coalesced'[placed + 1] = last
      /\ \A i \in 1 .. placed : req_to_coalesced'[i] = req_to_coalesced[i]
  BY <1>1, <1>2, SeqFacts, AppendProperties DEF TypeOK
<1>6. TypeOK'
  BY <1>4, <1>5 DEF TypeOK, ExtendRead, settings, cache, output, C
<1>7. CacheExact'
  BY CacheUnchanged DEF ExtendRead
<1>8. FormatKnown' /\ NoResultYet' /\ ColumnsExact'
  BY <1>1 DEF ExtendRead, FormatKnown, NoResultYet, ColumnsExact
<1>9. ReqsMatch'
  BY <1>1 DEF InReadBlock, ReqsMatch, Requests, ColumnExtent, InRange
<1>10. ReadsStartBefore'
  <2>1. placed + 1 <= Len(reqs)
    BY <1>1, SeqFacts
  <2>2. ASSUME NEW i \in 1 .. placed + 1
        PROVE  /\ req_to_coalesced'[i] \in DOMAIN coalesced
               /\ coalesced'[req_to_coalesced'[i]].offset <= reqs[i].offset
    <3>1. CASE i = placed + 1
      BY <1>1, <1>2, <1>4, <1>5, <3>1, ReqFacts DEF Req
    <3>2. CASE i \in 1 .. placed
      BY <1>1, <1>4, <1>5, <3>2, SeqFacts DEF InReadBlock, ReadsStartBefore
    <3> QED BY <3>1, <3>2, SeqFacts
  <2>3. ASSUME NEW k \in DOMAIN coalesced, NEW i \in DOMAIN reqs, i > placed + 1
        PROVE  coalesced'[k].offset <= reqs[i].offset
    <3>1. i > placed
      BY <2>3, SeqFacts
    <3>2. coalesced[k].offset <= reqs[i].offset
      BY <1>1, <3>1 DEF InReadBlock, ReadsStartBefore
    <3> QED BY <1>4, <3>2
  <2> QED BY <1>1, <1>4, <1>5, <2>1, <2>2, <2>3 DEF ReadsStartBefore
<1>11. BuffersExact' /\ SlicedExact' /\ Staged'
  BY <1>1 DEF InReadBlock, BuffersExact, SlicedExact, Staged
<1> QED BY <1>6, <1>7, <1>8, <1>9, <1>10, <1>11 DEF InReadBlock

LEMMA StartStep ==
  ASSUME IInv, StartRead
  PROVE  IInv'
<1> USE DEF IInv
<1> DEFINE C == [offset : Nat, length : 0 .. LengthMod - 1]
           last == Len(coalesced)
           placed == Len(req_to_coalesced)
           new == [offset |-> Req.offset, length |-> Req.length]
<1>1. /\ pc = "coalesce" /\ pc' = pc /\ placed < Len(reqs)
      /\ file' = file /\ call' = call /\ reqs' = reqs
      /\ buffers' = buffers /\ sliced' = sliced /\ result' = result
      /\ coalesced' = Append(coalesced, new)
      /\ req_to_coalesced' = Append(req_to_coalesced, last + 1)
  BY DEF StartRead, settings, output
<1>2. new \in C /\ coalesced \in Seq(C)
  BY <1>1, ReqFacts DEF TypeOK
<1> HIDE DEF C
<1>3. /\ coalesced' \in Seq(C) /\ Len(coalesced') = last + 1
      /\ DOMAIN coalesced' = 1 .. last + 1
      /\ coalesced'[last + 1] = new
      /\ \A k \in 1 .. last : coalesced'[k] = coalesced[k]
  BY <1>1, <1>2, SeqFacts, AppendProperties
<1>4. /\ req_to_coalesced' \in Seq(Nat \ {0})
      /\ Len(req_to_coalesced') = placed + 1
      /\ DOMAIN req_to_coalesced' = 1 .. placed + 1
      /\ req_to_coalesced'[placed + 1] = last + 1
      /\ \A i \in 1 .. placed : req_to_coalesced'[i] = req_to_coalesced[i]
  BY <1>1, SeqFacts, AppendProperties DEF TypeOK
<1>5. TypeOK'
  BY <1>3, <1>4 DEF TypeOK, StartRead, settings, cache, output, C
<1>6. CacheExact'
  BY CacheUnchanged DEF StartRead
<1>7. FormatKnown' /\ NoResultYet' /\ ColumnsExact'
  BY <1>1 DEF StartRead, FormatKnown, NoResultYet, ColumnsExact
<1>8. ReqsMatch'
  BY <1>1 DEF InReadBlock, ReqsMatch, Requests, ColumnExtent, InRange
<1>9. ReadsStartBefore'
  <2>1. placed + 1 <= Len(reqs)
    BY <1>1, SeqFacts
  <2>2. ASSUME NEW i \in 1 .. placed + 1
        PROVE  /\ req_to_coalesced'[i] \in 1 .. last + 1
               /\ coalesced'[req_to_coalesced'[i]].offset <= reqs[i].offset
    <3>1. CASE i = placed + 1
      BY <1>1, <1>3, <1>4, <3>1, SeqFacts, ReqFacts DEF Req
    <3>2. CASE i \in 1 .. placed
      <4>1. /\ req_to_coalesced[i] \in 1 .. last
            /\ coalesced[req_to_coalesced[i]].offset <= reqs[i].offset
        BY <1>1, <3>2, SeqFacts DEF InReadBlock, ReadsStartBefore
      <4>2. req_to_coalesced'[i] = req_to_coalesced[i]
        BY <1>4, <3>2
      <4>3. coalesced'[req_to_coalesced[i]] = coalesced[req_to_coalesced[i]]
        BY <1>3, <4>1
      <4> QED BY <4>1, <4>2, <4>3, SeqFacts
    <3> QED BY <3>1, <3>2, SeqFacts
  <2>3. ASSUME NEW k \in 1 .. last + 1, NEW i \in DOMAIN reqs, i > placed + 1
        PROVE  coalesced'[k].offset <= reqs[i].offset
    <3>1. CASE k = last + 1
      <4>1. placed + 1 \in DOMAIN reqs /\ reqs[placed + 1].offset <= reqs[i].offset
        BY <1>1, <2>3, ReqFacts, SeqFacts DEF InReadBlock, ReqsMatch
      <4> QED BY <1>3, <3>1, <4>1 DEF Req
    <3>2. CASE k \in 1 .. last
      <4>1. i > placed /\ k \in DOMAIN coalesced
        BY <2>3, <3>2, SeqFacts
      <4>2. coalesced[k].offset <= reqs[i].offset
        BY <1>1, <4>1 DEF InReadBlock, ReadsStartBefore
      <4> QED BY <1>3, <3>2, <4>2
    <3> QED BY <3>1, <3>2, SeqFacts
  <2> QED BY <1>1, <1>3, <1>4, <2>1, <2>2, <2>3 DEF ReadsStartBefore
<1>10. BuffersExact' /\ SlicedExact' /\ Staged'
  BY <1>1 DEF InReadBlock, BuffersExact, SlicedExact, Staged
<1> QED BY <1>5, <1>6, <1>7, <1>8, <1>9, <1>10 DEF InReadBlock

(* The steps that only move on. *)
LEMMA EndStep ==
  ASSUME IInv, EndCoalesce \/ EndReads
  PROVE  IInv'
<1> USE DEF IInv
<1>1. /\ pc \in {"coalesce", "read"} /\ pc' \in {"read", "slice"}
      /\ UNCHANGED <<settings, cache, crc_block_format, error, plan, output>>
  BY DEF EndCoalesce, EndReads
<1>2. TypeOK'
  BY <1>1 DEF TypeOK, settings, cache, plan, output
<1>3. CacheExact'
  BY <1>1, CacheUnchanged
<1>4. FormatKnown' /\ NoResultYet' /\ ColumnsExact'
  BY <1>1 DEF FormatKnown, NoResultYet, ColumnsExact, settings
<1>5. ReqsMatch' /\ ReadsStartBefore'
  BY <1>1, PlanUnchanged DEF InReadBlock
<1>6. BuffersExact' /\ SlicedExact'
  BY <1>1 DEF InReadBlock, BuffersExact, SlicedExact, plan, output
<1>7. Staged'
  BY DEF EndCoalesce, EndReads, InReadBlock, Staged, plan, output
<1> QED BY <1>2, <1>3, <1>4, <1>5, <1>6, <1>7 DEF InReadBlock

LEMMA IssueStep ==
  ASSUME IInv, IssueRead
  PROVE  IInv'
<1> USE DEF IInv
<1> DEFINE next == Len(buffers) + 1
           bytes == ReadBytes(ToRead.offset, ToRead.length)
<1>1. /\ pc = "read" /\ pc' = pc /\ Len(buffers) < Len(coalesced)
      /\ CanRead(ToRead.offset, ToRead.length)
      /\ buffers' = Append(buffers, bytes)
      /\ UNCHANGED <<settings, crc_block_format, error, plan, sliced, result>>
  BY DEF IssueRead, ReadsLeft
<1>2. /\ next \in DOMAIN coalesced /\ ToRead = coalesced[next]
      /\ ToRead.offset \in Nat /\ ToRead.length \in Nat
  BY <1>1, SeqFacts DEF ToRead
<1>3. bytes = Content(ToRead.offset, ToRead.length)
  BY <1>1, <1>2, ReadExact
<1>4. bytes \in Seq(Int)
  BY <1>2, <1>3, ContentFacts
<1> HIDE DEF bytes
<1>5. /\ buffers' \in Seq(Seq(Int)) /\ DOMAIN buffers' = 1 .. next
      /\ buffers'[next] = bytes
      /\ \A k \in 1 .. Len(buffers) : buffers'[k] = buffers[k]
  BY <1>1, <1>4, SeqFacts, AppendProperties DEF TypeOK
<1>6. CacheExact' /\ prefetch_attempted' \in BOOLEAN /\ prefetch_buf' \in Seq(Int)
      /\ file_reads' \in 0 .. 2
  BY LogicalReadKeeps DEF IssueRead
<1>7. TypeOK'
  BY <1>1, <1>5, <1>6 DEF TypeOK, settings, plan
<1>8. FormatKnown' /\ NoResultYet' /\ ColumnsExact'
  BY <1>1 DEF FormatKnown, NoResultYet, ColumnsExact, settings
<1>9. ReqsMatch' /\ ReadsStartBefore'
  BY <1>1, PlanUnchanged DEF InReadBlock
<1>10. BuffersExact'
  <2>1. coalesced' = coalesced
    BY <1>1 DEF plan
  <2>2. ASSUME NEW k \in 1 .. next
        PROVE  /\ k \in DOMAIN coalesced
               /\ buffers'[k] = Content(coalesced[k].offset, coalesced[k].length)
    <3>1. CASE k = next
      BY <1>2, <1>3, <1>5, <3>1
    <3>2. CASE k \in 1 .. Len(buffers)
      BY <1>1, <1>5, <3>2, SeqFacts DEF InReadBlock, BuffersExact
    <3> QED BY <3>1, <3>2, SeqFacts
  <2> QED BY <1>5, <2>1, <2>2 DEF BuffersExact, Content
<1>11. SlicedExact' /\ Staged'
  BY <1>1 DEF InReadBlock, SlicedExact, Staged, plan
<1> QED BY <1>6, <1>7, <1>8, <1>9, <1>10, <1>11 DEF InReadBlock

(* The slice of a coalesced read is the column's extent. *)
LEMMA SliceStep ==
  ASSUME IInv, SliceColumn
  PROVE  IInv'
<1> USE DEF IInv
<1> DEFINE next == sliced + 1
           idx == ResultIdx(ToSlice)
           bytes == Slice(buffers[SourceIdx], SourceOffset, ToSlice.length)
<1>1. /\ pc = "slice" /\ pc' = pc /\ sliced < Len(reqs) /\ Fits
      /\ result' = [result EXCEPT ![idx] = bytes]
      /\ sliced' = next
      /\ UNCHANGED <<settings, cache, crc_block_format, error, plan, buffers>>
  BY DEF SliceColumn
<1>2. sliced \in Nat /\ next \in DOMAIN reqs /\ ToSlice = reqs[next]
      /\ ToSlice.offset \in Nat /\ ToSlice.length \in Nat
  BY <1>1, SeqFacts DEF TypeOK, ToSlice
<1>3. /\ SourceIdx \in DOMAIN coalesced
      /\ coalesced[SourceIdx].offset <= ToSlice.offset
      /\ coalesced[SourceIdx].offset \in Nat /\ coalesced[SourceIdx].length \in Nat
  <2>1. next \in DOMAIN req_to_coalesced /\ SourceIdx = req_to_coalesced[next]
    BY <1>1, <1>2, SeqFacts DEF InReadBlock, Staged, SourceIdx
  <2> QED BY <1>1, <1>2, <2>1, SeqFacts DEF InReadBlock, ReadsStartBefore
<1>4. buffers[SourceIdx]
        = Content(coalesced[SourceIdx].offset, coalesced[SourceIdx].length)
  BY <1>1, <1>3, SeqFacts DEF InReadBlock, Staged, BuffersExact
<1>5. /\ SourceOffset \in Int
      /\ coalesced[SourceIdx].offset + SourceOffset = ToSlice.offset
  BY <1>2, <1>3 DEF SourceOffset
<1>6. bytes = Content(ToSlice.offset, ToSlice.length)
  <2> DEFINE buf == buffers[SourceIdx]
             start == coalesced[SourceIdx].offset
             size == coalesced[SourceIdx].length
             skip == SourceOffset
             length == ToSlice.length
  <2>1. start \in Nat /\ size \in Nat /\ length \in Nat /\ skip \in Int
        /\ start <= ToSlice.offset /\ start + skip = ToSlice.offset /\ ToSlice.offset \in Nat
    BY <1>2, <1>3, <1>5
  <2>2. buf = Content(start, size) /\ skip + length <= Len(buf)
    BY <1>1, <1>4 DEF Fits
  <2>3. bytes = Slice(buf, skip, length)
    OBVIOUS
  <2> HIDE DEF buf, start, size, skip, length, bytes, IInv
  <2>4. skip \in Nat
    BY <2>1
  <2>5. Len(Content(start, size)) = size
    BY <2>1, ContentFacts
  <2>6. Slice(Content(start, size), skip, length) = Content(start + skip, length)
    <3>1. skip + length <= size
      BY <2>2, <2>5
    <3> QED BY <2>1, <2>4, <3>1, SliceOfContent
  <2>7. Slice(buf, skip, length) = Content(start + skip, length)
    BY <2>2, <2>6
  <2> QED BY <2>1, <2>3, <2>7 DEF length
<1>7. bytes \in Seq(Int)
  <2> HIDE DEF bytes, IInv
  <2> QED BY <1>2, <1>6, ContentFacts
<1>8. idx \in 1 .. Len(result) /\ idx = reqs[next].result_idx
      /\ ToSlice = Requests(call)[idx]
  <2>1. call \in Calls /\ InRange(call) /\ Len(result) = Len(call.seqnums)
    BY <1>1 DEF InReadBlock, ReqsMatch, SlicedExact
  <2> QED BY <1>1, <1>2, <2>1, RequestFacts DEF InReadBlock, ReqsMatch, ResultIdx
<1> HIDE DEF bytes, idx
<1>9. /\ result' \in Seq(Seq(Int)) /\ Len(result') = Len(result)
      /\ \A i \in 1 .. Len(result) : result'[i] = IF i = idx THEN bytes ELSE result[i]
  <2>1. result \in Seq(Seq(Int)) /\ result' = [result EXCEPT ![idx] = bytes]
    BY <1>1 DEF TypeOK
  <2> HIDE DEF IInv
  <2> QED BY <1>7, <1>8, <2>1, ExceptSeq
<1>10. TypeOK'
  <2>1. sliced' \in 0 .. Len(reqs') /\ reqs' = reqs
    BY <1>1, <1>2, SeqFacts DEF plan
  <2> QED BY <1>1, <1>9, <2>1 DEF TypeOK, settings, cache, plan
<1>11. CacheExact'
  BY <1>1, CacheUnchanged
<1>12. FormatKnown' /\ NoResultYet' /\ ColumnsExact'
  BY <1>1 DEF FormatKnown, NoResultYet, ColumnsExact, settings
<1>13. ReqsMatch' /\ ReadsStartBefore'
  BY <1>1, PlanUnchanged DEF InReadBlock
<1>14. BuffersExact' /\ Staged'
  BY <1>1 DEF InReadBlock, BuffersExact, Staged, plan
<1>15. SlicedExact'
  <2>1. call' = call /\ reqs' = reqs
    BY <1>1 DEF plan
  <2>2. ASSUME NEW i \in 1 .. next
        PROVE  result'[reqs[i].result_idx] = Content(reqs[i].offset, reqs[i].length)
    <3>1. i \in DOMAIN reqs /\ reqs[i] = Requests(call)[reqs[i].result_idx]
          /\ reqs[i].result_idx \in 1 .. Len(result)
      <4>1. call \in Calls /\ InRange(call) /\ Len(result) = Len(call.seqnums)
        BY <1>1 DEF InReadBlock, ReqsMatch, SlicedExact
      <4>2. i \in DOMAIN reqs
        BY <1>2, SeqFacts
      <4> QED BY <1>1, <4>1, <4>2, RequestFacts DEF InReadBlock, ReqsMatch
    <3>2. CASE reqs[i].result_idx = idx
      BY <1>6, <1>8, <1>9, <3>1, <3>2
    <3>3. CASE reqs[i].result_idx # idx
      <4>1. i \in 1 .. sliced
        <5>1. i # next
          BY <1>8, <3>3
        <5> HIDE DEF IInv
        <5> QED BY <1>2, <5>1
      <4>2. result[reqs[i].result_idx] = Content(reqs[i].offset, reqs[i].length)
        BY <1>1, <4>1 DEF InReadBlock, SlicedExact
      <4> QED BY <1>9, <3>1, <3>3, <4>2
    <3> QED BY <3>2, <3>3
  <2>3. Len(result') = Len(call.seqnums)
    BY <1>1, <1>9 DEF InReadBlock, SlicedExact
  <2> QED BY <1>1, <2>1, <2>2, <2>3 DEF SlicedExact, Content
<1> QED BY <1>10, <1>11, <1>12, <1>13, <1>14, <1>15 DEF InReadBlock

(* Every column has been cut out when ReadBlock returns. *)
LEMMA ReturnStep ==
  ASSUME IInv, Return
  PROVE  IInv'
<1> USE DEF IInv
<1>1. /\ pc = "slice" /\ pc' = "ready" /\ sliced = Len(reqs)
      /\ UNCHANGED <<settings, cache, crc_block_format, error, plan, output>>
  BY DEF Return
<1>2. TypeOK'
  BY <1>1 DEF TypeOK, settings, cache, plan, output
<1>3. CacheExact'
  BY <1>1, CacheUnchanged
<1>4. FormatKnown' /\ NoResultYet' /\ InReadBlock'
  BY <1>1 DEF FormatKnown, NoResultYet, InReadBlock, settings
<1>5. ColumnsExact'
  <2>1. /\ call \in Calls /\ InRange(call) /\ ReqsMatch
        /\ Len(result) = Len(call.seqnums)
        /\ \A i \in 1 .. Len(reqs) :
             result[reqs[i].result_idx] = Content(reqs[i].offset, reqs[i].length)
    BY <1>1 DEF InReadBlock, ReqsMatch, SlicedExact
  <2>2. ASSUME NEW k \in DOMAIN result
        PROVE  result[k] = Content(ColumnExtent(call, k).offset, ColumnExtent(call, k).length)
    <3>1. k \in DOMAIN call.seqnums
      BY <2>1, SeqFacts, RequestFacts
    <3>2. PICK i \in DOMAIN reqs : reqs[i].result_idx = k
      BY <2>1, <3>1 DEF ReqsMatch
    <3>3. reqs[i] = Requests(call)[k]
      BY <2>1, <3>2 DEF ReqsMatch
    <3>4. result[k] = Content(reqs[i].offset, reqs[i].length)
      BY <2>1, <3>2, SeqFacts
    <3> QED BY <2>1, <3>1, <3>3, <3>4, RequestFacts
  <2>3. result' = result /\ call' = call /\ file' = file
    BY <1>1 DEF plan, output, settings
  <2> QED BY <2>1, <2>2, <2>3 DEF ColumnsExact, ColumnExtent, Content
<1> QED BY <1>2, <1>3, <1>4, <1>5

LEMMA StutterStep ==
  ASSUME IInv, UNCHANGED vars
  PROVE  IInv'
<1> USE DEF IInv
<1>1. UNCHANGED <<settings, cache, crc_block_format, pc, error, plan, output>>
  BY DEF vars
<1>2. TypeOK'
  BY <1>1 DEF TypeOK, settings, cache, plan, output
<1>3. CacheExact'
  BY <1>1, CacheUnchanged
<1>4. FormatKnown' /\ NoResultYet' /\ ColumnsExact'
  BY <1>1 DEF FormatKnown, NoResultYet, ColumnsExact, ColumnExtent, settings, plan, output
<1>5. InReadBlock'
  BY <1>1, PlanUnchanged
     DEF InReadBlock, BuffersExact, SlicedExact, Staged, plan, output
<1> QED BY <1>2, <1>3, <1>4, <1>5

(* The invariant is inductive. *)
LEMMA InvariantStep == IInv /\ [Next]_vars => IInv'
<1> SUFFICES ASSUME IInv, [Next]_vars PROVE IInv'
  OBVIOUS
<1>1. CASE DetectCrcFormat
  BY <1>1, DetectStep
<1>2. CASE ReadHeader
  BY <1>2, HeaderStep
<1>3. CASE ReadMetadata
  BY <1>3, MetadataStep
<1>4. CASE \E c \in Calls : ReadBlock(c)
  BY <1>4, ReadBlockStep
<1>5. CASE ExtendRead
  BY <1>5, ExtendStep
<1>6. CASE StartRead
  BY <1>6, StartStep
<1>7. CASE EndCoalesce \/ EndReads
  BY <1>7, EndStep
<1>8. CASE IssueRead
  BY <1>8, IssueStep
<1>9. CASE SliceColumn
  BY <1>9, SliceStep
<1>10. CASE Return
  BY <1>10, ReturnStep
<1>11. CASE \/ UnknownFormat \/ MetaRejected \/ (\E c \in Calls : OutOfRange(c))
            \/ ReadPastEnd \/ ColumnReadOverflow \/ IoFails
  <2>1. \E reason \in {"io", "format", "range", "bounds"} : Throw(reason)
    BY <1>11 DEF UnknownFormat, MetaRejected, OutOfRange, ReadPastEnd, ColumnReadOverflow,
                IoFails
  <2> QED BY <2>1, ThrowStep
<1>12. CASE Destroyed \/ UNCHANGED vars
  BY <1>12, StutterStep DEF Destroyed
<1> QED BY <1>1, <1>2, <1>3, <1>4, <1>5, <1>6, <1>7, <1>8, <1>9, <1>10, <1>11, <1>12 DEF Next

---------------------------------------------------------------------------
(* The state of a reader is well typed for all files, calls and settings. *)
THEOREM TypeCorrect == Spec => []TypeOK
<1>1. Init => IInv
  BY InitStep
<1>2. IInv /\ [Next]_vars => IInv'
  BY InvariantStep
<1>3. IInv => TypeOK
  BY DEF IInv
<1> QED BY <1>1, <1>2, <1>3, PTL DEF Spec

(* TAEObjectReader::ReadBlock returns the bytes of the columns asked for, for
   every size of checksum blocks and reads, every layout of a file, every gap
   and every threshold, also when the length of a merged read wraps. *)
THEOREM ReadBlockExact == Spec => []ColumnsExact
<1>1. Init => IInv
  BY InitStep
<1>2. IInv /\ [Next]_vars => IInv'
  BY InvariantStep
<1>3. IInv => ColumnsExact
  BY DEF IInv
<1> QED BY <1>1, <1>2, <1>3, PTL DEF Spec

---------------------------------------------------------------------------
(* Intact files: nothing that can be read is taken for damaged *)

FormatIs == file.format = (IF crc_block_format THEN "crc" ELSE "raw")

(* Whole checksum blocks before a raw range add their content to what is stripped
   from it. *)
LEMMA StrippedShift ==
  ASSUME NEW n \in Nat, NEW k \in Nat
  PROVE  /\ StrippedLen(n) \in Nat
         /\ StrippedLen(k * CrcBlockSize + n) = k * CrcContentSize + StrippedLen(n)
<1> DEFINE q == n \div CrcBlockSize
           m == n % CrcBlockSize
           rest == IF m > CrcSize THEN m - CrcSize ELSE 0
<1>1. n = q * CrcBlockSize + m /\ m \in 0 .. CrcBlockSize - 1 /\ q \in Nat
  BY DivMod, Sizes
<1>2. StrippedLen(n) = q * CrcContentSize + rest
  BY DEF StrippedLen
<1> HIDE DEF q, m
<1>3. /\ q * CrcContentSize \in Nat /\ k * CrcContentSize \in Nat /\ k * CrcBlockSize \in Nat
      /\ q * CrcBlockSize \in Nat
      /\ (k + q) * CrcBlockSize = k * CrcBlockSize + q * CrcBlockSize
      /\ (k + q) * CrcContentSize = k * CrcContentSize + q * CrcContentSize
  BY <1>1, TimesPlus, Sizes
<1>4. k * CrcBlockSize + n = (k + q) * CrcBlockSize + m
  BY <1>1, <1>3, Sizes
<1>5. /\ ((k + q) * CrcBlockSize + m) \div CrcBlockSize = k + q
      /\ ((k + q) * CrcBlockSize + m) % CrcBlockSize = m
  <2>1. k + q \in Nat /\ m \in Nat /\ m < CrcBlockSize
    BY <1>1, Sizes
  <2> QED BY <2>1, DivModUnique, Sizes
<1>6. StrippedLen(k * CrcBlockSize + n) = (k + q) * CrcContentSize + rest
  BY <1>4, <1>5 DEF StrippedLen
<1>7. rest \in Nat
  BY <1>1, Sizes
<1> HIDE DEF rest
<1> QED BY <1>2, <1>3, <1>6, <1>7

(* The raw range of content that a file has. *)
LEMMA RawRangeFits ==
  ASSUME NEW size \in Nat, NEW offset \in Nat, NEW length \in Nat \ {0},
         offset + length <= StrippedLen(size)
  PROVE  LET k == FirstBlock(offset)
             l == LastBlock(offset, length)
             end == IF (l + 1) * CrcBlockSize < size THEN (l + 1) * CrcBlockSize ELSE size
             start == k * CrcBlockSize
         IN  /\ k \in Nat /\ l \in Nat /\ start \in Nat /\ end \in Nat
             /\ start <= end /\ end <= size /\ l * CrcBlockSize < size
             /\ (l + 1) * CrcBlockSize = l * CrcBlockSize + CrcBlockSize
             /\ l * CrcBlockSize \in Nat
             /\ LocalOffset(offset) + length <= StrippedLen(end - start)
<1> DEFINE k == FirstBlock(offset)
           last == offset + length - 1
           l == LastBlock(offset, length)
           full == (l + 1) * CrcBlockSize
           end == IF full < size THEN full ELSE size
           start == k * CrcBlockSize
<1>1. /\ k = offset \div CrcContentSize /\ l = last \div CrcContentSize /\ last \in Nat
      /\ last < StrippedLen(size) /\ offset <= last
  <2>1. StrippedLen(size) \in Nat
    BY StrippedShift
  <2> QED BY <2>1 DEF FirstBlock, LastBlock
<1> HIDE DEF last
<1> DEFINE r == last % CrcContentSize
           s == offset % CrcContentSize
<1>2. offset = k * CrcContentSize + s /\ k \in Nat /\ s \in 0 .. CrcContentSize - 1
  <2>1. /\ offset = (offset \div CrcContentSize) * CrcContentSize + s
        /\ offset \div CrcContentSize \in Nat /\ s \in 0 .. CrcContentSize - 1
    BY DivMod, Sizes
  <2> HIDE DEF s
  <2> QED BY <1>1, <2>1
<1>3. last = l * CrcContentSize + r /\ l \in Nat /\ r \in 0 .. CrcContentSize - 1
  <2>1. /\ last = (last \div CrcContentSize) * CrcContentSize + r
        /\ last \div CrcContentSize \in Nat /\ r \in 0 .. CrcContentSize - 1
    BY <1>1, DivMod, Sizes
  <2> HIDE DEF r
  <2> QED BY <1>1, <2>1
<1>4. l * CrcBlockSize + CrcSize + r < size
  <2>1. (last \div CrcContentSize) * CrcBlockSize + CrcSize + (last % CrcContentSize) < size
    BY <1>1, StrippedPlace
  <2> QED BY <1>1, <2>1
<1>5. LocalOffset(offset) = offset - k * CrcContentSize
  BY DEF LocalOffset
<1> HIDE DEF k, l, r, s
<1>6. /\ l * CrcBlockSize \in Nat /\ k * CrcBlockSize \in Nat
      /\ l * CrcContentSize \in Nat /\ k * CrcContentSize \in Nat
      /\ (l + 1) * CrcBlockSize = l * CrcBlockSize + CrcBlockSize
      /\ (l + 1) * CrcContentSize = l * CrcContentSize + CrcContentSize
  BY <1>2, <1>3, TimesPlus, Sizes
<1>7. k <= l
  <2> SUFFICES ASSUME l + 1 <= k PROVE FALSE
    BY <1>2, <1>3
  <2>1. (l + 1) * CrcContentSize <= k * CrcContentSize
    BY <1>2, <1>3, TimesMonotone, Sizes
  <2> QED BY <1>1, <1>2, <1>3, <1>6, <2>1, Sizes
<1>8. start <= l * CrcBlockSize /\ l * CrcBlockSize < size
  <2>1. start <= l * CrcBlockSize
    BY <1>2, <1>3, <1>7, TimesMonotone, Sizes
  <2> QED BY <1>3, <1>4, <1>6, <2>1, Sizes
<1>9. start \in Nat /\ full \in Nat /\ end \in Nat /\ start <= end /\ end <= size
  BY <1>6, <1>8, Sizes
<1>10. LocalOffset(offset) + length <= StrippedLen(end - start)
  <2>1. CASE full < size
    <3> DEFINE d == l + 1 - k
    <3>1. d \in Nat /\ l + 1 = d + k
      BY <1>2, <1>3, <1>7
    <3> HIDE DEF d
    <3>2. /\ (l + 1) * CrcBlockSize = d * CrcBlockSize + k * CrcBlockSize
          /\ (l + 1) * CrcContentSize = d * CrcContentSize + k * CrcContentSize
          /\ d * CrcBlockSize \in Nat /\ d * CrcContentSize \in Nat
      BY <1>2, <3>1, TimesPlus, Sizes
    <3>3. end - start = d * CrcBlockSize + 0
      BY <1>6, <2>1, <3>2
    <3>4. StrippedLen(0) = 0
      <4>1. 0 \div CrcBlockSize = 0 /\ 0 % CrcBlockSize = 0
        BY Sizes
      <4> QED BY <4>1, Sizes DEF StrippedLen
    <3>5. StrippedLen(end - start) = d * CrcContentSize
      <4>1. StrippedLen(d * CrcBlockSize + 0) = d * CrcContentSize + StrippedLen(0)
        BY <3>1, StrippedShift
      <4> QED BY <3>2, <3>3, <3>4, <4>1
    <3>6. offset + length = last + 1
      BY DEF last
    <3>7. last + 1 <= (l + 1) * CrcContentSize
      BY <1>3, <1>6, Sizes
    <3> QED BY <1>5, <1>6, <3>2, <3>5, <3>6, <3>7
  <2>2. CASE ~(full < size)
    <3>1. end = size /\ size - start \in Nat /\ size = k * CrcBlockSize + (size - start)
      BY <1>9, <2>2
    <3>2. /\ StrippedLen(k * CrcBlockSize + (size - start))
               = k * CrcContentSize + StrippedLen(size - start)
          /\ StrippedLen(size - start) \in Nat
      BY <1>2, <3>1, StrippedShift
    <3> QED BY <1>5, <1>6, <3>1, <3>2
  <2> QED BY <2>1, <2>2
<1> HIDE DEF end, start, full
<1> QED BY <1>2, <1>3, <1>6, <1>8, <1>9, <1>10 DEF end, start, full, k, l

LEMMA ContentReadable ==
  ASSUME TypeOK, Intact(file), FormatIs, NEW offset \in Nat, NEW length \in Nat \ {0},
         offset + length <= ContentSize(file)
  PROVE  CanRead(offset, length)
<1>1. file.size \in Nat
  BY FileFacts
<1>2. CASE ~crc_block_format
  BY <1>2 DEF CanRead, RawRange, InFile, FormatIs, ContentSize
<1>3. CASE crc_block_format
  <2>1. offset + length <= StrippedLen(file.size)
    BY <1>3 DEF FormatIs, ContentSize
  <2> DEFINE start == PhysStart(offset)
             end == PhysEnd(offset, length)
  <2>2. /\ start \in Nat /\ end \in Nat /\ start <= end /\ end <= file.size
        /\ LocalOffset(offset) + length <= StrippedLen(end - start)
    BY <1>1, <2>1, RawRangeFits DEF PhysStart, PhysEnd
  <2>3. RawRange(offset, length) = [offset |-> start, length |-> end - start]
    BY <1>3 DEF RawRange
  <2> HIDE DEF start, end
  <2> QED BY <1>1, <2>2, <2>3 DEF CanRead, InFile
<1> QED BY <1>2, <1>3

---------------------------------------------------------------------------
(* A small file is read once *)

(* The cache of a small file is empty until the first read and the file from then
   on. *)
OnceInv ==
  file.size > 0 /\ file.size <= prefetch_threshold =>
    /\ ~prefetch_attempted => file_reads = 0
    /\ prefetch_attempted => file_reads <= 1 /\ prefetch_buf = Disk(0, file.size)

LEMMA ReadKeepsOnce ==
  ASSUME TypeOK, CacheExact, OnceInv, NEW offset, NEW length, RawRead(offset, length),
         InFile(offset, length), UNCHANGED settings
  PROVE  OnceInv'
<1> SUFFICES ASSUME file.size > 0, file.size <= prefetch_threshold
             PROVE  file_reads' <= 1 /\ prefetch_buf' = Disk(0, file.size)'
  BY DEF OnceInv, settings, RawRead
<1>1. file' = file /\ Disk(0, file.size)' = Disk(0, file.size)
  BY DEF settings, Disk, ByteAt
<1>2. Cache = Disk(0, file.size)
  BY DEF OnceInv, Cache, WholeFileRead, TypeOK
<1>3. Len(Cache) = file.size /\ Cache # <<>>
  <2>1. Len(Cache) = file.size /\ file.size \in Nat
    BY <1>2, FileFacts, DiskFacts
  <2> QED BY <2>1
<1>4. Cached(offset, length)
  BY <1>3 DEF Cached, InFile
<1>5. NewReads(offset, length) = IF WholeFileRead THEN 1 ELSE 0
  BY <1>4 DEF NewReads
<1>6. file_reads + NewReads(offset, length) \in 0 .. 1
  BY <1>5 DEF OnceInv, WholeFileRead, TypeOK
<1>7. file_reads' \in 0 .. 1
  BY <1>6 DEF RawRead
<1> QED BY <1>1, <1>2, <1>7 DEF RawRead

LEMMA OnceStep == IInv /\ OnceInv /\ [Next]_vars => OnceInv'
<1> SUFFICES ASSUME IInv, OnceInv, [Next]_vars PROVE OnceInv'
  OBVIOUS
<1> TypeOK /\ CacheExact
  BY DEF IInv
<1>1. CASE UNCHANGED <<settings, cache>>
  BY <1>1 DEF OnceInv, settings, cache, Disk, ByteAt
<1>2. CASE DetectCrcFormat
  BY <1>2, ReadKeepsOnce DEF DetectCrcFormat
<1>3. ASSUME NEW offset, NEW length, CanRead(offset, length), LogicalRead(offset, length),
             UNCHANGED settings
      PROVE  OnceInv'
  <2> DEFINE range == RawRange(offset, length)
  <2>1. InFile(range.offset, range.length) /\ RawRead(range.offset, range.length)
    BY <1>3 DEF CanRead, LogicalRead
  <2> HIDE DEF range
  <2> QED BY <1>3, <2>1, ReadKeepsOnce
<1>4. CASE ReadHeader
  BY <1>3, <1>4 DEF ReadHeader
<1>5. CASE ReadMetadata
  BY <1>3, <1>5 DEF ReadMetadata
<1>6. CASE IssueRead
  BY <1>3, <1>6 DEF IssueRead
<1>7. CASE \/ UnknownFormat \/ MetaRejected \/ (\E c \in Calls : OutOfRange(c))
           \/ ReadPastEnd \/ ColumnReadOverflow \/ IoFails
  BY <1>1, <1>7 DEF UnknownFormat, MetaRejected, OutOfRange, ReadPastEnd, ColumnReadOverflow,
       IoFails, Throw
<1>8. CASE \/ \E c \in Calls : ReadBlock(c)
           \/ ExtendRead \/ StartRead \/ EndCoalesce \/ EndReads \/ SliceColumn \/ Return
  BY <1>1, <1>8 DEF ReadBlock, ExtendRead, StartRead, EndCoalesce, EndReads, SliceColumn, Return
<1>9. CASE Destroyed \/ UNCHANGED vars
  BY <1>1, <1>9 DEF Destroyed, vars
<1> QED BY <1>2, <1>4, <1>5, <1>6, <1>7, <1>8, <1>9 DEF Next

LEMMA IntactFacts ==
  ASSUME TypeOK, Intact(file)
  PROVE  /\ file.format \in {"raw", "crc"} /\ file.size \in Nat /\ file.size >= ProbeSize
         /\ ProbeSize \in Nat \ {0} /\ ContentSize(file) \in Nat
         /\ HeaderSize <= ContentSize(file)
         /\ file.meta.offset + file.meta.length <= ContentSize(file) /\ file.meta.length > 0
<1>1. ContentSize(file) \in Nat
  BY FileFacts, StrippedShift DEF ContentSize
<1> QED BY <1>1, FileFacts, Sizes DEF Intact, EndsBy, ProbeSize, File

(* A file up to the threshold is read once, for all sizes, calls and thresholds. *)
THEOREM SmallFilesReadOnce == Spec => []SmallFileReadOnce
<1>1. Init => OnceInv
  BY DEF Init, OnceInv
<1>2. IInv /\ OnceInv => SmallFileReadOnce
  <2> SUFFICES ASSUME IInv, OnceInv, Intact(file), file.size <= prefetch_threshold
               PROVE  file_reads <= 1
    BY DEF SmallFileReadOnce
  <2>1. file.size > 0
    BY IntactFacts DEF IInv
  <2> QED BY <2>1 DEF OnceInv, IInv, TypeOK
<1> QED BY <1>1, <1>2, InitStep, InvariantStep, OnceStep, PTL DEF Spec

---------------------------------------------------------------------------
(* The reads of a block are apart *)

End(e) == e.offset + e.length

(* Every read is of content, and ends more than the gap before the next. *)
RangesInv ==
  Intact(file) =>
    /\ \A k \in DOMAIN coalesced : coalesced[k].length > 0 /\ End(coalesced[k]) <= ContentSize(file)
    /\ \A j, k \in DOMAIN coalesced :
         j < k => End(coalesced[j]) + coalesce_gap < coalesced[k].offset

(* A read starts where some request starts, and a request that joined a read ends
   in it. *)
PlacedInv ==
  Intact(file) /\ pc \in {"coalesce", "read", "slice"} =>
    /\ \A k \in DOMAIN coalesced : \E i \in DOMAIN reqs : coalesced[k].offset = reqs[i].offset
    /\ \A i \in DOMAIN req_to_coalesced : End(reqs[i]) <= End(coalesced[req_to_coalesced[i]])

(* The requests of an intact file are of content, and near enough to each other
   for one read. *)
LEMMA RequestInside ==
  ASSUME TypeOK, ReqsMatch, Intact(file), NEW i \in DOMAIN reqs
  PROVE  /\ reqs[i].length > 0 /\ End(reqs[i]) <= ContentSize(file)
         /\ \A j \in DOMAIN reqs : End(reqs[i]) - reqs[j].offset <= LengthMod - 1
<1>1. ASSUME NEW j \in DOMAIN reqs
      PROVE  \E c \in DOMAIN file.blocks[call.block_idx] :
               /\ reqs[j].offset = file.blocks[call.block_idx][c].offset
               /\ reqs[j].length = file.blocks[call.block_idx][c].length
  <2> DEFINE m == reqs[j].result_idx
  <2>1. m \in DOMAIN call.seqnums /\ reqs[j] = Requests(call)[m]
        /\ call \in Calls /\ InRange(call)
    BY DEF ReqsMatch
  <2> HIDE DEF m
  <2>2. reqs[j].offset = ColumnExtent(call, m).offset /\ reqs[j].length = ColumnExtent(call, m).length
    BY <2>1, RequestFacts
  <2>3. call.seqnums[m] \in DOMAIN file.blocks[call.block_idx]
    <3>1. call \in [block_idx : Nat \ {0}, seqnums : Seq(Nat \ {0})]
      BY <2>1, ObjectReaderAssumption
    <3>2. call.block_idx \in 1 .. Len(file.blocks) /\ file.blocks \in Seq(Seq(Extent))
      BY <2>1, <3>1, FileFacts, LenProperties DEF File, InRange
    <3>3. file.blocks[call.block_idx] \in Seq(Extent)
      BY <3>2, ElementOfSeq
    <3>4. call.seqnums[m] \in Nat \ {0}
      BY <2>1, <3>1, ElementOfSeq, LenProperties
    <3> QED BY <2>1, <3>3, <3>4, LenProperties DEF InRange
  <2> QED BY <2>2, <2>3 DEF ColumnExtent
<1>2. call.block_idx \in DOMAIN file.blocks
  <2>1. call \in [block_idx : Nat \ {0}, seqnums : Seq(Nat \ {0})] /\ InRange(call)
    BY ObjectReaderAssumption DEF ReqsMatch
  <2>2. file.blocks \in Seq(Seq(Extent))
    BY FileFacts DEF File
  <2> QED BY <2>1, <2>2, LenProperties DEF InRange
<1>3. PICK c \in DOMAIN file.blocks[call.block_idx] :
        /\ reqs[i].offset = file.blocks[call.block_idx][c].offset
        /\ reqs[i].length = file.blocks[call.block_idx][c].length
  BY <1>1
<1>4. reqs[i].length > 0 /\ End(reqs[i]) <= ContentSize(file)
  BY <1>2, <1>3 DEF Intact, EndsBy, End
<1>5. ASSUME NEW j \in DOMAIN reqs PROVE End(reqs[i]) - reqs[j].offset <= LengthMod - 1
  <2>1. PICK d \in DOMAIN file.blocks[call.block_idx] :
          reqs[j].offset = file.blocks[call.block_idx][d].offset
    BY <1>1
  <2>2. End(reqs[i]) <= reqs[j].offset + LengthMod - 1
    BY <1>2, <1>3, <2>1 DEF Intact, EndsBy, End
  <2>3. reqs[i].offset \in Nat /\ reqs[i].length \in Nat /\ reqs[j].offset \in Nat
    BY SeqFacts
  <2> QED BY <2>2, <2>3, Sizes DEF End
<1> QED BY <1>4, <1>5

LEMMA RangesUnchanged ==
  ASSUME UNCHANGED <<file, coalesce_gap, coalesced>>, RangesInv
  PROVE  RangesInv'
  BY DEF RangesInv, Intact, ContentSize, StrippedLen, EndsBy, End

LEMMA PlacedUnchanged ==
  ASSUME UNCHANGED <<file, plan>>, pc' \in {"coalesce", "read", "slice"} => pc \in {"coalesce", "read", "slice"},
         PlacedInv
  PROVE  PlacedInv'
  BY DEF PlacedInv, plan, Intact, ContentSize, StrippedLen, EndsBy, End

LEMMA ExtendKeepsRanges ==
  ASSUME IInv, RangesInv, PlacedInv, ExtendRead
  PROVE  RangesInv' /\ PlacedInv'
<1> USE DEF IInv
<1> SUFFICES ASSUME Intact(file) PROVE RangesInv' /\ PlacedInv'
  <2>1. Intact(file)' <=> Intact(file)
    BY DEF ExtendRead, settings, Intact, ContentSize, StrippedLen, EndsBy
  <2> QED BY <2>1 DEF RangesInv, PlacedInv
<1> DEFINE last == Len(coalesced)
           placed == Len(req_to_coalesced)
           size == ContentSize(file)
<1>1. /\ pc = "coalesce" /\ pc' = pc /\ placed < Len(reqs) /\ coalesced # <<>>
      /\ file' = file /\ coalesce_gap' = coalesce_gap /\ reqs' = reqs
      /\ req_to_coalesced' = Append(req_to_coalesced, last)
  BY DEF ExtendRead, Near, settings
<1>2. /\ last \in Nat \ {0} /\ last \in DOMAIN coalesced
      /\ coalesced \in Seq([offset : Nat, length : 0 .. LengthMod - 1])
  BY <1>1, SeqFacts, EmptySeq DEF TypeOK
<1>3. /\ Last = coalesced[last] /\ Last.offset \in Nat /\ Last.length \in Nat /\ LastEnd = End(Last)
      /\ Last.length > 0 /\ End(Last) <= size /\ size \in Nat /\ coalesce_gap \in Nat
  BY <1>2, SeqFacts, IntactFacts, ObjectReaderAssumption DEF Last, LastEnd, End, RangesInv, TypeOK
<1>4. /\ placed + 1 \in DOMAIN reqs /\ Req = reqs[placed + 1] /\ ReqEnd = End(Req)
      /\ Req.offset \in Nat /\ Req.length \in Nat
      /\ \A k \in DOMAIN coalesced : coalesced[k].offset <= Req.offset
  BY <1>1, ReqFacts, SeqFacts DEF Req, ReqEnd, End
<1>5. ReqsMatch /\ ReadsStartBefore
  BY <1>1 DEF InReadBlock
<1>6. End(Req) <= size
  BY <1>4, <1>5, RequestInside
<1>7. End(Req) - Last.offset <= LengthMod - 1
  <2>1. PICK i \in DOMAIN reqs : Last.offset = reqs[i].offset
    BY <1>1, <1>2, <1>3 DEF PlacedInv
  <2> QED BY <1>4, <1>5, <2>1, RequestInside
<1> DEFINE e == coalesced'[last]
<1>8. /\ Len(coalesced') = last /\ DOMAIN coalesced' = DOMAIN coalesced
      /\ \A k \in DOMAIN coalesced : coalesced'[k].offset = coalesced[k].offset
      /\ \A k \in DOMAIN coalesced : k # last => coalesced'[k] = coalesced[k]
      /\ e.offset = Last.offset /\ e.length \in Nat /\ e.length > 0
      /\ End(Last) <= End(e) /\ End(Req) <= End(e) /\ End(e) <= size
  <2>1. CASE ReqEnd > LastEnd
    <3> DEFINE len == ReadLength(ReqEnd - Last.offset)
               grown == [coalesced[last] EXCEPT !.length = len]
    <3>1. len = ReqEnd - Last.offset /\ len \in Nat /\ len > 0
      <4>1. PICK a \in Nat : a = Last.offset
        BY <1>3
      <4>2. PICK b \in Nat : b = End(Last) /\ a <= b
        BY <1>3, <4>1 DEF End
      <4>3. PICK c \in Nat : c = End(Req)
        BY <1>4 DEF End
      <4>4. b < c /\ c - a <= LengthMod - 1 /\ len = ReadLength(c - a)
        BY <1>3, <1>4, <1>7, <2>1, <4>1, <4>2, <4>3
      <4> HIDE DEF len
      <4>5. (c - a) % LengthMod = c - a
        BY <4>2, <4>4, Sizes
      <4>6. c = ReqEnd
        BY <1>4, <4>3
      <4> QED BY <4>1, <4>2, <4>3, <4>4, <4>5, <4>6 DEF ReadLength
    <3> DEFINE C == [offset : Nat, length : Nat]
    <3>2. grown \in C /\ grown.offset = Last.offset /\ grown.length = len
      <4>1. coalesced[last] \in [offset : Nat, length : 0 .. LengthMod - 1]
        BY <1>2, SeqFacts, ElementOfSeq
      <4> HIDE DEF len
      <4> QED BY <1>3, <3>1, <4>1
    <3>3. coalesced' = [coalesced EXCEPT ![last] = grown]
      BY <2>1 DEF ExtendRead
    <3> HIDE DEF grown, len
    <3>4. /\ DOMAIN coalesced' = DOMAIN coalesced /\ coalesced'[last] = grown
          /\ \A k \in DOMAIN coalesced : k # last => coalesced'[k] = coalesced[k]
      BY <1>2, <3>3
    <3>5. Len(coalesced') = last
      <4>1. coalesced \in Seq(C)
        <5>1. [offset : Nat, length : 0 .. LengthMod - 1] \subseteq C
          BY Sizes
        <5> HIDE DEF C
        <5>2. coalesced \in [1 .. last -> [offset : Nat, length : 0 .. LengthMod - 1]]
          BY <1>2, LenProperties
        <5>3. coalesced \in [1 .. last -> C]
          BY <5>1, <5>2
        <5> QED BY <1>2, <5>3
      <4> HIDE DEF C
      <4> QED BY <1>2, <3>2, <3>3, <4>1, ExceptSeq, SeqFacts
    <3>6. End(grown) = End(Req)
      BY <1>3, <1>4, <3>1, <3>2 DEF End
    <3>7. End(Last) <= End(grown) /\ End(grown) <= size
      <4>1. PICK a \in Nat : a = End(Last)
        BY <1>3 DEF End
      <4>2. PICK b \in Nat : b = End(Req)
        BY <1>4 DEF End
      <4>3. a < b
        BY <1>3, <1>4, <2>1, <4>1, <4>2
      <4>4. a <= b
        BY <4>3
      <4> QED BY <1>6, <3>6, <4>1, <4>2, <4>4
    <3>8. End(Req) <= End(grown)
      BY <1>4, <3>6 DEF End
    <3> QED BY <1>3, <3>1, <3>2, <3>4, <3>5, <3>7, <3>8
  <2>2. CASE ~(ReqEnd > LastEnd)
    <3>1. coalesced' = coalesced
      BY <2>2 DEF ExtendRead
    <3>2. End(Req) <= End(Last) /\ End(Last) <= End(Last)
      BY <1>3, <1>4, <2>2 DEF End
    <3> QED BY <1>3, <3>1, <3>2
  <2> QED BY <2>1, <2>2
<1> HIDE DEF e
<1>9. /\ Len(req_to_coalesced') = placed + 1
      /\ DOMAIN req_to_coalesced' = 1 .. placed + 1
      /\ req_to_coalesced'[placed + 1] = last
      /\ \A i \in 1 .. placed : req_to_coalesced'[i] = req_to_coalesced[i]
  BY <1>1, <1>2, SeqFacts, AppendProperties DEF TypeOK
<1>10. RangesInv'
  <2>1. ASSUME NEW k \in DOMAIN coalesced
        PROVE  coalesced'[k].length > 0 /\ End(coalesced'[k]) <= size
    <3>1. CASE k = last
      BY <1>8, <3>1 DEF e
    <3>2. CASE k # last
      BY <1>8, <3>2 DEF RangesInv
    <3> QED BY <3>1, <3>2
  <2>2. ASSUME NEW j \in DOMAIN coalesced, NEW k \in DOMAIN coalesced, j < k
        PROVE  End(coalesced'[j]) + coalesce_gap < coalesced'[k].offset
    <3>1. j # last
      BY <1>2, <2>2, SeqFacts
    <3> QED BY <1>8, <2>2, <3>1 DEF RangesInv
  <2>3. ContentSize(file)' = size
    BY <1>1 DEF ContentSize, StrippedLen
  <2> QED BY <1>1, <1>8, <2>1, <2>2, <2>3 DEF RangesInv, End
<1>11. PlacedInv'
  <2>1. \A k \in DOMAIN coalesced : \E i \in DOMAIN reqs : coalesced'[k].offset = reqs[i].offset
    BY <1>1, <1>8 DEF PlacedInv
  <2>2. ASSUME NEW i \in 1 .. placed + 1
        PROVE  End(reqs[i]) <= End(coalesced'[req_to_coalesced'[i]])
    <3>1. CASE i = placed + 1
      BY <1>4, <1>8, <1>9, <3>1 DEF e
    <3>2. CASE i # placed + 1
      <4>1. i \in 1 .. placed /\ i \in DOMAIN req_to_coalesced
        BY <3>2, SeqFacts
      <4> DEFINE k == req_to_coalesced[i]
      <4>2. k \in DOMAIN coalesced /\ End(reqs[i]) <= End(coalesced[k])
        BY <1>1, <1>5, <4>1 DEF PlacedInv, ReadsStartBefore
      <4>3. req_to_coalesced'[i] = k
        BY <1>9, <4>1
      <4> HIDE DEF k
      <4>4. CASE k # last
        BY <1>8, <4>2, <4>3, <4>4
      <4>5. CASE k = last
        <5>1. i \in DOMAIN reqs
          BY <1>1, <4>1, SeqFacts
        <5>2. reqs[i].offset \in Nat /\ reqs[i].length \in Nat
          BY <5>1, SeqFacts
        <5>3. End(reqs[i]) <= End(Last) /\ End(Last) <= End(e)
          BY <1>3, <1>8, <4>2, <4>5
        <5>4. End(reqs[i]) \in Nat /\ End(Last) \in Nat /\ End(e) \in Nat
          <6>1. End(reqs[i]) \in Nat
            BY <5>2 DEF End
          <6>2. End(Last) \in Nat
            BY <1>3 DEF End
          <6>3. e.offset \in Nat /\ e.length \in Nat
            BY <1>3, <1>8
          <6>4. End(e) \in Nat
            BY <6>3 DEF End
          <6> QED BY <6>1, <6>2, <6>4
        <5>5. End(reqs[i]) <= End(e)
          BY <5>3, <5>4
        <5> QED BY <4>3, <4>5, <5>5 DEF e
      <4> QED BY <4>4, <4>5
    <3> QED BY <3>1, <3>2
  <2> QED BY <1>1, <1>8, <1>9, <2>1, <2>2 DEF PlacedInv, End
<1> QED BY <1>10, <1>11

LEMMA StartKeepsRanges ==
  ASSUME IInv, RangesInv, PlacedInv, StartRead
  PROVE  RangesInv' /\ PlacedInv'
<1> USE DEF IInv
<1> SUFFICES ASSUME Intact(file) PROVE RangesInv' /\ PlacedInv'
  <2>1. Intact(file)' <=> Intact(file)
    BY DEF StartRead, settings, Intact, ContentSize, StrippedLen, EndsBy
  <2> QED BY <2>1 DEF RangesInv, PlacedInv
<1> DEFINE last == Len(coalesced)
           placed == Len(req_to_coalesced)
           size == ContentSize(file)
           new == [offset |-> Req.offset, length |-> Req.length]
<1>1. /\ pc = "coalesce" /\ pc' = pc /\ placed < Len(reqs) /\ ~Near
      /\ file' = file /\ coalesce_gap' = coalesce_gap /\ reqs' = reqs
      /\ coalesced' = Append(coalesced, new)
      /\ req_to_coalesced' = Append(req_to_coalesced, last + 1)
  BY DEF StartRead, settings
<1>2. /\ placed + 1 \in DOMAIN reqs /\ Req = reqs[placed + 1]
      /\ Req.offset \in Nat /\ Req.length \in Nat
      /\ \A k \in DOMAIN coalesced : coalesced[k].offset <= Req.offset
  BY <1>1, ReqFacts, SeqFacts DEF Req
<1>3. ReqsMatch /\ ReadsStartBefore
  BY <1>1 DEF InReadBlock
<1>4. Req.length > 0 /\ End(Req) <= size
  BY <1>2, <1>3, RequestInside
<1>5. new.offset = Req.offset /\ new.length = Req.length /\ End(new) = End(Req)
  BY DEF End
<1> HIDE DEF new
<1>6. /\ DOMAIN coalesced' = 1 .. last + 1 /\ coalesced'[last + 1] = new
      /\ \A k \in DOMAIN coalesced : coalesced'[k] = coalesced[k]
      /\ DOMAIN coalesced = 1 .. last /\ last \in Nat
  <2>1. Len(coalesced') = last + 1 /\ DOMAIN coalesced' = 1 .. last + 1
    BY <1>1, SeqFacts
  <2> QED BY <1>1, <2>1, SeqFacts
<1>7. /\ DOMAIN req_to_coalesced' = 1 .. placed + 1
      /\ req_to_coalesced'[placed + 1] = last + 1
      /\ \A i \in 1 .. placed : req_to_coalesced'[i] = req_to_coalesced[i]
  BY <1>1, SeqFacts, AppendProperties DEF TypeOK
(* The gap before the request is too wide. *)
<1>8. ASSUME NEW j \in DOMAIN coalesced
      PROVE  End(coalesced[j]) + coalesce_gap < new.offset
  <2>1. /\ last \in DOMAIN coalesced /\ coalesced # <<>> /\ Last = coalesced[last]
        /\ coalesced[last].offset \in Nat /\ coalesced[last].length \in Nat
        /\ coalesced[j].offset \in Nat /\ coalesced[j].length \in Nat
        /\ coalesce_gap \in Nat
    <3>1. last \in DOMAIN coalesced /\ coalesced # <<>>
      BY <1>6
    <3> QED BY <3>1, SeqFacts, ObjectReaderAssumption DEF Last, TypeOK
  <2>2. PICK a \in Nat : a = End(coalesced[last])
    BY <2>1 DEF End
  <2>3. PICK b \in Nat : b = End(coalesced[j])
    BY <2>1 DEF End
  <2>4. PICK r \in Nat : r = Req.offset
    BY <1>2
  <2>5. PICK g \in Nat : g = coalesce_gap
    BY <2>1
  <2>6. a + g < r
    <3>1. GapBefore = IF r > a THEN r - a ELSE 0
      BY <2>1, <2>2, <2>4 DEF GapBefore, LastEnd, End
    <3>2. ~(GapBefore <= g)
      BY <1>1, <2>1, <2>5 DEF Near
    <3> QED BY <3>1, <3>2
  <2>7. CASE j = last
    BY <1>5, <2>2, <2>4, <2>5, <2>6, <2>7
  <2>8. CASE j # last
    <3>1. j < last
      BY <1>6, <2>8
    <3>2. b + g < coalesced[last].offset
      BY <2>1, <2>3, <2>5, <3>1 DEF RangesInv
    <3>3. coalesced[last].offset <= r
      BY <1>2, <2>1, <2>4
    <3>4. b + g < r
      BY <2>1, <3>2, <3>3
    <3> QED BY <1>5, <2>3, <2>4, <2>5, <3>4
  <2> QED BY <2>7, <2>8
<1>9. RangesInv'
  <2>1. ASSUME NEW k \in 1 .. last + 1
        PROVE  coalesced'[k].length > 0 /\ End(coalesced'[k]) <= size
    <3>1. CASE k = last + 1
      BY <1>4, <1>5, <1>6, <3>1
    <3>2. CASE k # last + 1
      <4>1. k \in DOMAIN coalesced
        BY <1>6, <3>2
      <4> QED BY <1>6, <4>1 DEF RangesInv
    <3> QED BY <3>1, <3>2
  <2>2. ASSUME NEW j \in 1 .. last + 1, NEW k \in 1 .. last + 1, j < k
        PROVE  End(coalesced'[j]) + coalesce_gap < coalesced'[k].offset
    <3>1. j \in DOMAIN coalesced
      BY <1>6, <2>2
    <3>2. CASE k = last + 1
      BY <1>6, <1>8, <3>1, <3>2
    <3>3. CASE k # last + 1
      <4>1. k \in DOMAIN coalesced
        BY <1>6, <3>3
      <4> QED BY <1>6, <2>2, <3>1, <4>1 DEF RangesInv
    <3> QED BY <3>2, <3>3
  <2>3. ContentSize(file)' = size
    BY <1>1 DEF ContentSize, StrippedLen
  <2> QED BY <1>1, <1>6, <2>1, <2>2, <2>3 DEF RangesInv, End
<1>10. PlacedInv'
  <2>1. ASSUME NEW k \in 1 .. last + 1
        PROVE  \E i \in DOMAIN reqs : coalesced'[k].offset = reqs[i].offset
    <3>1. CASE k = last + 1
      BY <1>2, <1>5, <1>6, <3>1
    <3>2. CASE k # last + 1
      <4>1. k \in DOMAIN coalesced
        BY <1>6, <3>2
      <4> QED BY <1>1, <1>6, <4>1 DEF PlacedInv
    <3> QED BY <3>1, <3>2
  <2>2. ASSUME NEW i \in 1 .. placed + 1
        PROVE  End(reqs[i]) <= End(coalesced'[req_to_coalesced'[i]])
    <3>1. CASE i = placed + 1
      <4>1. coalesced'[req_to_coalesced'[i]] = new /\ reqs[i] = Req
        BY <1>2, <1>6, <1>7, <3>1
      <4>2. End(Req) \in Nat
        BY <1>2 DEF End
      <4>3. End(Req) <= End(new)
        BY <1>5, <4>2
      <4> QED BY <4>1, <4>3
    <3>2. CASE i # placed + 1
      <4>1. i \in 1 .. placed /\ i \in DOMAIN req_to_coalesced
        BY <3>2, SeqFacts
      <4>2. /\ req_to_coalesced[i] \in DOMAIN coalesced
            /\ End(reqs[i]) <= End(coalesced[req_to_coalesced[i]])
        BY <1>1, <1>3, <4>1 DEF PlacedInv, ReadsStartBefore
      <4> QED BY <1>6, <1>7, <4>1, <4>2
    <3> QED BY <3>1, <3>2
  <2>3. \A k \in DOMAIN coalesced' : \E i \in DOMAIN reqs' : coalesced'[k].offset = reqs'[i].offset
    BY <1>1, <1>6, <2>1
  <2>4. \A i \in DOMAIN req_to_coalesced' : End(reqs'[i]) <= End(coalesced'[req_to_coalesced'[i]])
    BY <1>1, <1>7, <2>2
  <2> QED BY <2>3, <2>4 DEF PlacedInv, End
<1> QED BY <1>9, <1>10

LEMMA RangesStep == IInv /\ RangesInv /\ PlacedInv /\ [Next]_vars => RangesInv' /\ PlacedInv'
<1> SUFFICES ASSUME IInv, RangesInv, PlacedInv, [Next]_vars PROVE RangesInv' /\ PlacedInv'
  OBVIOUS
<1>1. CASE ExtendRead
  BY <1>1, ExtendKeepsRanges
<1>2. CASE StartRead
  BY <1>2, StartKeepsRanges
<1>3. ASSUME NEW c \in Calls, ReadBlock(c) PROVE RangesInv' /\ PlacedInv'
  <2>1. coalesced' = <<>> /\ req_to_coalesced' = <<>>
    BY <1>3 DEF ReadBlock
  <2>2. DOMAIN coalesced' = {} /\ DOMAIN req_to_coalesced' = {}
    BY <2>1
  <2> QED BY <2>2 DEF RangesInv, PlacedInv
<1>4. CASE \/ DetectCrcFormat \/ ReadHeader \/ ReadMetadata \/ EndCoalesce \/ IssueRead
           \/ EndReads \/ SliceColumn \/ Return
           \/ \E reason \in {"io", "format", "range", "bounds"} : Throw(reason)
  <2>1. /\ UNCHANGED <<settings, plan>>
        /\ pc' \in {"coalesce", "read", "slice"} => pc \in {"coalesce", "read", "slice"}
    BY <1>4 DEF DetectCrcFormat, ReadHeader, ReadMetadata, EndCoalesce, IssueRead, EndReads,
         SliceColumn, Return, Throw
  <2>2. UNCHANGED <<file, coalesce_gap, coalesced>>
    BY <2>1 DEF settings, plan
  <2> QED BY <2>1, <2>2, RangesUnchanged, PlacedUnchanged
<1>5. CASE \/ UnknownFormat \/ MetaRejected \/ (\E c \in Calls : OutOfRange(c))
           \/ ReadPastEnd \/ ColumnReadOverflow \/ IoFails
  <2>1. \E reason \in {"io", "format", "range", "bounds"} : Throw(reason)
    BY <1>5 DEF UnknownFormat, MetaRejected, OutOfRange, ReadPastEnd, ColumnReadOverflow,
                IoFails
  <2> QED BY <1>4, <2>1
<1>6. CASE Destroyed \/ UNCHANGED vars
  <2>1. UNCHANGED <<settings, plan, pc>>
    BY <1>6 DEF Destroyed, vars
  <2>2. UNCHANGED <<file, coalesce_gap, coalesced, pc>>
    BY <2>1 DEF settings, plan
  <2>3. pc' \in {"coalesce", "read", "slice"} => pc \in {"coalesce", "read", "slice"}
    BY <2>2
  <2> QED BY <2>1, <2>2, <2>3, RangesUnchanged, PlacedUnchanged
<1> QED BY <1>1, <1>2, <1>3, <1>4, <1>5, <1>6 DEF Next

(* Two reads of a block share no byte, and are further apart than a gap above 0,
   for all extents, gaps and calls. *)
THEOREM ReadsAreApart == Spec => []ReadsApart
<1>1. Init => RangesInv /\ PlacedInv
  BY DEF Init, RangesInv, PlacedInv
<1>2. IInv /\ RangesInv => ReadsApart
  <2> SUFFICES ASSUME IInv, RangesInv, Intact(file),
                      NEW i \in DOMAIN coalesced, NEW j \in DOMAIN coalesced, i < j
               PROVE  LET end == coalesced[i].offset + coalesced[i].length
                      IN  /\ end <= coalesced[j].offset
                          /\ coalesce_gap > 0 => end + coalesce_gap < coalesced[j].offset
    BY DEF ReadsApart
  <2>1. /\ coalesce_gap \in Nat
        /\ coalesced[i].offset \in Nat /\ coalesced[i].length \in Nat /\ coalesced[j].offset \in Nat
    <3>1. TypeOK
      BY DEF IInv
    <3> QED BY <3>1, SeqFacts, ObjectReaderAssumption DEF TypeOK
  <2>2. coalesced[i].offset + coalesced[i].length + coalesce_gap < coalesced[j].offset
    BY DEF RangesInv, End
  <2> QED BY <2>1, <2>2
<1> QED BY <1>1, <1>2, InitStep, InvariantStep, RangesStep, PTL DEF Spec

---------------------------------------------------------------------------
(* An intact file is readable *)

(* The magic number is where one of the two formats puts it. *)
LEMMA IntactIsKnown ==
  ASSUME IInv, Intact(file)
  PROVE  ~UnknownFormat
<1> USE DEF IInv
<1>1. /\ ProbeSize \in Nat /\ ProbeSize = CrcSize + MagicSize /\ file.size \in Nat
      /\ file.size >= ProbeSize /\ file.format \in {"raw", "crc"}
  BY IntactFacts DEF ProbeSize
<1>2. Probe = Disk(0, ProbeSize)
  BY <1>1, RawExact DEF Probe
<1>3. Probe \in Seq(Int) /\ Len(Probe) = ProbeSize
  BY <1>1, <1>2, DiskFacts
<1>4. \A i \in 1 .. ProbeSize : Probe[i] = ByteAt(file, i - 1)
  BY <1>1, <1>2 DEF Disk
<1>5. ASSUME NEW at \in {0, CrcSize}, \A i \in 1 .. MagicSize : Probe[at + i] = i - 1
      PROVE  MagicAt(Probe, at)
  <2>1. at \in Nat /\ at + MagicSize <= Len(Probe)
    BY <1>1, <1>3, Sizes
  <2>2. Slice(Probe, at, MagicSize) = [i \in 1 .. MagicSize |-> Probe[at + i]]
    BY <1>3, <2>1, Sizes, SliceFacts
  <2>3. Content(0, MagicSize) = [i \in 1 .. MagicSize |-> i - 1]
    BY DEF Content
  <2> QED BY <1>5, <2>2, <2>3 DEF MagicAt
<1>6. ASSUME file.format = "raw" PROVE MagicAt(Probe, 0)
  <2>1. ASSUME NEW i \in 1 .. MagicSize PROVE Probe[0 + i] = i - 1
    <3>1. i \in 1 .. ProbeSize /\ 0 + i = i
      BY <1>1, Sizes
    <3>2. ByteAt(file, i - 1) = i - 1
      BY <1>6 DEF ByteAt
    <3> QED BY <1>4, <3>1, <3>2
  <2> QED BY <1>5, <2>1
<1>7. ASSUME file.format = "crc" PROVE MagicAt(Probe, CrcSize)
  <2>1. ASSUME NEW i \in 1 .. MagicSize PROVE Probe[CrcSize + i] = i - 1
    <3>1. CrcSize + i \in 1 .. ProbeSize
      BY <1>1, Sizes
    <3> DEFINE p == CrcSize + i - 1
    <3>2. p \in Nat /\ p >= CrcSize /\ p < CrcBlockSize
      BY Sizes, ObjectReaderAssumption
    <3>3. p - CrcSize = i - 1
      BY Sizes
    <3> HIDE DEF p
    <3>4. p \div CrcBlockSize = 0 /\ p % CrcBlockSize = p
      BY <3>2, Sizes
    <3>5. 0 * CrcContentSize = 0
      BY Sizes
    <3>6. ByteAt(file, p) = p - CrcSize
      <4>1. ByteAt(file, p) = 0 * CrcContentSize + p - CrcSize
        BY <1>7, <3>2, <3>4, Sizes DEF ByteAt
      <4>2. 0 + p - CrcSize = p - CrcSize
        BY <3>2, Sizes
      <4> QED BY <3>5, <4>1, <4>2
    <3>7. Probe[CrcSize + i] = ByteAt(file, p)
      <4>1. PICK j \in 1 .. ProbeSize : j = CrcSize + i
        BY <3>1
      <4>2. Probe[j] = ByteAt(file, j - 1)
        BY <1>4
      <4>3. p = j - 1
        BY <4>1, Sizes DEF p
      <4> QED BY <4>1, <4>2, <4>3
    <3> QED BY <3>3, <3>6, <3>7
  <2> QED BY <1>5, <2>1
<1>8. InFile(0, ProbeSize)
  BY <1>1 DEF InFile
<1> QED BY <1>1, <1>6, <1>7, <1>8 DEF UnknownFormat

(* The header and the metadata are read as they are. *)
LEMMA IntactIsAccepted ==
  ASSUME IInv, Intact(file)
  PROVE  ~MetaRejected
<1> USE DEF IInv
<1> SUFFICES ASSUME MetaRejected PROVE FALSE
  OBVIOUS
<1>1. pc \in {"header", "metadata"}
  BY DEF MetaRejected
<1>2. FormatIs
  BY <1>1 DEF FormatIs, FormatKnown
<1>3. ASSUME NEW offset \in Nat, NEW length \in Nat \ {0}, offset + length <= ContentSize(file)
      PROVE  CanRead(offset, length) /\ ReadBytes(offset, length) = Content(offset, length)
  BY <1>1, <1>2, <1>3, ContentReadable, ReadExact
<1>4. /\ CanRead(0, HeaderSize)
      /\ MagicAt(ReadBytes(0, HeaderSize), 0)
  <2>1. 0 + HeaderSize <= ContentSize(file)
    BY IntactFacts, Sizes
  <2>2. CanRead(0, HeaderSize) /\ ReadBytes(0, HeaderSize) = Content(0, HeaderSize)
    BY <1>3, <2>1, Sizes
  <2>3. Slice(Content(0, HeaderSize), 0, MagicSize) = Content(0 + 0, MagicSize)
    <3>1. 0 + MagicSize <= HeaderSize
      BY Sizes, ObjectReaderAssumption
    <3> QED BY <3>1, Sizes, SliceOfContent
  <2>4. 0 + 0 = 0
    OBVIOUS
  <2> QED BY <2>2, <2>3, <2>4 DEF MagicAt
<1>5. /\ CanRead(file.meta.offset, file.meta.length)
      /\ ReadBytes(file.meta.offset, file.meta.length)
           = Content(file.meta.offset, file.meta.length)
  <2>1. file.meta.offset \in Nat /\ file.meta.length \in Nat \ {0}
    BY FileFacts, IntactFacts, Sizes DEF Extent
  <2> QED BY <1>3, <2>1, IntactFacts
<1> QED BY <1>4, <1>5 DEF MetaRejected

LEMMA IntactIsInBounds ==
  ASSUME IInv, RangesInv, PlacedInv, Intact(file)
  PROVE  ~ReadPastEnd /\ ~ColumnReadOverflow
<1> USE DEF IInv
<1>1. ~ReadPastEnd
  <2> SUFFICES ASSUME ReadPastEnd PROVE FALSE
    OBVIOUS
  <2>1. /\ pc = "read" /\ Len(buffers) < Len(coalesced)
        /\ ~CanRead(ToRead.offset, ToRead.length)
    BY DEF ReadPastEnd, ReadsLeft
  <2>2. ToRead = coalesced[Len(buffers) + 1] /\ Len(buffers) + 1 \in DOMAIN coalesced
    BY <2>1, SeqFacts DEF ToRead
  <2>3. /\ ToRead.offset \in Nat /\ ToRead.length \in Nat \ {0}
        /\ ToRead.offset + ToRead.length <= ContentSize(file)
    BY <2>2, SeqFacts DEF RangesInv, End
  <2>4. FormatIs
    BY <2>1 DEF FormatIs, FormatKnown
  <2> QED BY <2>1, <2>3, <2>4, ContentReadable
<1>2. ~ColumnReadOverflow
  <2> SUFFICES ASSUME pc = "slice", sliced < Len(reqs) PROVE Fits
    BY DEF ColumnReadOverflow
  <2> DEFINE i == sliced + 1
             k == req_to_coalesced[i]
  <2>1. i \in DOMAIN reqs /\ i \in DOMAIN req_to_coalesced
    BY SeqFacts DEF TypeOK, InReadBlock, Staged
  <2>2. ToSlice = reqs[i] /\ SourceIdx = k
    BY DEF ToSlice, SourceIdx
  <2> HIDE DEF i
  <2>3. k \in DOMAIN coalesced /\ coalesced[k].offset <= reqs[i].offset
    BY <2>1 DEF InReadBlock, ReadsStartBefore
  <2>4. /\ coalesced[k].offset \in Nat /\ coalesced[k].length \in Nat
        /\ reqs[i].offset \in Nat /\ reqs[i].length \in Nat
    BY <2>1, <2>3, SeqFacts
  <2>5. End(reqs[i]) <= End(coalesced[k])
    BY <2>1 DEF PlacedInv
  <2>6. Len(buffers[k]) = coalesced[k].length
    <3>1. buffers[k] = Content(coalesced[k].offset, coalesced[k].length)
      BY <2>3, SeqFacts DEF InReadBlock, Staged, BuffersExact
    <3> QED BY <2>4, <3>1, ContentFacts
  <2> HIDE DEF k
  <2>7. reqs[i].offset - coalesced[k].offset + reqs[i].length <= coalesced[k].length
    BY <2>4, <2>5 DEF End
  <2> QED BY <2>2, <2>6, <2>7 DEF Fits, SourceOffset
<1> QED BY <1>1, <1>2

(* An intact file is readable to its last byte, whatever the sizes, the format, the
   cache and the calls: only the file system or a bad index makes the reader throw. *)
THEOREM IntactFilesReadable == Spec => []IntactIsReadable
<1> DEFINE Inv == IInv /\ RangesInv /\ PlacedInv /\ IntactIsReadable
<1>1. Init => Inv
  BY InitStep DEF Init, RangesInv, PlacedInv, IntactIsReadable
<1>2. Inv /\ [Next]_vars => Inv'
  <2> SUFFICES ASSUME Inv, [Next]_vars PROVE IntactIsReadable'
    BY InvariantStep, RangesStep
  <2>1. CASE UNCHANGED <<file, error>>
    BY <2>1 DEF IntactIsReadable, Intact, ContentSize, StrippedLen, EndsBy
  <2>2. CASE IoFails \/ (\E c \in Calls : OutOfRange(c))
    BY <2>2 DEF IoFails, OutOfRange, Throw, IntactIsReadable
  <2>3. CASE UnknownFormat \/ MetaRejected \/ ReadPastEnd \/ ColumnReadOverflow
    <3>1. ~Intact(file)
      BY <2>3, IntactIsKnown, IntactIsAccepted, IntactIsInBounds
    <3>2. file' = file
      BY <2>3 DEF UnknownFormat, MetaRejected, ReadPastEnd, ColumnReadOverflow, Throw, settings
    <3> QED BY <3>1, <3>2
            DEF IntactIsReadable, Intact, ContentSize, StrippedLen, EndsBy
  <2>4. CASE \/ DetectCrcFormat \/ ReadHeader \/ ReadMetadata
             \/ \E c \in Calls : ReadBlock(c)
             \/ ExtendRead \/ StartRead \/ EndCoalesce \/ IssueRead \/ EndReads
             \/ SliceColumn \/ Return \/ Destroyed \/ UNCHANGED vars
    <3>1. UNCHANGED <<file, error>>
      BY <2>4 DEF DetectCrcFormat, ReadHeader, ReadMetadata, ReadBlock, ExtendRead, StartRead,
           EndCoalesce, IssueRead, EndReads, SliceColumn, Return, Destroyed, vars, settings
    <3> QED BY <2>1, <3>1
  <2> QED BY <2>2, <2>3, <2>4 DEF Next
<1>3. Inv => IntactIsReadable
  OBVIOUS
<1> QED BY <1>1, <1>2, <1>3, PTL DEF Spec

---------------------------------------------------------------------------
(* What is announced is what will be read *)

(* The hint for an extent and the raw range that reading it takes. *)
LEMMA HintFits ==
  ASSUME TypeOK, FormatIs, NEW e \in Extent, e.length > 0,
         e.offset + e.length <= ContentSize(file)
  PROVE  LET range == RawRange(e.offset, e.length)
         IN  /\ Hint(e).offset = range.offset
             /\ range.length <= Hint(e).length /\ Hint(e).length < range.length + CrcBlockSize
<1>1. e.offset \in Nat /\ e.length \in Nat \ {0} /\ file.size \in Nat
  BY FileFacts, Sizes DEF Extent
<1>2. CASE ~crc_block_format
  <2>1. Hint(e) = [offset |-> e.offset, length |-> e.length]
    BY <1>2 DEF Hint
  <2>2. RawRange(e.offset, e.length) = [offset |-> e.offset, length |-> e.length]
    BY <1>2 DEF RawRange
  <2>3. e.length < e.length + CrcBlockSize
    BY <1>1, Sizes
  <2> QED BY <1>1, <2>1, <2>2, <2>3
<1>3. CASE crc_block_format
  <2> DEFINE l == LastBlock(e.offset, e.length)
             full == (l + 1) * CrcBlockSize
             start == PhysStart(e.offset)
             end == PhysEnd(e.offset, e.length)
  <2>1. e.offset + e.length <= StrippedLen(file.size)
    BY <1>3 DEF FormatIs, ContentSize
  <2>2. /\ start \in Nat /\ end = (IF full < file.size THEN full ELSE file.size)
        /\ l * CrcBlockSize \in Nat /\ full = l * CrcBlockSize + CrcBlockSize
        /\ l * CrcBlockSize < file.size
    BY <1>1, <2>1, RawRangeFits DEF PhysStart, PhysEnd
  <2>3. Hint(e) = [offset |-> start, length |-> full - start]
    BY <1>3 DEF Hint
  <2>4. RawRange(e.offset, e.length) = [offset |-> start, length |-> end - start]
    BY <1>3 DEF RawRange
  <2> HIDE DEF l, full, start, end
  <2>5. end - start <= full - start /\ full - start < end - start + CrcBlockSize
    BY <1>1, <2>2, Sizes DEF full
  <2> QED BY <2>3, <2>4, <2>5
<1> QED BY <1>2, <1>3

(* For every call, the ranges that PrefetchBlock names are those that ReadBlock takes
   from the file, checksum blocks and all. *)
THEOREM PrefetchIsEnough == Spec => []PrefetchCovers
<1>1. IInv => PrefetchCovers
  <2> SUFFICES ASSUME IInv, pc = "ready", Intact(file), NEW c \in Calls, InRange(c),
                      prefetch_buf = <<>>, NEW i \in DOMAIN c.seqnums
               PROVE  LET range == RawRange(ColumnExtent(c, i).offset, ColumnExtent(c, i).length)
                      IN  \E h \in PrefetchBlock(c) :
                            /\ h.offset = range.offset
                            /\ range.length <= h.length /\ h.length < range.length + CrcBlockSize
    BY DEF PrefetchCovers
  <2> USE DEF IInv
  <2> DEFINE b == c.block_idx
             q == c.seqnums[i]
             e == file.blocks[b][q]
  <2>1. FormatIs
    BY DEF FormatIs, FormatKnown
  <2>2. b \in 1 .. Len(file.blocks) /\ b \in DOMAIN file.blocks /\ file.blocks[b] \in Seq(Extent)
    <3>1. c \in [block_idx : Nat \ {0}, seqnums : Seq(Nat \ {0})]
      BY ObjectReaderAssumption
    <3>2. file.blocks \in Seq(Seq(Extent))
      BY FileFacts DEF File
    <3>3. b \in 1 .. Len(file.blocks) /\ b \in DOMAIN file.blocks
      BY <3>1, <3>2, LenProperties DEF InRange
    <3> QED BY <3>2, <3>3, ElementOfSeq
  <2>3. q \in DOMAIN file.blocks[b] /\ e \in Extent
    <3>1. c \in [block_idx : Nat \ {0}, seqnums : Seq(Nat \ {0})]
      BY ObjectReaderAssumption
    <3>2. q \in Nat \ {0}
      BY <3>1, ElementOfSeq, LenProperties
    <3>3. q \in 1 .. Len(file.blocks[b])
      BY <2>2, <3>2, LenProperties DEF InRange
    <3> QED BY <2>2, <3>3, ElementOfSeq, LenProperties
  <2>4. e.length > 0 /\ e.offset + e.length <= ContentSize(file)
    BY <2>2, <2>3 DEF Intact, EndsBy
  <2>5. e = ColumnExtent(c, i)
    BY DEF ColumnExtent
  <2>6. Hint(e) \in PrefetchBlock(c)
    <3>1. e \notin NoBytes
      BY <2>4 DEF NoBytes
    <3>2. ~(c.block_idx > Len(file.blocks))
      <4> HIDE DEF IInv
      <4>1. Len(file.blocks) \in Nat
        BY <2>2
      <4> QED BY <2>2, <4>1
    <3>3. q \in {c.seqnums[j] : j \in DOMAIN c.seqnums} \cap DOMAIN file.blocks[c.block_idx]
      BY <2>3
    <3> HIDE DEF IInv, q
    <3> QED BY <3>1, <3>2, <3>3 DEF PrefetchBlock
  <2> QED BY <2>1, <2>3, <2>4, <2>5, <2>6, HintFits
<1> QED BY <1>1, InitStep, InvariantStep, PTL DEF Spec
===========================================================================
