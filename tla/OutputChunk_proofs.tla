------------------------- MODULE OutputChunk_proofs -------------------------
(***************************************************************************)
(* What holds of a thread that fills DuckDB's chunks for every scan, block *)
(* size and vector size.  IInv is the inductive core: the thread's fields  *)
(* agree with one another, the rows of the chunk are stored rows in order, *)
(* and the thread is beyond what it has delivered.  Relative to it ReadInv *)
(* says that the thread reads what the query asks for, SelInv that of the  *)
(* rows behind it the wanted ones are delivered, and ChunkInv that the     *)
(* chunk's vectors hold the values of its rows.  What the columns' bitmaps *)
(* and areas and the vectors' slots hold is proved of any column first.    *)
(***************************************************************************)
EXTENDS OutputChunk, ZoneMap_proofs, FiniteSetTheorems

---------------------------------------------------------------------------
(* The invariant *)

(* A stored row: its block, from 1, and its number there, from 0. *)
RowRef == Nat \X Nat

Before(x, y) == x[1] < y[1] \/ (x[1] = y[1] /\ x[2] < y[2])

Ordered(rows) == \A j, k \in DOMAIN rows : j < k => Before(rows[j], rows[k])

(* The thread has the block it took last; while it has rows of it left, or fills the
   chunk, it has the block's columns. *)
ThreadInv ==
  /\ scan \in Scans /\ pc \in Places
  /\ next_block \in 0 .. Len(scan.blocks) /\ pending_block = next_block
  /\ pending_total_rows \in Nat /\ pending_offset \in 0 .. pending_total_rows
  /\ pending_total_rows = 0
       \/ (pending_block > 0 /\ pending_total_rows = scan.blocks[pending_block].rows)
  /\ pc \in {"bind", "init"} => pending_total_rows = 0
  /\ pc \in {"emit", "filter"} => pending_total_rows = 0 \/ pending_offset < pending_total_rows
  /\ pc \in {"emit", "filter"} \/ pending_offset < pending_total_rows =>
       Len(pending_cols) = Len(gstate.read_seqnums)
  /\ pc \notin {"bind", "failed"} => Accepted(scan.manifest) /\ bind = ParseManifest(scan.manifest)
  /\ pc \notin {"bind", "init", "failed"} => gstate.read_seqnums = ReadSeqnums

(* The rows of the chunk are stored rows, in order; before the filters run they are
   the rows from the offset on. *)
SourceInv ==
  /\ source \in Seq(RowRef) /\ Ordered(source)
  /\ \A k \in DOMAIN source :
       source[k][1] \in DOMAIN scan.blocks /\ source[k][2] < scan.blocks[source[k][1]].rows
  /\ pc = "filter" =>
       /\ Len(source) = ChunkRows
       /\ \A k \in DOMAIN source : source[k] = <<pending_block, pending_offset + k - 1>>

(* The thread is beyond this row. *)
Passed(row) ==
  \/ row[1] < pending_block
  \/ row[1] = pending_block /\ (pending_offset < pending_total_rows => row[2] < pending_offset)

OrderInv ==
  /\ delivered \in Seq(RowRef) /\ Ordered(delivered)
  /\ \A k \in DOMAIN delivered : Passed(delivered[k])
  /\ pc = "sample" =>
       /\ \A k \in DOMAIN source : Passed(source[k])
       /\ \A j \in DOMAIN delivered : \A k \in DOMAIN source : Before(delivered[j], source[k])

IInv == ThreadInv /\ SourceInv /\ OrderInv

---------------------------------------------------------------------------
(* Facts *)

LEMMA ScanFacts ==
  ASSUME ThreadInv
  PROVE  /\ VectorSize \in Nat \ {0} /\ VirtualColumnStart \in Nat
         /\ Len(scan.blocks) \in Nat /\ DOMAIN scan.blocks = 1 .. Len(scan.blocks)
         /\ \A b \in DOMAIN scan.blocks : scan.blocks[b].rows \in Nat
         /\ query.column_ids \in Seq(Nat \ {0})
         /\ Len(query.column_ids) \in Nat /\ DOMAIN query.column_ids = 1 .. Len(query.column_ids)
<1>1. query.column_ids \in Seq(Nat \ {0})
  BY OutputChunkAssumption DEF ThreadInv, query
<1> QED BY <1>1, OutputChunkAssumption, LenProperties DEF ThreadInv, query

LEMMA ChunkRowsFacts ==
  ASSUME ThreadInv
  PROVE  /\ ChunkRows \in Nat /\ pending_offset + ChunkRows <= pending_total_rows
         /\ pending_offset \in Nat
<1>1. pending_offset \in Nat /\ pending_total_rows \in Nat /\ pending_offset <= pending_total_rows
  BY DEF ThreadInv
<1> QED BY <1>1, ScanFacts DEF ChunkRows

LEMMA RowRefFacts ==
  ASSUME NEW rows \in Seq(RowRef)
  PROVE  /\ Len(rows) \in Nat /\ DOMAIN rows = 1 .. Len(rows)
         /\ \A k \in DOMAIN rows : rows[k][1] \in Nat /\ rows[k][2] \in Nat
<1>1. Len(rows) \in Nat /\ DOMAIN rows = 1 .. Len(rows)
  BY LenProperties
<1>2. \A k \in DOMAIN rows : rows[k] \in RowRef
  BY <1>1, ElementOfSeq
<1> QED BY <1>1, <1>2 DEF RowRef

(* Rows chosen in ascending order stay in order. *)
LEMMA SelectedRows ==
  ASSUME NEW rows \in Seq(RowRef), Ordered(rows), NEW n \in Nat, n = Len(rows),
         NEW sel \in Selections(n)
  PROVE  LET chosen == [k \in DOMAIN sel |-> rows[sel[k] + 1]]
         IN  /\ chosen \in Seq(RowRef) /\ Ordered(chosen)
             /\ \A k \in DOMAIN chosen : \E j \in DOMAIN rows : chosen[k] = rows[j]
<1> DEFINE chosen == [k \in DOMAIN sel |-> rows[sel[k] + 1]]
<1>1. PICK m \in 0 .. n : /\ sel \in [1 .. m -> 0 .. n - 1]
                          /\ \A j, k \in 1 .. m : j < k => sel[j] < sel[k]
  BY DEF Selections
<1>2. m \in Nat /\ DOMAIN sel = 1 .. m
  BY <1>1
<1>3. ASSUME NEW k \in 1 .. m
      PROVE  sel[k] \in Int /\ sel[k] + 1 \in DOMAIN rows /\ rows[sel[k] + 1] \in RowRef
  <2>1. sel[k] \in 0 .. n - 1
    BY <1>1
  <2>2. sel[k] + 1 \in 1 .. n
    BY <2>1
  <2> QED BY <2>1, <2>2, RowRefFacts, ElementOfSeq
<1>4. DOMAIN chosen = 1 .. m /\ \A k \in 1 .. m : chosen[k] = rows[sel[k] + 1]
  BY <1>2
<1>5. chosen \in [1 .. m -> RowRef]
  BY <1>2, <1>3
<1> HIDE DEF chosen
<1>6. chosen \in Seq(RowRef)
  BY <1>2, <1>5
<1>7. ASSUME NEW j \in 1 .. m, NEW k \in 1 .. m, j < k PROVE Before(chosen[j], chosen[k])
  <2>1. sel[j] < sel[k]
    BY <1>1, <1>7
  <2>2. /\ sel[j] + 1 \in DOMAIN rows /\ sel[k] + 1 \in DOMAIN rows
        /\ sel[j] + 1 < sel[k] + 1
    BY <1>3, <2>1
  <2> QED BY <1>4, <2>2 DEF Ordered
<1> QED BY <1>3, <1>4, <1>6, <1>7 DEF Ordered, chosen

(* One ordered sequence behind another. *)
LEMMA OrderedConcat ==
  ASSUME NEW s \in Seq(RowRef), NEW t \in Seq(RowRef), Ordered(s), Ordered(t),
         \A j \in DOMAIN s : \A k \in DOMAIN t : Before(s[j], t[k])
  PROVE  /\ s \o t \in Seq(RowRef) /\ Ordered(s \o t)
         /\ \A i \in DOMAIN (s \o t) : \/ \E j \in DOMAIN s : (s \o t)[i] = s[j]
                                       \/ \E k \in DOMAIN t : (s \o t)[i] = t[k]
<1> DEFINE st == s \o t
           m == Len(s)
           n == Len(t)
<1>1. m \in Nat /\ n \in Nat /\ DOMAIN s = 1 .. m /\ DOMAIN t = 1 .. n
  BY RowRefFacts
<1>2. st \in Seq(RowRef) /\ Len(st) = m + n /\ DOMAIN st = 1 .. m + n
  BY ConcatProperties, RowRefFacts
<1>3. \A i \in 1 .. m + n : st[i] = IF i <= m THEN s[i] ELSE t[i - m]
  BY ConcatProperties
<1> HIDE DEF st
<1>4. \A i \in 1 .. m : st[i] = s[i] /\ i \in DOMAIN s
  BY <1>1, <1>3
<1>5. \A i \in m + 1 .. m + n : st[i] = t[i - m] /\ i - m \in DOMAIN t
  BY <1>1, <1>3
<1>6. \A i \in 1 .. m + n : i \in 1 .. m \/ i \in m + 1 .. m + n
  BY <1>1
<1>7. ASSUME NEW i \in 1 .. m + n, NEW j \in 1 .. m + n, i < j PROVE Before(st[i], st[j])
  <2>1. CASE j \in 1 .. m
    <3>1. i \in 1 .. m
      BY <1>1, <1>7, <2>1
    <3> QED BY <1>4, <1>7, <2>1, <3>1 DEF Ordered
  <2>2. CASE i \in m + 1 .. m + n
    <3>1. j \in m + 1 .. m + n /\ i - m < j - m
      BY <1>1, <1>7, <2>2
    <3> QED BY <1>5, <2>2, <3>1 DEF Ordered
  <2>3. CASE i \in 1 .. m /\ j \in m + 1 .. m + n
    BY <1>4, <1>5, <2>3
  <2> QED BY <1>6, <2>1, <2>2, <2>3
<1>8. Ordered(st)
  BY <1>2, <1>7 DEF Ordered
<1> QED BY <1>2, <1>4, <1>5, <1>6, <1>8 DEF st

(* The first column read is one of the query's. *)
LEMMA FirstPlace ==
  ASSUME ThreadInv, 1 \in DOMAIN TaePlaces
  PROVE  TaePlaces[1] \in DOMAIN query.column_ids
           /\ ~IsVirtualColumn(query.column_ids[TaePlaces[1]])
<1> DEFINE L == Len(query.column_ids)
           InTable(ci) == ~IsVirtualColumn(query.column_ids[ci])
           places == {ci \in DOMAIN query.column_ids : InTable(ci)}
<1>1. L \in Nat /\ DOMAIN query.column_ids = 1 .. L
  BY ScanFacts
<1>2. places # {}
  <2> SUFFICES ASSUME places = {} PROVE FALSE
    OBVIOUS
  <2>1. Cardinality(places) = 0
    BY FS_EmptySet
  <2>2. TaePlaces = [k \in 1 .. Cardinality(places) |-> CHOOSE ci \in places : DecodedPos(ci) = k]
    BY DEF TaePlaces
  <2> HIDE DEF places
  <2> QED BY <2>1, <2>2
<1>3. PICK p \in places : \A q \in places : p <= q
  <2>1. places \subseteq Nat
    BY <1>1
  <2> HIDE DEF places
  <2> QED BY <1>2, <2>1, LeastNat
<1>4. p \in 1 .. L /\ InTable(p)
  BY <1>1
<1>5. {cj \in 1 .. p : InTable(cj)} = {p}
  <2>1. ASSUME NEW cj \in 1 .. p, InTable(cj) PROVE cj = p
    <3>1. cj \in places
      BY <1>1, <1>4, <2>1
    <3>2. p <= cj
      BY <1>3, <3>1
    <3> QED BY <1>1, <1>4, <3>2
  <2> QED BY <1>4, <2>1
<1>6. DecodedPos(p) = 1
  BY <1>5, FS_Singleton DEF DecodedPos
<1>7. TaePlaces[1] = CHOOSE ci \in places : DecodedPos(ci) = 1
  BY DEF TaePlaces
<1> QED BY <1>3, <1>6, <1>7

(* What the thread takes for the rows of a block is the block's rows. *)
LEMMA BlockRead ==
  ASSUME ThreadInv, pc = "dispatch", NEW b \in DOMAIN scan.blocks
  PROVE  /\ Len(ReadBlock(b)) = Len(gstate.read_seqnums)
         /\ gstate.read_seqnums # <<>> => ReadBlock(b)[1].row_count = scan.blocks[b].rows
<1> DEFINE n == Cardinality({ci \in DOMAIN query.column_ids : ~IsVirtualColumn(query.column_ids[ci])})
           seqnums == gstate.read_seqnums
<1>1. n \in Nat
  <2>1. \A m \in Nat : IsFiniteSet(1 .. m)
    BY FS_Interval
  <2>2. IsFiniteSet(DOMAIN query.column_ids)
    BY <2>1, ScanFacts
  <2> QED BY <2>2, FS_Subset, FS_CardinalityType
<1>2. seqnums = ReadSeqnums
  BY DEF ThreadInv
<1>3. DOMAIN TaePlaces = 1 .. n
  BY DEF TaePlaces
<1>4. seqnums = [k \in 1 .. n |-> bind.all_col_seqnums[query.column_ids[TaePlaces[k]]]]
  BY <1>2, <1>3 DEF ReadSeqnums
<1> HIDE DEF n, seqnums
<1>5. Len(seqnums) = n /\ DOMAIN seqnums = 1 .. n
  BY <1>1, <1>4
<1>6. Len(ReadBlock(b)) = n
  BY <1>1, <1>5 DEF ReadBlock, seqnums
<1>7. ASSUME seqnums # <<>> PROVE ReadBlock(b)[1].row_count = scan.blocks[b].rows
  <2>1. 1 \in 1 .. n
    BY <1>1, <1>5, <1>7
  <2> DEFINE id == query.column_ids[TaePlaces[1]]
             c == scan.blocks[b].columns[Seqnum(scan.manifest, id)]
  <2>2. TaePlaces[1] \in DOMAIN query.column_ids /\ ~IsVirtualColumn(id)
    BY <1>3, <2>1, FirstPlace
  <2>3. id \in Nat /\ id < VirtualColumnStart
    BY <2>2, ScanFacts, ElementOfSeq DEF IsVirtualColumn
  <2>4. id \in DOMAIN scan.manifest.columns /\ Len(c.values) = scan.blocks[b].rows
    BY <2>2, <2>3, OutputChunkAssumption DEF ThreadInv, query
  <2>5. seqnums[1] = Seqnum(scan.manifest, id)
    <3>1. bind.all_col_seqnums = [i \in DOMAIN scan.manifest.columns |-> Seqnum(scan.manifest, i)]
      BY DEF ThreadInv, ParseManifest
    <3> QED BY <1>4, <2>1, <2>4, <3>1
  <2>6. ReadBlock(b)[1] = Decode(c)
    BY <1>5, <2>1, <2>5 DEF ReadBlock, seqnums
  <2> HIDE DEF c
  <2>7. Decode(c).row_count = Len(c.values)
    BY DEF Decode, FlatColumn, ConstantColumn
  <2> QED BY <2>4, <2>6, <2>7
<1> QED BY <1>5, <1>6, <1>7 DEF seqnums

---------------------------------------------------------------------------
(* The steps *)

LEMMA InitStep == Init => IInv
<1> SUFFICES ASSUME Init PROVE IInv
  OBVIOUS
<1>1. ThreadInv
  <2>1. Len(scan.blocks) \in Nat
    BY OutputChunkAssumption DEF Init
  <2> QED BY <2>1 DEF Init, ThreadInv, Places
<1>2. <<>> \in Seq(RowRef) /\ DOMAIN <<>> = {}
  BY EmptySeq
<1>3. SourceInv /\ OrderInv
  BY <1>2 DEF Init, SourceInv, OrderInv, Ordered
<1> QED BY <1>1, <1>3 DEF IInv

(* Steps that touch no rows. *)
LEMMA RowsUnchanged ==
  ASSUME SourceInv, OrderInv, pc' \notin {"filter", "sample"},
         UNCHANGED <<scan, pending_block, pending_total_rows, pending_offset, source, delivered>>
  PROVE  SourceInv' /\ OrderInv'
  BY DEF SourceInv, OrderInv, Ordered, Passed

LEMMA SeqnumsUnchanged ==
  ASSUME UNCHANGED <<scan, bind>>
  PROVE  ReadSeqnums' = ReadSeqnums
  BY DEF ReadSeqnums, TaePlaces, DecodedPos, query

(* A chunk without rows. *)
LEMMA ChunkEmptied ==
  ASSUME OrderInv, source' = <<>>, pc' \notin {"filter", "sample"},
         UNCHANGED <<scan, pending_block, pending_total_rows, pending_offset, delivered>>
  PROVE  SourceInv' /\ OrderInv'
<1>1. <<>> \in Seq(RowRef) /\ DOMAIN <<>> = {}
  BY EmptySeq
<1> QED BY <1>1 DEF SourceInv, OrderInv, Ordered, Passed

LEMMA SetUpStep ==
  ASSUME IInv, Bind \/ BindThrows \/ InitScan \/ InitThrows
  PROVE  IInv'
<1> USE DEF IInv
<1>1. /\ UNCHANGED <<scan, next_block, pending_vars, chunk_vars, delivered>>
      /\ pc \in {"bind", "init"} /\ pc' \in {"init", "idle", "failed"}
  BY DEF Bind, BindThrows, InitScan, InitThrows
<1>2. UNCHANGED <<scan, pending_block, pending_total_rows, pending_offset, source, delivered>>
  BY <1>1 DEF pending_vars, chunk_vars
<1>3. SourceInv' /\ OrderInv'
  BY <1>1, <1>2, RowsUnchanged
<1>4. pending_total_rows = 0 /\ pending_offset = 0
  BY <1>1 DEF ThreadInv
<1>5. pc' \notin {"bind", "failed"} => Accepted(scan.manifest) /\ bind' = ParseManifest(scan.manifest)
  BY DEF Bind, BindThrows, InitScan, InitThrows, ThreadInv
<1>6. pc' \notin {"bind", "init", "failed"} => gstate'.read_seqnums = ReadSeqnums'
  <2>1. CASE InitScan
    BY <2>1 DEF InitScan, ReadSeqnums, TaePlaces, DecodedPos, query
  <2>2. CASE Bind \/ BindThrows \/ InitThrows
    BY <2>2 DEF Bind, BindThrows, InitThrows
  <2> QED BY <2>1, <2>2
<1>7. ThreadInv'
  BY <1>1, <1>2, <1>4, <1>5, <1>6 DEF ThreadInv, Places
<1> QED BY <1>3, <1>7

LEMMA CallStep ==
  ASSUME IInv, Call
  PROVE  IInv'
<1> USE DEF IInv
<1>1. /\ UNCHANGED <<scan, bind, gstate, next_block, pending_vars, delivered>>
      /\ pc = "idle" /\ source' = <<>>
      /\ pc' = IF pending_offset < pending_total_rows THEN "emit" ELSE "dispatch"
  BY DEF Call
<1>2. SourceInv' /\ OrderInv'
  BY <1>1, ChunkEmptied DEF pending_vars
<1>3. ThreadInv'
  BY <1>1, SeqnumsUnchanged DEF ThreadInv, Places, pending_vars
<1> QED BY <1>2, <1>3

LEMMA ExhaustedStep ==
  ASSUME IInv, Exhausted
  PROVE  IInv'
<1> USE DEF IInv
<1>1. /\ UNCHANGED <<scan, bind, gstate, next_block, pending_vars, delivered>>
      /\ pc = "dispatch" /\ source' = <<>> /\ pc' = "done"
  BY DEF Exhausted
<1>2. SourceInv' /\ OrderInv'
  BY <1>1, ChunkEmptied DEF pending_vars
<1>3. ThreadInv'
  BY <1>1, SeqnumsUnchanged DEF ThreadInv, Places, pending_vars
<1> QED BY <1>2, <1>3

LEMMA NextBlockStep ==
  ASSUME IInv, NextBlock
  PROVE  IInv'
<1> USE DEF IInv
<1> DEFINE b == next_block + 1
<1>1. /\ pc = "dispatch" /\ pc' = "emit" /\ b <= Len(scan.blocks)
      /\ next_block' = b /\ pending_block' = b /\ pending_offset' = 0
      /\ pending_cols' = ReadBlock(b)
      /\ pending_total_rows' = IF gstate.read_seqnums = <<>> THEN scan.blocks[b].rows
                               ELSE ReadBlock(b)[1].row_count
      /\ UNCHANGED <<scan, bind, gstate, source, delivered>>
  BY DEF NextBlock, chunk_vars
<1>2. next_block \in Nat /\ b \in Nat /\ b > 0 /\ b \in DOMAIN scan.blocks /\ pending_block = next_block
  <2>1. next_block \in Nat
    BY ScanFacts DEF ThreadInv
  <2> QED BY <1>1, <2>1, ScanFacts DEF ThreadInv
<1> HIDE DEF b
<1>3. /\ pending_total_rows' = scan.blocks[b].rows /\ scan.blocks[b].rows \in Nat
      /\ Len(pending_cols') = Len(gstate.read_seqnums)
  BY <1>1, <1>2, BlockRead, ScanFacts
<1>4. ThreadInv'
  <2>1. b \in 0 .. Len(scan.blocks)
    BY <1>2, ScanFacts
  <2>2. gstate'.read_seqnums = ReadSeqnums'
    BY <1>1, SeqnumsUnchanged DEF ThreadInv
  <2>3. pending_total_rows' \in Nat /\ pending_offset' \in 0 .. pending_total_rows'
        /\ (pending_total_rows' = 0 \/ pending_offset' < pending_total_rows')
    BY <1>1, <1>3
  <2> QED BY <1>1, <1>2, <1>3, <2>1, <2>2, <2>3 DEF ThreadInv, Places
<1>5. SourceInv'
  BY <1>1 DEF SourceInv, Ordered
<1>6. OrderInv'
  <2>1. ASSUME NEW k \in DOMAIN delivered PROVE Passed(delivered[k])'
    <3>1. delivered[k][1] \in Nat
      BY RowRefFacts DEF OrderInv
    <3>2. delivered[k][1] <= pending_block
      BY <1>2, <3>1 DEF OrderInv, Passed
    <3>3. delivered[k][1] < b
      BY <1>2, <3>1, <3>2 DEF b
    <3> QED BY <1>1, <3>3 DEF Passed
  <2> QED BY <1>1, <2>1 DEF OrderInv, Ordered
<1> QED BY <1>4, <1>5, <1>6

LEMMA EmitStep ==
  ASSUME IInv, Emit
  PROVE  IInv'
<1> USE DEF IInv
<1> DEFINE n == ChunkRows
<1>1. /\ pc = "emit" /\ pc' = "filter"
      /\ source' = [k \in 1 .. n |-> <<pending_block, pending_offset + k - 1>>]
      /\ UNCHANGED <<scan, bind, gstate, next_block, pending_vars, delivered>>
  BY DEF Emit
<1>2. /\ n \in Nat /\ pending_offset + n <= pending_total_rows /\ pending_offset \in Nat
      /\ pending_block \in Nat /\ pending_total_rows \in Nat
  BY ChunkRowsFacts, ScanFacts DEF ThreadInv
<1>3. ThreadInv'
  BY <1>1, SeqnumsUnchanged DEF ThreadInv, Places, pending_vars
<1>4. ChunkRows' = n
  BY <1>1 DEF ChunkRows, pending_vars
<1> HIDE DEF n
<1>5. /\ Len(source') = n /\ DOMAIN source' = 1 .. n
      /\ \A k \in 1 .. n : source'[k] = <<pending_block, pending_offset + k - 1>>
  BY <1>1, <1>2
<1>6. ASSUME NEW k \in 1 .. n
      PROVE  /\ source'[k] \in RowRef
             /\ source'[k][1] \in DOMAIN scan.blocks
             /\ source'[k][2] < scan.blocks[source'[k][1]].rows
  <2>1. pending_total_rows > 0 /\ pending_offset + k - 1 \in Nat
        /\ pending_offset + k - 1 < pending_total_rows
    BY <1>2
  <2>2. pending_block \in DOMAIN scan.blocks /\ pending_total_rows = scan.blocks[pending_block].rows
    <3>1. pending_block > 0 /\ pending_total_rows = scan.blocks[pending_block].rows
      BY <2>1 DEF ThreadInv
    <3>2. pending_block \in 1 .. Len(scan.blocks)
      BY <1>2, <3>1, ScanFacts DEF ThreadInv
    <3> QED BY <3>1, <3>2, ScanFacts
  <2>3. source'[k] = <<pending_block, pending_offset + k - 1>>
    BY <1>5
  <2>4. source'[k][1] = pending_block /\ source'[k][2] = pending_offset + k - 1
    BY <2>3
  <2>5. source'[k] \in RowRef
    BY <1>2, <2>1, <2>3 DEF RowRef
  <2> QED BY <2>1, <2>2, <2>4, <2>5
<1>7. source' \in Seq(RowRef)
  <2>1. source' \in [1 .. n -> RowRef]
    BY <1>1, <1>5, <1>6
  <2> QED BY <1>2, <2>1
<1>8. Ordered(source')
  <2>1. ASSUME NEW j \in 1 .. n, NEW k \in 1 .. n, j < k PROVE Before(source'[j], source'[k])
    <3>1. pending_offset + j - 1 < pending_offset + k - 1
      BY <1>2, <2>1
    <3> QED BY <1>5, <3>1 DEF Before
  <2> QED BY <1>5, <2>1 DEF Ordered
<1>9. SourceInv'
  <2>1. UNCHANGED <<scan, pending_block, pending_offset>>
    BY <1>1 DEF pending_vars
  <2>2. Ordered(source)'
    BY <1>8 DEF Ordered
  <2> QED BY <1>4, <1>5, <1>6, <1>7, <2>1, <2>2 DEF SourceInv
<1>10. OrderInv'
  BY <1>1 DEF OrderInv, Ordered, Passed, pending_vars
<1> QED BY <1>3, <1>9, <1>10

(* What the move to the next chunk does to the thread, and to the rows behind it. *)
LEMMA AdvanceFacts ==
  ASSUME ThreadInv, Advance
  PROVE  /\ pending_total_rows' \in Nat /\ pending_offset' \in 0 .. pending_total_rows'
         /\ pending_total_rows' = 0 \/ pending_total_rows' = pending_total_rows
         /\ pending_total_rows' = 0 \/ pending_offset' < pending_total_rows'
         /\ pending_offset' < pending_total_rows' =>
              /\ pending_offset < pending_total_rows /\ pending_cols' = pending_cols
              /\ pending_offset' = pending_offset + ChunkRows
<1> DEFINE next == pending_offset + ChunkRows
           more == next < pending_total_rows
<1>1. /\ pending_offset' = IF more THEN next ELSE 0
      /\ pending_total_rows' = IF more THEN pending_total_rows ELSE 0
      /\ pending_cols' = IF more THEN pending_cols ELSE <<>>
  BY DEF Advance
<1>2. /\ next \in Nat /\ pending_total_rows \in Nat /\ pending_offset \in Nat
      /\ next <= pending_total_rows /\ pending_offset <= next
  BY ChunkRowsFacts DEF ThreadInv
<1> HIDE DEF next
<1>3. CASE more
  <2>1. pending_offset' = next /\ pending_total_rows' = pending_total_rows /\ pending_cols' = pending_cols
    BY <1>1, <1>3
  <2>2. pending_offset < pending_total_rows
    BY <1>2, <1>3
  <2> QED BY <1>2, <1>3, <2>1, <2>2 DEF next
<1>4. CASE ~more
  <2>1. pending_offset' = 0 /\ pending_total_rows' = 0
    BY <1>1, <1>4
  <2> QED BY <2>1
<1> QED BY <1>3, <1>4

(* What the thread is beyond it stays beyond, and it is beyond the chunk as well. *)
LEMMA AdvancePasses ==
  ASSUME ThreadInv, SourceInv, Advance, pc = "filter", pending_block' = pending_block
  PROVE  /\ \A row \in RowRef : Passed(row) => Passed(row)'
         /\ \A row \in RowRef : (\E k \in DOMAIN source : row = source[k]) => Passed(row)'
         /\ \A row \in RowRef : Passed(row) => \A k \in DOMAIN source : Before(row, source[k])
<1>1. /\ pending_total_rows \in Nat /\ pending_offset \in Nat /\ ChunkRows \in Nat
      /\ pending_block \in Nat
  BY ChunkRowsFacts, ScanFacts DEF ThreadInv
<1>2. /\ Len(source) = ChunkRows /\ DOMAIN source = 1 .. ChunkRows
      /\ \A k \in DOMAIN source : source[k] = <<pending_block, pending_offset + k - 1>>
  BY RowRefFacts DEF SourceInv
<1>3. ASSUME NEW row \in RowRef, Passed(row) PROVE Passed(row)'
  <2>1. row[1] \in Nat /\ row[2] \in Nat
    BY DEF RowRef
  <2>2. CASE row[1] < pending_block
    BY <2>2 DEF Passed
  <2>3. CASE row[1] = pending_block /\ ~(pending_offset' < pending_total_rows')
    BY <2>3 DEF Passed
  <2>4. CASE row[1] = pending_block /\ pending_offset' < pending_total_rows'
    <3>1. row[2] < pending_offset
      BY <1>1, <1>3, <2>4, AdvanceFacts DEF Passed
    <3>2. pending_offset' = pending_offset + ChunkRows
      BY <2>4, AdvanceFacts
    <3>3. row[2] < pending_offset + ChunkRows
      BY <1>1, <2>1, <3>1
    <3> QED BY <2>4, <3>2, <3>3 DEF Passed
  <2> QED BY <1>3, <2>2, <2>3, <2>4 DEF Passed
<1>4. ASSUME NEW row \in RowRef, NEW k \in DOMAIN source, row = source[k] PROVE Passed(row)'
  <2>1. row[1] = pending_block /\ row[2] = pending_offset + k - 1
    BY <1>2, <1>4
  <2>2. pending_offset + k - 1 < pending_offset + ChunkRows
    <3>1. k \in 1 .. ChunkRows
      BY <1>2
    <3> QED BY <1>1, <3>1
  <2>3. pending_offset' < pending_total_rows' => pending_offset' = pending_offset + ChunkRows
    BY AdvanceFacts
  <2> QED BY <2>1, <2>2, <2>3 DEF Passed
<1>5. ASSUME NEW row \in RowRef, Passed(row), NEW k \in DOMAIN source
      PROVE  Before(row, source[k])
  <2>1. source[k][1] = pending_block /\ source[k][2] = pending_offset + k - 1
    BY <1>2
  <2>2. k \in Nat /\ k >= 1 /\ pending_offset < pending_total_rows
    <3>1. k \in 1 .. ChunkRows
      BY <1>2
    <3>2. pending_offset + ChunkRows <= pending_total_rows
      BY ChunkRowsFacts
    <3> QED BY <1>1, <3>1, <3>2
  <2>3. row[1] < pending_block \/ (row[1] = pending_block /\ row[2] < pending_offset)
    BY <1>5, <2>2 DEF Passed
  <2>4. row[2] < pending_offset => row[2] < pending_offset + k - 1
    <3>1. row[2] \in Nat
      BY DEF RowRef
    <3> QED BY <1>1, <2>2, <3>1
  <2> QED BY <2>1, <2>3, <2>4 DEF Before
<1> QED BY <1>3, <1>4, <1>5

(* A part of the chunk, in order, is given to DuckDB. *)
LEMMA ChunkReturnedInOrder ==
  ASSUME OrderInv, SourceInv', ReturnChunk, pc' = "idle",
         \A row \in RowRef : Passed(row) => Passed(row)',
         \A row \in RowRef : (\E k \in DOMAIN source' : row = source'[k]) => Passed(row)',
         \A j \in DOMAIN delivered : \A k \in DOMAIN source' : Before(delivered[j], source'[k])
  PROVE  OrderInv'
<1> DEFINE s == delivered
           t == source'
<1>1. s \in Seq(RowRef) /\ t \in Seq(RowRef) /\ Ordered(s) /\ Ordered(t)
  BY DEF OrderInv, SourceInv, Ordered
<1>2. delivered' = s \o t
  BY DEF ReturnChunk
<1>3. /\ s \o t \in Seq(RowRef) /\ Ordered(s \o t)
      /\ \A i \in DOMAIN (s \o t) : \/ \E j \in DOMAIN s : (s \o t)[i] = s[j]
                                    \/ \E k \in DOMAIN t : (s \o t)[i] = t[k]
  BY <1>1, OrderedConcat
<1>4. ASSUME NEW i \in DOMAIN delivered'
      PROVE  \E row \in RowRef : row = delivered'[i] /\ Passed(row)'
  <2>1. CASE \E j \in DOMAIN s : (s \o t)[i] = s[j]
    <3>1. PICK j \in DOMAIN s : (s \o t)[i] = s[j]
      BY <2>1
    <3>2. PICK row \in RowRef : row = s[j]
      BY <1>1, RowRefFacts, ElementOfSeq
    <3>3. Passed(row)
      BY <3>2 DEF OrderInv
    <3> QED BY <1>2, <3>1, <3>2, <3>3
  <2>2. CASE \E k \in DOMAIN t : (s \o t)[i] = t[k]
    <3>1. PICK k \in DOMAIN t : (s \o t)[i] = t[k]
      BY <2>2
    <3>2. PICK row \in RowRef : row = t[k]
      BY <1>1, RowRefFacts, ElementOfSeq
    <3>3. Passed(row)'
      BY <3>2
    <3> QED BY <1>2, <3>1, <3>2, <3>3
  <2> QED BY <1>2, <1>3, <1>4, <2>1, <2>2
<1>5. ASSUME NEW i \in DOMAIN delivered' PROVE Passed(delivered[i])'
  <2>1. PICK row \in RowRef : row = delivered'[i] /\ Passed(row)'
    BY <1>4, <1>5
  <2> QED BY <2>1 DEF Passed
<1> HIDE DEF s, t
<1>6. delivered' \in Seq(RowRef) /\ Ordered(delivered)'
  BY <1>2, <1>3 DEF Ordered
<1> QED BY <1>5, <1>6 DEF OrderInv

(* Slicing leaves rows of the chunk, in order. *)
LEMMA PartOfChunk ==
  ASSUME SourceInv, UNCHANGED scan, pc' # "filter",
         UNCHANGED source \/ \E sel \in Selections(Len(source)) : Slice(sel)
  PROVE  /\ SourceInv'
         /\ \A k \in DOMAIN source' : \E j \in DOMAIN source : source'[k] = source[j]
<1>1. /\ source' \in Seq(RowRef) /\ Ordered(source')
      /\ \A k \in DOMAIN source' : \E j \in DOMAIN source : source'[k] = source[j]
  <2>1. CASE UNCHANGED source
    BY <2>1 DEF SourceInv
  <2>2. CASE \E sel \in Selections(Len(source)) : Slice(sel)
    <3>1. PICK sel \in Selections(Len(source)) : source' = [k \in DOMAIN sel |-> source[sel[k] + 1]]
      BY <2>2 DEF Slice
    <3>2. source \in Seq(RowRef) /\ Ordered(source) /\ Len(source) \in Nat
      BY RowRefFacts DEF SourceInv
    <3> QED BY <3>1, <3>2, SelectedRows
  <2> QED BY <2>1, <2>2
<1>2. \A k \in DOMAIN source' :
        source'[k][1] \in DOMAIN scan.blocks /\ source'[k][2] < scan.blocks[source'[k][1]].rows
  BY <1>1 DEF SourceInv
<1>3. Ordered(source)'
  BY <1>1 DEF Ordered
<1> QED BY <1>1, <1>2, <1>3 DEF SourceInv

LEMMA FilterStep ==
  ASSUME IInv, ApplyRowFilters
  PROVE  IInv'
<1> USE DEF IInv
<1>1. /\ pc = "filter" /\ Advance
      /\ UNCHANGED <<scan, bind, gstate, next_block, pending_block, fills>>
  BY DEF ApplyRowFilters
<1>2. PICK sel \in Selections(ChunkRows) :
        /\ IF Len(sel) \in {0, ChunkRows} THEN UNCHANGED <<output, source>> ELSE Slice(sel)
        /\ \/ sel # <<>> /\ ~gstate.do_sample /\ ReturnChunk
           \/ sel # <<>> /\ gstate.do_sample /\ pc' = "sample" /\ UNCHANGED delivered
           \/ /\ sel = <<>>
              /\ pc' = IF pending_offset' < pending_total_rows' THEN "emit" ELSE "dispatch"
              /\ UNCHANGED delivered
  BY DEF ApplyRowFilters
<1>3. \/ ReturnChunk /\ pc' = "idle"
      \/ pc' = "sample" /\ UNCHANGED delivered
      \/ pc' = (IF pending_offset' < pending_total_rows' THEN "emit" ELSE "dispatch") /\ UNCHANGED delivered
  BY <1>2 DEF ReturnChunk
<1>4. pc' \in {"idle", "sample", "emit", "dispatch"}
  BY <1>3
<1>5. ThreadInv'
  <2>1. /\ pending_total_rows' \in Nat /\ pending_offset' \in 0 .. pending_total_rows'
        /\ pending_total_rows' = 0 \/ pending_total_rows' = pending_total_rows
        /\ pending_total_rows' = 0 \/ pending_offset' < pending_total_rows'
        /\ pending_offset' < pending_total_rows' => pending_cols' = pending_cols
    BY <1>1, AdvanceFacts
  <2>2. pc' = "emit" => pending_offset' < pending_total_rows'
    BY <1>3 DEF ReturnChunk
  <2>3. pending_total_rows' = 0
          \/ (pending_block > 0 /\ pending_total_rows' = scan.blocks[pending_block].rows)
    BY <2>1 DEF ThreadInv
  <2>4. pc' \in {"emit", "filter"} \/ pending_offset' < pending_total_rows' =>
          Len(pending_cols') = Len(gstate.read_seqnums)
    BY <1>1, <1>4, <2>1, <2>2 DEF ThreadInv
  <2>5. gstate.read_seqnums = ReadSeqnums' /\ Accepted(scan.manifest)
        /\ bind = ParseManifest(scan.manifest)
    BY <1>1, SeqnumsUnchanged DEF ThreadInv
  <2> QED BY <1>1, <1>4, <2>1, <2>3, <2>4, <2>5 DEF ThreadInv, Places
<1>6. /\ SourceInv'
      /\ \A k \in DOMAIN source' : \E j \in DOMAIN source : source'[k] = source[j]
  <2>1. Len(source) = ChunkRows
    BY <1>1 DEF SourceInv
  <2> QED BY <1>1, <1>2, <1>4, <2>1, PartOfChunk
<1>7. /\ \A row \in RowRef : Passed(row) => Passed(row)'
      /\ \A row \in RowRef : (\E k \in DOMAIN source : row = source[k]) => Passed(row)'
      /\ \A row \in RowRef : Passed(row) => \A k \in DOMAIN source : Before(row, source[k])
  BY <1>1, AdvancePasses
<1>8. \A row \in RowRef : (\E k \in DOMAIN source' : row = source'[k]) => Passed(row)'
  BY <1>6, <1>7
<1>9. ASSUME NEW j \in DOMAIN delivered PROVE delivered[j] \in RowRef /\ Passed(delivered[j])
  BY RowRefFacts, ElementOfSeq DEF OrderInv
<1>10. \A j \in DOMAIN delivered : \A k \in DOMAIN source' : Before(delivered[j], source'[k])
  BY <1>6, <1>7, <1>9
<1>11. OrderInv'
  <2>1. CASE ReturnChunk /\ pc' = "idle"
    BY <1>6, <1>7, <1>8, <1>10, <2>1, ChunkReturnedInOrder
  <2>2. CASE UNCHANGED delivered
    <3>1. ASSUME NEW j \in DOMAIN delivered PROVE Passed(delivered[j])'
      <4>1. PICK row \in RowRef : row = delivered[j]
        BY <1>9
      <4>2. Passed(row)'
        BY <1>7, <1>9, <4>1
      <4> QED BY <2>2, <4>1, <4>2 DEF Passed
    <3>2. ASSUME NEW k \in DOMAIN source' PROVE Passed(source[k])'
      <4>1. PICK row \in RowRef : row = source'[k]
        BY <1>6, RowRefFacts, ElementOfSeq DEF SourceInv
      <4>2. Passed(row)'
        BY <1>8, <4>1
      <4> QED BY <4>1, <4>2 DEF Passed
    <3> QED BY <1>10, <2>2, <3>1, <3>2 DEF OrderInv, Ordered
  <2> QED BY <1>3, <2>1, <2>2
<1> QED BY <1>5, <1>6, <1>11

LEMMA SampleStep ==
  ASSUME IInv, Sample
  PROVE  IInv'
<1> USE DEF IInv
<1>1. /\ pc = "sample"
      /\ UNCHANGED <<scan, bind, gstate, next_block, pending_vars, fills>>
  BY DEF Sample
<1>2. UNCHANGED <<pending_cols, pending_block, pending_total_rows, pending_offset>>
  BY <1>1 DEF pending_vars
<1>3. \/ /\ \E sel \in Selections(Len(source)) : Slice(sel)
         /\ ReturnChunk /\ pc' = "idle"
      \/ pending_offset < pending_total_rows /\ pc' = "emit" /\ UNCHANGED <<source, delivered>>
      \/ pc' = "done" /\ source' = <<>> /\ UNCHANGED delivered
  BY DEF Sample, ReturnChunk
<1>4. ThreadInv'
  <2>1. gstate.read_seqnums = ReadSeqnums'
    BY <1>1, SeqnumsUnchanged DEF ThreadInv
  <2>2. pc' \in {"idle", "emit", "done"} /\ (pc' = "emit" => pending_offset < pending_total_rows)
    BY <1>3
  <2> QED BY <1>1, <1>2, <2>1, <2>2 DEF ThreadInv, Places
<1>5. SourceInv' /\ OrderInv'
  <2>1. CASE (\E sel \in Selections(Len(source)) : Slice(sel)) /\ ReturnChunk /\ pc' = "idle"
    <3>1. /\ SourceInv'
          /\ \A k \in DOMAIN source' : \E j \in DOMAIN source : source'[k] = source[j]
      BY <1>1, <2>1, PartOfChunk
    <3>2. \A row \in RowRef : Passed(row) => Passed(row)'
      BY <1>2 DEF Passed
    <3>3. \A row \in RowRef : (\E k \in DOMAIN source : row = source[k]) => Passed(row)
      BY <1>1 DEF OrderInv
    <3>4. \A j \in DOMAIN delivered : \A k \in DOMAIN source : Before(delivered[j], source[k])
      BY <1>1 DEF OrderInv
    <3>5. \A row \in RowRef : (\E k \in DOMAIN source' : row = source'[k]) => Passed(row)'
      BY <3>1, <3>2, <3>3
    <3>6. \A j \in DOMAIN delivered : \A k \in DOMAIN source' : Before(delivered[j], source'[k])
      BY <3>1, <3>4
    <3> QED BY <2>1, <3>1, <3>2, <3>5, <3>6, ChunkReturnedInOrder
  <2>2. CASE pc' = "emit" /\ UNCHANGED <<source, delivered>>
    BY <1>1, <1>2, <2>2, RowsUnchanged
  <2>3. CASE pc' = "done" /\ source' = <<>> /\ UNCHANGED delivered
    BY <1>1, <1>2, <2>3, ChunkEmptied
  <2> QED BY <1>3, <2>1, <2>2, <2>3
<1> QED BY <1>4, <1>5

LEMMA StutterStep ==
  ASSUME IInv, UNCHANGED vars
  PROVE  IInv'
<1>1. ReadSeqnums' = ReadSeqnums
  BY SeqnumsUnchanged DEF vars
<1>2. ThreadInv'
  BY <1>1 DEF IInv, ThreadInv, vars, pending_vars, chunk_vars
<1>3. SourceInv'
  BY DEF IInv, SourceInv, Ordered, ChunkRows, vars, pending_vars, chunk_vars
<1>4. OrderInv'
  BY DEF IInv, OrderInv, Ordered, Passed, vars, pending_vars, chunk_vars
<1> QED BY <1>2, <1>3, <1>4 DEF IInv

LEMMA InvariantStep == IInv /\ [Next]_vars => IInv'
<1> SUFFICES ASSUME IInv, [Next]_vars PROVE IInv'
  OBVIOUS
<1>1. CASE Bind \/ BindThrows \/ InitScan \/ InitThrows
  BY <1>1, SetUpStep
<1>2. CASE Call
  BY <1>2, CallStep
<1>3. CASE NextBlock
  BY <1>3, NextBlockStep
<1>4. CASE Exhausted
  BY <1>4, ExhaustedStep
<1>5. CASE Emit
  BY <1>5, EmitStep
<1>6. CASE ApplyRowFilters
  BY <1>6, FilterStep
<1>7. CASE Sample
  BY <1>7, SampleStep
<1>8. CASE Over \/ UNCHANGED vars
  BY <1>8, StutterStep DEF Over
<1> QED BY <1>1, <1>2, <1>3, <1>4, <1>5, <1>6, <1>7, <1>8 DEF Next

LEMMA Invariant == Spec => []IInv
<1>1. Init => IInv
  BY InitStep
<1>2. IInv /\ [Next]_vars => IInv'
  BY InvariantStep
<1> QED BY <1>1, <1>2, PTL DEF Spec

---------------------------------------------------------------------------
(* Expressions *)

(* What grows with its argument has a fixed point: the least set closed under it. *)
LEMMA FixedPoint ==
  ASSUME NEW U, NEW T \in [SUBSET U -> SUBSET U],
         \A X, Y \in SUBSET U : X \subseteq Y => T[X] \subseteq T[Y]
  PROVE  \E L \in SUBSET U : T[L] = L
<1> DEFINE Closed(X) == T[X] \subseteq X
           L == {e \in U : \A X \in SUBSET U : Closed(X) => e \in X}
<1>1. L \in SUBSET U /\ T[L] \in SUBSET U
  OBVIOUS
<1>2. ASSUME NEW X \in SUBSET U, Closed(X) PROVE L \subseteq X
  BY <1>2
<1>3. T[L] \subseteq L
  <2> SUFFICES ASSUME NEW e \in T[L], NEW X \in SUBSET U, Closed(X) PROVE e \in X
    BY <1>1
  <2>1. L \subseteq X
    BY <1>2
  <2> HIDE DEF L
  <2> QED BY <1>1, <2>1
<1> HIDE DEF L
<1>4. T[T[L]] \subseteq T[L]
  BY <1>1, <1>3
<1>5. L \subseteq T[L]
  BY <1>1, <1>2, <1>4
<1> QED BY <1>1, <1>3, <1>5

(* The tables that the recursive definitions over expressions are made of. *)
IsSupports(table) ==
  table = [e \in Names |->
             \/ Exprs[e].class = "optional"
             \/ Exprs[e].class = "and" /\ \A part \in Exprs[e].children : table[part]
             \/ Exprs[e].class \notin Joined /\ SupportsLeaf(Exprs[e])]

IsNodes(table) ==
  table = [e \in Names |->
             IF Exprs[e].class = "optional" THEN {}
             ELSE IF Exprs[e].class = "and" THEN UNION {table[part] : part \in Exprs[e].children}
             ELSE {Exprs[e]}]

LEMMA SupportsTable ==
  ASSUME NEW expr
  PROVE  \E supports : IsSupports(supports) /\ SupportsFilterExpression(expr) = supports[expr]
<1> DEFINE Step(X, e) == \/ Exprs[e].class = "optional"
                         \/ Exprs[e].class = "and" /\ \A part \in Exprs[e].children : part \in X
                         \/ Exprs[e].class \notin Joined /\ SupportsLeaf(Exprs[e])
           T == [X \in SUBSET Names |-> {e \in Names : Step(X, e)}]
<1>1. T \in [SUBSET Names -> SUBSET Names]
  OBVIOUS
<1>2. \A X, Y \in SUBSET Names : X \subseteq Y => T[X] \subseteq T[Y]
  OBVIOUS
<1>3. PICK L \in SUBSET Names : T[L] = L
  <2> HIDE DEF T
  <2> QED BY <1>1, <1>2, FixedPoint
<1>4. \A e \in Names : (e \in L) <=> Step(L, e)
  BY <1>3
<1> DEFINE table == [e \in Names |-> e \in L]
<1>5. ASSUME NEW e \in Names, Exprs[e].class = "and", NEW part \in Exprs[e].children
      PROVE  table[part] = (part \in L)
  BY <1>5, PushdownAssumption DEF Joined
<1>6. \A e \in Names :
        table[e] = (\/ Exprs[e].class = "optional"
                    \/ Exprs[e].class = "and" /\ \A part \in Exprs[e].children : table[part]
                    \/ Exprs[e].class \notin Joined /\ SupportsLeaf(Exprs[e]))
  <2> SUFFICES ASSUME NEW e \in Names
               PROVE  table[e] = (\/ Exprs[e].class = "optional"
                                  \/ /\ Exprs[e].class = "and"
                                     /\ \A part \in Exprs[e].children : table[part]
                                  \/ Exprs[e].class \notin Joined /\ SupportsLeaf(Exprs[e]))
    OBVIOUS
  <2>1. table[e] = (e \in L)
    OBVIOUS
  <2>2. Exprs[e].class = "and" =>
          ((\A part \in Exprs[e].children : table[part]) <=> \A part \in Exprs[e].children : part \in L)
    BY <1>5
  <2> DEFINE parts == \A part \in Exprs[e].children : table[part]
             partsIn == \A part \in Exprs[e].children : part \in L
  <2>3. Step(L, e) <=> (\/ Exprs[e].class = "optional"
                        \/ Exprs[e].class = "and" /\ partsIn
                        \/ Exprs[e].class \notin Joined /\ SupportsLeaf(Exprs[e]))
    OBVIOUS
  <2>4. (e \in L) <=> Step(L, e)
    BY <1>4
  <2> HIDE DEF table, parts, partsIn, Step
  <2>5. Step(L, e) <=> (\/ Exprs[e].class = "optional"
                        \/ Exprs[e].class = "and" /\ parts
                        \/ Exprs[e].class \notin Joined /\ SupportsLeaf(Exprs[e]))
    BY <2>2, <2>3 DEF parts, partsIn
  <2> DEFINE Q == \/ Exprs[e].class = "optional"
                  \/ Exprs[e].class = "and" /\ parts
                  \/ Exprs[e].class \notin Joined /\ SupportsLeaf(Exprs[e])
  <2>6. (e \in L) <=> Q
    BY <2>4, <2>5
  <2>7. Q \in BOOLEAN
    OBVIOUS
  <2> HIDE DEF Q
  <2>8. table[e] = Q
    BY <2>1, <2>6, <2>7
  <2> QED BY <2>8 DEF Q, parts
<1>7. IsSupports(table)
  <2> SUFFICES table = [e \in Names |->
             \/ Exprs[e].class = "optional"
             \/ Exprs[e].class = "and" /\ \A part \in Exprs[e].children : table[part]
             \/ Exprs[e].class \notin Joined /\ SupportsLeaf(Exprs[e])]
    BY DEF IsSupports
  <2> QED BY <1>6
<1>8. SupportsFilterExpression(expr) = (CHOOSE s : IsSupports(s))[expr]
  BY DEF SupportsFilterExpression, IsSupports
<1>9. IsSupports(CHOOSE s : IsSupports(s))
  BY <1>7
<1> QED BY <1>8, <1>9

LEMMA NodesTable ==
  ASSUME NEW expr
  PROVE  \E nodes : IsNodes(nodes) /\ Conjuncts(expr) = nodes[expr]
<1> DEFINE Step(R, e, c) ==
             /\ Exprs[e].class # "optional"
             /\ IF Exprs[e].class = "and" THEN \E part \in Exprs[e].children : <<part, c>> \in R
                ELSE c = e
           Pairs == Names \X Names
           T == [R \in SUBSET Pairs |-> {ec \in Pairs : Step(R, ec[1], ec[2])}]
<1>1. T \in [SUBSET Pairs -> SUBSET Pairs]
  OBVIOUS
<1>2. \A X, Y \in SUBSET Pairs : X \subseteq Y => T[X] \subseteq T[Y]
  OBVIOUS
<1>3. PICK R \in SUBSET Pairs : T[R] = R
  <2> HIDE DEF T
  <2> QED BY <1>1, <1>2, FixedPoint
<1>4. \A e, c \in Names : (<<e, c>> \in R) <=> Step(R, e, c)
  BY <1>3
<1> DEFINE table == [e \in Names |-> {Exprs[c] : c \in {x \in Names : <<e, x>> \in R}}]
<1>5. ASSUME NEW e \in Names
      PROVE  table[e] = IF Exprs[e].class = "optional" THEN {}
                        ELSE IF Exprs[e].class = "and"
                        THEN UNION {table[part] : part \in Exprs[e].children}
                        ELSE {Exprs[e]}
  <2>1. CASE Exprs[e].class = "optional"
    <3>1. \A c \in Names : <<e, c>> \notin R
      BY <1>4, <2>1
    <3>2. table[e] = {}
      BY <3>1
    <3> QED BY <2>1, <3>2
  <2>2. CASE Exprs[e].class = "and"
    <3>1. \A part \in Exprs[e].children : part \in Names
      BY <2>2, PushdownAssumption DEF Joined
    <3>2. \A c \in Names : (<<e, c>> \in R) <=> \E part \in Exprs[e].children : <<part, c>> \in R
      BY <1>4, <2>2
    <3>3. table[e] = {Exprs[c] : c \in {x \in Names : <<e, x>> \in R}}
      OBVIOUS
    <3>4. \A part \in Exprs[e].children :
            table[part] = {Exprs[c] : c \in {x \in Names : <<part, x>> \in R}}
      BY <3>1
    <3> HIDE DEF table
    <3>5. \A n : n \in table[e] <=> \E c \in Names : n = Exprs[c] /\ <<e, c>> \in R
      BY <3>3
    <3>6. \A part \in Exprs[e].children : \A n :
            n \in table[part] <=> \E c \in Names : n = Exprs[c] /\ <<part, c>> \in R
      BY <3>4
    <3>7. \A n : n \in table[e] <=> \E part \in Exprs[e].children : n \in table[part]
      <4>1. ASSUME NEW n \in table[e] PROVE \E part \in Exprs[e].children : n \in table[part]
        <5>1. PICK c \in Names : n = Exprs[c] /\ <<e, c>> \in R
          BY <3>5, <4>1
        <5>2. PICK part \in Exprs[e].children : <<part, c>> \in R
          BY <3>2, <5>1
        <5> QED BY <3>6, <5>1, <5>2
      <4>2. ASSUME NEW part \in Exprs[e].children, NEW n \in table[part] PROVE n \in table[e]
        <5>1. PICK c \in Names : n = Exprs[c] /\ <<part, c>> \in R
          BY <3>6, <4>2
        <5> QED BY <3>2, <3>5, <5>1
      <4> QED BY <4>1, <4>2
    <3>8. table[e] = UNION {table[part] : part \in Exprs[e].children}
      BY <3>7
    <3> QED BY <2>2, <3>8
  <2>3. CASE Exprs[e].class \notin {"optional", "and"}
    <3>1. \A c \in Names : (<<e, c>> \in R) <=> c = e
      BY <1>4, <2>3
    <3>2. table[e] = {Exprs[e]}
      BY <3>1
    <3> QED BY <2>3, <3>2
  <2> QED BY <2>1, <2>2, <2>3
<1>6. table = [e \in Names |->
             IF Exprs[e].class = "optional" THEN {}
             ELSE IF Exprs[e].class = "and" THEN UNION {table[part] : part \in Exprs[e].children}
             ELSE {Exprs[e]}]
  BY <1>5
<1>7. IsNodes(table)
  BY <1>6 DEF IsNodes
<1>8. Conjuncts(expr) = (CHOOSE s : IsNodes(s))[expr]
  BY DEF Conjuncts, IsNodes
<1>9. IsNodes(CHOOSE s : IsNodes(s))
  BY <1>7
<1> QED BY <1>8, <1>9

(* Of an expression that the scan accepts, every part that has to hold is one that
   it can turn into a filter. *)
LEMMA AcceptedParts ==
  ASSUME NEW expr \in Names, SupportsFilterExpression(expr)
  PROVE  \A n \in Conjuncts(expr) : n.class \notin Joined /\ SupportsLeaf(n)
<1>1. PICK supports : IsSupports(supports) /\ SupportsFilterExpression(expr) = supports[expr]
  BY SupportsTable
<1>2. PICK nodes : IsNodes(nodes) /\ Conjuncts(expr) = nodes[expr]
  BY NodesTable
<1> DEFINE Fine(n) == n.class \notin Joined /\ SupportsLeaf(n)
           Bad == {e \in Names : supports[e] /\ \E n \in nodes[e] : ~Fine(n)}
<1>3. ASSUME NEW e \in Bad
      PROVE  Exprs[e].class \in Joined /\ Exprs[e].children \cap Bad # {}
  <2>1. PICK n \in nodes[e] : ~Fine(n)
    OBVIOUS
  <2>2. /\ e \in Names
        /\ \/ Exprs[e].class = "optional"
           \/ Exprs[e].class = "and" /\ \A part \in Exprs[e].children : supports[part]
           \/ Exprs[e].class \notin Joined /\ SupportsLeaf(Exprs[e])
    BY <1>1 DEF IsSupports
  <2>3. nodes[e] = IF Exprs[e].class = "optional" THEN {}
                   ELSE IF Exprs[e].class = "and"
                   THEN UNION {nodes[part] : part \in Exprs[e].children}
                   ELSE {Exprs[e]}
    BY <1>2, <2>2 DEF IsNodes
  <2>4. Exprs[e].class = "and"
    BY <2>1, <2>2, <2>3 DEF Joined
  <2>5. PICK part \in Exprs[e].children : n \in nodes[part]
    BY <2>1, <2>3, <2>4
  <2>6. part \in Names /\ supports[part]
    BY <2>2, <2>4, <2>5, PushdownAssumption DEF Joined
  <2>7. part \in Bad
    BY <2>1, <2>5, <2>6
  <2> HIDE DEF Bad
  <2> QED BY <2>4, <2>5, <2>7 DEF Joined
<1>4. Bad = {}
  <2>1. Bad \in SUBSET {e \in Names : Exprs[e].class \in Joined}
    BY <1>3
  <2> HIDE DEF Bad
  <2> QED BY <1>3, <2>1, PushdownAssumption
<1> QED BY <1>1, <1>2, <1>4

IsHolds(table, kind, v) ==
  table = [e \in Names |->
             \/ Exprs[e].class = "optional"
             \/ Exprs[e].class = "and" /\ \A part \in Exprs[e].children : table[part]
             \/ Exprs[e].class = "or" /\ \E part \in Exprs[e].children : table[part]
             \/ Exprs[e].class \notin Joined /\ LeafHolds(kind, Exprs[e], v)]

(* What an expression means is read from the table its definition describes. *)
LEMMA HoldsTable ==
  ASSUME NEW expr, NEW kind, NEW v
  PROVE  \E holds : IsHolds(holds, kind, v) /\ Holds(kind, expr, v) = holds[expr]
<1> DEFINE Leaf(e) == Exprs[e].class \notin Joined /\ LeafHolds(kind, Exprs[e], v)
           Step(X, e) == \/ Exprs[e].class = "optional"
                         \/ Exprs[e].class = "and" /\ \A part \in Exprs[e].children : part \in X
                         \/ Exprs[e].class = "or" /\ \E part \in Exprs[e].children : part \in X
                         \/ Leaf(e)
           T == [X \in SUBSET Names |-> {e \in Names : Step(X, e)}]
<1>1. T \in [SUBSET Names -> SUBSET Names]
  OBVIOUS
<1>2. \A X, Y \in SUBSET Names : X \subseteq Y => T[X] \subseteq T[Y]
  <2> HIDE DEF Leaf
  <2> QED OBVIOUS
<1>3. PICK L \in SUBSET Names : T[L] = L
  <2> HIDE DEF T
  <2> QED BY <1>1, <1>2, FixedPoint
<1> HIDE DEF Leaf
<1>4. \A e \in Names : (e \in L) <=> Step(L, e)
  BY <1>3
<1> DEFINE table == [e \in Names |-> e \in L]
<1>5. ASSUME NEW e \in Names, Exprs[e].class \in {"and", "or"}, NEW part \in Exprs[e].children
      PROVE  table[part] = (part \in L)
  BY <1>5, PushdownAssumption DEF Joined
<1>6. \A e \in Names :
        table[e] = (\/ Exprs[e].class = "optional"
                    \/ Exprs[e].class = "and" /\ \A part \in Exprs[e].children : table[part]
                    \/ Exprs[e].class = "or" /\ \E part \in Exprs[e].children : table[part]
                    \/ Leaf(e))
  <2> SUFFICES ASSUME NEW e \in Names
               PROVE  table[e] = (\/ Exprs[e].class = "optional"
                                  \/ /\ Exprs[e].class = "and"
                                     /\ \A part \in Exprs[e].children : table[part]
                                  \/ /\ Exprs[e].class = "or"
                                     /\ \E part \in Exprs[e].children : table[part]
                                  \/ Leaf(e))
    OBVIOUS
  <2> DEFINE all == \A part \in Exprs[e].children : table[part]
             allIn == \A part \in Exprs[e].children : part \in L
             some == \E part \in Exprs[e].children : table[part]
             someIn == \E part \in Exprs[e].children : part \in L
  <2>1. table[e] = (e \in L)
    OBVIOUS
  <2>2. Exprs[e].class = "and" => (all <=> allIn)
    BY <1>5
  <2>3. Exprs[e].class = "or" => (some <=> someIn)
    BY <1>5
  <2>4. Step(L, e) <=> (\/ Exprs[e].class = "optional"
                        \/ Exprs[e].class = "and" /\ allIn
                        \/ Exprs[e].class = "or" /\ someIn
                        \/ Leaf(e))
    OBVIOUS
  <2>5. (e \in L) <=> Step(L, e)
    BY <1>4
  <2> DEFINE Q == \/ Exprs[e].class = "optional"
                  \/ Exprs[e].class = "and" /\ all
                  \/ Exprs[e].class = "or" /\ some
                  \/ Leaf(e)
  <2> HIDE DEF table, all, allIn, some, someIn, Step
  <2>6. (e \in L) <=> Q
    BY <2>2, <2>3, <2>4, <2>5
  <2>7. Q \in BOOLEAN
    OBVIOUS
  <2> HIDE DEF Q
  <2>8. table[e] = Q
    BY <2>1, <2>6, <2>7
  <2> QED BY <2>8 DEF Q, all, some
<1>7. IsHolds(table, kind, v)
  <2> SUFFICES table = [e \in Names |->
             \/ Exprs[e].class = "optional"
             \/ Exprs[e].class = "and" /\ \A part \in Exprs[e].children : table[part]
             \/ Exprs[e].class = "or" /\ \E part \in Exprs[e].children : table[part]
             \/ Leaf(e)]
    BY DEF IsHolds, Leaf
  <2> QED BY <1>6
<1>8. Holds(kind, expr, v) = (CHOOSE s : IsHolds(s, kind, v))[expr]
  BY DEF Holds, IsHolds
<1>9. IsHolds(CHOOSE s : IsHolds(s, kind, v), kind, v)
  BY <1>7
<1> QED BY <1>8, <1>9

(* An accepted expression holds if the parts that have to hold do. *)
LEMMA HoldsIfPartsDo ==
  ASSUME NEW expr \in Names, SupportsFilterExpression(expr), NEW kind, NEW v
  PROVE  Holds(kind, expr, v) <=> \A n \in Conjuncts(expr) : LeafHolds(kind, n, v)
<1>1. PICK supports : IsSupports(supports) /\ SupportsFilterExpression(expr) = supports[expr]
  BY SupportsTable
<1>2. PICK nodes : IsNodes(nodes) /\ Conjuncts(expr) = nodes[expr]
  BY NodesTable
<1>3. PICK holds : IsHolds(holds, kind, v) /\ Holds(kind, expr, v) = holds[expr]
  BY HoldsTable
<1> DEFINE Agree(e) == holds[e] <=> \A n \in nodes[e] : LeafHolds(kind, n, v)
           Bad == {e \in Names : supports[e] /\ ~Agree(e)}
<1>4. ASSUME NEW e \in Bad
      PROVE  Exprs[e].class \in Joined /\ Exprs[e].children \cap Bad # {}
  <2>1. /\ e \in Names
        /\ \/ Exprs[e].class = "optional"
           \/ Exprs[e].class = "and" /\ \A part \in Exprs[e].children : supports[part]
           \/ Exprs[e].class \notin Joined /\ SupportsLeaf(Exprs[e])
    BY <1>1 DEF IsSupports
  <2>2. nodes[e] = IF Exprs[e].class = "optional" THEN {}
                   ELSE IF Exprs[e].class = "and"
                   THEN UNION {nodes[part] : part \in Exprs[e].children}
                   ELSE {Exprs[e]}
    BY <1>2, <2>1 DEF IsNodes
  <2>3. holds[e] <=> \/ Exprs[e].class = "optional"
                     \/ Exprs[e].class = "and" /\ \A part \in Exprs[e].children : holds[part]
                     \/ Exprs[e].class = "or" /\ \E part \in Exprs[e].children : holds[part]
                     \/ Exprs[e].class \notin Joined /\ LeafHolds(kind, Exprs[e], v)
    BY <1>3, <2>1 DEF IsHolds
  <2>4. Exprs[e].class # "optional"
    BY <2>2, <2>3
  <2>5. Exprs[e].class \in Joined
    BY <2>2, <2>3 DEF Joined
  <2>6. Exprs[e].class = "and" /\ \A part \in Exprs[e].children : part \in Names /\ supports[part]
    BY <2>1, <2>4, <2>5, PushdownAssumption
  <2>7. holds[e] <=> \A part \in Exprs[e].children : holds[part]
    BY <2>3, <2>6 DEF Joined
  <2>8. (\A n \in nodes[e] : LeafHolds(kind, n, v))
          <=> \A part \in Exprs[e].children : \A n \in nodes[part] : LeafHolds(kind, n, v)
    BY <2>2, <2>6
  <2>9. \E part \in Exprs[e].children : ~Agree(part)
    BY <2>7, <2>8
  <2>10. PICK part \in Exprs[e].children : part \in Bad
    BY <2>6, <2>9
  <2> HIDE DEF Bad
  <2> QED BY <2>5, <2>10
<1>5. Bad = {}
  <2>1. Bad \in SUBSET {e \in Names : Exprs[e].class \in Joined}
    BY <1>4
  <2> HIDE DEF Bad
  <2> QED BY <1>4, <2>1, PushdownAssumption
<1> QED BY <1>1, <1>2, <1>3, <1>5

(* After binding, only a type without an encoding ends a query. *)
FailInv == (pc = "bind" => bind = NoBind) /\ PushdownKept

LEMMA FailuresStep == IInv /\ FailInv /\ [Next]_vars => FailInv'
<1> SUFFICES ASSUME IInv, FailInv, [Next]_vars PROVE FailInv'
  OBVIOUS
<1>1. CASE InitThrows
  <2>1. PICK f \in TaeFilters : ~CanExtract(f.expr, OidOf(f))
    BY <1>1 DEF InitThrows
  <2>2. f \in query.filters /\ SupportsFilterExpression(f.expr)
    BY DEF TaeFilters, Pushed
  <2>3. f.expr \in Names
    BY <2>2, OutputChunkAssumption DEF IInv, ThreadInv, query
  <2>4. ~Encodable(OidOf(f))
    BY <2>1, <2>2, <2>3, AcceptedParts DEF CanExtract
  <2>5. UNCHANGED <<scan, bind>> /\ pc' = "failed"
    BY <1>1 DEF InitThrows
  <2>6. PushdownKept'
    BY <2>4, <2>5 DEF PushdownKept, TaeFilters, Pushed, IsVirtualColumn, ColumnOf, OidOf, query
  <2> QED BY <2>5, <2>6 DEF FailInv
<1>2. CASE Over \/ UNCHANGED vars
  <2>1. UNCHANGED <<scan, bind, pc>>
    BY <1>2 DEF Over, vars
  <2> QED BY <2>1 DEF FailInv, PushdownKept, TaeFilters, Pushed, IsVirtualColumn, ColumnOf, OidOf, query
<1>3. CASE BindThrows
  BY <1>3 DEF BindThrows, FailInv, PushdownKept
<1>4. CASE \/ Bind \/ InitScan
           \/ Call \/ NextBlock \/ Exhausted \/ Emit \/ ApplyRowFilters \/ Sample
  <2>1. pc' \notin {"bind", "failed"}
    BY <1>4 DEF Bind, InitScan, Call, NextBlock, Exhausted, Emit, ApplyRowFilters, Sample, ReturnChunk
  <2> QED BY <2>1 DEF FailInv, PushdownKept
<1> QED BY <1>1, <1>2, <1>3, <1>4 DEF Next

---------------------------------------------------------------------------
(* Filters on stored values *)

(* A column number that a manifest may declare survives its conversion to an int. *)
LEMMA AsIntSmall ==
  ASSUME NEW q \in 0 .. SeqnumMax PROVE AsInt(q) = q
<1>1. PICK m \in Int : m = 2 ^ IntBits
  BY ManifestAssumption
<1>2. PICK h \in Int : h = m \div 2
  OBVIOUS
<1>3. q \in Int /\ 0 <= q /\ q < h
  BY <1>1, <1>2, ManifestAssumption
<1>4. 2 * h <= m
  BY <1>2
<1>5. (q + h) % m = q + h
  BY <1>3, <1>4
<1>6. AsInt(q) = ((q + h) % m) - h
  BY <1>1, <1>2 DEF AsInt
<1> QED BY <1>3, <1>5, <1>6

(* Storing does not change the order of values. *)
LEMMA StoredCompares ==
  ASSUME NEW oid, NEW v \in ValuesOf(oid), NEW c \in ValuesOf(oid)
  PROVE  LET kind == IF IsStringType(oid) THEN "string" ELSE "fixed"
         IN  /\ Compare(kind, Stored(oid, v), Stored(oid, c)) = Compare(kind, v, c)
             /\ Compare(kind, v, c) = 0 <=> v = c
             /\ v # Null => Stored(oid, v) # Null
<1>1. CASE IsStringType(oid)
  <2>1. v \in Seq(Nat) /\ c \in Seq(Nat) /\ oid # "date"
    BY <1>1 DEF ValuesOf, IsStringType
  <2> QED BY <1>1, <2>1, CompareFacts DEF Compare, Stored
<1>2. CASE ~IsStringType(oid)
  <2>1. v \in Int /\ c \in Int
    BY <1>2 DEF ValuesOf
  <2>2. EpochDays \in Int /\ Null \notin Int
    BY TaeTypesAssumption, ZoneMapAssumption
  <2> QED BY <1>2, <2>1, <2>2 DEF Compare, CompareFixed, Stored
<1> QED BY <1>1, <1>2

(* A filter says of a stored value what the expression it comes from says of the
   value. *)
LEMMA LeafVerdict ==
  ASSUME NEW oid, NEW n, n.class \notin Joined, SupportsLeaf(n),
         NEW v, v = Null \/ v \in ValuesOf(oid),
         ComparedWith(n) \subseteq ValuesOf(oid) \cup {Null},
         \A c \in ComparedWith(n) : EncodeConstant(oid, c) = Stored(oid, c)
  PROVE  LET kind == IF IsStringType(oid) THEN "string" ELSE "fixed"
         IN  RowPassesFilter(kind, PushedFilter(n, oid), IF v = Null THEN Null ELSE Stored(oid, v))
               <=> LeafHolds(kind, n, v)
<1> DEFINE kind == IF IsStringType(oid) THEN "string" ELSE "fixed"
           stored == IF v = Null THEN Null ELSE Stored(oid, v)
           f == PushedFilter(n, oid)
<1> HIDE DEF kind
<1>0. n.operand = "column"
  BY DEF SupportsLeaf
<1>1. stored = Null <=> v = Null
  BY StoredCompares
<1>2. CASE n.class \in NullOps
  <2>1. f = [op |-> n.class]
    BY <1>2 DEF PushedFilter, NullOps
  <2> HIDE DEF f, stored
  <2>2. RowPassesFilter(kind, f, stored) <=> IF n.class = "IS_NULL" THEN v = Null ELSE v # Null
    BY <1>1, <1>2, <2>1 DEF RowPassesFilter, NullOps, ScalarOps
  <2>3. LeafHolds(kind, n, v) <=> IF n.class = "IS_NULL" THEN v = Null ELSE v # Null
    BY <1>0, <1>2 DEF LeafHolds, NullOps
  <2> QED BY <2>2, <2>3 DEF kind, f, stored
<1>3. CASE n.class = "comparison"
  <2>1. n.constant # Null /\ n.op \in ScalarOps /\ n.constant \in ValuesOf(oid)
        /\ EncodeConstant(oid, n.constant) = Stored(oid, n.constant)
    BY <1>3 DEF SupportsLeaf, ComparedWith, NullOps
  <2>2. f.op = n.op /\ f.constant = Stored(oid, n.constant)
    BY <1>3, <2>1 DEF PushedFilter
  <2>3. v # Null => Compare(kind, stored, f.constant) = Compare(kind, v, n.constant)
    BY <2>1, <2>2, StoredCompares DEF kind
  <2> HIDE DEF f, stored
  <2>4. RowPassesFilter(kind, f, stored) <=> v # Null /\ OpHolds(n.op, Compare(kind, v, n.constant))
    BY <1>1, <2>1, <2>2, <2>3 DEF RowPassesFilter, ScalarOps
  <2>5. LeafHolds(kind, n, v) <=> v # Null /\ OpHolds(n.op, Compare(kind, v, n.constant))
    BY <1>0, <1>3, <2>1 DEF LeafHolds, ScalarOps
  <2> QED BY <2>4, <2>5 DEF kind, f, stored
<1>4. CASE n.class = "in"
  <2>1. \A c \in n.values : c \in ValuesOf(oid) /\ EncodeConstant(oid, c) = Stored(oid, c)
    BY <1>4 DEF SupportsLeaf, ComparedWith, NullOps
  <2>2. f.op = "IN_SET" /\ f.in_values = {EncodeConstant(oid, c) : c \in n.values}
    BY <1>4 DEF PushedFilter
  <2>3. v # Null => \A c \in n.values : Compare(kind, stored, EncodeConstant(oid, c)) = 0 <=> v = c
    BY <2>1, StoredCompares DEF kind
  <2> HIDE DEF f, stored
  <2>4. RowPassesFilter(kind, f, stored) <=> v # Null /\ v \in n.values
    BY <1>1, <2>2, <2>3 DEF RowPassesFilter, ScalarOps
  <2>5. LeafHolds(kind, n, v) <=> v # Null /\ v \in n.values
    BY <1>0, <1>4 DEF LeafHolds
  <2> QED BY <2>4, <2>5 DEF kind, f, stored
<1>5. n.class \in NullOps \/ n.class = "comparison" \/ n.class = "in"
  BY DEF SupportsLeaf
<1> QED BY <1>2, <1>3, <1>4, <1>5

---------------------------------------------------------------------------
(* Words *)

---------------------------------------------------------------------------
(* Null bitmaps *)

(* Quotient and remainder. *)
LEMMA DivMod ==
  ASSUME NEW a \in Nat, NEW c \in Nat \ {0}
  PROVE  a = (a \div c) * c + (a % c) /\ a % c \in 0 .. c - 1 /\ a \div c \in Nat
  OBVIOUS

(* A smaller number has no larger quotient. *)
LEMMA DivMonotone ==
  ASSUME NEW x \in Nat, NEW y \in Nat, x <= y, NEW w \in Nat \ {0}
  PROVE  x \div w <= y \div w
<1> DEFINE q == x \div w
           p == y \div w
<1>1. x = q * w + (x % w) /\ x % w \in 0 .. w - 1 /\ q \in Nat
  BY DivMod
<1>2. y = p * w + (y % w) /\ y % w \in 0 .. w - 1 /\ p \in Nat
  BY DivMod
<1> HIDE DEF q, p
<1>4. ASSUME q >= p + 1 PROVE FALSE
  <2>1. q * w >= (p + 1) * w
    BY <1>1, <1>2, <1>4
  <2>2. (p + 1) * w = p * w + w
    BY <1>2
  <2> QED BY <1>1, <1>2, <2>1, <2>2
<1> QED BY <1>1, <1>2, <1>4 DEF q, p

(* A bounded set of numbers has a greatest one. *)
LEMMA GreatestNat ==
  ASSUME NEW S, NEW n \in Nat, S \subseteq 0 .. n, S # {}
  PROVE  \E m \in S : \A i \in S : i <= m
<1> DEFINE D == {n - i : i \in S}
<1>1. D \subseteq Nat /\ D # {}
  <2>1. \A i \in S : n - i \in Nat
    OBVIOUS
  <2> QED BY <2>1
<1>2. PICK d \in D : \A i \in D : d <= i
  <2> HIDE DEF D
  <2> QED BY <1>1, LeastNat
<1>3. PICK m \in S : d = n - m
  OBVIOUS
<1>4. \A i \in S : n - m <= n - i
  BY <1>2, <1>3
<1> QED BY <1>3, <1>4

(* The bit of a row is set if the row has a NULL, also where the words end early. *)
LEMMA BitmapBits ==
  ASSUME NEW n \in Nat, NEW nulls, nulls \subseteq 0 .. n, NEW row \in Nat,
         NEW col, col.null_bitmap = Bitmap(nulls)
  PROVE  BitIsSet(col, row) <=> row \in nulls
<1> DEFINE W == WordBits
           q == row \div W
           r == row % W
<1>1. W \in Nat \ {0} /\ q \in Nat /\ r \in 0 .. W - 1 /\ row = q * W + r
  BY DivMod, DecodedColumnsAssumption
<1>2. CASE nulls = {}
  <2>1. col.null_bitmap = <<>>
    BY <1>2 DEF Bitmap
  <2>2. Len(col.null_bitmap) = 0
    BY <2>1
  <2> QED BY <1>1, <1>2, <2>2 DEF BitIsSet
<1>3. CASE nulls # {}
  <2> DEFINE last == CHOOSE m \in nulls : \A i \in nulls : i <= m
  <2>1. last \in nulls /\ \A i \in nulls : i <= last
    BY <1>3, GreatestNat
  <2> HIDE DEF last
  <2>2. last \in Nat
    BY <2>1
  <2> DEFINE words == last \div W + 1
  <2>3. words \in Nat /\ last \div W \in Nat
    <3>1. last \div W \in Nat
      BY <1>1, <2>2, DivMod
    <3> QED BY <3>1
  <2>4. col.null_bitmap = [w \in 1 .. words |-> {bit \in 0 .. W - 1 : (w - 1) * W + bit \in nulls}]
    BY <1>3 DEF Bitmap, last
  <2> HIDE DEF words, W, q, r
  <2>5. Len(col.null_bitmap) = words
    BY <2>3, <2>4
  <2>6. q < words => (r \in col.null_bitmap[q + 1] <=> row \in nulls)
    <3>1. q < words => q + 1 \in 1 .. words /\ (q + 1) - 1 = q
      BY <1>1, <2>3
    <3> QED BY <1>1, <2>4, <3>1
  <2>7. row \in nulls => q < words
    <3>1. ASSUME row \in nulls PROVE row \div W <= last \div W
      BY <1>1, <2>1, <2>2, <3>1, DivMonotone
    <3> QED BY <1>1, <2>3, <3>1 DEF words, q
  <2> QED BY <2>5, <2>6, <2>7 DEF BitIsSet, W, q, r
<1> QED BY <1>2, <1>3

---------------------------------------------------------------------------
(* The strings of a column *)

InSlot(v) == v = Null \/ Len(v) <= InlineMax

IsArea(area, values, n) ==
  area = [i \in 0 .. n |->
            IF i = 0 THEN <<>>
            ELSE IF values[i] = Null \/ Len(values[i]) <= InlineMax THEN area[i - 1]
            ELSE area[i - 1] \o values[i]]

NextArea(a, v) == IF InSlot(v) THEN a ELSE a \o v

(* The table of areas that AreaOf is defined by, row by row. *)
LEMMA AreaTable ==
  ASSUME NEW area, NEW values, NEW n \in Nat, IsArea(area, values, n)
  PROVE  area[0] = <<>> /\ \A i \in 1 .. n : area[i] = NextArea(area[i - 1], values[i])
<1>1. \A i \in 0 .. n : area[i] = IF i = 0 THEN <<>> ELSE NextArea(area[i - 1], values[i])
  BY DEF IsArea, NextArea, InSlot
<1>2. 0 \in 0 .. n /\ \A i \in 1 .. n : i \in 0 .. n /\ i # 0
  OBVIOUS
<1> QED BY <1>1, <1>2

(* There is such a table for any number of rows. *)
LEMMA AreaExists ==
  ASSUME NEW values, NEW n \in Nat
  PROVE  \E area : IsArea(area, values, n)
<1> DEFINE S == {k \in Nat : \E area : IsArea(area, values, k)}
<1>1. 0 \in S
  <2>1. IsArea([i \in 0 .. 0 |-> <<>>], values, 0)
    BY DEF IsArea
  <2> QED BY <2>1
<1>2. ASSUME NEW k \in Nat, k \in S PROVE k + 1 \in S
  <2>1. PICK t : IsArea(t, values, k)
    BY <1>2
  <2> DEFINE u == [i \in 0 .. k + 1 |-> IF i = k + 1 THEN NextArea(t[k], values[k + 1]) ELSE t[i]]
  <2>2. /\ \A i \in 0 .. k : u[i] = t[i]
        /\ t[0] = <<>> /\ \A i \in 1 .. k : t[i] = NextArea(t[i - 1], values[i])
    BY <2>1, AreaTable
  <2>3. u[k + 1] = NextArea(t[k], values[k + 1]) /\ u[k] = t[k]
    OBVIOUS
  <2>4. u = [i \in 0 .. k + 1 |-> u[i]]
    OBVIOUS
  <2> HIDE DEF u
  <2>5. \A i \in 0 .. k + 1 : u[i] = IF i = 0 THEN <<>> ELSE NextArea(u[i - 1], values[i])
    <3> TAKE i \in 0 .. k + 1
    <3>1. CASE i = k + 1
      BY <2>3, <3>1
    <3>2. CASE i # k + 1 /\ i # 0
      <4>1. i \in 1 .. k /\ i \in 0 .. k /\ i - 1 \in 0 .. k
        BY <3>2
      <4> QED BY <2>2, <3>2, <4>1
    <3>3. CASE i = 0
      BY <2>2, <3>3
    <3> QED BY <3>1, <3>2, <3>3
  <2>6. IsArea(u, values, k + 1)
    BY <2>4, <2>5 DEF IsArea, NextArea, InSlot
  <2> QED BY <2>6
<1> HIDE DEF S
<1>3. Nat \subseteq S
  BY <1>1, <1>2, NatSetInduction
<1> QED BY <1>3 DEF S

(* AreaOf reads it from its last row. *)
LEMMA AreaIsArea ==
  ASSUME NEW values, NEW n \in Nat
  PROVE  \E area : IsArea(area, values, n) /\ AreaOf(values, n) = area[n]
<1> DEFINE f == CHOOSE area : IsArea(area, values, n)
<1>1. AreaOf(values, n) = f[n]
  BY DEF AreaOf, IsArea
<1>2. IsArea(f, values, n)
  BY AreaExists
<1> QED BY <1>1, <1>2

(* Tables of different lengths agree where both have a row. *)
LEMMA AreaUnique ==
  ASSUME NEW values, NEW n \in Nat, NEW m \in Nat, NEW t, NEW u,
         IsArea(t, values, n), IsArea(u, values, m)
  PROVE  \A k \in Nat : k <= n /\ k <= m => t[k] = u[k]
<1> DEFINE S == {k \in Nat : k <= n /\ k <= m => t[k] = u[k]}
<1>0. /\ t[0] = <<>> /\ \A i \in 1 .. n : t[i] = NextArea(t[i - 1], values[i])
      /\ u[0] = <<>> /\ \A i \in 1 .. m : u[i] = NextArea(u[i - 1], values[i])
  BY AreaTable
<1>1. 0 \in S
  BY <1>0
<1>2. ASSUME NEW k \in Nat, k \in S PROVE k + 1 \in S
  <2> SUFFICES ASSUME k + 1 <= n, k + 1 <= m PROVE t[k + 1] = u[k + 1]
    OBVIOUS
  <2>1. t[k] = u[k]
    BY <1>2
  <2>2. k + 1 \in 1 .. n /\ k + 1 \in 1 .. m /\ (k + 1) - 1 = k
    OBVIOUS
  <2> QED BY <1>0, <2>1, <2>2
<1> HIDE DEF S
<1>3. Nat \subseteq S
  BY <1>1, <1>2, NatSetInduction
<1> QED BY <1>3 DEF S

(* One row more adds its string, or nothing. *)
LEMMA AreaStep ==
  ASSUME NEW values, NEW n \in Nat
  PROVE  /\ AreaOf(values, 0) = <<>>
         /\ AreaOf(values, n + 1) = NextArea(AreaOf(values, n), values[n + 1])
<1>1. PICK t : IsArea(t, values, n) /\ AreaOf(values, n) = t[n]
  BY AreaIsArea
<1>2. PICK u : IsArea(u, values, n + 1) /\ AreaOf(values, n + 1) = u[n + 1]
  BY AreaIsArea
<1>3. PICK z : IsArea(z, values, 0) /\ AreaOf(values, 0) = z[0]
  BY AreaIsArea
<1>4. t[n] = u[n]
  BY <1>1, <1>2, AreaUnique
<1>5. u[n + 1] = NextArea(u[n], values[n + 1])
  <2>1. n + 1 \in 1 .. n + 1 /\ (n + 1) - 1 = n
    OBVIOUS
  <2> QED BY <1>2, <2>1, AreaTable
<1>6. z[0] = <<>>
  BY <1>3, AreaTable
<1> QED BY <1>1, <1>2, <1>3, <1>4, <1>5, <1>6

(* Every string that does not fit its slot is in the area, where its slot says. *)
Written(area, start, v) ==
  start + Len(v) <= Len(area) /\ \A j \in 1 .. Len(v) : area[start + j] = v[j]

AreaWritten(values, n) ==
  /\ \A k \in 0 .. n : AreaOf(values, k) \in Seq(Nat)
  /\ \A k \in 0 .. n : \A i \in 1 .. k :
       ~InSlot(values[i]) => Written(AreaOf(values, k), Len(AreaOf(values, i - 1)), values[i])

(* By induction, over the rows, of what AreaWritten says. *)
LEMMA AreaHolds ==
  ASSUME NEW n \in Nat, NEW values, \A i \in 1 .. n : values[i] = Null \/ values[i] \in Seq(Nat)
  PROVE  AreaWritten(values, n)
<1> DEFINE start(i) == Len(AreaOf(values, i - 1))
           In(k, i) == Written(AreaOf(values, k), start(i), values[i])
           S == {k \in Nat : k <= n => \A i \in 0 .. k : AreaOf(values, i) \in Seq(Nat)}
           T == {k \in Nat : k <= n => \A i \in 1 .. k : ~InSlot(values[i]) => In(k, i)}
<1>1. 0 \in S
  <2>1. AreaOf(values, 0) = <<>>
    BY AreaStep
  <2>2. <<>> \in Seq(Nat) /\ \A i \in 0 .. 0 : i = 0
    OBVIOUS
  <2> QED BY <2>1, <2>2
<1>2. ASSUME NEW k \in Nat, k \in S PROVE k + 1 \in S
  <2> SUFFICES ASSUME k + 1 <= n PROVE AreaOf(values, k + 1) \in Seq(Nat)
    BY <1>2
  <2>1. AreaOf(values, k) \in Seq(Nat)
    BY <1>2
  <2>2. AreaOf(values, k + 1) = NextArea(AreaOf(values, k), values[k + 1])
    BY AreaStep
  <2>3. values[k + 1] = Null \/ values[k + 1] \in Seq(Nat)
    OBVIOUS
  <2> QED BY <2>1, <2>2, <2>3, ConcatProperties DEF NextArea, InSlot
<1>3. Nat \subseteq S
  <2> HIDE DEF S
  <2> QED BY <1>1, <1>2, NatSetInduction
<1>4. \A k \in 0 .. n : AreaOf(values, k) \in Seq(Nat)
  BY <1>3
<1> HIDE DEF S, In
<1>5. 0 \in T
  <2>1. \A i \in 1 .. 0 : FALSE
    OBVIOUS
  <2> QED BY <2>1
<1>6. ASSUME NEW k \in Nat, k \in T PROVE k + 1 \in T
  <2> SUFFICES ASSUME k + 1 <= n, NEW i \in 1 .. k + 1, ~InSlot(values[i]) PROVE In(k + 1, i)
    OBVIOUS
  <2> DEFINE a == AreaOf(values, k)
             b == AreaOf(values, k + 1)
             v == values[k + 1]
  <2>1. a \in Seq(Nat) /\ (v = Null \/ v \in Seq(Nat)) /\ b = NextArea(a, v)
    BY <1>4, AreaStep
  <2>2. Len(a) \in Nat
    BY <2>1, LenProperties
  <2>3. start(i) \in Nat /\ values[i] \in Seq(Nat) /\ Len(values[i]) \in Nat
    <3>1. i - 1 \in 0 .. n
      OBVIOUS
    <3>2. AreaOf(values, i - 1) \in Seq(Nat)
      BY <1>4, <3>1
    <3>3. values[i] \in Seq(Nat)
      BY DEF InSlot
    <3> QED BY <3>2, <3>3, LenProperties
  <2> HIDE DEF a, b, v
  <2>4. CASE i = k + 1
    <3>1. start(i) = Len(a) /\ values[i] = v
      BY <2>4 DEF a, v
    <3>2. b = a \o v /\ v \in Seq(Nat)
      BY <2>1, <2>3, <3>1 DEF NextArea
    <3> DEFINE l == Len(v)
    <3>3. l \in Nat
      BY <3>2, LenProperties
    <3>4. Len(b) = Len(a) + l /\ \A j \in 1 .. Len(a) + l : b[j] = IF j <= Len(a) THEN a[j] ELSE v[j - Len(a)]
      BY <2>1, <3>2, ConcatProperties
    <3> HIDE DEF l
    <3>5. ASSUME NEW j \in 1 .. l PROVE b[Len(a) + j] = v[j]
      <4>1. Len(a) + j \in 1 .. Len(a) + l /\ ~(Len(a) + j <= Len(a)) /\ (Len(a) + j) - Len(a) = j
        BY <2>2, <3>3
      <4> QED BY <3>4, <4>1
    <3>6. Len(a) + l <= Len(b)
      BY <2>2, <3>3, <3>4
    <3> QED BY <3>1, <3>5, <3>6 DEF b, l, In, Written
  <2>5. CASE i # k + 1
    <3>1. i \in 1 .. k /\ In(k, i)
      BY <1>6, <2>5
    <3> DEFINE s == start(i)
               w == values[i]
    <3>2. s + Len(w) <= Len(a) /\ \A j \in 1 .. Len(w) : a[s + j] = w[j]
      BY <3>1 DEF a, In, Written
    <3>0. s \in Nat /\ Len(w) \in Nat
      BY <2>3
    <3> HIDE DEF s, w
    <3>3. CASE b = a
      BY <3>2, <3>3 DEF s, w, b, In, Written
    <3>4. CASE b = a \o v /\ v \in Seq(Nat)
      <4>1. Len(v) \in Nat
        BY <3>4, LenProperties
      <4>2. /\ Len(b) = Len(a) + Len(v)
            /\ \A j \in 1 .. Len(a) + Len(v) : b[j] = IF j <= Len(a) THEN a[j] ELSE v[j - Len(a)]
        BY <2>1, <3>4, ConcatProperties
      <4>3. s + Len(w) <= Len(b)
        BY <2>2, <3>0, <3>2, <4>1, <4>2
      <4>4. ASSUME NEW j \in 1 .. Len(w) PROVE b[s + j] = w[j]
        <5>1. s + j \in 1 .. Len(a) + Len(v) /\ s + j <= Len(a)
          BY <2>2, <3>0, <3>2, <4>1
        <5> QED BY <3>2, <4>2, <5>1
      <4> QED BY <4>3, <4>4 DEF s, w, b, In, Written
    <3> QED BY <2>1, <3>3, <3>4 DEF NextArea, InSlot
  <2> QED BY <2>4, <2>5
<1>7. Nat \subseteq T
  <2> HIDE DEF T
  <2> QED BY <1>5, <1>6, NatSetInduction
<1>8. \A k \in 0 .. n : \A i \in 1 .. k : ~InSlot(values[i]) => In(k, i)
  BY <1>7
<1> QED BY <1>4, <1>8 DEF In, AreaWritten

---------------------------------------------------------------------------
(* Decoded columns *)

(* Values of a column, as the writer has them. *)
Typed(oid, values) ==
  /\ Len(values) \in Nat /\ DOMAIN values = 1 .. Len(values)
  /\ \A i \in DOMAIN values : values[i] = Null \/ values[i] \in ValuesOf(oid)

(* The element of a row is the stored value. *)
LEMMA FlatCell ==
  ASSUME NEW oid, NEW width, NEW values, Typed(oid, values),
         NEW row \in 0 .. Len(values) - 1, values[row + 1] # Null
  PROVE  Cell(FlatColumn(oid, width, values), row) = Stored(oid, values[row + 1])
<1> DEFINE n == Len(values)
           i == row + 1
           v == values[i]
           col == FlatColumn(oid, width, values)
<1>1. n \in Nat /\ DOMAIN values = 1 .. n /\ i \in 1 .. n /\ i - 1 = row /\ v \in ValuesOf(oid)
  BY DEF Typed
<1>2. col.oid = oid /\ col.data[i] = Element(oid, values, i)
      /\ col.area = IF IsStringType(oid) THEN AreaOf(values, n) ELSE <<>>
  BY <1>1 DEF FlatColumn
<1> HIDE DEF col, n
<1>3. CASE ~IsStringType(oid)
  <2>1. Cell(col, row) = Element(oid, values, i)
    BY <1>2, <1>3 DEF Cell
  <2> QED BY <1>3, <2>1 DEF Element, col
<1>4. CASE IsStringType(oid)
  <2>1. Cell(col, row) = VarlenaBytes(col, Varlena(v, Len(AreaOf(values, row))))
    BY <1>1, <1>2, <1>4 DEF Cell, Element
  <2>2. v \in Seq(Nat) /\ Stored(oid, v) = v /\ Len(v) \in Nat
    BY <1>1, <1>4, LenProperties DEF ValuesOf, Stored, IsStringType
  <2>3. CASE Len(v) <= InlineMax
    BY <2>1, <2>2, <2>3 DEF Varlena, VarlenaBytes, col
  <2>4. CASE ~(Len(v) <= InlineMax)
    <3> DEFINE a == AreaOf(values, n)
               start == Len(AreaOf(values, row))
               l == Len(v)
    <3>1. \A j \in 1 .. n : values[j] = Null \/ values[j] \in Seq(Nat)
      BY <1>1, <1>4 DEF Typed, ValuesOf
    <3>2. AreaWritten(values, n)
      BY <1>1, <3>1, AreaHolds
    <3>3. ~InSlot(v)
      BY <2>4 DEF InSlot
    <3>4. n \in 0 .. n /\ row \in 0 .. n
      BY <1>1
    <3>5. start + l <= Len(a) /\ \A b \in 1 .. l : a[start + b] = v[b]
      BY <1>1, <3>2, <3>3, <3>4 DEF AreaWritten, Written
    <3>6. a \in Seq(Nat) /\ start \in Nat /\ Len(a) \in Nat
      BY <3>2, <3>4, LenProperties DEF AreaWritten
    <3>7. Cell(col, row) = SubSeq(a, start + 1, start + l)
      BY <1>2, <1>4, <2>1, <2>4 DEF Varlena, VarlenaBytes
    <3> HIDE DEF a, start, l, v
    <3>8. l \in Nat /\ v \in Seq(Nat) /\ l = Len(v)
      BY <2>2 DEF l
    <3>9. \A j \in start + 1 .. start + l : a[j] \in Nat
      <4> TAKE j \in start + 1 .. start + l
      <4>1. j \in 1 .. Len(a)
        BY <3>5, <3>6, <3>8
      <4> QED BY <3>6, <4>1, ElementOfSeq
    <3> DEFINE s == SubSeq(a, start + 1, start + l)
    <3>10. /\ s \in Seq(Nat)
           /\ Len(s) = IF start + 1 <= start + l THEN start + l - (start + 1) + 1 ELSE 0
           /\ \A j \in 1 .. start + l - (start + 1) + 1 : s[j] = a[start + 1 + j - 1]
      BY <3>6, <3>8, <3>9, SubSeqProperties
    <3> HIDE DEF s
    <3>11. Len(s) = l
      BY <3>6, <3>8, <3>10
    <3>12. \A j \in 1 .. l : s[j] = v[j]
      <4> TAKE j \in 1 .. l
      <4>1. start + l - (start + 1) + 1 = l /\ start + 1 + j - 1 = start + j
        BY <3>6, <3>8
      <4> QED BY <3>5, <3>10, <4>1
    <3>13. s = v
      BY <3>8, <3>10, <3>11, <3>12, SeqEqual
    <3> QED BY <2>2, <3>7, <3>13 DEF v, s, col
  <2> QED BY <2>3, <2>4
<1> QED BY <1>3, <1>4

(* The bitmap of a flat column has the bits of its NULLs. *)
LEMMA FlatNull ==
  ASSUME NEW oid, NEW width, NEW values, Len(values) \in Nat, DOMAIN values = 1 .. Len(values),
         NEW row \in 0 .. Len(values) - 1
  PROVE  BitIsSet(FlatColumn(oid, width, values), row) <=> values[row + 1] = Null
<1> DEFINE n == Len(values)
           nulls == {i - 1 : i \in {j \in DOMAIN values : values[j] = Null}}
           col == FlatColumn(oid, width, values)
<1>1. nulls \subseteq 0 .. n
  OBVIOUS
<1>2. row \in nulls <=> values[row + 1] = Null
  <2>1. ASSUME values[row + 1] = Null PROVE row \in nulls
    <3>1. row + 1 \in DOMAIN values /\ (row + 1) - 1 = row
      OBVIOUS
    <3> QED BY <2>1, <3>1
  <2>2. ASSUME row \in nulls PROVE values[row + 1] = Null
    <3>1. PICK i \in DOMAIN values : values[i] = Null /\ row = i - 1
      BY <2>2
    <3>2. i = row + 1
      BY <3>1
    <3> QED BY <3>1, <3>2
  <2> QED BY <2>1, <2>2
<1>3. col.null_bitmap = Bitmap(nulls)
  BY DEF FlatColumn
<1> HIDE DEF col, nulls
<1>4. row \in Nat /\ n \in Nat
  OBVIOUS
<1>5. BitIsSet(col, row) <=> row \in nulls
  <2> HIDE DEF n
  <2> QED BY <1>1, <1>3, <1>4, BitmapBits
<1> QED BY <1>2, <1>5 DEF col

(* On a row of a flat column a filter says one thing: what it says of the stored
   value. *)
LEMMA FlatVerdict ==
  ASSUME NEW oid, NEW width, NEW values, Typed(oid, values), NEW row \in 0 .. Len(values) - 1, NEW f
  PROVE  LET v == values[row + 1]
             kind == IF IsStringType(oid) THEN "string" ELSE "fixed"
         IN  RowVerdicts(f, FlatColumn(oid, width, values), row)
               = {RowPassesFilter(kind, f, IF v = Null THEN Null ELSE Stored(oid, v))}
<1> DEFINE v == values[row + 1]
           kind == IF IsStringType(oid) THEN "string" ELSE "fixed"
           stored == IF v = Null THEN Null ELSE Stored(oid, v)
           col == FlatColumn(oid, width, values)
<1>1. Len(values) \in Nat /\ DOMAIN values = 1 .. Len(values)
  BY DEF Typed
<1>2. col.oid = oid /\ col.row_count = Len(values) /\ Len(col.data) = Len(values)
  BY <1>1 DEF FlatColumn
<1>3. BitIsSet(col, row) <=> v = Null
  BY <1>1, FlatNull
<1>4. v # Null => Cell(col, row) = Stored(oid, v)
  BY FlatCell
<1>5. row < Len(values)
  BY <1>1
<1>6. v # Null => stored # Null
  <2>1. v # Null => v \in ValuesOf(oid)
    BY <1>1 DEF Typed
  <2> QED BY <2>1, StoredCompares
<1> HIDE DEF col, v
<1>7. CASE v = Null
  BY <1>2, <1>3, <1>5, <1>7 DEF RowVerdicts, col, v
<1>8. CASE v # Null /\ f.op \in NullOps
  <2>1. RowVerdicts(f, col, row) = {f.op = "IS_NOT_NULL"}
    BY <1>2, <1>3, <1>5, <1>8 DEF RowVerdicts
  <2> HIDE DEF stored
  <2>2. RowPassesFilter(kind, f, stored) = (f.op = "IS_NOT_NULL")
    BY <1>6, <1>8 DEF RowPassesFilter, NullOps, ScalarOps
  <2> QED BY <2>1, <2>2 DEF stored, v, col
<1>9. CASE v # Null /\ f.op \notin NullOps
  BY <1>2, <1>3, <1>4, <1>5, <1>9 DEF RowVerdicts, col, v
<1> QED BY <1>7, <1>8, <1>9 DEF col, v

(* The same for the provers, without arithmetic. *)
RowNumbers(values) == 0 .. Len(values) - 1
ValueAt(values, at) == values[at + 1]

LEMMA FlatVerdictOf ==
  ASSUME NEW oid, NEW width, NEW values, Typed(oid, values), NEW at \in RowNumbers(values), NEW f,
         NEW v, v = ValueAt(values, at), NEW kind, kind = (IF IsStringType(oid) THEN "string" ELSE "fixed"),
         NEW stored, stored = (IF v = Null THEN Null ELSE Stored(oid, v))
  PROVE  RowVerdicts(f, FlatColumn(oid, width, values), at) = {RowPassesFilter(kind, f, stored)}
  BY FlatVerdict DEF RowNumbers, ValueAt

---------------------------------------------------------------------------
(* What the thread reads *)

(* The columns read are the query's columns of the table, in order. *)
LEMMA PlaceRead ==
  ASSUME ThreadInv, NEW p \in DOMAIN query.column_ids, ~IsVirtualColumn(query.column_ids[p])
  PROVE  DecodedPos(p) \in DOMAIN TaePlaces /\ TaePlaces[DecodedPos(p)] = p
<1> DEFINE L == Len(query.column_ids)
           InTable(ci) == ~IsVirtualColumn(query.column_ids[ci])
           places == {ci \in DOMAIN query.column_ids : InTable(ci)}
           upTo(ci) == {cj \in 1 .. ci : InTable(cj)}
<1>1. L \in Nat /\ DOMAIN query.column_ids = 1 .. L
  BY ScanFacts
<1> HIDE DEF L, InTable
<1>2. places \subseteq 1 .. L
  BY <1>1
<1>3. IsFiniteSet(places) /\ Cardinality(places) \in Nat
  <2>1. \A m \in Nat : IsFiniteSet(1 .. m)
    BY FS_Interval
  <2> QED BY <1>1, <1>2, <2>1, FS_Subset, FS_CardinalityType
<1>4. ASSUME NEW q \in places
      PROVE  /\ upTo(q) \subseteq places /\ q \in upTo(q) /\ IsFiniteSet(upTo(q))
             /\ Cardinality(upTo(q)) \in 1 .. Cardinality(places)
  <2>1. q \in 1 .. L
    BY <1>2
  <2>2. upTo(q) \subseteq places
    BY <1>1, <2>1
  <2>3. q \in upTo(q)
    BY <2>1
  <2> DEFINE U == upTo(q)
  <2> HIDE DEF U, places
  <2>4. IsFiniteSet(U) /\ Cardinality(U) <= Cardinality(places)
    BY <1>3, <2>2, FS_Subset DEF U
  <2>5. Cardinality(U) \in Nat /\ Cardinality(U) # 0
    <3>1. U # {}
      BY <2>3 DEF U
    <3> QED BY <2>4, <3>1, FS_CardinalityType, FS_EmptySet
  <2>6. Cardinality(U) \in 1 .. Cardinality(places)
    BY <1>3, <2>4, <2>5
  <2> QED BY <2>2, <2>3, <2>4, <2>6 DEF U
<1>5. ASSUME NEW q \in places, NEW r \in places, q < r
      PROVE  Cardinality(upTo(q)) # Cardinality(upTo(r))
  <2>1. upTo(q) \subseteq upTo(r) /\ r \notin upTo(q)
    BY <1>2, <1>5
  <2>2. upTo(q) # upTo(r)
    BY <1>4, <2>1
  <2> DEFINE Q == upTo(q)
             R == upTo(r)
  <2>3. Q \in SUBSET R /\ Q # R /\ IsFiniteSet(R)
    BY <1>4, <2>1, <2>2
  <2> HIDE DEF Q, R
  <2>4. Cardinality(R) # Cardinality(Q)
    BY <2>3, FS_Subset
  <2> QED BY <2>4 DEF Q, R
<1>6. \A q \in places : DecodedPos(q) = Cardinality(upTo(q))
  BY DEF DecodedPos, InTable
<1> HIDE DEF upTo
<1>7. \A q, r \in places : DecodedPos(q) = DecodedPos(r) => q = r
  <2> SUFFICES ASSUME NEW q \in places, NEW r \in places, DecodedPos(q) = DecodedPos(r) PROVE q = r
    OBVIOUS
  <2>1. q \in Nat /\ r \in Nat
    BY <1>1, <1>2
  <2>2. ~(q < r) /\ ~(r < q)
    BY <1>5, <1>6
  <2> QED BY <2>1, <2>2
<1>8. TaePlaces = [k \in 1 .. Cardinality(places) |-> CHOOSE ci \in places : DecodedPos(ci) = k]
  BY DEF TaePlaces, InTable
<1>9. p \in places
  BY DEF InTable
<1> HIDE DEF places
<1>10. DecodedPos(p) \in 1 .. Cardinality(places)
  BY <1>4, <1>6, <1>9
<1>11. TaePlaces[DecodedPos(p)] = CHOOSE ci \in places : DecodedPos(ci) = DecodedPos(p)
  BY <1>8, <1>10
<1>12. TaePlaces[DecodedPos(p)] = p
  BY <1>7, <1>9, <1>11
<1> QED BY <1>8, <1>10, <1>12

(* For a column of the query the thread reads what the manifest declares, and finds
   there what the type says. *)
LEMMA ColumnRead ==
  ASSUME ThreadInv, pc \notin {"bind", "failed"}, Honest,
         NEW p \in DOMAIN query.column_ids, ~IsVirtualColumn(query.column_ids[p]),
         NEW b \in DOMAIN scan.blocks
  PROVE  LET id == query.column_ids[p]
             c == scan.blocks[b].columns[DeclaredSeqnum(id)]
         IN  /\ id \in DOMAIN scan.manifest.columns
             /\ DecodedPos(p) \in DOMAIN ReadSeqnums
             /\ ReadSeqnums[DecodedPos(p)] = DeclaredSeqnum(id)
             /\ c.oid = bind.all_col_mo_oids[id] /\ c.oid = scan.manifest.columns[id].oid
             /\ c.width = scan.manifest.columns[id].width
             /\ WellFormed(c) /\ Len(c.values) = scan.blocks[b].rows
<1> DEFINE id == query.column_ids[p]
           m == scan.manifest
           c == scan.blocks[b].columns[DeclaredSeqnum(id)]
<1>1. id \in Nat /\ id < VirtualColumnStart
  BY ScanFacts, ElementOfSeq DEF IsVirtualColumn
<1>2. Accepted(m) /\ bind = ParseManifest(m)
  BY DEF ThreadInv
<1>3. id \in DOMAIN m.columns /\ Len(scan.blocks[b].columns[Seqnum(m, id)].values) = scan.blocks[b].rows
  BY <1>1, <1>2, OutputChunkAssumption DEF ThreadInv, query
<1>4. DeclaredSeqnum(id) \in DOMAIN scan.blocks[b].columns /\ c.oid = m.columns[id].oid
      /\ c.width = m.columns[id].width
  BY <1>3 DEF Honest
<1>5. DeclaredSeqnum(id) \in 0 .. SeqnumMax /\ WellFormed(c)
  BY <1>4, OutputChunkAssumption DEF ThreadInv
<1>6. Seqnum(m, id) = DeclaredSeqnum(id)
  BY <1>5, AsIntSmall DEF Seqnum, DeclaredSeqnum
<1>7. bind.all_col_seqnums[id] = Seqnum(m, id) /\ bind.all_col_mo_oids[id] = m.columns[id].oid
  BY <1>2, <1>3 DEF ParseManifest
<1>8. DecodedPos(p) \in DOMAIN ReadSeqnums /\ ReadSeqnums[DecodedPos(p)] = bind.all_col_seqnums[id]
  BY PlaceRead DEF ReadSeqnums
<1> QED BY <1>3, <1>4, <1>5, <1>6, <1>7, <1>8

SetUp ==
  [read_seqnums |-> ReadSeqnums, output_map |-> OutputMap, filters |-> Filters, do_sample |-> DoSample]

(* The thread's state is what the query asks for, and its columns are those of its
   block. *)
ReadInv ==
  /\ pc \in {"bind", "init"} => next_block = 0 /\ delivered = <<>>
  /\ pc \notin {"bind", "init", "failed"} => gstate = SetUp
  /\ pc \in {"emit", "filter"} \/ pending_offset < pending_total_rows =>
       pending_cols = ReadBlock(pending_block)
  /\ pc = "dispatch" => ~(pending_offset < pending_total_rows)
  /\ pc \in {"emit", "filter"} => pending_block > 0

(* What follows from the query and the manifest stays. *)
LEMMA QueryUnchanged ==
  ASSUME UNCHANGED <<scan, bind>>
  PROVE  UNCHANGED <<SetUp, TaeFilters, Kept, AllRows, Honest>>
  BY DEF SetUp, ReadSeqnums, TaePlaces, DecodedPos, OutputMap, OutputColumn, PlaceOf, HasProj, Filters,
         TaeFilters, Pushed, Kept, AllRows, Honest, DeclaredSeqnum, DoSample, ColumnOf, OidOf,
         IsVirtualColumn, VCOL_BLOCK_ID, query

(* ReadInv is inductive relative to IInv. *)
LEMMA ReadStep == IInv /\ ReadInv /\ [Next]_vars => ReadInv'
<1> SUFFICES ASSUME IInv, ReadInv, [Next]_vars PROVE ReadInv'
  OBVIOUS
<1> USE DEF ReadInv
<1>0. UNCHANGED <<scan, bind, gstate>> => SetUp' = SetUp /\ \A b : ReadBlock(b)' = ReadBlock(b)
  BY QueryUnchanged DEF ReadBlock
<1>1. CASE Bind \/ BindThrows \/ InitThrows
  <2>1. /\ pc \in {"bind", "init"} /\ pc' \in {"init", "failed"}
        /\ UNCHANGED <<next_block, pending_vars, delivered>>
    BY <1>1 DEF Bind, BindThrows, InitThrows
  <2>2. pending_offset = 0 /\ pending_total_rows = 0
    BY <2>1 DEF IInv, ThreadInv
  <2> QED BY <2>1, <2>2 DEF pending_vars
<1>2. CASE InitScan
  <2>1. /\ pc = "init" /\ pc' = "idle" /\ gstate' = SetUp
        /\ UNCHANGED <<scan, bind, pending_vars>>
    BY <1>2 DEF InitScan, SetUp
  <2>2. pending_offset = 0 /\ pending_total_rows = 0
    BY <2>1 DEF IInv, ThreadInv
  <2>3. SetUp' = SetUp
    BY <2>1, QueryUnchanged
  <2> QED BY <2>1, <2>2, <2>3 DEF pending_vars
<1>3. CASE Call \/ Exhausted \/ Emit \/ Over \/ UNCHANGED vars
  <2>1. /\ UNCHANGED <<scan, bind, gstate, next_block, pending_vars, delivered>>
        /\ \/ pc' = pc
           \/ pc = "idle" /\ pc' = IF pending_offset < pending_total_rows THEN "emit" ELSE "dispatch"
           \/ pc = "dispatch" /\ pc' = "done"
           \/ pc = "emit" /\ pc' = "filter"
    <3>1. CASE Call \/ Exhausted \/ Emit
      BY <3>1 DEF Call, Exhausted, Emit
    <3>2. CASE Over \/ UNCHANGED vars
      BY <3>2 DEF Over, vars, pending_vars, chunk_vars
    <3> QED BY <1>3, <3>1, <3>2
  <2>2. pending_offset < pending_total_rows => pending_block > 0
    BY DEF IInv, ThreadInv
  <2> QED BY <1>0, <2>1, <2>2 DEF pending_vars
<1>4. CASE NextBlock
  <2>1. /\ pc = "dispatch" /\ pc' = "emit" /\ pending_block' = next_block + 1
        /\ pending_cols' = ReadBlock(next_block + 1)
        /\ UNCHANGED <<scan, bind, gstate>>
    BY <1>4 DEF NextBlock
  <2>2. next_block + 1 > 0
    <3>1. next_block \in Nat
      BY ScanFacts DEF IInv, ThreadInv
    <3> QED BY <3>1
  <2> QED BY <1>0, <2>1, <2>2
<1>5. CASE ApplyRowFilters
  <2>1. /\ pc = "filter" /\ Advance /\ UNCHANGED <<scan, bind, gstate, pending_block>>
        /\ \/ pc' \in {"idle", "sample"}
           \/ pc' = IF pending_offset' < pending_total_rows' THEN "emit" ELSE "dispatch"
    BY <1>5 DEF ApplyRowFilters, ReturnChunk
  <2>2. pending_offset' < pending_total_rows' => pending_cols' = pending_cols
    BY <2>1, AdvanceFacts DEF IInv
  <2> QED BY <1>0, <2>1, <2>2
<1>6. CASE Sample
  <2>1. /\ pc = "sample" /\ UNCHANGED <<scan, bind, gstate, pending_vars>>
        /\ pc' \in {"idle", "done"} \/ (pc' = "emit" /\ pending_offset < pending_total_rows)
    BY <1>6 DEF Sample, ReturnChunk
  <2>2. pending_offset < pending_total_rows => pending_block > 0
    BY DEF IInv, ThreadInv
  <2> QED BY <1>0, <2>1, <2>2 DEF pending_vars
<1> QED BY <1>1, <1>2, <1>3, <1>4, <1>5, <1>6 DEF Next

LEMMA ReadInit == Init => ReadInv
<1>1. Init => /\ pc = "bind" /\ pending_offset = 0 /\ pending_total_rows = 0
              /\ next_block = 0 /\ delivered = <<>>
  BY DEF Init
<1>2. ~(0 < 0)
  OBVIOUS
<1> QED BY <1>1, <1>2 DEF ReadInv

---------------------------------------------------------------------------
(* The rows that are passed on *)

(* The cases in which the filters that were pushed are exact. *)
Exact == Honest /\ ~gstate.do_sample /\ \A f \in TaeFilters : FilterIsExact(f)

Wanted(row) == \A f \in TaeFilters : FilterHolds(f, row)

(* A pushed filter is about a column of the table that the filters know. *)
LEMMA PushedFacts ==
  ASSUME ThreadInv, pc \notin {"bind", "failed"}, NEW f \in TaeFilters
  PROVE  /\ f \in query.filters /\ f.expr \in Names /\ SupportsFilterExpression(f.expr)
         /\ f.place \in DOMAIN query.column_ids /\ ~IsVirtualColumn(ColumnOf(f))
         /\ ColumnOf(f) \in DOMAIN bind.all_col_types /\ OidOf(f) # "array_float32"
         /\ \A n \in Conjuncts(f.expr) : /\ n.class \notin Joined /\ SupportsLeaf(n)
                                         /\ ComparedWith(n) \subseteq ValuesOf(OidOf(f)) \cup {Null}
<1>1. /\ f \in query.filters /\ ~IsVirtualColumn(ColumnOf(f)) /\ SupportsPushdownType(bind, ColumnOf(f))
      /\ SupportsFilterExpression(f.expr)
  BY DEF TaeFilters, Pushed
<1>2. f.expr \in Names /\ f.place \in DOMAIN query.column_ids
  BY <1>1, OutputChunkAssumption DEF ThreadInv, query
<1> DEFINE m == scan.manifest
           id == ColumnOf(f)
<1>3. Accepted(m) /\ bind = ParseManifest(m)
  BY DEF ThreadInv
<1>4. id \in DOMAIN bind.all_col_types /\ bind.all_col_types[id] # "LIST"
  BY <1>1 DEF SupportsPushdownType
<1>5. /\ id \in DOMAIN m.columns /\ OidOf(f) = m.columns[id].oid
      /\ bind.all_col_types[id] = MOTypeToDuckDB[m.columns[id].oid]
  BY <1>3, <1>4 DEF ParseManifest, OidOf
<1>6. OidOf(f) # "array_float32"
  BY <1>4, <1>5 DEF MOTypeToDuckDB
<1>7. id \in Nat /\ id < VirtualColumnStart /\ id = query.column_ids[f.place]
  BY <1>1, <1>2, ScanFacts, ElementOfSeq DEF IsVirtualColumn, ColumnOf
<1>8. \A n \in Conjuncts(f.expr) : ComparedWith(n) \subseteq ValuesOf(m.columns[id].oid) \cup {Null}
  BY <1>1, <1>2, <1>3, <1>7, OutputChunkAssumption DEF ThreadInv, query
<1> QED BY <1>1, <1>2, <1>4, <1>5, <1>6, <1>8, AcceptedParts

(* What the filters that one expression became say of a row is what the expression
   means for it. *)
LEMMA PartVerdict ==
  ASSUME IInv, ReadInv, pc = "filter", Exact, NEW f \in TaeFilters, NEW n \in Conjuncts(f.expr),
         pending_block \in DOMAIN scan.blocks,
         NEW i \in 0 .. scan.blocks[pending_block].rows - 1
  PROVE  LET k == DecodedPos(f.place)
             kind == IF IsStringType(OidOf(f)) THEN "string" ELSE "fixed"
         IN  /\ k \in DOMAIN pending_cols
             /\ \E pass \in BOOLEAN :
                  /\ RowVerdicts(PushedFilter(n, OidOf(f)), pending_cols[k], i) = {pass}
                  /\ pass <=> LeafHolds(kind, n, StoredValue(ColumnOf(f), pending_block, i))
<1> DEFINE b == pending_block
           id == ColumnOf(f)
           oid == OidOf(f)
           k == DecodedPos(f.place)
           c == scan.blocks[b].columns[DeclaredSeqnum(id)]
           kind == IF IsStringType(oid) THEN "string" ELSE "fixed"
           v == c.values[i + 1]
<1>0. ThreadInv /\ pc \notin {"bind", "init", "failed"} /\ Honest
  BY DEF IInv, Exact
<1>1. /\ f.place \in DOMAIN query.column_ids /\ id = query.column_ids[f.place] /\ ~IsVirtualColumn(id)
      /\ oid # "array_float32" /\ n.class \notin Joined /\ SupportsLeaf(n)
      /\ ComparedWith(n) \subseteq ValuesOf(oid) \cup {Null}
      /\ oid = bind.all_col_mo_oids[id]
  BY <1>0, PushedFacts DEF ColumnOf, OidOf
<1>2. /\ k \in DOMAIN ReadSeqnums /\ ReadSeqnums[k] = DeclaredSeqnum(id)
      /\ c.oid = oid /\ WellFormed(c) /\ Len(c.values) = scan.blocks[b].rows
  BY <1>0, <1>1, ColumnRead
<1>3. c.form = "flat" /\ \A x \in ComparedWith(n) : EncodeConstant(oid, x) = Stored(oid, x)
  BY <1>1 DEF Exact, FilterIsExact, IsConstant
<1>4. k \in DOMAIN pending_cols /\ pending_cols[k] = FlatColumn(oid, c.width, c.values)
  <2>1. gstate.read_seqnums = ReadSeqnums /\ pending_cols = ReadBlock(b)
    BY <1>0 DEF ReadInv, SetUp
  <2>2. k \in DOMAIN pending_cols /\ pending_cols[k] = Decode(c)
    BY <1>2, <2>1 DEF ReadBlock
  <2> QED BY <1>2, <1>3, <2>2 DEF Decode
<1>5. Typed(oid, c.values)
  BY <1>1, <1>2 DEF WellFormed, Typed
<1>6. v = StoredValue(id, b, i)
  <2>1. id # VCOL_BLOCK_ID
    BY <1>1, OutputChunkAssumption DEF IsVirtualColumn, VCOL_BLOCK_ID
  <2> QED BY <1>1, <2>1 DEF StoredValue
<1>7. i \in 0 .. Len(c.values) - 1
  BY <1>2
<1>8. v = Null \/ v \in ValuesOf(oid)
  <2>1. i + 1 \in DOMAIN c.values
    BY <1>5, <1>7 DEF Typed
  <2> QED BY <1>5, <2>1 DEF Typed
<1> DEFINE stored == IF v = Null THEN Null ELSE Stored(oid, v)
           pass == RowPassesFilter(kind, PushedFilter(n, oid), stored)
           width == c.width
           values == c.values
           verdicts == RowVerdicts(PushedFilter(n, oid), FlatColumn(oid, width, values), i)
<1>9. verdicts = {pass}
  <2> HIDE DEF width, values, oid
  <2>1. Typed(oid, values) /\ i \in RowNumbers(values)
    BY <1>5, <1>7 DEF values, RowNumbers
  <2>2. v = ValueAt(values, i)
    BY DEF values, ValueAt
  <2> HIDE DEF v, kind
  <2>3. kind = IF IsStringType(oid) THEN "string" ELSE "fixed"
    BY DEF kind
  <2>4. stored = IF v = Null THEN Null ELSE Stored(oid, v)
    OBVIOUS
  <2> HIDE DEF stored
  <2> QED BY <2>1, <2>2, <2>3, <2>4, FlatVerdictOf
<1>10. pass <=> LeafHolds(kind, n, v)
  <2> HIDE DEF v, oid
  <2> QED BY <1>1, <1>3, <1>8, LeafVerdict
<1>11. pass \in BOOLEAN
  BY DEF RowPassesFilter
<1> HIDE DEF pass
<1> QED BY <1>4, <1>6, <1>9, <1>10, <1>11

(* What is passed on from a chunk is what the pushed filters want. *)
LEMMA Verdict ==
  ASSUME IInv, ReadInv, pc = "filter", Exact, NEW r \in 0 .. ChunkRows - 1, NEW pass \in Outcomes(r)
  PROVE  pass <=> Wanted(<<pending_block, pending_offset + r>>)
<1> DEFINE b == pending_block
           i == pending_offset + r
           row == <<b, i>>
           Verdicts(k, f) == RowVerdicts(f, pending_cols[k], i)
           k(f) == DecodedPos(f.place)
           kind(f) == IF IsStringType(OidOf(f)) THEN "string" ELSE "fixed"
           v(f) == StoredValue(ColumnOf(f), b, i)
<1>0. ThreadInv /\ pc \notin {"bind", "init", "failed"} /\ gstate = SetUp
  BY DEF IInv, ReadInv
<1>1. b \in DOMAIN scan.blocks /\ i \in 0 .. scan.blocks[b].rows - 1
  <2>1. /\ ChunkRows \in Nat /\ pending_offset + ChunkRows <= pending_total_rows
        /\ pending_offset \in Nat /\ pending_total_rows \in Nat
    BY <1>0, ChunkRowsFacts DEF ThreadInv
  <2>2. i \in Nat /\ i < pending_total_rows /\ pending_total_rows # 0
    BY <2>1
  <2>3. b > 0 /\ pending_total_rows = scan.blocks[b].rows
    BY <1>0, <2>2 DEF ThreadInv
  <2>4. b \in 1 .. Len(scan.blocks)
    BY <1>0, <2>3, ScanFacts DEF ThreadInv
  <2> QED BY <1>0, <2>2, <2>3, <2>4, ScanFacts
<1>2. /\ pass \in BOOLEAN
      /\ IF pass THEN \A j \in DOMAIN pending_cols : \A f \in gstate.filters[j] : TRUE \in Verdicts(j, f)
         ELSE \E j \in DOMAIN pending_cols : \E f \in gstate.filters[j] : FALSE \in Verdicts(j, f)
  BY DEF Outcomes, Together
<1>3. DOMAIN pending_cols = DOMAIN TaePlaces
  <2>1. gstate.read_seqnums = ReadSeqnums /\ pending_cols = ReadBlock(b)
    BY <1>0 DEF ReadInv, SetUp
  <2> QED BY <2>1 DEF ReadBlock, ReadSeqnums
<1>4. \A j \in DOMAIN TaePlaces :
        gstate.filters[j]
          = UNION {ExtractExpression(f.expr, OidOf(f)) : f \in {g \in TaeFilters : k(g) = j}}
  BY <1>0 DEF SetUp, Filters
<1> HIDE DEF i, b, k, kind, v
<1>5. ASSUME NEW f \in TaeFilters, NEW n \in Conjuncts(f.expr)
      PROVE  /\ k(f) \in DOMAIN pending_cols
             /\ PushedFilter(n, OidOf(f)) \in gstate.filters[k(f)]
             /\ \E verdict \in BOOLEAN : /\ Verdicts(k(f), PushedFilter(n, OidOf(f))) = {verdict}
                                         /\ verdict <=> LeafHolds(kind(f), n, v(f))
  <2>1. /\ k(f) \in DOMAIN pending_cols
        /\ \E verdict \in BOOLEAN : /\ Verdicts(k(f), PushedFilter(n, OidOf(f))) = {verdict}
                                    /\ verdict <=> LeafHolds(kind(f), n, v(f))
    BY <1>1, PartVerdict DEF k, kind, v, b
  <2>2. PushedFilter(n, OidOf(f)) \in ExtractExpression(f.expr, OidOf(f))
    BY DEF ExtractExpression
  <2>3. PushedFilter(n, OidOf(f)) \in gstate.filters[k(f)]
    BY <1>3, <1>4, <2>1, <2>2
  <2> QED BY <2>1, <2>3
<1>6. ASSUME NEW f \in TaeFilters
      PROVE  FilterHolds(f, row) <=> \A n \in Conjuncts(f.expr) : LeafHolds(kind(f), n, v(f))
  <2>1. /\ f.expr \in Names /\ SupportsFilterExpression(f.expr)
        /\ ColumnOf(f) \in DOMAIN bind.all_col_types
    BY <1>0, PushedFacts
  <2>2. FilterHolds(f, row) <=> Holds(kind(f), f.expr, v(f))
    BY <2>1 DEF FilterHolds, kind, v
  <2>3. Holds(kind(f), f.expr, v(f)) <=> \A n \in Conjuncts(f.expr) : LeafHolds(kind(f), n, v(f))
    BY <2>1, HoldsIfPartsDo
  <2> QED BY <2>2, <2>3
<1>7. CASE pass
  <2>1. ASSUME NEW f \in TaeFilters, NEW n \in Conjuncts(f.expr) PROVE LeafHolds(kind(f), n, v(f))
    <3>1. TRUE \in Verdicts(k(f), PushedFilter(n, OidOf(f)))
      BY <1>2, <1>5, <1>7
    <3>2. PICK verdict \in BOOLEAN : /\ Verdicts(k(f), PushedFilter(n, OidOf(f))) = {verdict}
                                     /\ verdict <=> LeafHolds(kind(f), n, v(f))
      BY <1>5
    <3> HIDE DEF Verdicts
    <3>3. verdict
      BY <3>1, <3>2
    <3> QED BY <3>2, <3>3
  <2> QED BY <1>6, <1>7, <2>1 DEF Wanted, row, i, b
<1>8. CASE ~pass
  <2>1. PICK j \in DOMAIN pending_cols : \E f \in gstate.filters[j] : FALSE \in Verdicts(j, f)
    BY <1>2, <1>8
  <2>2. PICK filter \in gstate.filters[j] : FALSE \in Verdicts(j, filter)
    BY <2>1
  <2>3. PICK f \in TaeFilters : k(f) = j /\ filter \in ExtractExpression(f.expr, OidOf(f))
    BY <1>3, <1>4, <2>2
  <2>4. PICK n \in Conjuncts(f.expr) : filter = PushedFilter(n, OidOf(f))
    BY <2>3 DEF ExtractExpression
  <2>5. ~LeafHolds(kind(f), n, v(f))
    BY <1>5, <2>2, <2>3, <2>4
  <2>6. ~FilterHolds(f, row)
    BY <1>6, <2>5
  <2> QED BY <1>8, <2>6 DEF Wanted, row, i, b
<1> QED BY <1>7, <1>8

(* As many rows as there are: all of them. *)
LEMMA AllSelected ==
  ASSUME NEW n \in Nat, NEW sel \in Selections(n), Len(sel) = n
  PROVE  \A row \in 0 .. n - 1 : \E k \in DOMAIN sel : sel[k] = row
<1>1. PICK m \in 0 .. n : /\ sel \in [1 .. m -> 0 .. n - 1]
                          /\ \A j, k \in 1 .. m : j < k => sel[j] < sel[k]
  BY DEF Selections
<1>2. m = n
  <2>1. m \in Nat /\ sel \in Seq(0 .. n - 1)
    BY <1>1
  <2>2. Len(sel) = m
    BY <1>1, <2>1
  <2> QED BY <2>2
<1>3. sel \in Injection(1 .. n, 0 .. n - 1)
  <2>1. ASSUME NEW j \in 1 .. n, NEW k \in 1 .. n, j # k PROVE sel[j] # sel[k]
    <3>1. sel[j] \in Int /\ sel[k] \in Int
      BY <1>1, <1>2
    <3>2. j < k \/ k < j
      BY <2>1
    <3> QED BY <1>1, <1>2, <3>1, <3>2
  <2>2. sel \in [1 .. n -> 0 .. n - 1]
    BY <1>1, <1>2
  <2>3. \A j, k \in 1 .. n : sel[j] = sel[k] => j = k
    BY <2>1
  <2> HIDE DEF Injection
  <2> QED BY <2>2, <2>3, Zenon DEF Injection, IsInjective
<1>4. IsFiniteSet(0 .. n - 1) /\ Cardinality(0 .. n - 1) = Cardinality(1 .. n)
  <2>1. 0 \in Int /\ 1 \in Int /\ n \in Int /\ n - 1 \in Int
    OBVIOUS
  <2>2. /\ IsFiniteSet(0 .. n - 1)
        /\ Cardinality(0 .. n - 1) = IF 0 > n - 1 THEN 0 ELSE (n - 1) - 0 + 1
    BY <2>1, FS_Interval
  <2>3. Cardinality(1 .. n) = IF 1 > n THEN 0 ELSE n - 1 + 1
    BY <2>1, FS_Interval
  <2> QED BY <2>2, <2>3
<1>5. sel \in Surjection(1 .. n, 0 .. n - 1)
  BY <1>3, <1>4, FS_Injection
<1> QED BY <1>1, <1>2, <1>5 DEF Surjection

(* Of the rows behind the thread it delivered those that the pushed filters want. *)
SelInv ==
  pc \notin {"bind", "init", "failed"} /\ Exact =>
    /\ pc # "sample"
    /\ \A k \in DOMAIN delivered : delivered[k] \in AllRows
    /\ \A row \in AllRows : Passed(row) => ((\E k \in DOMAIN delivered : delivered[k] = row) <=> Wanted(row))
    /\ pc = "done" => next_block = Len(scan.blocks) /\ ~(pending_offset < pending_total_rows)

(* The stored rows, and their numbers. *)
LEMMA AllRowsFacts ==
  ASSUME ThreadInv
  PROVE  /\ AllRows \subseteq RowRef
         /\ \A row \in AllRows : row[1] \in DOMAIN scan.blocks /\ row[2] \in 0 .. scan.blocks[row[1]].rows - 1
         /\ \A row \in RowRef :
              row[1] \in DOMAIN scan.blocks /\ row[2] < scan.blocks[row[1]].rows => row \in AllRows
<1>1. DOMAIN scan.blocks \subseteq Nat /\ \A b \in DOMAIN scan.blocks : scan.blocks[b].rows \in Nat
  BY ScanFacts
<1>2. ASSUME NEW row \in AllRows
      PROVE  row \in RowRef /\ row[1] \in DOMAIN scan.blocks /\ row[2] \in 0 .. scan.blocks[row[1]].rows - 1
  <2>1. PICK b \in DOMAIN scan.blocks : \E i \in 0 .. scan.blocks[b].rows - 1 : row = <<b, i>>
    BY DEF AllRows
  <2>2. PICK i \in 0 .. scan.blocks[b].rows - 1 : row = <<b, i>>
    BY <2>1
  <2>3. i \in Nat
    OBVIOUS
  <2> QED BY <1>1, <2>2, <2>3 DEF RowRef
<1>3. ASSUME NEW row \in RowRef, row[1] \in DOMAIN scan.blocks, row[2] < scan.blocks[row[1]].rows
      PROVE  row \in AllRows
  <2>1. row = <<row[1], row[2]>> /\ row[2] \in Nat
    BY DEF RowRef
  <2>2. row[2] \in 0 .. scan.blocks[row[1]].rows - 1
    BY <1>1, <1>3, <2>1
  <2> QED BY <1>3, <2>1, <2>2 DEF AllRows
<1> QED BY <1>2, <1>3

(* What the filters mean stays. *)
LEMMA ExactUnchanged ==
  ASSUME UNCHANGED <<scan, bind, gstate>>
  PROVE  /\ Exact' = Exact
         /\ \A row : Wanted(row)' = Wanted(row)
<1>1. UNCHANGED <<TaeFilters, Honest>>
  BY QueryUnchanged
<1>2. \A f : FilterIsExact(f)' = FilterIsExact(f)
  BY DEF FilterIsExact, OidOf, ColumnOf, IsConstant, IsVirtualColumn, DeclaredSeqnum, query
<1>3. \A f, row : FilterHolds(f, row)' = FilterHolds(f, row)
  BY DEF FilterHolds, OidOf, ColumnOf, IsVirtualColumn, DeclaredSeqnum, StoredValue, VCOL_BLOCK_ID, query
<1>4. Exact' = Exact
  BY <1>1, <1>2 DEF Exact
<1>5. ASSUME NEW row PROVE Wanted(row)' = Wanted(row)
  BY <1>1, <1>3 DEF Wanted
<1> QED BY <1>4, <1>5

(* A chunk is filtered. *)
LEMMA SelectFilterStep ==
  ASSUME IInv, ReadInv, SelInv, ApplyRowFilters, Exact
  PROVE  SelInv'
<1> DEFINE n == ChunkRows
           InDelivered(row) == \E k \in DOMAIN delivered : delivered[k] = row
<1>1. /\ pc = "filter" /\ Advance
      /\ UNCHANGED <<scan, bind, gstate, next_block, pending_block, fills>>
  BY DEF ApplyRowFilters
<1>2. PICK sel \in Selections(n) :
        /\ \A r \in 0 .. n - 1 : (\E k \in DOMAIN sel : sel[k] = r) \in Outcomes(r)
        /\ IF Len(sel) \in {0, n} THEN UNCHANGED <<output, source>> ELSE Slice(sel)
        /\ \/ sel # <<>> /\ ReturnChunk
           \/ /\ sel = <<>> /\ pc' \in {"emit", "dispatch"}
              /\ UNCHANGED delivered
  BY DEF ApplyRowFilters, Exact
<1>3. ThreadInv /\ n \in Nat /\ pending_offset \in Nat /\ pending_total_rows \in Nat /\ pending_block \in Nat
      /\ pending_offset + n <= pending_total_rows
  BY ChunkRowsFacts, ScanFacts DEF IInv, ThreadInv
<1>4. /\ Len(source) = n /\ DOMAIN source = 1 .. n
      /\ \A k \in 1 .. n : source[k] = <<pending_block, pending_offset + k - 1>>
  BY <1>1, RowRefFacts DEF IInv, SourceInv
<1>5. PICK m \in 0 .. n : sel \in [1 .. m -> 0 .. n - 1]
  BY DEF Selections
<1>6. m \in Nat /\ DOMAIN sel = 1 .. m /\ Len(sel) = m
  BY <1>3, <1>5
<1>7. /\ Exact' = Exact /\ AllRows' = AllRows /\ \A row : Wanted(row)' = Wanted(row)
  BY <1>1, ExactUnchanged, QueryUnchanged
<1> DEFINE Of(row) == row[1] = pending_block /\ row[2] \in pending_offset .. pending_offset + n - 1
           Chosen(r) == \E k \in DOMAIN sel : sel[k] = r
           InSource == {source'[k] : k \in DOMAIN source'}
<1>8. ASSUME NEW r \in 0 .. n - 1 PROVE Chosen(r) <=> Wanted(<<pending_block, pending_offset + r>>)
  <2>1. Chosen(r) \in Outcomes(r)
    BY <1>2
  <2> HIDE DEF n, Chosen
  <2>2. \A pass \in Outcomes(r) : pass <=> Wanted(<<pending_block, pending_offset + r>>)
    BY <1>1, Verdict DEF n
  <2> QED BY <2>1, <2>2
<1> HIDE DEF n
<1>9. ASSUME sel # <<>>
      PROVE  \A row : row \in InSource <=>
               \E r \in 0 .. n - 1 : Chosen(r) /\ row = <<pending_block, pending_offset + r>>
  <2>0. m # 0
    BY <1>5, <1>6, <1>9
  <2>1. CASE m = n
    <3>1. source' = source
      BY <1>2, <1>6, <2>1
    <3>2. \A r \in 0 .. n - 1 : Chosen(r)
      BY <1>3, <1>6, <2>1, AllSelected
    <3>3. ASSUME NEW row
          PROVE  row \in InSource <=> \E k \in 1 .. n : row = <<pending_block, pending_offset + k - 1>>
      BY <1>4, <3>1
    <3>4. \A k \in 1 .. n : k - 1 \in 0 .. n - 1 /\ pending_offset + k - 1 = pending_offset + (k - 1)
      BY <1>3
    <3>5. \A r \in 0 .. n - 1 : r + 1 \in 1 .. n /\ pending_offset + (r + 1) - 1 = pending_offset + r
      BY <1>3
    <3> HIDE DEF Chosen, InSource
    <3> QED BY <3>2, <3>3, <3>4, <3>5
  <2>2. CASE m # n
    <3>1. source' = [k \in DOMAIN sel |-> source[sel[k] + 1]]
      BY <1>2, <1>6, <2>0, <2>2 DEF Slice
    <3>2. \A k \in 1 .. m : /\ sel[k] \in 0 .. n - 1
                            /\ source'[k] = <<pending_block, pending_offset + sel[k]>>
      <4> TAKE k \in 1 .. m
      <4>1. PICK r \in 0 .. n - 1 : r = sel[k]
        BY <1>5
      <4>2. r + 1 \in 1 .. n /\ pending_offset + (r + 1) - 1 = pending_offset + r
        BY <1>3
      <4>3. source'[k] = source[r + 1]
        BY <1>6, <3>1, <4>1
      <4> QED BY <1>4, <4>1, <4>2, <4>3
    <3>3. DOMAIN source' = 1 .. m
      BY <1>6, <3>1
    <3> QED BY <1>6, <3>2, <3>3
  <2> QED BY <2>1, <2>2
<1>10. ASSUME NEW row \in AllRows, Of(row)
       PROVE  \E r \in 0 .. n - 1 : row = <<pending_block, pending_offset + r>>
  <2>1. row \in RowRef
    BY <1>3, AllRowsFacts
  <2>2. row = <<row[1], row[2]>> /\ row[2] \in Nat
    BY <2>1 DEF RowRef
  <2>3. row[2] - pending_offset \in 0 .. n - 1 /\ pending_offset + (row[2] - pending_offset) = row[2]
    BY <1>3, <1>10, <2>2
  <2> QED BY <1>10, <2>2, <2>3
<1>11. ASSUME NEW r \in 0 .. n - 1 PROVE Of(<<pending_block, pending_offset + r>>)
  BY <1>3
<1>12. ASSUME NEW row \in AllRows, Of(row)
       PROVE  ~Passed(row)
  <2>1. row[2] \in Nat /\ pending_offset <= row[2] /\ pending_offset < pending_total_rows
    BY <1>3, <1>12
  <2> QED BY <1>3, <1>12, <2>1 DEF Passed
<1>13. ASSUME NEW row \in AllRows, Passed(row)' PROVE Passed(row) \/ Of(row)
  <2>1. row[1] \in Nat /\ row[2] \in Nat /\ row[1] \in DOMAIN scan.blocks /\ row[2] < scan.blocks[row[1]].rows
    <3>1. row \in RowRef
      BY <1>3, AllRowsFacts
    <3>2. row[2] \in 0 .. scan.blocks[row[1]].rows - 1 /\ row[1] \in DOMAIN scan.blocks
      BY <1>3, AllRowsFacts
    <3>3. scan.blocks[row[1]].rows \in Nat
      BY <1>3, <3>2, ScanFacts
    <3> QED BY <3>1, <3>2, <3>3 DEF RowRef
  <2>2. row[1] < pending_block \/ row[1] = pending_block
    BY <1>1, <1>13 DEF Passed
  <2>3. CASE row[1] < pending_block
    BY <2>3 DEF Passed
  <2>4. CASE row[1] = pending_block /\ ~(pending_offset < pending_total_rows)
    BY <2>4 DEF Passed
  <2>5. CASE row[1] = pending_block /\ pending_offset < pending_total_rows
    <3>1. pending_total_rows = scan.blocks[pending_block].rows
      BY <1>3, <2>5 DEF ThreadInv
    <3>2. row[2] < pending_offset + n
      <4> DEFINE next == pending_offset + n
                 more == next < pending_total_rows
      <4>1. /\ pending_offset' = IF more THEN next ELSE 0
            /\ pending_total_rows' = IF more THEN pending_total_rows ELSE 0
        BY <1>1 DEF Advance, n
      <4>2. CASE more
        <5>1. pending_offset' = next /\ pending_offset' < pending_total_rows'
          BY <4>1, <4>2
        <5>2. row[2] < pending_offset'
          <6>1. pending_block' = pending_block
            BY <1>1
          <6>2. ~(row[1] < pending_block)
            BY <1>3, <2>5
          <6> QED BY <1>13, <5>1, <6>1, <6>2 DEF Passed
        <5> QED BY <5>1, <5>2
      <4>3. CASE ~more
        BY <1>3, <2>1, <2>5, <3>1, <4>3
      <4> QED BY <4>2, <4>3
    <3>3. CASE row[2] < pending_offset
      BY <2>5, <3>3 DEF Passed
    <3>4. CASE ~(row[2] < pending_offset)
      BY <1>3, <2>1, <2>5, <3>2, <3>4
    <3> QED BY <3>3, <3>4
  <2> QED BY <2>2, <2>3, <2>4, <2>5
<1> HIDE DEF Of, Chosen, InSource
<1>14. pc \notin {"bind", "init", "failed"}
  BY <1>1
<1>15. /\ \A k \in DOMAIN delivered : delivered[k] \in AllRows
       /\ \A row \in AllRows : Passed(row) => (InDelivered(row) <=> Wanted(row))
  BY <1>14 DEF SelInv
<1>16. ASSUME NEW k \in DOMAIN delivered PROVE ~Of(delivered[k])
  <2>1. PICK row \in AllRows : row = delivered[k]
    BY <1>15
  <2>2. Passed(row)
    BY <2>1 DEF IInv, OrderInv
  <2> QED BY <1>12, <2>1, <2>2
<1>17. ASSUME NEW row \in InSource, sel # <<>> PROVE row \in AllRows
  <2>1. SourceInv'
    <3>1. pc' \in {"emit", "dispatch", "idle"}
      BY <1>2 DEF ReturnChunk
    <3>2. UNCHANGED source \/ \E s \in Selections(Len(source)) : Slice(s)
      BY <1>2, <1>4
    <3> QED BY <1>1, <3>1, <3>2, PartOfChunk DEF IInv
  <2>2. PICK k \in DOMAIN source' : row = source'[k]
    BY <1>17 DEF InSource
  <2>3. source' \in Seq(RowRef)
    BY <2>1 DEF SourceInv
  <2>4. row \in RowRef
    BY <2>2, <2>3, RowRefFacts, ElementOfSeq
  <2>5. row[1] \in DOMAIN scan.blocks /\ row[2] < scan.blocks[row[1]].rows
    BY <1>1, <2>1, <2>2 DEF SourceInv
  <2> QED BY <1>3, <2>4, <2>5, AllRowsFacts
<1>18. CASE sel # <<>>
  <2>1. delivered' = delivered \o source' /\ pc' = "idle"
    BY <1>2, <1>18 DEF ReturnChunk
  <2>2. \A x : (\E k \in DOMAIN delivered' : delivered'[k] = x) <=> InDelivered(x) \/ x \in InSource
    <3>1. delivered \in Seq(RowRef) /\ source' \in Seq(RowRef)
      <4>1. source' \in Seq(RowRef)
        <5>1. source \in Seq(RowRef) /\ Ordered(source)
          BY DEF IInv, SourceInv
        <5>2. source' = source \/ source' = [k \in DOMAIN sel |-> source[sel[k] + 1]]
          BY <1>2 DEF Slice
        <5> QED BY <1>3, <1>4, <5>1, <5>2, SelectedRows
      <4> QED BY <4>1 DEF IInv, OrderInv
    <3> DEFINE s == delivered
               t == source'
               p == Len(s)
               q == Len(t)
    <3>2. p \in Nat /\ q \in Nat /\ DOMAIN s = 1 .. p /\ DOMAIN t = 1 .. q
      BY <3>1, RowRefFacts
    <3>3. Len(s \o t) = p + q /\ DOMAIN (s \o t) = 1 .. p + q
          /\ \A i \in 1 .. p + q : (s \o t)[i] = IF i <= p THEN s[i] ELSE t[i - p]
      <4>1. s \o t \in Seq(RowRef) /\ Len(s \o t) = p + q
            /\ \A i \in 1 .. p + q : (s \o t)[i] = IF i <= p THEN s[i] ELSE t[i - p]
        BY <3>1, ConcatProperties
      <4> QED BY <4>1, RowRefFacts
    <3> DEFINE st == s \o t
    <3>4. delivered' = st
      BY <2>1
    <3> HIDE DEF st, p, q
    <3>5. \A i \in 1 .. p : i \in DOMAIN st /\ st[i] = s[i]
      BY <3>2, <3>3 DEF st
    <3>6. \A i \in 1 .. q : p + i \in DOMAIN st /\ st[p + i] = t[i]
      <4> TAKE i \in 1 .. q
      <4>1. p + i \in 1 .. p + q /\ ~(p + i <= p) /\ (p + i) - p = i
        BY <3>2
      <4> QED BY <3>3, <4>1 DEF st
    <3>7. \A i \in DOMAIN st : (i \in 1 .. p /\ st[i] = s[i]) \/ (i - p \in 1 .. q /\ st[i] = t[i - p])
      <4> TAKE i \in DOMAIN st
      <4>1. i \in 1 .. p + q
        BY <3>3 DEF st
      <4>2. i \in 1 .. p \/ (i - p \in 1 .. q /\ ~(i <= p))
        BY <3>2, <4>1
      <4> QED BY <3>3, <3>5, <4>1, <4>2 DEF st
    <3> HIDE DEF s, t
    <3>8. \A x : (\E k \in DOMAIN st : st[k] = x) <=> (\E k \in DOMAIN s : s[k] = x) \/ (\E k \in DOMAIN t : t[k] = x)
      BY <3>2, <3>5, <3>6, <3>7
    <3> QED BY <3>4, <3>8 DEF s, t, InSource
  <2>3. \A k \in DOMAIN delivered' : delivered'[k] \in AllRows
    BY <1>15, <1>17, <1>18, <2>2
  <2>4. ASSUME NEW row \in AllRows, Passed(row)'
        PROVE  (\E k \in DOMAIN delivered' : delivered'[k] = row) <=> Wanted(row)
    <3>1. CASE Of(row)
      <4>1. ~InDelivered(row)
        BY <1>16, <3>1
      <4>2. PICK r \in 0 .. n - 1 : row = <<pending_block, pending_offset + r>>
        BY <1>10, <3>1
      <4>3. row \in InSource <=> Chosen(r)
        <5>1. \A s \in 0 .. n - 1 : row = <<pending_block, pending_offset + s>> => s = r
          BY <1>3, <4>2
        <5> QED BY <1>9, <1>18, <4>2, <5>1
      <4> QED BY <1>8, <2>2, <4>1, <4>2, <4>3
    <3>2. CASE ~Of(row)
      <4>1. Passed(row)
        BY <1>13, <2>4, <3>2
      <4>2. row \notin InSource
        BY <1>9, <1>11, <1>18, <3>2
      <4> QED BY <1>15, <2>2, <4>1, <4>2
    <3> QED BY <3>1, <3>2
  <2> QED BY <1>7, <2>1, <2>3, <2>4 DEF SelInv
<1>19. CASE sel = <<>>
  <2>1. pc' \in {"emit", "dispatch"} /\ delivered' = delivered
    BY <1>2, <1>19
  <2>2. ASSUME NEW row \in AllRows, Passed(row)'
        PROVE  InDelivered(row) <=> Wanted(row)
    <3>1. CASE Of(row)
      <4>1. ~InDelivered(row)
        BY <1>16, <3>1
      <4>2. PICK r \in 0 .. n - 1 : row = <<pending_block, pending_offset + r>>
        BY <1>10, <3>1
      <4>3. ~Chosen(r)
        BY <1>19 DEF Chosen
      <4> QED BY <1>8, <4>1, <4>2, <4>3
    <3>2. CASE ~Of(row)
      BY <1>13, <1>15, <2>2, <3>2
    <3> QED BY <3>1, <3>2
  <2> QED BY <1>7, <1>15, <2>1, <2>2 DEF SelInv
<1> QED BY <1>18, <1>19

(* SelInv is inductive relative to IInv and ReadInv. *)
LEMMA SelectionStep == IInv /\ ReadInv /\ SelInv /\ [Next]_vars => SelInv'
<1> SUFFICES ASSUME IInv, ReadInv, SelInv, [Next]_vars,
                    pc' \notin {"bind", "init", "failed"}, Exact'
             PROVE  SelInv'
  BY DEF SelInv
<1>0. ThreadInv
  BY DEF IInv
<1>a. UNCHANGED <<scan, bind, gstate>> =>
        Exact /\ AllRows' = AllRows /\ \A row : Wanted(row)' = Wanted(row)
  BY ExactUnchanged, QueryUnchanged
<1>1. CASE Bind \/ BindThrows \/ InitThrows
  BY <1>1 DEF Bind, BindThrows, InitThrows
<1>2. CASE InitScan
  <2>1. /\ pc = "init" /\ pc' = "idle" /\ UNCHANGED <<scan, bind, next_block, pending_vars, delivered>>
    BY <1>2 DEF InitScan
  <2>2. pending_block = 0 /\ delivered = <<>> /\ AllRows' = AllRows
    BY <2>1, QueryUnchanged DEF ReadInv, IInv, ThreadInv
  <2>3. ASSUME NEW row \in AllRows PROVE ~Passed(row)'
    <3>1. row[1] \in DOMAIN scan.blocks
      BY <1>0, AllRowsFacts
    <3>2. row[1] \in Nat /\ row[1] >= 1
      BY <1>0, <3>1, ScanFacts
    <3> QED BY <2>1, <2>2, <3>2 DEF Passed, pending_vars
  <2> QED BY <2>1, <2>2, <2>3 DEF SelInv
<1>3. CASE Call \/ Emit \/ Over \/ UNCHANGED vars
  <2>1. /\ UNCHANGED <<scan, bind, gstate, next_block, pending_vars, delivered>>
        /\ pc' = pc \/ (pc \in {"idle", "emit"} /\ pc' \in {"emit", "dispatch", "filter"})
    <3>1. CASE Call \/ Emit
      BY <3>1 DEF Call, Emit
    <3>2. CASE Over \/ UNCHANGED vars
      BY <3>2 DEF Over, vars, pending_vars, chunk_vars
    <3> QED BY <1>3, <3>1, <3>2
  <2>2. \A row : Passed(row)' = Passed(row)
    BY <2>1 DEF Passed, pending_vars
  <2> QED BY <1>a, <2>1, <2>2 DEF SelInv, pending_vars
<1>4. CASE Exhausted
  <2>1. /\ UNCHANGED <<scan, bind, gstate, next_block, pending_vars, delivered>>
        /\ pc = "dispatch" /\ pc' = "done" /\ next_block = Len(scan.blocks)
    BY <1>4 DEF Exhausted
  <2>2. ~(pending_offset < pending_total_rows)
    BY <2>1 DEF ReadInv
  <2>3. \A row : Passed(row)' = Passed(row)
    BY <2>1 DEF Passed, pending_vars
  <2> QED BY <1>a, <2>1, <2>2, <2>3 DEF SelInv, pending_vars
<1>5. CASE NextBlock
  <2> DEFINE b == next_block + 1
  <2>1. /\ pc = "dispatch" /\ pc' = "emit" /\ b <= Len(scan.blocks)
        /\ pending_block' = b /\ pending_offset' = 0
        /\ pending_total_rows' = IF gstate.read_seqnums = <<>> THEN scan.blocks[b].rows
                                 ELSE ReadBlock(b)[1].row_count
        /\ UNCHANGED <<scan, bind, gstate, delivered>>
    BY <1>5 DEF NextBlock
  <2>2. next_block \in Nat /\ b \in DOMAIN scan.blocks /\ pending_block = next_block
    <3>1. next_block \in Nat
      BY <1>0, ScanFacts DEF ThreadInv
    <3> QED BY <1>0, <2>1, <3>1, ScanFacts DEF ThreadInv
  <2>3. pending_total_rows' = scan.blocks[b].rows /\ scan.blocks[b].rows \in Nat
    <3> HIDE DEF b
    <3> QED BY <1>0, <2>1, <2>2, BlockRead, ScanFacts
  <2>4. ~(pending_offset < pending_total_rows)
    BY <2>1 DEF ReadInv
  <2>5. ASSUME NEW row \in AllRows, Passed(row)' PROVE Passed(row)
    <3>1. row[1] \in DOMAIN scan.blocks /\ row[2] \in 0 .. scan.blocks[row[1]].rows - 1
      BY <1>0, AllRowsFacts
    <3>2. row[1] \in Nat /\ scan.blocks[row[1]].rows \in Nat
      BY <1>0, <3>1, ScanFacts
    <3>3. row[1] # b
      <4> SUFFICES ASSUME row[1] = b PROVE FALSE
        OBVIOUS
      <4>1. ~(row[1] < b)
        BY <2>2
      <4>2. 0 < scan.blocks[b].rows => row[2] < 0
        BY <2>1, <2>3, <2>5, <4>1 DEF Passed
      <4> QED BY <2>3, <3>1, <4>2
    <3>4. row[1] < b
      BY <2>1, <2>5, <3>3 DEF Passed
    <3>5. row[1] < pending_block \/ row[1] = pending_block
      BY <2>2, <3>2, <3>4
    <3> QED BY <2>4, <3>5 DEF Passed
  <2> QED BY <1>a, <2>1, <2>5 DEF SelInv
<1>6. CASE ApplyRowFilters
  <2>1. UNCHANGED <<scan, bind, gstate>>
    BY <1>6 DEF ApplyRowFilters
  <2> QED BY <1>a, <1>6, <2>1, SelectFilterStep
<1>7. CASE Sample
  <2>1. UNCHANGED <<scan, bind, gstate>> /\ pc = "sample"
    BY <1>7 DEF Sample
  <2> QED BY <1>a, <2>1 DEF SelInv
<1> QED BY <1>1, <1>2, <1>3, <1>4, <1>5, <1>6, <1>7 DEF Next

(* At the end every stored row is behind the thread. *)
LEMMA SelectionDone == IInv /\ ReadInv /\ SelInv => SelectionExact
<1> SUFFICES ASSUME IInv, ReadInv, SelInv, pc = "done", Honest, ~gstate.do_sample,
                    \A f \in TaeFilters : FilterIsExact(f)
             PROVE  {row \in {delivered[k] : k \in DOMAIN delivered} : \A f \in Kept : FilterHolds(f, row)}
                      = {row \in AllRows : \A f \in query.filters : FilterHolds(f, row)}
  BY DEF SelectionExact
<1>0. ThreadInv
  BY DEF IInv
<1>1. /\ \A k \in DOMAIN delivered : delivered[k] \in AllRows
      /\ \A row \in AllRows : Passed(row) => ((\E k \in DOMAIN delivered : delivered[k] = row) <=> Wanted(row))
      /\ next_block = Len(scan.blocks) /\ ~(pending_offset < pending_total_rows)
  BY DEF SelInv, Exact
<1>2. ASSUME NEW row \in AllRows PROVE Passed(row)
  <2>1. row[1] \in 1 .. Len(scan.blocks) /\ Len(scan.blocks) \in Nat
    BY <1>0, AllRowsFacts, ScanFacts
  <2>2. pending_block = Len(scan.blocks)
    BY <1>0, <1>1 DEF ThreadInv
  <2>3. row[1] < pending_block \/ row[1] = pending_block
    BY <2>1, <2>2
  <2> QED BY <1>1, <2>3 DEF Passed
<1>3. query.filters = Kept \cup Pushed
  BY DEF Kept, Pushed
<1>4. Pushed = TaeFilters
  <2>1. ASSUME NEW f \in Pushed PROVE ~IsVirtualColumn(ColumnOf(f))
    <3>1. ColumnOf(f) \in DOMAIN bind.all_col_types
      BY DEF Pushed, SupportsPushdownType
    <3>2. ColumnOf(f) \in DOMAIN scan.manifest.columns
      BY <1>0, <3>1 DEF ThreadInv, ParseManifest
    <3>3. ColumnOf(f) < VirtualColumnStart
      BY <1>0, <3>2, OutputChunkAssumption DEF ThreadInv
    <3>4. ColumnOf(f) \in Nat /\ VirtualColumnStart \in Nat
      <4>1. f \in query.filters
        BY DEF Pushed
      <4>2. f.place \in DOMAIN query.column_ids
        BY <1>0, <4>1, OutputChunkAssumption DEF ThreadInv, query
      <4> QED BY <1>0, <4>2, ScanFacts, ElementOfSeq DEF ColumnOf
    <3> QED BY <3>3, <3>4 DEF IsVirtualColumn
  <2> QED BY <2>1 DEF TaeFilters
<1>5. \A row \in AllRows : (\E k \in DOMAIN delivered : delivered[k] = row) <=> Wanted(row)
  BY <1>1, <1>2
<1>6. ASSUME NEW row
      PROVE  (\A f \in query.filters : FilterHolds(f, row))
               <=> Wanted(row) /\ \A f \in Kept : FilterHolds(f, row)
  BY <1>3, <1>4 DEF Wanted
<1> HIDE DEF Kept, Wanted
<1> QED BY <1>1, <1>5, <1>6

---------------------------------------------------------------------------
(* Vectors and fills *)

IsVector(vec) ==
  /\ vec.vtype \in {"flat", "constant", "dictionary", "undefined"}
  /\ vec = [vtype |-> vec.vtype, data |-> vec.data, invalid |-> vec.invalid, sel |-> vec.sel]

(* A type whose elements are copied into slots of their own size, or converted. *)
Fits(oid, width) ==
  /\ oid \in DOMAIN MOTypeToDuckDB /\ oid # "array_float32"
  /\ oid = "decimal64" => SlotSize(oid, width) = 8

(* A slot gets the stored value of its row. *)
LEMMA SlotExact ==
  ASSUME NEW oid, NEW width, Fits(oid, width), NEW values, Typed(oid, values),
         NEW off \in Nat, NEW i \in Nat, off + i < Len(values), values[off + i + 1] # Null
  PROVE  Slot(FlatColumn(oid, width, values), off, i) = values[off + i + 1]
<1> DEFINE col == FlatColumn(oid, width, values)
           row == off + i
           v == values[row + 1]
<1>1. Len(values) \in Nat /\ DOMAIN values = 1 .. Len(values) /\ row \in 0 .. Len(values) - 1
      /\ row + 1 \in 1 .. Len(values)
  BY DEF Typed
<1>2. v \in ValuesOf(oid)
  BY <1>1 DEF Typed
<1>3. col.oid = oid /\ col.width = width /\ col.data[row + 1] = Element(oid, values, row + 1)
  BY <1>1 DEF FlatColumn
<1>4. oid \in {"int64", "date", "decimal64", "year", "varchar"}
  BY DEF Fits, MOTypeToDuckDB
<1>5. CASE oid = "date"
  <2>1. col.data[row + 1] = v + EpochDays
    BY <1>3, <1>5 DEF Element, IsStringType, Stored
  <2>2. v \in Int /\ Signed(v, 4) = v /\ EpochDays \in Int
    BY <1>2, <1>5, TaeTypesAssumption DEF ValuesOf, IsStringType
  <2> HIDE DEF col, v
  <2>3. col.data[off + i + 1] - EpochDays = v
    BY <2>1, <2>2
  <2>4. Slot(col, off, i) = Signed(col.data[off + i + 1] - EpochDays, 4)
    BY <1>3, <1>5 DEF Slot
  <2>5. Slot(col, off, i) = v
    BY <2>2, <2>3, <2>4
  <2> QED BY <2>5 DEF col, v
<1>6. CASE oid = "varchar"
  <2>1. Slot(col, off, i) = Cell(col, row)
    BY <1>3, <1>6 DEF Slot, IsStringType
  <2>2. Cell(col, row) = Stored(oid, v)
    BY <1>1, FlatCell
  <2> QED BY <1>6, <2>1, <2>2 DEF Stored
<1>7. CASE oid \in {"int64", "decimal64", "year"}
  <2>1. Element(oid, values, row + 1) = v
    BY <1>7 DEF Element, IsStringType, Stored
  <2>2. Slot(col, off, i) = CopyFixedSlot(col, off, i)
    BY <1>3, <1>7 DEF Slot, IsStringType
  <2>3. MOTypeFixedSize[oid] \in {2, 8} /\ SlotSize(oid, width) = MOTypeFixedSize[oid]
    BY <1>7 DEF Fits, SlotSize, MOTypeFixedSize
  <2>4. MOTypeFixedSize[col.oid] \div SlotSize(col.oid, col.width) = 1
    BY <1>3, <2>3
  <2> QED BY <1>3, <2>1, <2>2, <2>4 DEF CopyFixedSlot
<1> QED BY <1>4, <1>5, <1>6, <1>7

(* The bits that a fill clears are those of the NULLs among its rows, from its offset on. *)
LEMMA MaskExact ==
  ASSUME NEW oid, NEW width, NEW values, Len(values) \in Nat, DOMAIN values = 1 .. Len(values),
         NEW off \in Nat, NEW count \in Nat, off + count <= Len(values)
  PROVE  NullMask(FlatColumn(oid, width, values), count, off)
           = {i \in 0 .. count - 1 : values[off + i + 1] = Null}
<1> DEFINE col == FlatColumn(oid, width, values)
           nulls == {i - 1 : i \in {j \in DOMAIN values : values[j] = Null}}
<1>1. ASSUME NEW i \in 0 .. count - 1 PROVE BitIsSet(col, off + i) <=> values[off + i + 1] = Null
  <2>1. off + i \in 0 .. Len(values) - 1
    OBVIOUS
  <2> DEFINE row == off + i
  <2> HIDE DEF row
  <2>2. row \in 0 .. Len(values) - 1
    BY <2>1 DEF row
  <2>3. BitIsSet(col, row) <=> values[row + 1] = Null
    BY <2>2, FlatNull
  <2> QED BY <2>3 DEF row
<1>2. col.null_count = Cardinality(nulls)
  BY DEF FlatColumn
<1>3. ASSUME col.null_count = 0 PROVE \A i \in 0 .. count - 1 : values[off + i + 1] # Null
  <2>1. IsFiniteSet(nulls)
    <3>1. \A m \in Nat : IsFiniteSet(0 .. m)
      BY FS_Interval
    <3>2. nulls \subseteq 0 .. Len(values)
      OBVIOUS
    <3> HIDE DEF nulls
    <3> QED BY <3>1, <3>2, FS_Subset
  <2>2. nulls = {}
    <3> HIDE DEF nulls
    <3> QED BY <1>2, <1>3, <2>1, FS_EmptySet
  <2>3. \A j \in DOMAIN values : values[j] # Null
    BY <2>2
  <2> QED BY <2>3
<1> HIDE DEF col, nulls
<1>4. CASE col.null_count = 0
  <2>1. NullMask(col, count, off) = {}
    BY <1>4 DEF NullMask
  <2> QED BY <1>3, <1>4, <2>1 DEF col
<1>5. CASE col.null_count # 0
  <2>1. NullMask(col, count, off) = {i \in 0 .. count - 1 : BitIsSet(col, off + i)}
    BY <1>5 DEF NullMask
  <2> QED BY <1>1, <2>1 DEF col
<1> QED BY <1>4, <1>5

(* What a fill makes of a flat vector. *)
FlatFilled(new, vec, values, off, count) ==
  /\ IsVector(new) /\ new.vtype = "flat" /\ Len(new.data) = count
  /\ \A i \in 0 .. count - 1 : values[off + i + 1] # Null => new.data[i + 1] = values[off + i + 1]
  /\ new.invalid = vec.invalid \cup {i \in 0 .. count - 1 : values[off + i + 1] = Null}

ConstantFilled(new, vec, v) ==
  /\ IsVector(new) /\ new.vtype = "constant"
  /\ v = Null => 0 \in new.invalid
  /\ v # Null => Len(new.data) = 1 /\ new.data[1] = v /\ new.invalid = vec.invalid

(* A fill with a flat column. *)
LEMMA FlatFill ==
  ASSUME NEW oid, NEW width, Fits(oid, width), NEW values, Typed(oid, values),
         NEW off \in Nat, NEW count \in Nat, off + count <= Len(values),
         NEW vec, IsVector(vec), vec.vtype = "flat"
  PROVE  FlatFilled(FillColumn(vec, FlatColumn(oid, width, values), count, off), vec, values, off, count)
<1> DEFINE col == FlatColumn(oid, width, values)
           new == FillColumn(vec, col, count, off)
           mask == {i \in 0 .. count - 1 : values[off + i + 1] = Null}
<1>1. Len(values) \in Nat /\ DOMAIN values = 1 .. Len(values)
  BY DEF Typed
<1>2. NullMask(col, count, off) = mask
  BY <1>1, MaskExact
<1>3. col.vec_class = "flat" /\ col.oid = oid /\ oid # "array_float32"
  BY DEF FlatColumn, Fits
<1>4. ASSUME NEW i \in 0 .. count - 1, values[off + i + 1] # Null
      PROVE  Slot(col, off, i) = values[off + i + 1]
  <2>1. i \in Nat /\ off + i < Len(values)
    BY <1>1
  <2> QED BY <1>4, <2>1, SlotExact
<1> HIDE DEF col, mask
<1>5. new = [vec EXCEPT !.data = Slots(col, count, off), !.invalid = @ \cup mask]
  BY <1>2, <1>3 DEF FillColumn, FillFlatColumn
<1>6. new = [vtype |-> vec.vtype, data |-> Slots(col, count, off), invalid |-> vec.invalid \cup mask,
             sel |-> vec.sel]
  BY <1>5 DEF IsVector
<1>7. Slots(col, count, off) = [i \in 1 .. count |-> Slot(col, off, i - 1)]
  BY <1>3 DEF Slots
<1>8. Len(Slots(col, count, off)) = count
  BY <1>7
<1>9. \A i \in 0 .. count - 1 : Slots(col, count, off)[i + 1] = Slot(col, off, i)
  <2> TAKE i \in 0 .. count - 1
  <2>1. i + 1 \in 1 .. count /\ (i + 1) - 1 = i
    OBVIOUS
  <2> QED BY <1>7, <2>1
<1> HIDE DEF new
<1>10. FlatFilled(new, vec, values, off, count)
  BY <1>4, <1>6, <1>8, <1>9 DEF IsVector, FlatFilled, mask
<1> QED BY <1>10 DEF new, col

(* A fill with a constant column. *)
LEMMA ConstantFill ==
  ASSUME NEW oid, NEW width, Fits(oid, width), NEW v, v = Null \/ v \in ValuesOf(oid),
         NEW n, NEW off, NEW count, NEW vec, IsVector(vec), vec.vtype = "flat"
  PROVE  ConstantFilled(FillColumn(vec, ConstantColumn(oid, width, v, n), count, off), vec, v)
<1> DEFINE values == <<v>>
           flat == FlatColumn(oid, width, values)
           col == ConstantColumn(oid, width, v, n)
           new == FillColumn(vec, col, count, off)
           is_null == Len(col.data) = 0 \/ (col.null_count > 0 /\ BitIsSet(col, 0))
<1>1. Len(values) = 1 /\ DOMAIN values = 1 .. 1 /\ values[1] = v
  OBVIOUS
<1>2. Typed(oid, values)
  BY <1>1 DEF Typed
<1> HIDE DEF values
<1>3. /\ col.vec_class = "constant" /\ col.oid = oid /\ col.width = width
      /\ col.data = (IF v = Null THEN <<>> ELSE flat.data)
      /\ col.area = flat.area /\ col.null_bitmap = flat.null_bitmap
      /\ flat.oid = oid /\ flat.width = width /\ Len(flat.data) = 1
  BY <1>1 DEF ConstantColumn, FlatColumn, values
<1>4. is_null <=> v = Null
  <2>1. BitIsSet(flat, 0) <=> v = Null
    <3>1. 0 \in 0 .. Len(values) - 1 /\ values[0 + 1] = v /\ Len(values) \in Nat
      BY <1>1
    <3> QED BY <1>1, <3>1, FlatNull
  <2>2. BitIsSet(col, 0) <=> BitIsSet(flat, 0)
    BY <1>3 DEF BitIsSet
  <2>3. v = Null => Len(col.data) = 0
    BY <1>3
  <2>4. v # Null => Len(col.data) = 1
    BY <1>3
  <2> DEFINE l == Len(col.data)
             bit == BitIsSet(col, 0)
             some == col.null_count > 0
  <2>5. is_null <=> l = 0 \/ (some /\ bit)
    OBVIOUS
  <2>6. (v = Null => l = 0) /\ (v # Null => l = 1) /\ (bit <=> v = Null)
    BY <2>1, <2>2, <2>3, <2>4
  <2> HIDE DEF is_null, l, bit, some
  <2> QED BY <2>5, <2>6
<1>5. v # Null => Slot(col, 0, 0) = v
  <2> SUFFICES ASSUME v # Null PROVE Slot(col, 0, 0) = v
    OBVIOUS
  <2>1. 0 \in Nat /\ 0 + 0 < Len(values) /\ values[0 + 0 + 1] = v
    BY <1>1
  <2>2. Slot(flat, 0, 0) = v
    BY <1>2, <2>1, SlotExact
  <2>3. col.data = flat.data
    BY <1>3
  <2> HIDE DEF col, flat
  <2>4. Slot(col, 0, 0) = Slot(flat, 0, 0)
    BY <1>3, <2>3 DEF Slot, Cell, VarlenaBytes, CopyFixedSlot
  <2> QED BY <2>2, <2>4
<1> HIDE DEF col, flat, is_null
<1>6. new = FillConstantColumn(vec, col)
  BY <1>3 DEF FillColumn
<1>7. CASE v = Null
  <2>1. new = [vec EXCEPT !.vtype = "constant", !.data = @, !.invalid = @ \cup {0}]
    BY <1>4, <1>6, <1>7 DEF FillConstantColumn, is_null
  <2>2. new = [vtype |-> "constant", data |-> vec.data, invalid |-> vec.invalid \cup {0}, sel |-> vec.sel]
    BY <2>1 DEF IsVector
  <2> HIDE DEF new
  <2>3. ConstantFilled(new, vec, v)
    BY <1>7, <2>2 DEF IsVector, ConstantFilled
  <2> QED BY <2>3 DEF new, col
<1>8. CASE v # Null
  <2>1. new = [vec EXCEPT !.vtype = "constant", !.data = Slots(col, 1, 0), !.invalid = @]
    BY <1>4, <1>6, <1>8 DEF FillConstantColumn, is_null
  <2>2. new = [vtype |-> "constant", data |-> Slots(col, 1, 0), invalid |-> vec.invalid, sel |-> vec.sel]
    BY <2>1 DEF IsVector
  <2>3. Slots(col, 1, 0) = [i \in 1 .. 1 |-> Slot(col, 0, i - 1)]
    BY <1>3 DEF Slots, Fits
  <2>4. Len(Slots(col, 1, 0)) = 1 /\ Slots(col, 1, 0)[1] = Slot(col, 0, 0)
    BY <2>3
  <2> HIDE DEF new
  <2>5. ConstantFilled(new, vec, v)
    BY <1>5, <1>8, <2>2, <2>4 DEF IsVector, ConstantFilled
  <2> QED BY <2>5 DEF new, col
<1> QED BY <1>7, <1>8

Fill == [block : Nat, offset : Nat, count : Nat]

(* What the chunk was filled with, and before the last time. *)
FillSet(hist) == {hist[n] : n \in 1 .. Len(hist)}
EarlierIn(hist) == {hist[n] : n \in 1 .. Len(hist) - 1}
LastIn(hist) == hist[Len(hist)]

NullIn(id, f, slot) == slot < f.count /\ StoredValue(id, f.block, f.offset + slot) = Null

IsDisturbed(id, vec, hist) ==
  (\E f \in EarlierIn(hist) : IsConstant(id, f.block)) \/ vec.vtype = "undefined"

SlotIn(id, row, hist) == IF IsConstant(id, row[1]) THEN 0 ELSE row[2] - LastIn(hist).offset

RowGood(id, vec, k, row, hist) ==
  \/ ReadVector(vec, k - 1) = StoredValue(id, row[1], row[2])
  \/ /\ ReadVector(vec, k - 1) = Null /\ ~IsVirtualColumn(id)
     /\ \E f \in EarlierIn(hist) : NullIn(id, f, SlotIn(id, row, hist))

(* While nothing but values of slots was written, a cleared bit is a NULL of some
   fill of the call. *)
Filled(id, vec, rows, hist) ==
  /\ \A k \in DOMAIN rows : RowGood(id, vec, k, rows[k], hist)
  /\ ~IsConstant(id, LastIn(hist).block) =>
       /\ vec.vtype \in {"flat", "dictionary"}
       /\ IsVirtualColumn(id) => vec.invalid = {}
       /\ \A i \in vec.invalid : \E f \in FillSet(hist) : NullIn(id, f, i)

VectorInv(id, vec, rows, hist) ==
  /\ IsVector(vec)
  /\ hist = <<>> => vec = FreshVector /\ rows = <<>>
  /\ hist # <<>> /\ Copied(id) /\ ~IsDisturbed(id, vec, hist) => Filled(id, vec, rows, hist)

ChunkInv ==
  /\ fills \in Seq(Fill) /\ (fills = <<>> => source = <<>>)
  /\ DOMAIN output \subseteq DOMAIN OutputMap
  /\ Honest => \A oi \in DOMAIN output : VectorInv(IdOf(oi), output[oi], source, fills)

(* The fills of a call, the last of them and those before. *)
LEMMA FillsOf ==
  ASSUME NEW hist \in Seq(Fill)
  PROVE  /\ Len(hist) \in Nat /\ FillSet(hist) \subseteq Fill /\ EarlierIn(hist) \subseteq FillSet(hist)
         /\ hist = <<>> => FillSet(hist) = {}
         /\ hist # <<>> => LastIn(hist) \in FillSet(hist)
         /\ \A f \in FillSet(hist) : f \in EarlierIn(hist) \/ f = LastIn(hist)
<1>1. Len(hist) \in Nat /\ (hist = <<>> <=> Len(hist) = 0)
  BY LenProperties, EmptySeq
<1>2. \A n \in 1 .. Len(hist) : hist[n] \in Fill
  BY ElementOfSeq
<1>3. EarlierIn(hist) \subseteq FillSet(hist)
  BY <1>1 DEF EarlierIn, FillSet
<1>4. hist = <<>> => FillSet(hist) = {}
  BY <1>1 DEF FillSet
<1>5. hist # <<>> => LastIn(hist) \in FillSet(hist)
  BY <1>1 DEF FillSet, LastIn
<1>6. \A f \in FillSet(hist) : f \in EarlierIn(hist) \/ f = LastIn(hist)
  <2> TAKE f \in FillSet(hist)
  <2>1. PICK n \in 1 .. Len(hist) : f = hist[n]
    BY DEF FillSet
  <2>2. n \in 1 .. Len(hist) - 1 \/ n = Len(hist)
    BY <1>1
  <2> QED BY <2>1, <2>2 DEF EarlierIn, LastIn
<1> QED BY <1>1, <1>2, <1>3, <1>4, <1>5, <1>6 DEF FillSet

(* One fill more. *)
LEMMA FillAdded ==
  ASSUME NEW hist \in Seq(Fill), NEW f \in Fill
  PROVE  LET new == Append(hist, f)
         IN  /\ new \in Seq(Fill) /\ new # <<>> /\ LastIn(new) = f
             /\ EarlierIn(new) = FillSet(hist) /\ FillSet(new) = FillSet(hist) \cup {f}
<1> DEFINE new == Append(hist, f)
           l == Len(hist)
<1>1. l \in Nat /\ new \in Seq(Fill) /\ Len(new) = l + 1 /\ new[l + 1] = f
      /\ \A n \in 1 .. l : new[n] = hist[n]
  BY AppendProperties, LenProperties
<1> HIDE DEF new
<1>2. new # <<>>
  BY <1>1
<1>3. LastIn(new) = f
  BY <1>1 DEF LastIn
<1>4. Len(new) - 1 = l
  BY <1>1
<1>5. EarlierIn(new) = FillSet(hist)
  BY <1>1, <1>4 DEF EarlierIn, FillSet
<1>6. \A n : n \in 1 .. Len(new) <=> n \in 1 .. l \/ n = l + 1
  BY <1>1
<1>7. FillSet(new) = FillSet(hist) \cup {f}
  BY <1>1, <1>6 DEF FillSet
<1> QED BY <1>1, <1>2, <1>3, <1>5, <1>7 DEF new

(* What a vector becomes is a vector. *)
LEMMA FillIsVector ==
  ASSUME NEW vec, IsVector(vec), NEW col, NEW value, NEW count, NEW off, NEW sel
  PROVE  /\ IsVector(FillColumn(vec, col, count, off)) /\ IsVector(FillVirtual(vec, value, count))
         /\ IsVector(SliceVector(vec, sel))
<1>1. \A t \in {"flat", "constant", "dictionary", "undefined"} : \A data, invalid, s :
         IsVector([vtype |-> t, data |-> data, invalid |-> invalid, sel |-> s])
  BY DEF IsVector
<1>2. /\ vec = [vtype |-> vec.vtype, data |-> vec.data, invalid |-> vec.invalid, sel |-> vec.sel]
      /\ vec.vtype \in {"flat", "constant", "dictionary", "undefined"}
  BY DEF IsVector
<1>3. IsVector([vec EXCEPT !.vtype = "undefined"])
  <2>1. [vec EXCEPT !.vtype = "undefined"]
          = [vtype |-> "undefined", data |-> vec.data, invalid |-> vec.invalid, sel |-> vec.sel]
    BY <1>2
  <2> QED BY <1>1, <2>1
<1>8. IsVector(FillConstantColumn(vec, col))
  <2> DEFINE new == FillConstantColumn(vec, col)
             is_null == Len(col.data) = 0 \/ (col.null_count > 0 /\ BitIsSet(col, 0))
  <2>1. CASE is_null
    <3>1. new = [vec EXCEPT !.vtype = "constant", !.data = @, !.invalid = @ \cup {0}]
      BY <2>1 DEF FillConstantColumn
    <3>2. new = [vtype |-> "constant", data |-> vec.data, invalid |-> vec.invalid \cup {0}, sel |-> vec.sel]
      BY <3>1 DEF IsVector
    <3> QED BY <1>1, <3>2
  <2>2. CASE ~is_null
    <3>1. new = [vec EXCEPT !.vtype = "constant", !.data = Slots(col, 1, 0), !.invalid = @]
      BY <2>2 DEF FillConstantColumn
    <3>2. new = [vtype |-> "constant", data |-> Slots(col, 1, 0), invalid |-> vec.invalid, sel |-> vec.sel]
      BY <3>1 DEF IsVector
    <3> QED BY <1>1, <3>2
  <2> QED BY <2>1, <2>2
<1>9. IsVector(FillFlatColumn(vec, col, count, off))
  <2> DEFINE new == FillFlatColumn(vec, col, count, off)
             d == Slots(col, count, off)
             mask == NullMask(col, count, off)
  <2>1. new = [vec EXCEPT !.data = d, !.invalid = @ \cup mask]
    BY DEF FillFlatColumn
  <2>2. new = [vtype |-> vec.vtype, data |-> d, invalid |-> vec.invalid \cup mask, sel |-> vec.sel]
    <3> HIDE DEF new, d, mask
    <3> QED BY <2>1 DEF IsVector
  <2> HIDE DEF new, d, mask
  <2> QED BY <1>1, <1>2, <2>2 DEF new
<1>10. IsVector(FillColumn(vec, col, count, off))
  BY <1>3, <1>8, <1>9 DEF FillColumn
<1>11. IsVector(FillVirtual(vec, value, count))
  <2> DEFINE d == [i \in 1 .. count |-> value]
  <2>1. [vec EXCEPT !.data = d]
          = [vtype |-> vec.vtype, data |-> d, invalid |-> vec.invalid, sel |-> vec.sel]
    <3> HIDE DEF d
    <3> QED BY <1>2
  <2>2. IsVector([vec EXCEPT !.data = d])
    <3> HIDE DEF d
    <3> QED BY <1>1, <1>2, <2>1
  <2> QED BY <1>3, <2>2 DEF FillVirtual
<1>12. IsVector(SliceVector(vec, sel))
  <2> DEFINE d == IF vec.vtype = "flat" THEN sel ELSE [i \in DOMAIN sel |-> vec.sel[sel[i] + 1]]
             new == [vec EXCEPT !.vtype = "dictionary", !.sel = d]
  <2>0. new = [vec EXCEPT !.vtype = "dictionary", !.sel = d]
    OBVIOUS
  <2>1. new = [vtype |-> "dictionary", data |-> vec.data, invalid |-> vec.invalid, sel |-> d]
    <3> HIDE DEF d, new
    <3> QED BY <2>0 DEF IsVector
  <2>2. IsVector(new)
    <3> HIDE DEF d, new
    <3> QED BY <1>1, <2>1
  <2> QED BY <2>2 DEF SliceVector
<1> QED BY <1>10, <1>11, <1>12

(* The rows that a fill puts into the chunk. *)
RowsOf(b, off, n) == [k \in 1 .. n |-> <<b, off + k - 1>>]

(* The value of a virtual column goes into its vector. *)
LEMMA EmitVirtual ==
  ASSUME NEW id, IsVirtualColumn(id), NEW vec, NEW rows, NEW hist \in Seq(Fill),
         VectorInv(id, vec, rows, hist),
         NEW b \in Nat, NEW off \in Nat, NEW n \in Nat, NEW value,
         \A i \in Nat : StoredValue(id, b, i) = value
  PROVE  VectorInv(id, FillVirtual(vec, value, n), RowsOf(b, off, n),
                   Append(hist, [block |-> b, offset |-> off, count |-> n]))
<1> DEFINE f == [block |-> b, offset |-> off, count |-> n]
           hist2 == Append(hist, f)
           new == FillVirtual(vec, value, n)
           rows2 == RowsOf(b, off, n)
<1>1. f \in Fill
  BY DEF Fill
<1> HIDE DEF f
<1>2. hist2 \in Seq(Fill) /\ hist2 # <<>> /\ EarlierIn(hist2) = FillSet(hist)
      /\ EarlierIn(hist) \subseteq FillSet(hist)
  BY <1>1, FillAdded, FillsOf
<1>3. IsVector(vec) /\ IsVector(new)
  BY FillIsVector DEF VectorInv
<1>4. \A c : ~IsConstant(id, c)
  BY DEF IsConstant
<1> HIDE DEF hist2, new, rows2
<1>5. ASSUME ~IsDisturbed(id, new, hist2) PROVE vec.vtype = "flat" /\ vec.invalid = {}
  <2>1. vec.vtype \notin {"dictionary", "undefined"}
    <3> SUFFICES ASSUME vec.vtype \in {"dictionary", "undefined"} PROVE FALSE
      OBVIOUS
    <3>1. new = [vec EXCEPT !.vtype = "undefined"]
      BY DEF new, FillVirtual
    <3>2. new.vtype = "undefined"
      BY <1>3, <3>1 DEF IsVector
    <3> QED BY <1>5, <3>2 DEF IsDisturbed
  <2>2. CASE hist = <<>>
    BY <2>2 DEF VectorInv, FreshVector
  <2>3. CASE hist # <<>>
    <3>1. ~IsDisturbed(id, vec, hist)
      BY <1>4, <2>1 DEF IsDisturbed
    <3>2. Filled(id, vec, rows, hist)
      BY <2>3, <3>1 DEF VectorInv, Copied
    <3> QED BY <1>4, <2>1, <3>2 DEF Filled
  <2> QED BY <2>2, <2>3
<1>6. ASSUME ~IsDisturbed(id, new, hist2) PROVE Filled(id, new, rows2, hist2)
  <2> DEFINE d == [i \in 1 .. n |-> value]
  <2>1. vec.vtype = "flat" /\ vec.invalid = {}
    BY <1>5, <1>6
  <2>2. new = [vec EXCEPT !.data = d]
    BY <2>1 DEF new, FillVirtual
  <2>3. new = [vtype |-> "flat", data |-> d, invalid |-> {}, sel |-> vec.sel]
    <3> HIDE DEF d
    <3> QED BY <1>3, <2>1, <2>2 DEF IsVector
  <2>4. ASSUME NEW k \in 1 .. n PROVE ReadVector(new, k - 1) = value
    <3>1. k - 1 < Len(d) /\ d[k - 1 + 1] = value
      BY <2>4
    <3> HIDE DEF d
    <3> QED BY <2>3, <3>1 DEF ReadVector, At
  <2>5. ASSUME NEW k \in DOMAIN rows2 PROVE RowGood(id, new, k, rows2[k], hist2)
    <3>1. k \in 1 .. n /\ rows2[k] = <<b, off + k - 1>> /\ off + k - 1 \in Nat
      BY DEF rows2, RowsOf
    <3>2. StoredValue(id, rows2[k][1], rows2[k][2]) = value
      BY <3>1
    <3> QED BY <2>4, <3>1, <3>2 DEF RowGood
  <2>6. new.vtype = "flat" /\ new.invalid = {}
    BY <2>3
  <2> QED BY <2>5, <2>6 DEF Filled
<1> QED BY <1>2, <1>3, <1>6 DEF VectorInv, hist2, new, rows2, f

(* Before a fill that leaves the slots as they are written, the vector is flat and its
   cleared bits are NULLs of fills. *)
LEMMA BeforeFill ==
  ASSUME NEW id, ~IsVirtualColumn(id), Copied(id), NEW vec, NEW rows, NEW hist \in Seq(Fill),
         VectorInv(id, vec, rows, hist), vec.vtype \notin {"dictionary", "undefined"},
         \A f \in FillSet(hist) : ~IsConstant(id, f.block)
  PROVE  vec.vtype = "flat" /\ \A i \in vec.invalid : \E f \in FillSet(hist) : NullIn(id, f, i)
<1>1. CASE hist = <<>>
  BY <1>1 DEF VectorInv, FreshVector
<1>2. CASE hist # <<>>
  <2>1. ~IsConstant(id, LastIn(hist).block) /\ ~IsDisturbed(id, vec, hist)
    BY <1>2, FillsOf DEF IsDisturbed
  <2>2. Filled(id, vec, rows, hist)
    BY <1>2, <2>1 DEF VectorInv
  <2> QED BY <2>1, <2>2 DEF Filled
<1> QED BY <1>1, <1>2

(* A column of a block goes into its vector. *)
LEMMA EmitColumn ==
  ASSUME NEW id, ~IsVirtualColumn(id), NEW vec, NEW rows, NEW hist \in Seq(Fill),
         VectorInv(id, vec, rows, hist),
         NEW b \in Nat, NEW off \in Nat, NEW n \in Nat, NEW c,
         c = scan.blocks[b].columns[DeclaredSeqnum(id)], WellFormed(c), off + n <= Len(c.values),
         c.oid = scan.manifest.columns[id].oid, c.width = scan.manifest.columns[id].width,
         c.oid \in DOMAIN MOTypeToDuckDB,
         \A i \in Nat : StoredValue(id, b, i) = c.values[i + 1]
  PROVE  VectorInv(id, FillColumn(vec, Decode(c), n, off), RowsOf(b, off, n),
                   Append(hist, [block |-> b, offset |-> off, count |-> n]))
<1> DEFINE f == [block |-> b, offset |-> off, count |-> n]
           hist2 == Append(hist, f)
           new == FillColumn(vec, Decode(c), n, off)
           rows2 == RowsOf(b, off, n)
<1>1. f \in Fill /\ f.block = b /\ f.offset = off /\ f.count = n
  BY DEF Fill
<1> HIDE DEF f
<1>2. hist2 \in Seq(Fill) /\ hist2 # <<>> /\ LastIn(hist2) = f
      /\ EarlierIn(hist2) = FillSet(hist) /\ FillSet(hist2) = FillSet(hist) \cup {f}
  BY <1>1, FillAdded
<1>3. IsVector(vec) /\ IsVector(new)
  BY FillIsVector DEF VectorInv
<1>4. IsConstant(id, b) <=> c.form # "flat"
  BY DEF IsConstant
<1>5. Len(c.values) \in Nat /\ DOMAIN c.values = 1 .. Len(c.values)
  BY DEF WellFormed
<1>6. \A k : k \in DOMAIN rows2 <=> k \in 1 .. n
  BY DEF RowsOf
<1>7. \A k \in 1 .. n : /\ rows2[k][1] = b /\ rows2[k][2] = off + (k - 1)
                        /\ StoredValue(id, b, off + (k - 1)) = c.values[off + (k - 1) + 1]
  <2> TAKE k \in 1 .. n
  <2>1. rows2[k] = <<b, off + k - 1>> /\ off + k - 1 = off + (k - 1) /\ off + (k - 1) \in Nat
    BY DEF RowsOf
  <2>2. StoredValue(id, b, off + (k - 1)) = c.values[off + (k - 1) + 1]
    <3> DEFINE i == off + (k - 1)
    <3>1. i \in Nat
      BY <2>1
    <3> HIDE DEF i
    <3> QED BY <3>1 DEF i
  <2> HIDE DEF rows2
  <2> QED BY <2>1, <2>2
<1> HIDE DEF hist2, new, rows2
<1>8. ASSUME Copied(id), ~IsDisturbed(id, new, hist2) PROVE Filled(id, new, rows2, hist2)
  <2>1. \A g \in FillSet(hist) : ~IsConstant(id, g.block)
    BY <1>2, <1>8 DEF IsDisturbed
  <2>2. vec.vtype \notin {"dictionary", "undefined"}
    <3> SUFFICES ASSUME vec.vtype \in {"dictionary", "undefined"} PROVE FALSE
      OBVIOUS
    <3>1. new = [vec EXCEPT !.vtype = "undefined"]
      BY DEF new, FillColumn
    <3>2. new.vtype = "undefined"
      BY <1>3, <3>1 DEF IsVector
    <3> QED BY <1>8, <3>2 DEF IsDisturbed
  <2>3. vec.vtype = "flat" /\ \A i \in vec.invalid : \E g \in FillSet(hist) : NullIn(id, g, i)
    BY <1>8, <2>1, <2>2, BeforeFill
  <2> DEFINE oid == c.oid
             width == c.width
             values == c.values
  <2>4. Fits(oid, width)
    BY <1>8 DEF Fits, Copied
  <2>5. Typed(oid, values)
    BY <2>4 DEF Fits, Typed, WellFormed
  <2>6. CASE c.form = "flat"
    <3> DEFINE mask == {i \in 0 .. n - 1 : values[off + i + 1] = Null}
    <3>1. Decode(c) = FlatColumn(oid, width, values)
      BY <2>6 DEF Decode
    <3>a. new = FillColumn(vec, FlatColumn(oid, width, values), n, off)
      BY <3>1 DEF new
    <3> HIDE DEF oid, width, values, mask
    <3>2. off + n <= Len(values)
      BY DEF values
    <3>3. /\ new.vtype = "flat" /\ Len(new.data) = n
          /\ \A i \in 0 .. n - 1 : values[off + i + 1] # Null => new.data[i + 1] = values[off + i + 1]
          /\ new.invalid = vec.invalid \cup mask
      <4>1. FlatFilled(new, vec, values, off, n)
        BY <1>3, <2>3, <2>4, <2>5, <3>a, <3>2, FlatFill
      <4> QED BY <4>1 DEF FlatFilled, mask
    <3>4. ASSUME NEW k \in 1 .. n PROVE RowGood(id, new, k, rows2[k], hist2)
      <4> DEFINE i == k - 1
      <4>1. i \in 0 .. n - 1 /\ i \in Nat
        OBVIOUS
      <4>2. SlotIn(id, rows2[k], hist2) = i
        <5>1. ~IsConstant(id, rows2[k][1])
          BY <1>4, <1>7, <2>6
        <5>2. SlotIn(id, rows2[k], hist2) = (off + i) - off
          BY <1>1, <1>2, <1>7, <5>1 DEF SlotIn
        <5> QED BY <4>1, <5>2
      <4>3. StoredValue(id, rows2[k][1], rows2[k][2]) = values[off + i + 1]
        BY <1>7 DEF values
      <4>4. CASE i \in new.invalid
        <5>1. ReadVector(new, i) = Null
          BY <3>3, <4>4 DEF ReadVector
        <5>2. CASE i \in mask
          BY <4>3, <5>1, <5>2 DEF mask, RowGood
        <5>3. CASE i \in vec.invalid
          BY <1>2, <2>3, <4>2, <5>1, <5>3 DEF RowGood
        <5> QED BY <3>3, <4>4, <5>2, <5>3
      <4>5. CASE i \notin new.invalid
        <5>1. i \notin mask
          BY <3>3, <4>5
        <5>2. values[off + i + 1] # Null
          BY <4>1, <5>1 DEF mask
        <5>3. ReadVector(new, i) = new.data[i + 1]
          BY <3>3, <4>1, <4>5 DEF ReadVector, At
        <5> QED BY <3>3, <4>1, <4>3, <5>2, <5>3 DEF RowGood
      <4> QED BY <4>4, <4>5
    <3>5. ASSUME NEW i \in new.invalid PROVE \E g \in FillSet(hist2) : NullIn(id, g, i)
      <4>1. CASE i \in vec.invalid
        BY <1>2, <2>3, <4>1
      <4>2. CASE i \in mask
        <5>1. i \in 0 .. n - 1 /\ values[off + i + 1] = Null
          BY <4>2 DEF mask
        <5>2. i < n
          <6>1. PICK j \in 0 .. n - 1 : j = i
            BY <5>1
          <6> QED BY <6>1
        <5>3. NullIn(id, f, i)
          <6>1. StoredValue(id, b, off + i) = values[off + i + 1]
            <7>1. off + i \in Nat
              BY <5>1
            <7> QED BY <7>1 DEF values
          <6> QED BY <1>1, <5>1, <5>2, <6>1 DEF NullIn
        <5> QED BY <1>2, <5>3
      <4> QED BY <3>3, <4>1, <4>2
    <3> QED BY <1>6, <3>3, <3>4, <3>5 DEF Filled
  <2>7. CASE c.form # "flat"
    <3>1. IsConstant(id, LastIn(hist2).block)
      BY <1>1, <1>2, <1>4, <2>7
    <3>2. ASSUME NEW k \in 1 .. n PROVE RowGood(id, new, k, rows2[k], hist2)
      <4> DEFINE v == c.values[1]
      <4>1. 1 \in DOMAIN c.values
        BY <1>5
      <4>2. v = Null \/ v \in ValuesOf(oid)
        BY <2>5, <4>1 DEF Typed
      <4>3. off + (k - 1) + 1 \in DOMAIN c.values
        <5> DEFINE l == Len(c.values)
        <5>1. l \in Nat /\ off + n <= l
          BY <1>5
        <5> HIDE DEF l
        <5>2. off + (k - 1) + 1 \in 1 .. l
          BY <5>1
        <5> QED BY <1>5, <5>2 DEF l
      <4>4. StoredValue(id, rows2[k][1], rows2[k][2]) = v
        BY <1>7, <2>7, <4>3 DEF WellFormed
      <4>5. Decode(c) = ConstantColumn(oid, width, v, Len(values))
        BY <2>7 DEF Decode
      <4>a. new = FillColumn(vec, ConstantColumn(oid, width, v, Len(values)), n, off)
        BY <4>5 DEF new
      <4>6. SlotIn(id, rows2[k], hist2) = 0
        BY <1>4, <1>7, <2>7 DEF SlotIn
      <4> HIDE DEF v, oid, width, values
      <4>7. /\ new.vtype = "constant"
            /\ v = Null => 0 \in new.invalid
            /\ v # Null => Len(new.data) = 1 /\ new.data[1] = v /\ new.invalid = vec.invalid
        <5>1. ConstantFilled(new, vec, v)
          BY <1>3, <2>3, <2>4, <4>2, <4>a, ConstantFill
        <5> QED BY <5>1 DEF ConstantFilled
      <4>8. CASE 0 \in new.invalid
        <5>1. ReadVector(new, k - 1) = Null
          BY <4>7, <4>8 DEF ReadVector
        <5>2. CASE v = Null
          BY <4>4, <5>1, <5>2 DEF RowGood
        <5>3. CASE v # Null
          BY <1>2, <2>3, <4>6, <4>7, <4>8, <5>1, <5>3 DEF RowGood
        <5> QED BY <5>2, <5>3
      <4>9. CASE 0 \notin new.invalid
        <5>1. v # Null
          BY <4>7, <4>9
        <5>2. ReadVector(new, k - 1) = v
          BY <4>7, <4>9, <5>1 DEF ReadVector, At
        <5> QED BY <4>4, <5>2 DEF RowGood
      <4> QED BY <4>8, <4>9
    <3> QED BY <1>6, <3>1, <3>2 DEF Filled
  <2> QED BY <2>6, <2>7
<1> QED BY <1>2, <1>3, <1>8 DEF VectorInv, hist2, new, rows2, f

(* Rows are chosen out of the chunk. *)
LEMMA SliceKeeps ==
  ASSUME NEW id, NEW vec, NEW rows, NEW hist, hist # <<>>, VectorInv(id, vec, rows, hist),
         NEW sel, \A k \in DOMAIN sel : sel[k] \in Nat /\ sel[k] + 1 \in DOMAIN rows,
         DOMAIN sel \subseteq Nat
  PROVE  VectorInv(id, SliceVector(vec, sel), [k \in DOMAIN sel |-> rows[sel[k] + 1]], hist)
<1> DEFINE new == SliceVector(vec, sel)
           rows2 == [k \in DOMAIN sel |-> rows[sel[k] + 1]]
<1>1. IsVector(vec) /\ IsVector(new)
  BY FillIsVector DEF VectorInv
<1>2. CASE vec.vtype \in {"constant", "undefined"}
  <2>1. new = vec
    BY <1>2 DEF SliceVector
  <2>2. ASSUME NEW k \in DOMAIN sel PROVE ReadVector(new, k - 1) = ReadVector(vec, (sel[k] + 1) - 1)
    BY <1>2, <2>1 DEF ReadVector
  <2> QED BY <2>1, <2>2 DEF VectorInv, Filled, RowGood
<1>3. CASE vec.vtype \in {"flat", "dictionary"}
  <2> DEFINE d == IF vec.vtype = "flat" THEN sel ELSE [i \in DOMAIN sel |-> vec.sel[sel[i] + 1]]
  <2>1. new = [vec EXCEPT !.vtype = "dictionary", !.sel = d]
    BY <1>3 DEF SliceVector
  <2>2. \A k \in DOMAIN sel : d[k] = IF vec.vtype = "flat" THEN sel[k] ELSE vec.sel[sel[k] + 1]
    OBVIOUS
  <2> HIDE DEF new, d
  <2>3. new = [vtype |-> "dictionary", data |-> vec.data, invalid |-> vec.invalid, sel |-> d]
    BY <1>1, <2>1 DEF IsVector
  <2>4. ASSUME NEW k \in DOMAIN sel PROVE ReadVector(new, k - 1) = ReadVector(vec, (sel[k] + 1) - 1)
    <3>1. k - 1 + 1 = k /\ (sel[k] + 1) - 1 = sel[k] /\ (sel[k] + 1) - 1 + 1 = sel[k] + 1
      OBVIOUS
    <3>2. d[k] = IF vec.vtype = "flat" THEN (sel[k] + 1) - 1 ELSE vec.sel[(sel[k] + 1) - 1 + 1]
      BY <2>2, <3>1
    <3>3. ReadVector(new, k - 1) = IF d[k] \in vec.invalid THEN Null ELSE At(vec.data, d[k])
      BY <2>3, <3>1 DEF ReadVector
    <3>4. ReadVector(vec, (sel[k] + 1) - 1) = IF d[k] \in vec.invalid THEN Null ELSE At(vec.data, d[k])
      BY <1>3, <3>2 DEF ReadVector
    <3> QED BY <3>3, <3>4
  <2>5. new.vtype = "dictionary" /\ new.invalid = vec.invalid
    BY <2>3
  <2>6. ASSUME Copied(id), ~IsDisturbed(id, new, hist) PROVE Filled(id, new, rows2, hist)
    <3>1. ~IsDisturbed(id, vec, hist)
      BY <1>3, <2>6 DEF IsDisturbed
    <3>2. Filled(id, vec, rows, hist)
      BY <2>6, <3>1 DEF VectorInv
    <3>3. ASSUME NEW k \in DOMAIN sel PROVE RowGood(id, new, k, rows2[k], hist)
      <4>1. RowGood(id, vec, sel[k] + 1, rows[sel[k] + 1], hist)
        BY <3>2 DEF Filled
      <4> QED BY <2>4, <4>1 DEF RowGood
    <3>4. DOMAIN rows2 = DOMAIN sel
      OBVIOUS
    <3> HIDE DEF rows2
    <3> QED BY <2>5, <3>2, <3>3, <3>4 DEF Filled
  <2> QED BY <1>1, <2>6 DEF VectorInv, new
<1> QED BY <1>1, <1>2, <1>3 DEF IsVector

---------------------------------------------------------------------------
(* The chunk *)

(* What a slot of the chunk is filled with. *)
LEMMA PlaceFacts ==
  ASSUME ThreadInv, pc \notin {"bind", "init", "failed"}, ReadInv, NEW oi \in DOMAIN OutputMap
  PROVE  /\ PlaceOf(oi) \in DOMAIN query.column_ids
         /\ gstate.output_map[oi] = OutputColumn(PlaceOf(oi))
         /\ IdOf(oi) = query.column_ids[PlaceOf(oi)]
<1> DEFINE ids == IF HasProj THEN query.projection_ids ELSE query.column_ids
<1>1. query.projection_ids \in Seq(DOMAIN query.column_ids)
  BY OutputChunkAssumption DEF ThreadInv, query
<1>2. gstate.output_map = OutputMap /\ OutputMap = [i \in 1 .. Len(ids) |-> OutputColumn(PlaceOf(i))]
  BY DEF ReadInv, SetUp, OutputMap
<1>3. PlaceOf(oi) \in DOMAIN query.column_ids
  <2>1. CASE HasProj
    <3>1. oi \in 1 .. Len(query.projection_ids)
      BY <1>2, <2>1
    <3> QED BY <1>1, <2>1, <3>1, ElementOfSeq DEF PlaceOf
  <2>2. CASE ~HasProj
    BY <1>2, <2>2, ScanFacts DEF PlaceOf
  <2> QED BY <2>1, <2>2
<1> HIDE DEF ids
<1> QED BY <1>2, <1>3 DEF IdOf

(* The table, and what is meant to be in a vector, stay. *)
LEMMA VectorsUnchanged ==
  ASSUME scan' = scan
  PROVE  /\ OutputMap' = OutputMap /\ Honest' = Honest /\ \A oi : IdOf(oi)' = IdOf(oi)
         /\ \A id, vec, rows, hist : VectorInv(id, vec, rows, hist)' <=> VectorInv(id, vec, rows, hist)
<1>1. OutputMap' = OutputMap /\ Honest' = Honest /\ \A oi : IdOf(oi)' = IdOf(oi)
  BY DEF OutputMap, OutputColumn, DecodedPos, PlaceOf, HasProj, IsVirtualColumn, VCOL_BLOCK_ID, Honest,
         DeclaredSeqnum, IdOf, query
<1>2. /\ \A id, b, i : StoredValue(id, b, i)' = StoredValue(id, b, i)
      /\ \A id, b : IsConstant(id, b)' <=> IsConstant(id, b)
      /\ \A id : Copied(id)' <=> Copied(id)
  BY DEF StoredValue, IsConstant, Copied, DeclaredSeqnum, IsVirtualColumn, VCOL_BLOCK_ID
<1>3. ASSUME NEW id, NEW vec, NEW rows, NEW hist
      PROVE  VectorInv(id, vec, rows, hist)' <=> VectorInv(id, vec, rows, hist)
  <2>1. \A row : SlotIn(id, row, hist)' = SlotIn(id, row, hist)
    BY <1>2 DEF SlotIn
  <2>2. \A f, slot : NullIn(id, f, slot)' <=> NullIn(id, f, slot)
    BY <1>2 DEF NullIn
  <2>3. \A k, row : RowGood(id, vec, k, row, hist)' <=> RowGood(id, vec, k, row, hist)
    BY <1>2, <2>1, <2>2 DEF RowGood
  <2>4. IsDisturbed(id, vec, hist)' <=> IsDisturbed(id, vec, hist)
    BY <1>2 DEF IsDisturbed
  <2>5. Filled(id, vec, rows, hist)' <=> Filled(id, vec, rows, hist)
    BY <1>2, <2>2, <2>3 DEF Filled
  <2> QED BY <1>2, <2>4, <2>5 DEF VectorInv
<1> QED BY <1>1, <1>3

(* A chunk without rows. *)
LEMMA NoRows ==
  ASSUME NEW id, NEW vec, NEW rows, NEW hist, VectorInv(id, vec, rows, hist)
  PROVE  VectorInv(id, vec, <<>>, hist)
<1>1. DOMAIN <<>> = {}
  BY EmptySeq
<1> QED BY <1>1 DEF VectorInv, Filled

(* A chunk that DuckDB has reset. *)
LEMMA FreshChunk ==
  ASSUME NEW id PROVE VectorInv(id, FreshVector, <<>>, <<>>)
<1>1. IsVector(FreshVector)
  BY DEF IsVector, FreshVector
<1> QED BY <1>1 DEF VectorInv

(* A step that leaves the scan as it is. *)
LEMMA ChunkNext ==
  ASSUME scan' = scan, fills' \in Seq(Fill), fills' = <<>> => source' = <<>>,
         DOMAIN output' \subseteq DOMAIN OutputMap,
         Honest => \A oi \in DOMAIN output' : VectorInv(IdOf(oi), output'[oi], source', fills')
  PROVE  ChunkInv'
<1>1. ASSUME NEW oi, NEW id, NEW vec, NEW rows, NEW hist, VectorInv(id, vec, rows, hist),
             id = IdOf(oi)', vec = output'[oi], rows = source', hist = fills'
      PROVE  VectorInv(IdOf(oi), output[oi], source, fills)'
  <2>1. VectorInv(id, vec, rows, hist)'
    BY <1>1, VectorsUnchanged
  <2> QED BY <1>1, <2>1
<1>2. ASSUME Honest', NEW oi \in DOMAIN output'
      PROVE  VectorInv(IdOf(oi), output[oi], source, fills)'
  <2>1. IdOf(oi)' = IdOf(oi) /\ Honest
    BY <1>2, VectorsUnchanged
  <2>2. VectorInv(IdOf(oi), output'[oi], source', fills')
    BY <1>2, <2>1
  <2> QED BY <1>1, <2>1, <2>2
<1> QED BY <1>2, VectorsUnchanged DEF ChunkInv

(* Steps that leave the chunk alone, or drop its rows. *)
LEMMA ChunkKept ==
  ASSUME ChunkInv, scan' = scan, UNCHANGED <<output, fills>>, source' = source \/ source' = <<>>
  PROVE  ChunkInv'
<1>1. Honest => \A oi \in DOMAIN output : VectorInv(IdOf(oi), output[oi], source', fills)
  BY NoRows DEF ChunkInv
<1> QED BY <1>1, ChunkNext DEF ChunkInv

(* Filtering and sampling choose rows of the chunk, which has some. *)
LEMMA ChunkSliced ==
  ASSUME ChunkInv, SourceInv, scan' = scan, fills' = fills, NEW sel \in Selections(Len(source)), sel # <<>>,
         Slice(sel)
  PROVE  ChunkInv'
<1> DEFINE n == Len(source)
           rows == [k \in DOMAIN sel |-> source[sel[k] + 1]]
<1>1. n \in Nat /\ DOMAIN source = 1 .. n
  BY RowRefFacts DEF SourceInv
<1>2. PICK m \in 0 .. n : sel \in [1 .. m -> 0 .. n - 1]
  BY DEF Selections
<1>3. m \in Nat /\ DOMAIN sel = 1 .. m /\ m # 0
  BY <1>1, <1>2
<1>4. \A k \in DOMAIN sel : sel[k] \in Nat /\ sel[k] + 1 \in DOMAIN source
  <2> TAKE k \in DOMAIN sel
  <2>1. PICK r \in 0 .. n - 1 : r = sel[k]
    BY <1>2, <1>3
  <2>2. r \in Nat /\ r + 1 \in 1 .. n
    BY <1>1
  <2> QED BY <1>1, <2>1, <2>2
<1>5. fills # <<>>
  <2>1. 1 \in DOMAIN sel
    BY <1>3
  <2>2. DOMAIN source # {}
    BY <1>4, <2>1
  <2>3. source # <<>>
    BY <2>2, EmptySeq
  <2> QED BY <2>3 DEF ChunkInv
<1>6. source' = rows /\ DOMAIN output' = DOMAIN output
      /\ \A oi \in DOMAIN output : output'[oi] = SliceVector(output[oi], sel)
  BY DEF Slice
<1>7. ASSUME Honest, NEW oi \in DOMAIN output PROVE VectorInv(IdOf(oi), output'[oi], source', fills)
  <2> DEFINE id == IdOf(oi)
             vec == output[oi]
  <2>1. VectorInv(id, vec, source, fills)
    BY <1>7 DEF ChunkInv
  <2>2. DOMAIN sel \subseteq Nat
    BY <1>3
  <2> HIDE DEF id, vec
  <2>3. VectorInv(id, SliceVector(vec, sel), rows, fills)
    BY <1>4, <1>5, <2>1, <2>2, SliceKeeps
  <2> QED BY <1>6, <2>3 DEF id, vec
<1> HIDE DEF rows
<1> QED BY <1>5, <1>6, <1>7, ChunkNext DEF ChunkInv

(* A fill: each vector gets the column or virtual column of its slot. *)
LEMMA ChunkFilled ==
  ASSUME IInv, ReadInv, ChunkInv, Emit
  PROVE  ChunkInv'
<1> DEFINE b == pending_block
           off == pending_offset
           n == ChunkRows
           f == [block |-> b, offset |-> off, count |-> n]
<1>1. /\ pc = "emit" /\ scan' = scan /\ fills' = Append(fills, f) /\ source' = RowsOf(b, off, n)
      /\ DOMAIN output' = DOMAIN output
  BY DEF Emit, RowsOf
<1>2. ThreadInv /\ n \in Nat /\ off \in Nat /\ off + n <= pending_total_rows
  BY ChunkRowsFacts DEF IInv
<1>3. b \in Nat /\ b \in DOMAIN scan.blocks
  <2>1. b > 0 /\ b \in 0 .. Len(scan.blocks)
    BY <1>1, <1>2 DEF ReadInv, ThreadInv
  <2> QED BY <1>2, <2>1, ScanFacts
<1>4. off + n <= scan.blocks[b].rows
  <2>1. scan.blocks[b].rows \in Nat
    BY <1>2, <1>3, ScanFacts
  <2> DEFINE r == scan.blocks[b].rows
  <2>2. pending_total_rows = 0 \/ pending_total_rows = r
    BY <1>2 DEF ThreadInv
  <2> HIDE DEF r, n
  <2>3. off + n <= r
    BY <1>2, <2>1, <2>2 DEF r
  <2> QED BY <2>3 DEF r
<1>5. fills \in Seq(Fill) /\ f \in Fill
  BY <1>2, <1>3 DEF ChunkInv, Fill
<1>6. fills' \in Seq(Fill) /\ fills' # <<>>
  BY <1>1, <1>5, FillAdded
<1>7. \A oi \in DOMAIN output :
        LET om == gstate.output_map[oi]
        IN  output'[oi] = IF om.kind = "TAE_COLUMN"
                          THEN FillColumn(output[oi], pending_cols[om.decoded_pos], n, off)
                          ELSE FillVirtual(output[oi], VirtualValue(om.kind, b), n)
  BY DEF Emit
<1> HIDE DEF n
<1>8. ASSUME Honest, NEW oi \in DOMAIN output
      PROVE  VectorInv(IdOf(oi), output'[oi], source', fills')
  <2> DEFINE id == IdOf(oi)
             vec == output[oi]
             p == PlaceOf(oi)
             om == gstate.output_map[oi]
  <2>1. p \in DOMAIN query.column_ids /\ om = OutputColumn(p) /\ id = query.column_ids[p]
    <3>1. oi \in DOMAIN OutputMap /\ pc \notin {"bind", "init", "failed"}
      BY <1>1, <1>8 DEF ChunkInv
    <3> QED BY <1>2, <3>1, PlaceFacts
  <2>2. VectorInv(id, vec, source, fills)
    BY <1>8 DEF ChunkInv
  <2>3. CASE IsVirtualColumn(id)
    <3> DEFINE value == VirtualValue(om.kind, b)
    <3>1. om.kind = IF id = VCOL_BLOCK_ID THEN "VCOL_BLOCK_ID" ELSE "VCOL_FILENAME"
      BY <2>1, <2>3 DEF OutputColumn
    <3>2. \A i \in Nat : StoredValue(id, b, i) = value
      BY <2>3, <3>1 DEF StoredValue, VirtualValue
    <3>3. output'[oi] = FillVirtual(vec, value, n)
      BY <1>7, <3>1
    <3> HIDE DEF id, vec, om, value, b, off
    <3>4. VectorInv(id, FillVirtual(vec, value, n), RowsOf(b, off, n), Append(fills, f))
      BY <1>2, <1>3, <1>5, <2>2, <2>3, <3>2, EmitVirtual
    <3> HIDE DEF f
    <3> QED BY <1>1, <3>3, <3>4 DEF id
  <2>4. CASE ~IsVirtualColumn(id)
    <3> DEFINE c == scan.blocks[b].columns[DeclaredSeqnum(id)]
               k == DecodedPos(p)
    <3>1. /\ id \in DOMAIN scan.manifest.columns /\ k \in DOMAIN ReadSeqnums
          /\ ReadSeqnums[k] = DeclaredSeqnum(id)
          /\ c.oid = scan.manifest.columns[id].oid /\ c.width = scan.manifest.columns[id].width
          /\ WellFormed(c) /\ Len(c.values) = scan.blocks[b].rows
      <4>1. pc \notin {"bind", "failed"}
        BY <1>1
      <4> QED BY <1>2, <1>3, <1>8, <2>1, <2>4, <4>1, ColumnRead
    <3>2. c.oid \in DOMAIN MOTypeToDuckDB
      <4>1. Accepted(scan.manifest)
        BY <1>1, <1>2 DEF ThreadInv
      <4> QED BY <3>1, <4>1 DEF Accepted, TypesAccepted
    <3>3. pending_cols[k] = Decode(c)
      <4>1. gstate.read_seqnums = ReadSeqnums /\ pending_cols = ReadBlock(b)
        BY <1>1, <1>2 DEF ThreadInv, ReadInv
      <4> QED BY <3>1, <4>1 DEF ReadBlock
    <3>4. output'[oi] = FillColumn(vec, Decode(c), n, off)
      <4>1. om.kind = "TAE_COLUMN" /\ om.decoded_pos = k
        BY <2>1, <2>4 DEF OutputColumn
      <4> QED BY <1>7, <3>3, <4>1
    <3>5. \A i \in Nat : StoredValue(id, b, i) = c.values[i + 1]
      <4>1. id # VCOL_BLOCK_ID
        BY <1>2, <2>4, ScanFacts DEF IsVirtualColumn, VCOL_BLOCK_ID
      <4> QED BY <2>4, <4>1 DEF StoredValue
    <3>6. off + n <= Len(c.values)
      BY <1>4, <3>1
    <3>7. c = scan.blocks[b].columns[DeclaredSeqnum(id)]
      OBVIOUS
    <3> HIDE DEF id, vec, c, b, off
    <3>8. VectorInv(id, FillColumn(vec, Decode(c), n, off), RowsOf(b, off, n), Append(fills, f))
      BY <1>2, <1>3, <1>5, <2>2, <2>4, <3>1, <3>2, <3>5, <3>6, <3>7, EmitColumn
    <3> HIDE DEF f
    <3> QED BY <1>1, <3>4, <3>8 DEF id
  <2> QED BY <2>3, <2>4
<1> HIDE DEF f, b, off
<1> QED BY <1>1, <1>6, <1>8, ChunkNext DEF ChunkInv

(* ChunkInv is inductive relative to IInv and ReadInv. *)
LEMMA ChunkStep == IInv /\ ReadInv /\ ChunkInv /\ [Next]_vars => ChunkInv'
<1> SUFFICES ASSUME IInv, ReadInv, ChunkInv, [Next]_vars PROVE ChunkInv'
  OBVIOUS
<1>1. CASE Bind \/ BindThrows \/ InitScan \/ InitThrows \/ NextBlock \/ Exhausted \/ Over \/ UNCHANGED vars
  <2>1. CASE Bind \/ BindThrows \/ InitScan \/ InitThrows \/ NextBlock \/ Exhausted
    BY <2>1, ChunkKept DEF Bind, BindThrows, InitScan, InitThrows, NextBlock, Exhausted, chunk_vars
  <2>2. CASE Over \/ UNCHANGED vars
    BY <2>2, ChunkKept DEF Over, vars, chunk_vars
  <2> QED BY <1>1, <2>1, <2>2
<1>2. CASE Call
  <2>1. /\ scan' = scan /\ fills' = <<>> /\ source' = <<>>
        /\ output' = [oi \in DOMAIN gstate.output_map |-> FreshVector]
        /\ gstate.output_map = OutputMap
    BY <1>2 DEF Call, ReadInv, SetUp
  <2>2. fills' \in Seq(Fill)
    BY <2>1, EmptySeq
  <2>3. DOMAIN output' = DOMAIN OutputMap /\ \A oi \in DOMAIN output' : output'[oi] = FreshVector
    BY <2>1
  <2>4. \A oi \in DOMAIN output' : VectorInv(IdOf(oi), output'[oi], source', fills')
    BY <2>1, <2>3, FreshChunk
  <2> QED BY <2>1, <2>2, <2>3, <2>4, ChunkNext
<1>3. CASE Emit
  BY <1>3, ChunkFilled
<1>4. CASE ApplyRowFilters
  <2>1. PICK sel \in Selections(ChunkRows) :
          IF Len(sel) \in {0, ChunkRows} THEN UNCHANGED <<output, source>> ELSE Slice(sel)
    BY <1>4 DEF ApplyRowFilters
  <2>2. pc = "filter" /\ scan' = scan /\ fills' = fills
    BY <1>4 DEF ApplyRowFilters
  <2>3. CASE Len(sel) \in {0, ChunkRows}
    BY <2>1, <2>2, <2>3, ChunkKept
  <2>4. CASE Len(sel) \notin {0, ChunkRows}
    <3>1. sel \in Selections(Len(source)) /\ SourceInv
      BY <2>2 DEF IInv, SourceInv
    <3>2. sel # <<>>
      BY <2>4
    <3> QED BY <2>1, <2>2, <2>4, <3>1, <3>2, ChunkSliced
  <2> QED BY <2>3, <2>4
<1>5. CASE Sample
  <2>1. PICK sel \in Selections(Len(source)) :
          \/ sel # <<>> /\ Slice(sel)
          \/ UNCHANGED output /\ (source' = source \/ source' = <<>>)
    BY <1>5 DEF Sample
  <2>2. scan' = scan /\ fills' = fills
    BY <1>5 DEF Sample
  <2> QED BY <2>1, <2>2, ChunkKept, ChunkSliced DEF IInv
<1> QED BY <1>1, <1>2, <1>3, <1>4, <1>5 DEF Next

LEMMA ChunkInit == Init => ChunkInv
<1> SUFFICES ASSUME Init PROVE ChunkInv
  OBVIOUS
<1>1. <<>> \in Seq(Fill) /\ DOMAIN <<>> = {}
  BY EmptySeq
<1> QED BY <1>1 DEF Init, ChunkInv

LEMMA ChunkRowsExact == ChunkInv => RowsExact
<1> SUFFICES ASSUME ChunkInv, source # <<>>, Honest, NEW oi \in DOMAIN output, NEW k \in DOMAIN source,
                    Copied(IdOf(oi)), ~Disturbed(oi)
             PROVE  LET id == IdOf(oi)
                        got == ReadVector(output[oi], k - 1)
                    IN  \/ got = StoredValue(id, source[k][1], source[k][2])
                        \/ got = Null /\ ~IsVirtualColumn(id) /\ NullBefore(id, SlotOf(id, k))
  BY DEF RowsExact, ChunkReturned
<1> DEFINE id == IdOf(oi)
           vec == output[oi]
<1>1. fills # <<>> /\ VectorInv(id, vec, source, fills)
  BY DEF ChunkInv
<1>2. Earlier = EarlierIn(fills)
  BY DEF Earlier, EarlierIn
<1>3. ~IsDisturbed(id, vec, fills)
  BY <1>2 DEF Disturbed, IsDisturbed
<1>4. RowGood(id, vec, k, source[k], fills)
  BY <1>1, <1>3 DEF VectorInv, Filled
<1>5. SlotIn(id, source[k], fills) = SlotOf(id, k)
  BY DEF SlotIn, SlotOf, LastIn
<1> QED BY <1>2, <1>4, <1>5 DEF RowGood, NullBefore, NullIn

---------------------------------------------------------------------------
(* The results *)

(* Throughout a scan the thread's fields agree with one another: in the middle of a
   block it has the block's columns and rows, beyond its last row it has none, and
   every row of the chunk comes from a row of a block. *)
THEOREM TypeCorrect == Spec => []TypeOK
<1>1. IInv => TypeOK
  <2> SUFFICES ASSUME IInv PROVE TypeOK
    OBVIOUS
  <2>1. pending_block \in 0 .. next_block
    <3>1. next_block \in Nat /\ pending_block = next_block
      BY ScanFacts DEF IInv, ThreadInv
    <3> QED BY <3>1
  <2>2. ASSUME NEW k \in DOMAIN source
        PROVE  source[k][2] \in 0 .. scan.blocks[source[k][1]].rows - 1
    <3>1. source[k][2] \in Nat
      BY RowRefFacts DEF IInv, SourceInv
    <3>2. PICK b \in DOMAIN scan.blocks : b = source[k][1] /\ source[k][2] < scan.blocks[b].rows
      BY DEF IInv, SourceInv
    <3>3. scan.blocks[b].rows \in Nat
      BY ScanFacts DEF IInv
    <3> QED BY <3>1, <3>2, <3>3
  <2> QED BY <2>1, <2>2 DEF IInv, ThreadInv, TypeOK
<1> QED BY <1>1, Invariant, PTL

(* Whatever the filters drop and the samples keep, in however many fills of the chunk,
   no row reaches DuckDB twice or before one that is stored earlier. *)
THEOREM DeliveredInOrder == Spec => []InStoredOrder
<1>1. IInv => InStoredOrder
  BY DEF IInv, OrderInv, Ordered, Before, InStoredOrder
<1> QED BY <1>1, Invariant, PTL

(* An expression that the scan told DuckDB it could take it can take apart, and a
   query on a bound manifest fails for a type without an encoding only. *)
THEOREM PushdownIsKept == Spec => []PushdownKept
<1>1. Init => FailInv
  BY DEF Init, FailInv, PushdownKept
<1>2. IInv /\ FailInv /\ [Next]_vars => FailInv'
  BY FailuresStep
<1>3. FailInv => PushdownKept
  BY DEF FailInv
<1> QED BY <1>1, <1>2, <1>3, Invariant, PTL DEF Spec

(* A query that does not sample gets, when its scan is over, the rows of its WHERE clause
   and no others: on an honest manifest, with filters on flat columns whose constants
   can be encoded, what the pushed filters drop does not satisfy them, what they let
   through does, and DuckDB tests the rest. *)
THEOREM SelectionIsExact == Spec => []SelectionExact
<1>1. Init => ReadInv /\ SelInv
  BY ReadInit DEF Init, SelInv
<1>2. IInv /\ ReadInv /\ [Next]_vars => ReadInv'
  BY ReadStep
<1>3. IInv /\ ReadInv /\ SelInv /\ [Next]_vars => SelInv'
  BY SelectionStep
<1>4. IInv /\ ReadInv /\ SelInv => SelectionExact
  BY SelectionDone
<1> QED BY <1>1, <1>2, <1>3, <1>4, Invariant, PTL DEF Spec

(* What DuckDB reads in a row of a returned chunk is what is stored for that row, through
   decoding, projection, refills, filtering and sampling; or NULL where a row of an
   earlier fill of the call had one in the same slot. *)
THEOREM ReturnedRowsExact == Spec => []RowsExact
<1>1. Init => ReadInv /\ ChunkInv
  BY ReadInit, ChunkInit
<1>2. IInv /\ ReadInv /\ [Next]_vars => ReadInv'
  BY ReadStep
<1>3. IInv /\ ReadInv /\ ChunkInv /\ [Next]_vars => ChunkInv'
  BY ChunkStep
<1>4. ChunkInv => RowsExact
  BY ChunkRowsExact
<1> QED BY <1>1, <1>2, <1>3, <1>4, Invariant, PTL DEF Spec

(* Where each call fills its chunk once, as without filters and sampling, nothing is left
   of other rows: all values of a returned chunk are the stored ones.  The finding about
   NULLs needs a second fill. *)
THEOREM OneFillExact ==
  Spec => [](ChunkReturned /\ Len(fills) = 1 =>
               \A oi \in DOMAIN output : \A k \in DOMAIN source :
                 Copied(IdOf(oi)) /\ output[oi].vtype # "undefined" =>
                   ReadVector(output[oi], k - 1) = StoredValue(IdOf(oi), source[k][1], source[k][2]))
<1>1. RowsExact =>
        (ChunkReturned /\ Len(fills) = 1 =>
           \A oi \in DOMAIN output : \A k \in DOMAIN source :
             Copied(IdOf(oi)) /\ output[oi].vtype # "undefined" =>
               ReadVector(output[oi], k - 1) = StoredValue(IdOf(oi), source[k][1], source[k][2]))
  <2> SUFFICES ASSUME RowsExact, ChunkReturned, Len(fills) = 1,
                      NEW oi \in DOMAIN output, NEW k \in DOMAIN source,
                      Copied(IdOf(oi)), output[oi].vtype # "undefined"
               PROVE  ReadVector(output[oi], k - 1) = StoredValue(IdOf(oi), source[k][1], source[k][2])
    OBVIOUS
  <2>1. Earlier = {}
    BY DEF Earlier
  <2>2. ~Disturbed(oi) /\ ~NullBefore(IdOf(oi), SlotOf(IdOf(oi), k))
    BY <2>1 DEF Disturbed, NullBefore
  <2> QED BY <2>2 DEF RowsExact
<1> QED BY <1>1, ReturnedRowsExact, PTL
=============================================================================
