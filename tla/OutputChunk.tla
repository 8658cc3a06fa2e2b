---------------------------- MODULE OutputChunk ----------------------------
(***************************************************************************)
(* A scan as DuckDB's chunks show it: the manifest is bound, TAEScanInit   *)
(* resolves columns and filters, and one thread fills DuckDB's chunk with  *)
(* the rows of its blocks, filters it and samples it, possibly several     *)
(* times in a call before it has rows to return.                           *)
(*                                                                         *)
(* A scan is [manifest, blocks, query].  A block is                        *)
(*   [object, block_idx, rows, columns : seqnum -> stored column]          *)
(* with stored columns [oid, width, form, values]; blocks are those the    *)
(* thread is given and the zone maps do not reject.  A query has           *)
(*   column_ids       what DuckDB reads: columns, numbered from 1, and     *)
(*                    virtual columns, from VirtualColumnStart on          *)
(*   projection_ids   the places of column_ids it wants back, in order;    *)
(*                    empty for all                                        *)
(*   filters          [place, expr], by the place in column_ids            *)
(*   sample           NoSample or [percentage, size]                       *)
(* The path of a scan that reads no column is ScanExec's.                  *)
(***************************************************************************)
EXTENDS Manifest, OutputVectors

CONSTANTS Scans, VectorSize, VirtualColumnStart, NoSample

VARIABLES
  scan,           \* chosen at first, never changed
  bind,           \* TAEScanBindData
  gstate,         \* TAEScanState: read_seqnums, output_map, filters, do_sample
  pc,             \* where the scan or its thread is
  next_block,     \* blocks the thread has taken
  pending_cols, pending_block, pending_total_rows, pending_offset,
  output,         \* the vectors of DuckDB's chunk
  (* history *)
  fills,          \* what the chunk was filled with in this call, in order
  source,         \* the stored row behind each row of the chunk
  delivered       \* the stored rows given to DuckDB, in order

vars == <<scan, bind, gstate, pc, next_block, pending_cols, pending_block, pending_total_rows,
          pending_offset, output, fills, source, delivered>>

pending_vars == <<pending_cols, pending_block, pending_total_rows, pending_offset>>
chunk_vars == <<output, fills, source>>

query == scan.query

(* The numbers of virtual columns are beyond those of the table's.  DuckDB asks for
   columns of the schema, a filter is one of the expressions, with constants of its
   column's type, and each column of a block that is asked for has a value or NULL
   for every row. *)
ASSUME OutputChunkAssumption ==
  /\ VectorSize \in Nat \ {0} /\ VirtualColumnStart \in Nat
  /\ \A s \in Scans :
       /\ Len(s.blocks) \in Nat /\ DOMAIN s.blocks = 1 .. Len(s.blocks)
       /\ \A b \in DOMAIN s.blocks :
            /\ s.blocks[b].rows \in Nat
            /\ \A q \in DOMAIN s.blocks[b].columns :
                 q \in 0 .. SeqnumMax /\ WellFormed(s.blocks[b].columns[q])
       /\ s.query.column_ids \in Seq(Nat \ {0})
       /\ s.query.projection_ids \in Seq(DOMAIN s.query.column_ids)
       /\ \A f \in s.query.filters : f.expr \in Names /\ f.place \in DOMAIN s.query.column_ids
       /\ \A i \in DOMAIN s.manifest.columns : i < VirtualColumnStart
       /\ Accepted(s.manifest) =>
            \A i \in DOMAIN s.query.column_ids : LET id == s.query.column_ids[i] IN
              id < VirtualColumnStart =>
                /\ id \in DOMAIN s.manifest.columns
                /\ \A b \in DOMAIN s.blocks :
                     Len(s.blocks[b].columns[Seqnum(s.manifest, id)].values) = s.blocks[b].rows
                /\ \A f \in s.query.filters : \A n \in Conjuncts(f.expr) :
                     f.place = i => ComparedWith(n) \subseteq ValuesOf(s.manifest.columns[id].oid) \cup {Null}

---------------------------------------------------------------------------
(* TAEScanBind *)

NoBind == [all_col_types |-> <<>>]
NoState == [do_sample |-> FALSE]

Bind ==
  /\ pc = "bind" /\ Accepted(scan.manifest)
  /\ bind' = ParseManifest(scan.manifest)
  /\ pc' = "init"
  /\ UNCHANGED <<scan, gstate, next_block, pending_vars, chunk_vars, delivered>>

BindThrows ==
  /\ pc = "bind" /\ ~Accepted(scan.manifest)
  /\ pc' = "failed"
  /\ UNCHANGED <<scan, bind, gstate, next_block, pending_vars, chunk_vars, delivered>>

---------------------------------------------------------------------------
(* DuckDB's optimizer: the filters that the scan says it can take. *)

ColumnOf(f) == query.column_ids[f.place]

Pushed ==
  {f \in query.filters : SupportsPushdownType(bind, ColumnOf(f)) /\ SupportsFilterExpression(f.expr)}

---------------------------------------------------------------------------
(* TAEScanInit *)

VCOL_FILENAME == VirtualColumnStart
VCOL_BLOCK_ID == VirtualColumnStart + 1

IsVirtualColumn(id) == id >= VirtualColumnStart

(* col_ids_to_decoded: the place among the columns that are read. *)
DecodedPos(ci) == Cardinality({cj \in 1 .. ci : ~IsVirtualColumn(query.column_ids[cj])})

(* The places of column_ids that are columns of the table, in order. *)
TaePlaces ==
  LET places == {ci \in DOMAIN query.column_ids : ~IsVirtualColumn(query.column_ids[ci])}
  IN  [k \in 1 .. Cardinality(places) |-> CHOOSE ci \in places : DecodedPos(ci) = k]

ReadSeqnums == [k \in DOMAIN TaePlaces |-> bind.all_col_seqnums[query.column_ids[TaePlaces[k]]]]

HasProj == query.projection_ids # <<>> /\ Len(query.projection_ids) < Len(query.column_ids)

(* The place of column_ids behind slot oi of the chunk. *)
PlaceOf(oi) == IF HasProj THEN query.projection_ids[oi] ELSE oi

OutputColumn(ci) ==
  LET id == query.column_ids[ci]
  IN  IF ~IsVirtualColumn(id) THEN [kind |-> "TAE_COLUMN", decoded_pos |-> DecodedPos(ci)]
      ELSE [kind |-> IF id = VCOL_BLOCK_ID THEN "VCOL_BLOCK_ID" ELSE "VCOL_FILENAME",
            decoded_pos |-> 0]

OutputMap ==
  [oi \in 1 .. Len(IF HasProj THEN query.projection_ids ELSE query.column_ids) |->
     OutputColumn(PlaceOf(oi))]

(* A filter on a virtual column is passed over. *)
TaeFilters == {f \in Pushed : ~IsVirtualColumn(ColumnOf(f))}

OidOf(f) == bind.all_col_mo_oids[ColumnOf(f)]

(* The pushed filters, by the column among those read that each looks at. *)
Filters ==
  [k \in DOMAIN TaePlaces |->
     UNION {ExtractExpression(f.expr, OidOf(f)) : f \in {g \in TaeFilters : DecodedPos(g.place) = k}}]

(* Sampling by rows becomes a rate of the manifest's rows. *)
DoSample ==
  /\ query.sample # NoSample
  /\ IF query.sample.percentage THEN query.sample.size < 100
     ELSE bind.total_rows > 0 /\ query.sample.size < bind.total_rows

InitScan ==
  /\ pc = "init"
  /\ \A f \in TaeFilters : CanExtract(f.expr, OidOf(f))
  /\ gstate' = [read_seqnums |-> ReadSeqnums, output_map |-> OutputMap, filters |-> Filters,
                do_sample |-> DoSample]
  /\ pc' = "idle"
  /\ UNCHANGED <<scan, bind, next_block, pending_vars, chunk_vars, delivered>>

InitThrows ==
  /\ pc = "init"
  /\ \E f \in TaeFilters : ~CanExtract(f.expr, OidOf(f))
  /\ pc' = "failed"
  /\ UNCHANGED <<scan, bind, gstate, next_block, pending_vars, chunk_vars, delivered>>

---------------------------------------------------------------------------
(* TAEScanExecute *)

(* DuckDB calls with a chunk that it has reset. *)
Call ==
  /\ pc = "idle"
  /\ output' = [oi \in DOMAIN gstate.output_map |-> FreshVector]
  /\ fills' = <<>> /\ source' = <<>>
  /\ pc' = IF pending_offset < pending_total_rows THEN "emit" ELSE "dispatch"
  /\ UNCHANGED <<scan, bind, gstate, next_block, pending_vars, delivered>>

Decode(c) ==
  IF c.form = "flat" THEN FlatColumn(c.oid, c.width, c.values)
  ELSE ConstantColumn(c.oid, c.width, c.values[1], Len(c.values))

ReadBlock(b) ==
  [k \in DOMAIN gstate.read_seqnums |-> Decode(scan.blocks[b].columns[gstate.read_seqnums[k]])]

NextBlock ==
  LET b == next_block + 1
  IN  /\ pc = "dispatch" /\ b <= Len(scan.blocks)
      /\ next_block' = b
      /\ pending_cols' = ReadBlock(b) /\ pending_block' = b /\ pending_offset' = 0
      /\ pending_total_rows' = IF gstate.read_seqnums = <<>> THEN scan.blocks[b].rows
                               ELSE ReadBlock(b)[1].row_count
      /\ pc' = "emit"
      /\ UNCHANGED <<scan, bind, gstate, chunk_vars, delivered>>

(* No unit is left: no rows, and the scan is over. *)
Exhausted ==
  /\ pc = "dispatch" /\ next_block = Len(scan.blocks)
  /\ source' = <<>>
  /\ pc' = "done"
  /\ UNCHANGED <<scan, bind, gstate, next_block, pending_vars, output, fills, delivered>>

ChunkRows ==
  LET remaining == pending_total_rows - pending_offset
  IN  IF remaining < VectorSize THEN remaining ELSE VectorSize

VirtualValue(kind, b) ==
  IF kind = "VCOL_BLOCK_ID" THEN scan.blocks[b].block_idx
  ELSE scan.manifest.objects[scan.blocks[b].object].path

(* Fill the chunk, as the last call or the previous fill of this one left it. *)
Emit ==
  /\ pc = "emit"
  /\ output' = [oi \in DOMAIN output |->
                  LET om == gstate.output_map[oi]
                  IN  IF om.kind = "TAE_COLUMN"
                      THEN FillColumn(output[oi], pending_cols[om.decoded_pos], ChunkRows, pending_offset)
                      ELSE FillVirtual(output[oi], VirtualValue(om.kind, pending_block), ChunkRows)]
  /\ source' = [k \in 1 .. ChunkRows |-> <<pending_block, pending_offset + k - 1>>]
  /\ fills' = Append(fills, [block |-> pending_block, offset |-> pending_offset, count |-> ChunkRows])
  /\ pc' = "filter"
  /\ UNCHANGED <<scan, bind, gstate, next_block, pending_vars, delivered>>

(* What the filters may say together, verdicts(k, f) of them by themselves. *)
Together(verdicts(_, _)) ==
  {pass \in BOOLEAN :
     IF pass THEN \A k \in DOMAIN pending_cols : \A f \in gstate.filters[k] : TRUE \in verdicts(k, f)
     ELSE \E k \in DOMAIN pending_cols : \E f \in gstate.filters[k] : FALSE \in verdicts(k, f)}

(* Mutant: the verdict on a row of the chunk is that on the block's row of the
   same number. *)
OutcomesOfBlockRow(row) == Together(LAMBDA k, f : RowVerdicts(f, pending_cols[k], row))

(* The verdicts on a row of the chunk. *)
Outcomes(row) == Together(LAMBDA k, f : RowVerdicts(f, pending_cols[k], pending_offset + row))

(* DataChunk::Slice, DuckDB's: sel holds row numbers of the chunk. *)
Slice(sel) ==
  /\ output' = [oi \in DOMAIN output |-> SliceVector(output[oi], sel)]
  /\ source' = [k \in DOMAIN sel |-> source[sel[k] + 1]]

ReturnChunk == pc' = "idle" /\ delivered' = delivered \o source'

(* Mutant: the offset is not reset at the end of a block. *)
AdvanceNoReset ==
  LET next == pending_offset + ChunkRows
      more == next < pending_total_rows
  IN  /\ pending_offset' = next
      /\ pending_total_rows' = IF more THEN pending_total_rows ELSE 0
      /\ pending_cols' = IF more THEN pending_cols ELSE <<>>

(* Mutant: the offset is set to the chunk's rows, not moved by them. *)
AdvanceAssigns ==
  LET more == ChunkRows < pending_total_rows
  IN  /\ pending_offset' = IF more THEN ChunkRows ELSE 0
      /\ pending_total_rows' = IF more THEN pending_total_rows ELSE 0
      /\ pending_cols' = IF more THEN pending_cols ELSE <<>>

(* The offset moves on; at its end the block is let go. *)
Advance ==
  LET next == pending_offset + ChunkRows
      more == next < pending_total_rows
  IN  /\ pending_offset' = IF more THEN next ELSE 0
      /\ pending_total_rows' = IF more THEN pending_total_rows ELSE 0
      /\ pending_cols' = IF more THEN pending_cols ELSE <<>>

(* Rows of a chunk of n rows, in ascending order. *)
Selections(n) ==
  UNION {{sel \in [1 .. m -> 0 .. n - 1] : \A j, k \in 1 .. m : j < k => sel[j] < sel[k]} : m \in 0 .. n}

(* Without a row left the call goes on with the next chunk or block. *)
ApplyRowFilters ==
  /\ pc = "filter"
  /\ Advance
  /\ \E sel \in Selections(ChunkRows) :
       /\ \A row \in 0 .. ChunkRows - 1 : (\E k \in DOMAIN sel : sel[k] = row) \in Outcomes(row)
       /\ IF Len(sel) \in {0, ChunkRows} THEN UNCHANGED <<output, source>> ELSE Slice(sel)
       /\ \/ sel # <<>> /\ ~gstate.do_sample /\ ReturnChunk
          \/ sel # <<>> /\ gstate.do_sample /\ pc' = "sample" /\ UNCHANGED delivered
          \/ /\ sel = <<>>
             /\ pc' = IF pending_offset' < pending_total_rows' THEN "emit" ELSE "dispatch"
             /\ UNCHANGED delivered
  /\ UNCHANGED <<scan, bind, gstate, next_block, pending_block, fills>>

(* Bernoulli sampling keeps any rows.  If it keeps none the next chunk of the
   block follows, or the call returns no rows. *)
Sample ==
  /\ pc = "sample"
  /\ \E sel \in Selections(Len(source)) :
       \/ sel # <<>> /\ Slice(sel) /\ ReturnChunk
       \/ /\ sel = <<>> /\ pending_offset < pending_total_rows
          /\ pc' = "emit"
          /\ UNCHANGED <<output, source, delivered>>
       \/ /\ sel = <<>> /\ pending_offset >= pending_total_rows
          /\ pc' = "done" /\ source' = <<>>
          /\ UNCHANGED <<output, delivered>>
  /\ UNCHANGED <<scan, bind, gstate, next_block, pending_vars, fills>>

Over == pc \in {"done", "failed"} /\ UNCHANGED vars

Init ==
  /\ scan \in Scans
  /\ bind = NoBind /\ gstate = NoState
  /\ pc = "bind"
  /\ next_block = 0
  /\ pending_cols = <<>> /\ pending_block = 0 /\ pending_total_rows = 0 /\ pending_offset = 0
  /\ output = <<>> /\ fills = <<>> /\ source = <<>> /\ delivered = <<>>

Next ==
  \/ Bind \/ BindThrows \/ InitScan \/ InitThrows
  \/ Call \/ NextBlock \/ Exhausted \/ Emit \/ ApplyRowFilters \/ Sample \/ Over

Spec == Init /\ [][Next]_vars

---------------------------------------------------------------------------
(* Properties *)

Places == {"bind", "init", "idle", "dispatch", "emit", "filter", "sample", "done", "failed"}

(* The variables hold what their fields can hold: a thread in the middle of a
   block has the block's columns, one beyond its last row has none, and every
   row of the chunk comes from a row of a block. *)
TypeOK ==
  /\ scan \in Scans
  /\ pc \in Places
  /\ next_block \in 0 .. Len(scan.blocks) /\ pending_block \in 0 .. next_block
  /\ pending_offset \in 0 .. pending_total_rows
  /\ pc \in {"emit", "filter"} => Len(pending_cols) = Len(gstate.read_seqnums)
  /\ pending_total_rows = 0 \/ pending_total_rows = scan.blocks[pending_block].rows
  /\ \A k \in DOMAIN source : source[k][2] \in 0 .. scan.blocks[source[k][1]].rows - 1

(* A manifest as MatrixOne writes it names columns that the blocks have, of the type
   they have there. *)
DeclaredSeqnum(id) ==
  LET q == scan.manifest.columns[id].seqnum IN IF q = Absent THEN id - 1 ELSE q

Honest ==
  \A b \in DOMAIN scan.blocks : \A id \in DOMAIN scan.manifest.columns :
    /\ DeclaredSeqnum(id) \in DOMAIN scan.blocks[b].columns
    /\ LET c == scan.blocks[b].columns[DeclaredSeqnum(id)]
       IN  c.oid = scan.manifest.columns[id].oid /\ c.width = scan.manifest.columns[id].width

(* What the table holds for a column, virtual ones included, in a row. *)
StoredValue(id, b, i) ==
  IF id = VCOL_BLOCK_ID THEN scan.blocks[b].block_idx
  ELSE IF IsVirtualColumn(id) THEN scan.manifest.objects[scan.blocks[b].object].path
  ELSE scan.blocks[b].columns[DeclaredSeqnum(id)].values[i + 1]

IsConstant(id, b) ==
  ~IsVirtualColumn(id) /\ scan.blocks[b].columns[DeclaredSeqnum(id)].form # "flat"

ChunkReturned == pc = "idle" /\ source # <<>> /\ Honest

IdOf(oi) == query.column_ids[PlaceOf(oi)]

(* Fills of the chunk in this call before the last. *)
Earlier == {fills[n] : n \in 1 .. Len(fills) - 1}

(* The type's slots are as wide as its elements, and the scan fills them. *)
Copied(id) ==
  IsVirtualColumn(id) \/
    LET c == scan.manifest.columns[id]
    IN  c.oid # "array_float32" /\ (c.oid = "decimal64" => SlotSize(c.oid, c.width) = 8)

(* A fill before the last one left something behind that the last does not
   overwrite: it made the vector constant, or was sliced. *)
Disturbed(oi) ==
  \/ \E f \in Earlier : IsConstant(IdOf(oi), f.block)
  \/ output[oi].vtype = "undefined"

(* The slot that row k of the chunk is read from. *)
SlotOf(id, k) ==
  IF IsConstant(id, source[k][1]) THEN 0 ELSE source[k][2] - fills[Len(fills)].offset

(* An earlier fill had a NULL in the slot. *)
NullBefore(id, slot) ==
  \E f \in Earlier : slot < f.count /\ StoredValue(id, f.block, f.offset + slot) = Null

(* Every value that DuckDB reads in a returned chunk is the stored one of that
   column and row, through the columns' numbers in the object, projection,
   null bitmap words, string areas, epochs, slicing by filters and by sampling; but a
   call that fills the chunk again may turn a value into NULL where a row of an
   earlier fill had one, and nothing else. *)
RowsExact ==
  ChunkReturned =>
    \A oi \in DOMAIN output : \A k \in DOMAIN source :
      LET id == IdOf(oi)
          got == ReadVector(output[oi], k - 1)
      IN  Copied(id) /\ ~Disturbed(oi) =>
            \/ got = StoredValue(id, source[k][1], source[k][2])
            \/ got = Null /\ ~IsVirtualColumn(id) /\ NullBefore(id, SlotOf(id, k))

(* README.md:153, "All types support filter pushdown, null bitmaps, CONSTANT
   vectors": of a flat column of a type that is copied, what is returned as NULL
   is stored as NULL. *)
NullsAreStored ==
  ChunkReturned =>
    \A oi \in DOMAIN output : \A k \in DOMAIN source :
      LET id == IdOf(oi)
      IN  /\ Copied(id) /\ \A b \in DOMAIN scan.blocks : ~IsConstant(id, b)
          /\ ReadVector(output[oi], k - 1) = Null
          => StoredValue(id, source[k][1], source[k][2]) = Null

(* What DuckDB itself still tests on the rows it gets. *)
Kept == query.filters \ Pushed

FilterHolds(f, row) ==
  LET id == ColumnOf(f)
      kind == IF id \in DOMAIN bind.all_col_types /\ IsStringType(OidOf(f)) THEN "string" ELSE "fixed"
  IN  Holds(kind, f.expr, StoredValue(id, row[1], row[2]))

AllRows == UNION {{<<b, i>> : i \in 0 .. scan.blocks[b].rows - 1} : b \in DOMAIN scan.blocks}

(* The rows of constant columns cannot be told apart, and a constant that wraps
   means another value. *)
FilterIsExact(f) ==
  /\ \A b \in DOMAIN scan.blocks : ~IsConstant(ColumnOf(f), b)
  /\ \A n \in Conjuncts(f.expr) : \A c \in ComparedWith(n) :
       EncodeConstant(OidOf(f), c) = Stored(OidOf(f), c)

(* When the scan is over, the rows it delivered, once DuckDB has tested the
   expressions that were not pushed, are those that satisfy the whole WHERE
   clause: what the scan promised to test it tests, of what it drops nothing was
   needed.  That they come once and in the order in which they are stored is
   InStoredOrder. *)
SelectionExact ==
  pc = "done" /\ Honest /\ ~gstate.do_sample /\ (\A f \in TaeFilters : FilterIsExact(f)) =>
    {row \in {delivered[k] : k \in DOMAIN delivered} : \A f \in Kept : FilterHolds(f, row)}
      = {row \in AllRows : \A f \in query.filters : FilterHolds(f, row)}

(* Sampled or not, no row is delivered twice or before one that is stored
   earlier. *)
InStoredOrder ==
  \A j, k \in DOMAIN delivered :
    j < k => \/ delivered[j][1] < delivered[k][1]
             \/ delivered[j][1] = delivered[k][1] /\ delivered[j][2] < delivered[k][2]

(* An expression that the scan told DuckDB it could take it can take apart, and a
   bound manifest never fails a query, but for the types without an encoding. *)
PushdownKept ==
  pc = "failed" /\ bind # NoBind =>
    \E f \in TaeFilters : ~Encodable(OidOf(f))
===========================================================================
