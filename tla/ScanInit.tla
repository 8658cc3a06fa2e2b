----------------------------- MODULE ScanInit -----------------------------
(***************************************************************************)
(* TAEScanInit: from the bind data of a scan to its work units.  With      *)
(* filters, an object is dropped by the zone map of its sort key or its    *)
(* blocks are tested one by one; without, every block the manifest lists   *)
(* becomes a unit.  With ORDER BY ... LIMIT the units are sorted by the    *)
(* zone maps of the order column and cut where the limit is reached.       *)
(*                                                                         *)
(* Columns are identified by name; their values are integers (fixed-width  *)
(* types) or Null.  Objects and blocks are numbered from 1.                *)
(***************************************************************************)
EXTENDS ZoneMap, FiniteSets, Functions

CONSTANTS Columns,
          NoColumn,   \* sort_column_idx = -1, or no scan_order
          Binds       \* the bind data considered

VARIABLES
  bind,                           \* TAEScanBindData; never changes here
  phase,                          \* where TAEScanInit is
  obj, blk, any_block_passes,     \* its loop variables
  work_units, blocks_skipped, objects_skipped   \* the global state it builds

init_vars == <<bind, phase, obj, blk, any_block_passes, work_units, blocks_skipped,
               objects_skipped>>

---------------------------------------------------------------------------
(* The bind data *)

(* What a file holds: per block its rows, and a zone map per column that spans
   the column's values (or was never initialised).  An object has the counts and
   the sort key zone map of the manifest beside what its file holds. *)
Spans(z, values) ==
  z.inited => /\ z.min \in Int /\ z.max \in Int
              /\ \A v \in values \ {Null} : z.min <= v /\ v <= z.max

Column(block, c) == {block.rows[i][c] : i \in DOMAIN block.rows}

WellFormedObject(o, sort_column) ==
  /\ o.blocks \in Nat
  /\ o.file \in Seq([rows : Seq([Columns -> Int \cup {Null}]),
                     zms : [Columns -> [inited : {FALSE}]
                                       \cup [inited : {TRUE}, min : Int, max : Int]]])
  /\ \A b \in DOMAIN o.file : \A c \in Columns : Spans(o.file[b].zms[c], Column(o.file[b], c))
  /\ o.sort_key_zm.inited \in BOOLEAN
  /\ sort_column # NoColumn =>
       Spans(o.sort_key_zm, UNION {Column(o.file[b], sort_column) : b \in DOMAIN o.file})

WellFormedBind(b) ==
  /\ Len(b.objects) \in Nat
  /\ DOMAIN b.objects = 1 .. Len(b.objects)
  /\ b.sort_column \in Columns \cup {NoColumn}
  /\ \A o \in DOMAIN b.objects : WellFormedObject(b.objects[o], b.sort_column)
  /\ b.filters \subseteq [column : Columns, filter : Filter(Int)]
  /\ b.order.column \in Columns \cup {NoColumn}
  /\ b.order.ascending \in BOOLEAN /\ b.order.use_min_stat \in BOOLEAN
  /\ b.order.row_limit \in Nat

ASSUME ScanInitAssumption ==
  /\ NoColumn \notin Columns
  /\ \A b \in Binds : WellFormedBind(b)

(* A filter on a column, as ExtractFilter pushes it. *)
Passes(test, row) == RowPassesFilter("fixed", test.filter, row[test.column])

(* All filters hold of a row. *)
RowPassesFilters(filters, row) == \A f \in filters : Passes(f, row)

BlockPassesFilters(filters, block) ==
  \A f \in filters : EvalFilterOnZoneMap("fixed", f.filter, block.zms[f.column])

(* Mutant: the sort key's zone map is asked about the filters of any column. *)
AnyColumnPassesFilters(filters, z, target) ==
  \A f \in filters : EvalFilterOnZoneMap("fixed", f.filter, z)

(* The zone map of one column is asked about the filters on that column. *)
ZoneMapPassesFilters(filters, z, target) ==
  \A f \in filters : f.column = target => EvalFilterOnZoneMap("fixed", f.filter, z)

(* The object's sort key zone map in the manifest; an empty one passes. *)
SortKeyPasses(o) ==
  bind.sort_column # NoColumn =>
    ZoneMapPassesFilters(bind.filters, o.sort_key_zm, bind.sort_column)

(* Mutant: blocks counted from 0 where the rest counts from 1. *)
UnitFromZero(o, b) == [object_idx |-> o, block_idx |-> b - 1]

Unit(o, b) == [object_idx |-> o, block_idx |-> b]

(* a[1] + ... + a[n]: the loops that add up counts of blocks or of rows. *)
SumTo(a, n) ==
  LET total[i \in 0 .. n] == IF i = 0 THEN 0 ELSE total[i - 1] + a[i]
  IN  total[n]

(* A loop over the blocks the manifest claims for an object. *)
ManifestUnits(o) == [b \in 1 .. bind.objects[o].blocks |-> Unit(o, b)]

---------------------------------------------------------------------------
Init ==
  /\ bind \in Binds
  /\ phase = "object"
  /\ obj = 1 /\ blk = 1
  /\ any_block_passes = FALSE
  /\ work_units = <<>>
  /\ blocks_skipped = 0 /\ objects_skipped = 0

AtObject == phase = "object" /\ obj <= Len(bind.objects)

(* No filters: the manifest's blocks, without opening the file. *)
ListObject ==
  /\ AtObject /\ bind.filters = {}
  /\ work_units' = work_units \o ManifestUnits(obj)
  /\ obj' = obj + 1
  /\ UNCHANGED <<bind, phase, blk, any_block_passes, blocks_skipped, objects_skipped>>

(* Mutant: a skipped object counts as one block. *)
BlocksOfSkippedOne(o) == 1

BlocksOfSkipped(o) == o.blocks

(* Fast path: the sort key alone rules the object out. *)
SkipObject ==
  /\ AtObject /\ bind.filters # {}
  /\ ~SortKeyPasses(bind.objects[obj])
  /\ blocks_skipped' = blocks_skipped + BlocksOfSkipped(bind.objects[obj])
  /\ objects_skipped' = objects_skipped + 1
  /\ obj' = obj + 1
  /\ UNCHANGED <<bind, phase, blk, any_block_passes, work_units>>

(* Slow path: the file is opened and its metadata read. *)
ReadMeta ==
  /\ AtObject /\ bind.filters # {}
  /\ SortKeyPasses(bind.objects[obj])
  /\ phase' = "blocks"
  /\ blk' = 1
  /\ any_block_passes' = FALSE
  /\ UNCHANGED <<bind, obj, work_units, blocks_skipped, objects_skipped>>

(* Mutant: the error can come after blocks were pushed. *)
ThrowsAnywhere == phase \in {"object", "blocks"}

(* Opening the file or reading its metadata is what can throw. *)
MayThrow == phase = "object"

(* catch (...): the manifest's blocks are taken instead. *)
Fallback ==
  /\ obj <= Len(bind.objects) /\ bind.filters # {}
  /\ MayThrow
  /\ SortKeyPasses(bind.objects[obj])
  /\ work_units' = work_units \o ManifestUnits(obj)
  /\ phase' = "object"
  /\ obj' = obj + 1
  /\ UNCHANGED <<bind, blk, any_block_passes, blocks_skipped, objects_skipped>>

File == bind.objects[obj].file

AtBlock == phase = "blocks" /\ blk <= Len(File)

KeepBlock ==
  /\ AtBlock /\ BlockPassesFilters(bind.filters, File[blk])
  /\ work_units' = Append(work_units, Unit(obj, blk))
  /\ any_block_passes' = TRUE
  /\ blk' = blk + 1
  /\ UNCHANGED <<bind, phase, obj, blocks_skipped, objects_skipped>>

DropBlock ==
  /\ AtBlock /\ ~BlockPassesFilters(bind.filters, File[blk])
  /\ blocks_skipped' = blocks_skipped + 1
  /\ blk' = blk + 1
  /\ UNCHANGED <<bind, phase, obj, any_block_passes, work_units, objects_skipped>>

EndObject ==
  /\ phase = "blocks" /\ blk > Len(File)
  /\ objects_skipped' = objects_skipped + (IF any_block_passes THEN 0 ELSE 1)
  /\ phase' = "object"
  /\ obj' = obj + 1
  /\ UNCHANGED <<bind, blk, any_block_passes, work_units, blocks_skipped>>

EndPruning ==
  /\ phase = "object" /\ obj > Len(bind.objects)
  /\ phase' = IF bind.order.column # NoColumn /\ work_units # <<>> THEN "order" ELSE "ready"
  /\ UNCHANGED <<bind, obj, blk, any_block_passes, work_units, blocks_skipped, objects_skipped>>

---------------------------------------------------------------------------
(* ORDER BY *)

InFile(u) == u.block_idx <= Len(bind.objects[u.object_idx].file)
BlockOf(u) == bind.objects[u.object_idx].file[u.block_idx]

(* GetZoneMap finds nothing for a block that the file does not have, and a zone
   map that was never initialised holds zeros. *)
OrderKey(u) ==
  IF ~InFile(u) THEN Null
  ELSE LET z == BlockOf(u).zms[bind.order.column]
       IN  IF ~z.inited THEN 0
           ELSE IF bind.order.use_min_stat THEN z.min ELSE z.max

BlockRowCount(u) == IF InFile(u) THEN Len(BlockOf(u).rows) ELSE 0

(* The comparison handed to std::sort: NULL keys go last in both directions. *)
Before(x, y) ==
  /\ x # Null
  /\ y = Null \/ (IF bind.order.ascending THEN x < y ELSE x > y)

Sorted(units) ==
  \A i, j \in DOMAIN units : i < j => ~Before(OrderKey(units[j]), OrderKey(units[i]))

Reorderings(units) ==
  {[i \in DOMAIN units |-> units[p[i]]] : p \in Bijection(DOMAIN units, DOMAIN units)}

(* std::sort may leave units with equal keys in any order. *)
SortUnits ==
  /\ phase = "order"
  /\ work_units' \in {units \in Reorderings(work_units) : Sorted(units)}
  /\ phase' = IF bind.order.row_limit > 0 THEN "truncate" ELSE "ready"
  /\ UNCHANGED <<bind, obj, blk, any_block_passes, blocks_skipped, objects_skipped>>

(* The readers of this phase are opened outside the try block. *)
SortFails ==
  /\ phase = "order"
  /\ phase' = "failed"
  /\ UNCHANGED <<bind, obj, blk, any_block_passes, work_units, blocks_skipped, objects_skipped>>

(* Rows in the first i units, before any filter. *)
RowsAvailable(i) == SumTo([n \in DOMAIN work_units |-> BlockRowCount(work_units[n])], i)

(* Mutant: the unit in which the limit is reached is cut off too. *)
ReachesLimitAfter(i) ==
  RowsAvailable(IF i = Len(work_units) THEN i ELSE i + 1) >= bind.order.row_limit

ReachesLimit(i) == RowsAvailable(i) >= bind.order.row_limit

(* resize(i + 1) at the first unit that reaches the limit. *)
Truncate ==
  /\ phase = "truncate"
  /\ IF \E i \in DOMAIN work_units : ReachesLimit(i)
     THEN \E i \in DOMAIN work_units :
            /\ ReachesLimit(i)
            /\ \A j \in 1 .. i - 1 : ~ReachesLimit(j)
            /\ work_units' = SubSeq(work_units, 1, i)
     ELSE UNCHANGED work_units
  /\ phase' = "ready"
  /\ UNCHANGED <<bind, obj, blk, any_block_passes, blocks_skipped, objects_skipped>>

InitStep ==
  \/ ListObject \/ SkipObject \/ ReadMeta \/ Fallback
  \/ KeepBlock \/ DropBlock \/ EndObject \/ EndPruning
  \/ SortUnits \/ SortFails \/ Truncate

(* TAEScanInit has returned or thrown. *)
Returned == phase \in {"ready", "failed"} /\ UNCHANGED init_vars

Next == InitStep \/ Returned

Spec == Init /\ [][Next]_init_vars

---------------------------------------------------------------------------
(* Properties *)

UnitsOfBind == [object_idx : 1 .. Len(bind.objects), block_idx : Nat \ {0}]

TypeOK ==
  /\ bind \in Binds
  /\ phase \in {"object", "blocks", "order", "truncate", "ready", "failed"}
  /\ obj \in 1 .. Len(bind.objects) + 1
  /\ blk \in Nat \ {0}
  /\ phase = "blocks" => obj <= Len(bind.objects)
  /\ any_block_passes \in BOOLEAN
  /\ work_units \in Seq(UnitsOfBind)
  /\ blocks_skipped \in Nat /\ objects_skipped \in Nat

(* The units of a plan, as a set. *)
Planned == {work_units[i] : i \in DOMAIN work_units}

(* No block is queued twice, whichever of the three loops queued it and however
   the units were sorted: TAEScanExecute would return its rows twice. *)
UnitsDistinct ==
  \A i, j \in DOMAIN work_units : i # j => work_units[i] # work_units[j]

(* The manifest counts the blocks of the object's file. *)
MatchesFile(o) == o.blocks = Len(o.file)

(* The objects whose fate is decided. *)
Decided == IF phase \in {"object", "blocks"} THEN 1 .. obj - 1 ELSE 1 .. Len(bind.objects)

(* The plan may have been cut to the limit. *)
MayBeCut == phase = "ready" /\ bind.order.row_limit > 0

(* A row of the block satisfies all filters. *)
HasMatch(o, b) ==
  \E i \in DOMAIN bind.objects[o].file[b].rows :
    RowPassesFilters(bind.filters, bind.objects[o].file[b].rows[i])

(* Pruning never costs a row: a block with a row that satisfies all filters is
   queued, whether its object was judged by its sort key, block by block, or
   taken unread after an error.  An order with a limit may cut it off later. *)
PruningKeepsMatches ==
  ~MayBeCut =>
    \A o \in Decided : MatchesFile(bind.objects[o]) =>
      \A b \in DOMAIN bind.objects[o].file : HasMatch(o, b) => Unit(o, b) \in Planned

(* Sum of the manifest's block counts over the first n objects. *)
BlocksUpTo(n) == SumTo([o \in DOMAIN bind.objects |-> bind.objects[o].blocks], n)

(* The skip counters of EXPLAIN ANALYZE are exact when the manifest matches the
   files: every block is queued or counted as skipped, and the objects skipped
   are those without a queued block. *)
PruneAccounting ==
  /\ bind.filters # {} /\ phase # "blocks" /\ ~MayBeCut
  /\ \A o \in DOMAIN bind.objects : MatchesFile(bind.objects[o]) /\ bind.objects[o].blocks > 0
  => /\ Len(work_units) + blocks_skipped = BlocksUpTo(Cardinality(Decided))
     /\ objects_skipped = Cardinality({o \in Decided : \A u \in Planned : u.object_idx # o})

---------------------------------------------------------------------------
(* ORDER BY ... LIMIT without filters *)

TableBlocks == {Unit(o, b) : o \in DOMAIN bind.objects, b \in UNION {DOMAIN bind.objects[o].file :
                                                               o \in DOMAIN bind.objects}}

OrderZoneMap(u) == BlockOf(u).zms[bind.order.column]

(* What the truncation relies on: the statistic that goes with the direction,
   a manifest that matches, and order values without NULLs, each block's between
   the ends of its zone map. *)
OrderUsable ==
  /\ bind.filters = {} /\ bind.order.use_min_stat = bind.order.ascending
  /\ \A o \in DOMAIN bind.objects : MatchesFile(bind.objects[o])
  /\ \A u \in TableBlocks : InFile(u) =>
       OrderZoneMap(u).inited /\ Null \notin Column(BlockOf(u), bind.order.column)

(* No two blocks share a value or the range between two values. *)
Separated ==
  \A u, v \in TableBlocks : InFile(u) /\ InFile(v) /\ u # v =>
    OrderZoneMap(u).max < OrderZoneMap(v).min \/ OrderZoneMap(v).max < OrderZoneMap(u).min

(* The queued rows that come no later in the order than x. *)
QueuedUpTo(x) ==
  UNION {{<<u, i>> : i \in {j \in DOMAIN BlockOf(u).rows :
                              ~Before(x, BlockOf(u).rows[j][bind.order.column])}} :
           u \in Planned}

(* Every row that was cut off has row_limit queued rows that come no later, so
   some answer to ORDER BY ... LIMIT is among the queued rows. *)
CutRowsArePastLimit ==
  \A u \in TableBlocks \ Planned : InFile(u) =>
    \A i \in DOMAIN BlockOf(u).rows :
      Cardinality(QueuedUpTo(BlockOf(u).rows[i][bind.order.column])) >= bind.order.row_limit

(* The cut keeps an answer when no two blocks overlap in the order column,
   whatever the order the manifest lists them in and however many blocks the
   limit spans. *)
TopNKept == MayBeCut /\ OrderUsable /\ Separated => CutRowsArePastLimit

(* test_scan_filters.cpp:80, "ORDER BY ASC LIMIT returns correct values", for
   blocks that may overlap. *)
TopNKeptOverlapping ==
  MayBeCut /\ OrderUsable /\ bind.order.ascending => CutRowsArePastLimit
===========================================================================
