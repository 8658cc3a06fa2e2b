------------------------------ MODULE TaeScan ------------------------------
(***************************************************************************)
(* A whole scan: TAEScanInit makes the plan, then the threads of           *)
(* TAEScanExecute work it off.  The two share the global state: the work   *)
(* units, which the threads only read, and the counter of skipped blocks.  *)
(*                                                                         *)
(* Here the rows of a file have values, so what the threads deliver can be *)
(* compared with what the table holds.  Bind data has two more fields than *)
(* ScanInit needs: read_columns (some column is read) and do_sample; and   *)
(* an object also has the row count of the manifest, rows.                 *)
(***************************************************************************)
EXTENDS ScanInit

CONSTANTS Threads, VectorSize, RowsPerBlock, WordMod

(* DuckDB runs a pipeline on one thread at least. *)
ASSUME TaeScanAssumption ==
  /\ Threads # {}
  /\ VectorSize \in Nat \ {0} /\ RowsPerBlock \in Nat \ {0} /\ WordMod \in Nat \ {0}
  /\ \A b \in Binds :
       /\ b.read_columns \in BOOLEAN /\ b.do_sample \in BOOLEAN
       /\ \A o \in DOMAIN b.objects : b.objects[o].rows \in Nat

VARIABLES
  next_work_unit, blocks_scanned, rows_emitted,
  pc, wu_idx, reader_object_idx,
  pending_total_rows, pending_offset, pending_unit,
  query, delivered, sampled_out

thread_vars == <<next_work_unit, blocks_scanned, rows_emitted, pc, wu_idx, reader_object_idx,
                 pending_total_rows, pending_offset, pending_unit, query, delivered,
                 sampled_out>>

scan_vars == <<init_vars, thread_vars>>

(* A block as the threads tell blocks apart. *)
AsFileBlock(block) ==
  [rows |-> Len(block.rows),
   match |-> {i \in DOMAIN block.rows : RowPassesFilters(bind.filters, block.rows[i])},
   zm_pass |-> BlockPassesFilters(bind.filters, block)]

AsObject(o) ==
  [rows |-> o.rows, blocks |-> o.blocks,
   file |-> [b \in 1 .. Len(o.file) |-> AsFileBlock(o.file[b])]]

(* What the threads see of the global state that TAEScanInit built.  A filter
   reads its column. *)
Plan ==
  [objects |-> [o \in 1 .. Len(bind.objects) |-> AsObject(bind.objects[o])],
   work_units |-> work_units,
   read_seqnums |-> bind.read_columns \/ bind.filters # {},
   filters |-> bind.filters # {},
   do_sample |-> bind.do_sample]

Exec == INSTANCE ScanExec WITH scan <- Plan, Scans <- {}

ScanStart == Init /\ Exec!ThreadsInit

Plans == InitStep /\ UNCHANGED thread_vars

Executes ==
  /\ phase = "ready"
  /\ UNCHANGED <<bind, phase, obj, blk, any_block_passes, work_units, objects_skipped>>
  /\ Exec!Next

(* An exception of TAEScanInit fails the query before a thread is started. *)
PlanFailed == phase = "failed" /\ UNCHANGED scan_vars

ScanNext == Plans \/ Executes \/ PlanFailed

ScanSpec == ScanStart /\ [][ScanNext]_scan_vars

---------------------------------------------------------------------------
(* Properties *)

(* A plan is what TAEScanExecute relies on: its units are distinct blocks of
   listed objects, and no block whose zone maps fail has a matching row. *)
PlanIsWellFormed == phase = "ready" => Exec!WellFormedScan(Plan)

(* Every thread was told that the scan is complete, and no plan was cut to a
   limit and no row sampled away. *)
WholeScanDone ==
  /\ phase = "ready" /\ \A t \in Threads : pc[t] = "done"
  /\ bind.order.row_limit = 0 /\ ~bind.do_sample

(* The rows of the table that satisfy all filters. *)
Answer ==
  UNION {UNION {{<<o, b, i>> : i \in AsFileBlock(bind.objects[o].file[b]).match}
                : b \in DOMAIN bind.objects[o].file}
         : o \in DOMAIN bind.objects}

(* Once all threads are done DuckDB has exactly the rows of the table that
   satisfy the filters: pruning by sort key and by block, the fallback after an
   unreadable object, the sorting of units, the recheck, the parallel
   hand-over, chunking and row filtering together lose none and add none. *)
QueryAnswer ==
  /\ WholeScanDone /\ ~Exec!FastPath(Plan)
  /\ \A o \in DOMAIN bind.objects : MatchesFile(bind.objects[o])
  => delivered = Answer

(* Sum of the manifest's row counts over the first n objects. *)
RowsUpTo(n) == SumTo([o \in DOMAIN bind.objects |-> bind.objects[o].rows], n)

(* COUNT( * ) without filters, answered from the manifest alone, gives the
   manifest's row count, however the code splits it over the blocks. *)
CountStar ==
  /\ WholeScanDone /\ Exec!FastPath(Plan)
  /\ \A o \in DOMAIN bind.objects : Exec!SplitsEvenly(bind.objects[o])
  => Cardinality(delivered) = RowsUpTo(Len(bind.objects))

(* test_scan_basic.cpp:200, "COUNT( * ) returns the manifest row count", for every
   manifest whose objects have blocks. *)
CountStarAlways ==
  WholeScanDone /\ Exec!FastPath(Plan) => Cardinality(delivered) = RowsUpTo(Len(bind.objects))

(* The blocks that EXPLAIN ANALYZE shows as scanned and as skipped, counted in
   three places of two functions, are all blocks of the table, when a scan without
   a row limit or sampling ends and the manifest matches the files. *)
AllBlocksAccounted ==
  /\ WholeScanDone /\ ~Exec!FastPath(Plan)
  /\ \A o \in DOMAIN bind.objects : MatchesFile(bind.objects[o])
  => blocks_scanned + blocks_skipped = BlocksUpTo(Len(bind.objects))
===========================================================================
