--------------------------- MODULE ScanStatistics ---------------------------
(***************************************************************************)
(* What the scan tells DuckDB about itself, beside the rows it then        *)
(* delivers: the statistics of a column and the number of rows, from which *)
(* the optimizer draws conclusions before the scan starts, and the         *)
(* progress while it runs.                                                 *)
(*                                                                         *)
(* The values of columns are integers, as in TaeScan.  Statistics of       *)
(* strings go through DuckDB's StringStats and are left out.               *)
(***************************************************************************)
EXTENDS TaeScan, FiniteSetsExt

CONSTANT MaxObjectsForStats     \* MAX_OBJECTS_FOR_STATS

ASSUME ScanStatisticsAssumption == MaxObjectsForStats \in Nat

(* What the statistics take from the writer of the table without looking: the
   manifest counts every row, and a column that has a value in a block has a zone
   map there. *)
ASSUME TrustedTables ==
  \A t \in Binds : \A o \in DOMAIN t.objects :
    LET file == t.objects[o].file
    IN  /\ SumTo([b \in DOMAIN file |-> Len(file[b].rows)], Len(file)) <= t.objects[o].rows
        /\ \A b \in DOMAIN file : \A c \in Columns :
             ~file[b].zms[c].inited => Column(file[b], c) \subseteq {Null}

NoStatistics == [known |-> FALSE]

(* The ends of a zone map as its bytes have them: one that was never initialised
   is all zeros, and the code does not ask. *)
MinBuf(z) == IF z.inited THEN z.min ELSE 0

(* Mutant: the maximum is read where the minimum is. *)
MaxBufOfMin(z) == MinBuf(z)

MaxBuf(z) == IF z.inited THEN z.max ELSE 0

FileBlocks == UNION {{bind.objects[o].file[b] : b \in DOMAIN bind.objects[o].file} :
                       o \in DOMAIN bind.objects}

(* TAEScanStatistics when every file can be read; otherwise it is NoStatistics. *)
ColumnStatistics(c) ==
  IF Len(bind.objects) > MaxObjectsForStats \/ FileBlocks = {} THEN NoStatistics
  ELSE [known |-> TRUE,
        min |-> Min({MinBuf(block.zms[c]) : block \in FileBlocks}),
        max |-> Max({MaxBuf(block.zms[c]) : block \in FileBlocks}),
        has_null |-> \E block \in FileBlocks : Null \in Column(block, c)]

(* TAEScanCardinality: an estimate and a maximum. *)
ScanCardinality == RowsUpTo(Len(bind.objects))

(* TAEScanProgress, in per cent. *)
ScanProgress ==
  LET total == BlocksUpTo(Len(bind.objects))
  IN  IF total = 0 THEN 100 ELSE ((blocks_scanned + blocks_skipped) * 100) \div total

---------------------------------------------------------------------------
(* Properties *)

Allows(stats, v) ==
  stats.known => IF v = Null THEN stats.has_null ELSE stats.min <= v /\ v <= stats.max

(* The optimizer may drop a comparison, a join side or a NULL check because of the
   statistics.  So every value of every delivered row lies between the minimum
   and the maximum, NULLs come only where they were announced, and there are no
   more rows than the cardinality: also with blocks of NULLs, whose zone map
   reads as 0, and with a manifest whose block counts are wrong. *)
PlannerWasTold ==
  /\ ~Exec!FastPath(Plan) =>
       \A r \in delivered : \A c \in Columns :
         Allows(ColumnStatistics(c), bind.objects[r[1]].file[r[2]].rows[r[3]][c])
  /\ (\A o \in DOMAIN bind.objects : Exec!SplitsEvenly(bind.objects[o])) =>
       Cardinality(delivered) <= ScanCardinality

(* Progress, made of counters that three places keep and one of them before the
   scan runs, stays within 0 and 100: no block counts twice on any path, whether
   pruned by the sort key, by its zone maps while planning or again while
   scanning, or taken unread after an error. *)
ProgressBounded ==
  (\A o \in DOMAIN bind.objects : MatchesFile(bind.objects[o]) \/ Exec!FastPath(Plan))
    => ScanProgress \in 0 .. 100
===========================================================================
