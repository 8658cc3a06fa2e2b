----------------------------- MODULE ScanExec -----------------------------
(***************************************************************************)
(* TAEScanExecute: the threads of a parallel scan.  DuckDB calls the       *)
(* function on each thread again and again until a call returns no rows.   *)
(* A call drains the block the thread has pending or takes the next work   *)
(* unit from a shared counter, opens the object, rechecks the zone maps,   *)
(* reads the block and emits it in chunks of at most VectorSize rows.      *)
(*                                                                         *)
(* The scan itself (bind data and the parts of the global state that       *)
(* TAEScanInit builds) is a value chosen once: one of Scans.               *)
(***************************************************************************)
EXTENDS ScanTables, FiniteSets

CONSTANTS Threads,     \* the threads DuckDB runs the scan on
          VectorSize,  \* STANDARD_VECTOR_SIZE, 2048 in DuckDB
          Scans        \* the scans considered

VARIABLES
  scan,                \* objects, work_units, and what is read, filtered, sampled
  next_work_unit,      \* the shared counter
  blocks_scanned, blocks_skipped, rows_emitted,   \* shared statistics
  pc,                  \* where each thread is in TAEScanExecute
  wu_idx,              \* the work unit a thread works on; 0 when none
  reader_object_idx,   \* the object a thread's reader is open on; 0 when none
  pending_total_rows, pending_offset, pending_unit,  \* the block being emitted
  query,               \* "running", or "cancelled" by an error or by the driver
  delivered,           \* history: the rows returned to DuckDB
  sampled_out          \* history: the rows Bernoulli sampling dropped

shared == <<next_work_unit, blocks_scanned, blocks_skipped, rows_emitted>>
pending == <<pending_total_rows, pending_offset, pending_unit>>
history == <<delivered, sampled_out>>
vars == <<scan, shared, pc, wu_idx, reader_object_idx, pending, query, history>>

---------------------------------------------------------------------------
(* The scan *)

(* No column is read, no filter is pushed down and nothing is sampled: rows
   are counted from the manifest without opening a file. *)
FastPath(sc) == ~sc.read_seqnums /\ ~sc.filters /\ ~sc.do_sample

UnitObject(sc, u) == sc.objects[sc.work_units[u].object_idx]

(* The block of a unit exists in the object's file.  A manifest may claim
   more blocks than the file has. *)
InFile(sc, u) == sc.work_units[u].block_idx <= Len(UnitObject(sc, u).file)

UnitBlock(sc, u) == UnitObject(sc, u).file[sc.work_units[u].block_idx]

TotalRows(sc, u) ==
  IF FastPath(sc)
  THEN ManifestBlockRowCount(UnitObject(sc, u), sc.work_units[u].block_idx)
  ELSE UnitBlock(sc, u).rows

(* The rows of a unit that satisfy the filters. *)
PassingRows(sc, u) ==
  IF FastPath(sc) THEN 1 .. TotalRows(sc, u)
  ELSE IF ~InFile(sc, u) THEN {}
  ELSE IF sc.filters THEN UnitBlock(sc, u).match
  ELSE 1 .. UnitBlock(sc, u).rows

(* A row is known outside by its object, its block and its place there. *)
RowId(unit, r) == <<unit.object_idx, unit.block_idx, r>>

Units(sc) == 1 .. Len(sc.work_units)

(* Every row the work units of a scan should yield. *)
WantedRows(sc) ==
  UNION {{RowId(sc.work_units[u], r) : r \in PassingRows(sc, u)} : u \in Units(sc)}

WellFormedScan(sc) ==
  /\ sc \in [objects : Seq(Object), work_units : Seq(WorkUnit),
             read_seqnums : BOOLEAN, filters : BOOLEAN, do_sample : BOOLEAN]
  /\ \A u \in Units(sc) : sc.work_units[u].object_idx <= Len(sc.objects)
  /\ \A u, v \in Units(sc) : u # v => sc.work_units[u] # sc.work_units[v]
  /\ \A u \in Units(sc) : InFile(sc, u) =>
       /\ UnitBlock(sc, u).match \subseteq 1 .. UnitBlock(sc, u).rows
       /\ ~UnitBlock(sc, u).zm_pass => UnitBlock(sc, u).match = {}

(* TAEScanInit builds well-formed scans: the units are distinct, and a block
   whose zone maps fail the filters has no matching row. *)
ASSUME ScanExecAssumption ==
  /\ VectorSize \in Nat \ {0}
  /\ \A sc \in Scans : WellFormedScan(sc)

---------------------------------------------------------------------------
Pcs == {"idle", "dispatch", "open", "recheck", "read", "emit",
        "done", "failed", "stopped"}

NoUnit == [object_idx |-> 0, block_idx |-> 0]

(* The state the threads start from; blocks_skipped may have been counted up
   by TAEScanInit already. *)
ThreadsInit ==
  /\ next_work_unit = 0
  /\ blocks_scanned = 0
  /\ rows_emitted = 0
  /\ pc = [t \in Threads |-> "idle"]
  /\ wu_idx = [t \in Threads |-> 0]
  /\ reader_object_idx = [t \in Threads |-> 0]
  /\ pending_total_rows = [t \in Threads |-> 0]
  /\ pending_offset = [t \in Threads |-> 0]
  /\ pending_unit = [t \in Threads |-> NoUnit]
  /\ query = "running"
  /\ delivered = {}
  /\ sampled_out = {}

Init == scan \in Scans /\ blocks_skipped = 0 /\ ThreadsInit

Goto(t, label) == pc' = [pc EXCEPT ![t] = label]

(* DuckDB calls TAEScanExecute on a thread. *)
Call(t) ==
  /\ pc[t] = "idle"
  /\ Goto(t, IF pending_offset[t] < pending_total_rows[t] THEN "emit" ELSE "dispatch")
  /\ UNCHANGED <<scan, shared, wu_idx, reader_object_idx, pending, query, history>>

(* Mutant: a load and a store instead of fetch_add; of two threads that load
   the same value one increment is lost. *)
LoadAndStore(t) ==
  IF \E s \in Threads \ {t} : pc[s] = "dispatch"
  THEN next_work_unit ELSE next_work_unit + 1

(* fetch_add(1): what the counter holds after thread t took its value. *)
FetchAdd(t) == next_work_unit + 1

(* The call finds no unit left and returns no rows; the counter moves on. *)
Exhausted(t) ==
  /\ pc[t] = "dispatch"
  /\ next_work_unit >= Len(scan.work_units)
  /\ next_work_unit' = FetchAdd(t)
  /\ Goto(t, "done")
  /\ UNCHANGED <<scan, blocks_scanned, blocks_skipped, rows_emitted, wu_idx,
                 reader_object_idx, pending, query, history>>

(* A block is stored in the thread's local state, to be emitted in chunks. *)
SetPending(t, u) ==
  /\ pending_total_rows' = [pending_total_rows EXCEPT ![t] = TotalRows(scan, u)]
  /\ pending_offset' = [pending_offset EXCEPT ![t] = 0]
  /\ pending_unit' = [pending_unit EXCEPT ![t] = scan.work_units[u]]

Dispatch(t) ==
  /\ pc[t] = "dispatch"
  /\ next_work_unit < Len(scan.work_units)
  /\ next_work_unit' = FetchAdd(t)
  /\ wu_idx' = [wu_idx EXCEPT ![t] = next_work_unit + 1]
  /\ IF FastPath(scan)
     THEN SetPending(t, next_work_unit + 1) /\ Goto(t, "emit")
     ELSE UNCHANGED pending /\ Goto(t, "open")
  /\ UNCHANGED <<scan, blocks_scanned, blocks_skipped, rows_emitted,
                 reader_object_idx, query, history>>

(* Opening the file, reading its metadata or reading a block throws: the
   error ends the thread's task and DuckDB cancels the query. *)
Throw(t) ==
  /\ Goto(t, "failed")
  /\ query' = "cancelled"
  /\ UNCHANGED <<scan, shared, wu_idx, reader_object_idx, pending, history>>

(* Mutant: the cached reader is taken whatever object it is open on. *)
ReuseAnyReader(t) == reader_object_idx[t] # 0

(* The thread's reader is already open on the unit's object. *)
ReaderIsOpen(t) == reader_object_idx[t] = scan.work_units[wu_idx[t]].object_idx

OpenReader(t) ==
  /\ pc[t] = "open"
  /\ reader_object_idx' =
       IF ReaderIsOpen(t) THEN reader_object_idx
       ELSE [reader_object_idx EXCEPT ![t] = scan.work_units[wu_idx[t]].object_idx]
  /\ Goto(t, "recheck")
  /\ UNCHANGED <<scan, shared, wu_idx, pending, query, history>>

OpenFails(t) == pc[t] = "open" /\ ~ReaderIsOpen(t) /\ Throw(t)

(* BlockPassesFilters: a block the file does not have has no zone map, and a
   missing zone map passes. *)
BlockPasses(u) == scan.filters /\ InFile(scan, u) => UnitBlock(scan, u).zm_pass

SkipBlock(t) ==
  /\ pc[t] = "recheck"
  /\ ~BlockPasses(wu_idx[t])
  /\ blocks_skipped' = blocks_skipped + 1
  /\ wu_idx' = [wu_idx EXCEPT ![t] = 0]
  /\ Goto(t, "dispatch")
  /\ UNCHANGED <<scan, next_work_unit, blocks_scanned, rows_emitted,
                 reader_object_idx, pending, query, history>>

(* The block is counted before it is read.  The look-ahead that follows in the
   code only advises the kernel's page cache. *)
ScanBlock(t) ==
  /\ pc[t] = "recheck"
  /\ BlockPasses(wu_idx[t])
  /\ blocks_scanned' = blocks_scanned + 1
  /\ Goto(t, "read")
  /\ UNCHANGED <<scan, next_work_unit, blocks_skipped, rows_emitted, wu_idx,
                 reader_object_idx, pending, query, history>>

ReadBlock(t) ==
  /\ pc[t] = "read"
  /\ InFile(scan, wu_idx[t])
  /\ SetPending(t, wu_idx[t])
  /\ Goto(t, "emit")
  /\ UNCHANGED <<scan, shared, wu_idx, reader_object_idx, query, history>>

(* A read error, a corrupt block, or a block index out of range. *)
ReadFails(t) == pc[t] = "read" /\ Throw(t)

---------------------------------------------------------------------------
(* Emission *)

ChunkRows(t) ==
  LET remaining == pending_total_rows[t] - pending_offset[t]
  IN  IF remaining > VectorSize THEN VectorSize ELSE remaining

(* Mutant: the offset is set to the chunk's size instead of moved by it. *)
OffsetOfChunk(t) == ChunkRows(t)

ChunkEnd(t) == pending_offset[t] + ChunkRows(t)

(* Mutant: the chunk's last row is not looked at. *)
FilteredExclusive(t) ==
  {r \in PassingRows(scan, wu_idx[t]) : pending_offset[t] < r /\ r < ChunkEnd(t)}

(* Mutant: the chunk starts at the last row of the one before. *)
FilteredOverlap(t) ==
  {r \in PassingRows(scan, wu_idx[t]) : pending_offset[t] <= r /\ r <= ChunkEnd(t)}

(* ApplyRowFilters: the rows of the next chunk that satisfy the filters. *)
Filtered(t) ==
  {r \in PassingRows(scan, wu_idx[t]) : pending_offset[t] < r /\ r <= ChunkEnd(t)}

(* Mutant: a block is over after its first chunk. *)
OneChunkOnly(t) == FALSE

(* Mutant: an offset at the end of the block still counts as rows pending. *)
MorePendingAtEnd(t) == ChunkEnd(t) <= pending_total_rows[t]

MorePending(t) == ChunkEnd(t) < pending_total_rows[t]

(* The offset moves past the chunk; a block that is used up is cleared. *)
Advance(t) ==
  /\ pending_total_rows' =
       [pending_total_rows EXCEPT ![t] = IF MorePending(t) THEN @ ELSE 0]
  /\ pending_offset' =
       [pending_offset EXCEPT ![t] = IF MorePending(t) THEN ChunkEnd(t) ELSE 0]
  /\ wu_idx' = [wu_idx EXCEPT ![t] = IF MorePending(t) THEN @ ELSE 0]
  /\ UNCHANGED pending_unit

(* The rows of a set as DuckDB sees them: under the saved object and block. *)
Emitted(t, rows) == {RowId(pending_unit[t], r) : r \in rows}

(* Mutant: at the end of the block the call returns the filtered count, 0. *)
ReturnZeroRows(t) == IF MorePending(t) THEN "emit" ELSE "done"

(* Where a call goes on after a chunk without a row to return. *)
AfterFilteredChunk(t) == IF MorePending(t) THEN "emit" ELSE "dispatch"

(* No row of the chunk satisfies the filters: the same call goes on with the
   next chunk or the next unit, and returns nothing yet. *)
FilteredOut(t) ==
  /\ pc[t] = "emit" /\ ~FastPath(scan)
  /\ Filtered(t) = {}
  /\ Advance(t)
  /\ Goto(t, AfterFilteredChunk(t))
  /\ UNCHANGED <<scan, shared, reader_object_idx, query, history>>

(* Sampling keeps no row of the chunk.  With rows left in the block the call
   goes on; at the end of the block it returns cardinality 0. *)
SampledOut(t) ==
  /\ pc[t] = "emit" /\ ~FastPath(scan) /\ scan.do_sample
  /\ Filtered(t) # {}
  /\ sampled_out' = sampled_out \cup Emitted(t, Filtered(t))
  /\ Advance(t)
  /\ Goto(t, IF MorePending(t) THEN "emit" ELSE "done")
  /\ UNCHANGED <<scan, shared, reader_object_idx, query, delivered>>

(* The call returns the chunk, or what sampling keeps of it. *)
EmitChunk(t) ==
  /\ pc[t] = "emit" /\ ~FastPath(scan)
  /\ \E kept \in SUBSET Filtered(t) :
       /\ kept # {}
       /\ scan.do_sample \/ kept = Filtered(t)
       /\ rows_emitted' = rows_emitted + Cardinality(kept)
       /\ delivered' = delivered \cup Emitted(t, kept)
       /\ sampled_out' = sampled_out \cup Emitted(t, Filtered(t) \ kept)
  /\ Advance(t)
  /\ Goto(t, "idle")
  /\ UNCHANGED <<scan, next_work_unit, blocks_scanned, blocks_skipped,
                 reader_object_idx, query>>

(* emit_chunk_fast: a chunk of the manifest's count.  A count of 0 is returned
   as it is, and DuckDB takes it for the end of the scan. *)
EmitChunkFast(t) ==
  /\ pc[t] = "emit" /\ FastPath(scan)
  /\ rows_emitted' = rows_emitted + ChunkRows(t)
  /\ delivered' = delivered \cup Emitted(t, Filtered(t))
  /\ Advance(t)
  /\ Goto(t, IF ChunkRows(t) = 0 THEN "done" ELSE "idle")
  /\ UNCHANGED <<scan, next_work_unit, blocks_scanned, blocks_skipped,
                 reader_object_idx, query, sampled_out>>

---------------------------------------------------------------------------
(* The driver: DuckDB's pipeline, outside this repository *)

(* A LIMIT is reached or the user interrupts. *)
Cancel == /\ query = "running"
          /\ query' = "cancelled"
          /\ UNCHANGED <<scan, shared, pc, wu_idx, reader_object_idx, pending, history>>

(* A cancelled query stops calling a thread. *)
Stop(t) == /\ query = "cancelled"
           /\ pc[t] = "idle"
           /\ Goto(t, "stopped")
           /\ UNCHANGED <<scan, shared, wu_idx, reader_object_idx, pending, query, history>>

Step(t) ==
  \/ Call(t) \/ Exhausted(t) \/ Dispatch(t)
  \/ OpenReader(t) \/ OpenFails(t) \/ SkipBlock(t) \/ ScanBlock(t)
  \/ ReadBlock(t) \/ ReadFails(t)
  \/ FilteredOut(t) \/ SampledOut(t) \/ EmitChunk(t) \/ EmitChunkFast(t)
  \/ Stop(t)

Terminal(t) == pc[t] \in {"done", "failed", "stopped"}

(* All tasks have ended; nothing happens any more. *)
Finished == /\ \A t \in Threads : Terminal(t)
            /\ UNCHANGED vars

Next == Cancel \/ Finished \/ \E t \in Threads : Step(t)

Spec == Init /\ [][Next]_vars

(* A call runs to its end, and the driver calls a thread until it is told to
   stop; nothing makes it cancel. *)
Fairness == \A t \in Threads : WF_vars(Step(t))

FairSpec == Spec /\ Fairness

---------------------------------------------------------------------------
(* Properties *)

ThreadsTypeOK ==
  /\ next_work_unit \in Nat
  /\ blocks_scanned \in Nat /\ blocks_skipped \in Nat /\ rows_emitted \in Nat
  /\ pc \in [Threads -> Pcs]
  /\ wu_idx \in [Threads -> Nat]
  /\ reader_object_idx \in [Threads -> Nat]
  /\ pending_total_rows \in [Threads -> Nat]
  /\ pending_offset \in [Threads -> Nat]
  /\ pending_unit \in [Threads -> WorkUnit \cup {NoUnit}]
  /\ query \in {"running", "cancelled"}

TypeOK == scan \in Scans /\ ThreadsTypeOK

(* A unit that left the queue is in the hands of at most one thread, and no
   thread works on a unit the counter has not passed. *)
NoSharedUnit ==
  \A t \in Threads : wu_idx[t] # 0 =>
    /\ wu_idx[t] <= next_work_unit
    /\ wu_idx[t] <= Len(scan.work_units)
    /\ \A s \in Threads \ {t} : wu_idx[s] # wu_idx[t]

(* A row is still to come: its unit is in the queue, or with a thread that has
   not got past the row. *)
ToCome(u, r) ==
  \/ next_work_unit < u
  \/ \E t \in Threads : wu_idx[t] = u /\ pending_offset[t] < r

Remaining ==
  UNION {{RowId(scan.work_units[u], r) : r \in {q \in PassingRows(scan, u) : ToCome(u, q)}}
         : u \in Units(scan)}

(* At every moment each matching row of the dispatched plan is delivered, or
   dropped by sampling, or still to come, and only one of these: the hand-over
   of units, the chunking of blocks and the filter loop of TAEScanExecute lose
   no row, repeat none and invent none, whatever the threads' interleaving and
   wherever an error stops one of them. *)
RowConservation ==
  /\ delivered \cup sampled_out = WantedRows(scan) \ Remaining
  /\ delivered \cap sampled_out = {}

(* The rows_emitted counter that EXPLAIN ANALYZE shows is the number of
   distinct rows DuckDB was given: no row was given to it twice. *)
EmittedOnce == rows_emitted = Cardinality(delivered)

(* A manifest count of 0 rows for a unit, which only the fast path uses. *)
NoEmptyUnit(sc) == FastPath(sc) => \A u \in Units(sc) : TotalRows(sc, u) > 0

(* Returning no rows means "scan complete" to DuckDB (tae_scanner.cpp:755): a
   thread is told so only when every work unit has been handed out.  Sampling
   and empty units are the exceptions. *)
ZeroMeansExhausted ==
  ~scan.do_sample /\ NoEmptyUnit(scan) =>
    \A t \in Threads : pc[t] = "done" => next_work_unit >= Len(scan.work_units)

(* The comment at tae_scanner.cpp:755-757 for every scan: a thread whose block is
   exhausted is not told "scan complete" while work units are left. *)
ZeroIsTheEnd ==
  \A t \in Threads : pc[t] = "done" => next_work_unit >= Len(scan.work_units)

(* When every thread has been told that the scan is complete, DuckDB has all
   matching rows. *)
CompleteAtEnd ==
  ~scan.do_sample /\ NoEmptyUnit(scan) /\ (\A t \in Threads : pc[t] = "done") /\ Threads # {}
    => delivered = WantedRows(scan)

(* The statistics of EXPLAIN ANALYZE account for every unit handed out: once no
   thread is between taking a unit and counting it, the blocks scanned and the
   blocks skipped add up. *)
BlockAccounting ==
  ~FastPath(scan) /\ (\A t \in Threads : pc[t] \notin {"open", "recheck", "failed"}) =>
    blocks_scanned + blocks_skipped =
      IF next_work_unit < Len(scan.work_units) THEN next_work_unit
      ELSE Len(scan.work_units)

(* A thread rechecks and reads a block with a reader that is open on the
   block's own object, although readers are kept from unit to unit. *)
ReaderMatchesUnit ==
  \A t \in Threads : pc[t] \in {"recheck", "read"} =>
    reader_object_idx[t] = scan.work_units[wu_idx[t]].object_idx

NothingPending(t) == pending_total_rows[t] = 0 /\ pending_offset[t] = 0

(* What a thread has pending is a real block, the one of its unit, and rows of
   it are left to emit (or it has none at all and has just been read). *)
PendingIsUnit(t) ==
  /\ FastPath(scan) \/ InFile(scan, wu_idx[t])
  /\ pending_total_rows[t] = TotalRows(scan, wu_idx[t])
  /\ pending_unit[t] = scan.work_units[wu_idx[t]]
  /\ \/ pending_offset[t] < pending_total_rows[t]
     \/ NothingPending(t)

(* The local state of a thread agrees with the place it has reached: what a
   thread keeps between two calls is enough to go on where it stopped, and
   nothing of an earlier block is left when a new one is taken. *)
LocalStateFits ==
  \A t \in Threads :
    /\ pc[t] \in {"open", "recheck", "read", "failed"} =>
         wu_idx[t] # 0 /\ NothingPending(t) /\ ~FastPath(scan)
    /\ pc[t] = "emit" => wu_idx[t] # 0 /\ PendingIsUnit(t)
    /\ pc[t] \in {"dispatch", "done"} => wu_idx[t] = 0 /\ NothingPending(t)
    /\ pc[t] \in {"idle", "stopped"} =>
         IF wu_idx[t] = 0 THEN NothingPending(t)
         ELSE PendingIsUnit(t) /\ ~NothingPending(t)

(* The rows a thread can still emit of the unit it has. *)
RowsLeft(t) ==
  IF pc[t] \notin {"open", "recheck", "read"} THEN pending_total_rows[t] - pending_offset[t]
  ELSE IF InFile(scan, wu_idx[t]) THEN TotalRows(scan, wu_idx[t])
  ELSE 0

Stage == [open |-> 5, recheck |-> 4, read |-> 3, idle |-> 3, emit |-> 2, dispatch |-> 1,
          done |-> 0, failed |-> 0, stopped |-> 0]

(* More than the steps a thread can take before it takes a unit or ends. *)
StepsLeft(t) == 2 * RowsLeft(t) + Stage[pc[t]]

(* No loop of TAEScanExecute goes round without getting on (over units at line 615,
   over chunks that come out empty at 753, from call to call): each step of a
   thread takes a unit of those left in the queue, or uses up something of the thread's
   own and gives nothing to do to another.  There are only so many units, so however
   the threads interleave they come to an end. *)
EveryStepCounts ==
  [][\A t \in Threads : Step(t) =>
       \/ next_work_unit < Len(scan.work_units) /\ next_work_unit' = next_work_unit + 1
       \/ /\ next_work_unit' >= next_work_unit
          /\ StepsLeft(t)' \in Nat /\ StepsLeft(t)' < StepsLeft(t)
          /\ \A s \in Threads \ {t} : StepsLeft(s)' = StepsLeft(s)]_vars

(* Every thread's task ends: the loops over filtered chunks, skipped blocks and
   units are bounded. *)
Termination == \A t \in Threads : <>Terminal(t)

(* A scan that is not cancelled and does not sample delivers all matching rows
   in the end. *)
EventuallyComplete ==
  ~scan.do_sample /\ NoEmptyUnit(scan) =>
    <>(query = "cancelled" \/ delivered = WantedRows(scan))
===========================================================================
