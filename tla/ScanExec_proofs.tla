-------------------------- MODULE ScanExec_proofs --------------------------
(***************************************************************************)
(* Theorems about ScanExec, for every set of threads and every well-formed *)
(* scan.  Local is the inductive core: the types, who holds which unit, and *)
(* what each thread has pending.  RowInv says of single rows what           *)
(* RowConservation says of sets, and is inductive relative to Local.        *)
(***************************************************************************)
EXTENDS ScanExec, FiniteSetTheorems, TLAPS

---------------------------------------------------------------------------
(* The scan *)

(* A manifest's row count of a block is a natural number: the subtraction for
   the last block wraps instead of going below 0. *)
LEMMA RowCountNat ==
  ASSUME NEW obj \in Object, NEW b \in Nat \ {0}
  PROVE  ManifestBlockRowCount(obj, b) \in Nat
<1>1. obj.rows \in Nat /\ obj.blocks \in Nat
  BY DEF Object
<1>2. CASE obj.blocks <= 1
  BY <1>1, <1>2 DEF ManifestBlockRowCount
<1>3. CASE obj.blocks > 1
  <2>1. RowsBeforeLast(obj) \in Nat
    BY <1>1, <1>3, ScanTablesAssumption DEF RowsBeforeLast
  <2>2. RowsOfLast(obj) \in Nat
    BY <1>1, <1>3, <2>1, ScanTablesAssumption DEF RowsOfLast
  <2> QED BY <1>1, <1>3, <2>1, <2>2 DEF ManifestBlockRowCount
<1> QED BY <1>1, <1>2, <1>3

(* What the steps of a thread use of a scan: its units are distinct, a unit
   that can be read has a row count and its matching rows lie within it, and a
   block that the zone maps rule out has none. *)
LEMMA UnitFacts ==
  ASSUME NEW sc, WellFormedScan(sc), NEW u \in Units(sc)
  PROVE  /\ Len(sc.work_units) \in Nat
         /\ sc.work_units[u] \in WorkUnit
         /\ \A v \in Units(sc) : u # v => sc.work_units[u] # sc.work_units[v]
         /\ FastPath(sc) \/ InFile(sc, u) =>
              /\ TotalRows(sc, u) \in Nat
              /\ PassingRows(sc, u) \subseteq 1 .. TotalRows(sc, u)
         /\ ~FastPath(sc) /\ ~InFile(sc, u) => PassingRows(sc, u) = {}
         /\ ~FastPath(sc) /\ InFile(sc, u) /\ sc.filters /\ ~UnitBlock(sc, u).zm_pass
              => PassingRows(sc, u) = {}
<1>1. /\ sc.objects \in Seq(Object)
      /\ sc.work_units \in Seq(WorkUnit)
      /\ Len(sc.work_units) \in Nat
  BY DEF WellFormedScan
<1>2. sc.work_units[u] \in WorkUnit
  BY <1>1 DEF Units
<1>3. /\ sc.work_units[u].object_idx \in 1 .. Len(sc.objects)
      /\ sc.work_units[u].block_idx \in Nat \ {0}
  BY <1>1, <1>2 DEF WellFormedScan, WorkUnit
<1>4. UnitObject(sc, u) \in Object
  BY <1>1, <1>3 DEF UnitObject
<1>5. ASSUME InFile(sc, u) PROVE UnitBlock(sc, u) \in FileBlock
  <2>1. UnitObject(sc, u).file \in Seq(FileBlock)
    BY <1>4 DEF Object
  <2> QED BY <1>3, <1>5, <2>1 DEF InFile, UnitBlock
<1>6. FastPath(sc) \/ InFile(sc, u) => TotalRows(sc, u) \in Nat
  BY <1>3, <1>4, <1>5, RowCountNat DEF TotalRows, FileBlock
<1>7. InFile(sc, u) =>
        /\ UnitBlock(sc, u).match \subseteq 1 .. UnitBlock(sc, u).rows
        /\ ~UnitBlock(sc, u).zm_pass => UnitBlock(sc, u).match = {}
  BY DEF WellFormedScan
<1>8. \A v \in Units(sc) : u # v => sc.work_units[u] # sc.work_units[v]
  BY DEF WellFormedScan
<1>9. FastPath(sc) \/ InFile(sc, u) => PassingRows(sc, u) \subseteq 1 .. TotalRows(sc, u)
  BY <1>7 DEF PassingRows, TotalRows
<1> QED BY <1>1, <1>2, <1>6, <1>7, <1>8, <1>9 DEF PassingRows

---------------------------------------------------------------------------
(* The inductive core *)

Local == WellFormedScan(scan) /\ ThreadsTypeOK /\ NoSharedUnit /\ LocalStateFits

(* Initially no thread has a unit or anything pending. *)
LEMMA LocalStart ==
  ASSUME ThreadsInit, WellFormedScan(scan), blocks_skipped \in Nat
  PROVE  Local
  BY DEF ThreadsInit, Local, ThreadsTypeOK, NoSharedUnit, LocalStateFits, NothingPending, Pcs,
         NoUnit, WorkUnit

LEMMA LocalInit == Init => Local
  BY LocalStart, ScanExecAssumption DEF Init

(* The unit a thread holds is one of the plan. *)
LEMMA HeldUnit ==
  ASSUME Local, NEW t \in Threads, wu_idx[t] # 0
  PROVE  WellFormedScan(scan) /\ wu_idx[t] \in Units(scan)
<1>1. WellFormedScan(scan) /\ wu_idx[t] \in Nat
  BY DEF Local, ThreadsTypeOK
<1>2. wu_idx[t] <= Len(scan.work_units)
  BY DEF Local, NoSharedUnit
<1>3. Len(scan.work_units) \in Nat
  BY <1>1 DEF WellFormedScan
<1> QED BY <1>1, <1>2, <1>3 DEF Units

(* The next chunk of a pending block: it starts at the offset, is not empty
   unless the block is, and ends within the block. *)
LEMMA ChunkFacts ==
  ASSUME Local, NEW t \in Threads, pc[t] = "emit"
  PROVE  /\ wu_idx[t] # 0 /\ PendingIsUnit(t)
         /\ ChunkRows(t) \in Nat /\ ChunkEnd(t) \in Nat
         /\ ChunkRows(t) <= VectorSize
         /\ pending_offset[t] \in Nat /\ pending_total_rows[t] \in Nat
         /\ ChunkEnd(t) <= pending_total_rows[t]
         /\ pending_total_rows[t] > 0 => ChunkEnd(t) > pending_offset[t]
         /\ Cardinality(1 .. ChunkRows(t)) = ChunkRows(t)
         /\ MorePending(t) \in BOOLEAN
         /\ ~MorePending(t) => ChunkEnd(t) = pending_total_rows[t]
<1>1. wu_idx[t] # 0 /\ PendingIsUnit(t)
  BY DEF Local, LocalStateFits
<1>2. /\ pending_offset[t] \in Nat /\ pending_total_rows[t] \in Nat
      /\ pending_offset[t] <= pending_total_rows[t]
      /\ pending_total_rows[t] > 0 => pending_offset[t] < pending_total_rows[t]
  BY <1>1 DEF PendingIsUnit, NothingPending, Local, ThreadsTypeOK
<1>3. /\ ChunkRows(t) \in Nat
      /\ ChunkRows(t) <= VectorSize
      /\ ChunkRows(t) <= pending_total_rows[t] - pending_offset[t]
      /\ pending_total_rows[t] > 0 => ChunkRows(t) > 0
  BY <1>2, ScanExecAssumption DEF ChunkRows
<1>4. Cardinality(1 .. ChunkRows(t)) = ChunkRows(t)
  BY <1>3, FS_Interval
<1> QED BY <1>1, <1>2, <1>3, <1>4 DEF ChunkEnd, MorePending

(* Moving the offset past the chunk keeps the local state in order, wherever
   the call goes next. *)
LEMMA AdvanceKeeps ==
  ASSUME Local, NEW t \in Threads, pc[t] = "emit", Advance(t),
         NEW label \in Pcs, Goto(t, label),
         MorePending(t) => label \in {"emit", "idle"},
         ~MorePending(t) => label \in {"dispatch", "idle", "done"},
         UNCHANGED <<scan, next_work_unit, reader_object_idx, query>>,
         blocks_scanned' \in Nat, blocks_skipped' \in Nat, rows_emitted' \in Nat
  PROVE  Local'
<1> USE DEF Local
<1>1. /\ ChunkEnd(t) \in Nat /\ PendingIsUnit(t) /\ wu_idx[t] # 0
      /\ MorePending(t) \in BOOLEAN
  BY ChunkFacts
<1>2. ThreadsTypeOK'
  BY <1>1 DEF ThreadsTypeOK, Advance, Goto
<1>3. NoSharedUnit'
  BY DEF NoSharedUnit, Advance, ThreadsTypeOK
<1>4. LocalStateFits'
  <2>1. CASE MorePending(t)
    <3>1. wu_idx' = wu_idx /\ pending_total_rows' = pending_total_rows
      BY <2>1 DEF Advance, ThreadsTypeOK
    <3>2. pending_offset' = [pending_offset EXCEPT ![t] = ChunkEnd(t)]
      BY <2>1 DEF Advance
    <3>3. PendingIsUnit(t)' /\ ~NothingPending(t)'
      BY <1>1, <2>1, <3>1, <3>2 DEF PendingIsUnit, NothingPending, MorePending, ThreadsTypeOK, Advance
    <3> QED
      BY <1>1, <2>1, <3>1, <3>2, <3>3 DEF LocalStateFits, PendingIsUnit, NothingPending, ThreadsTypeOK,
           Goto, Advance
  <2>2. CASE ~MorePending(t)
    <3>1. wu_idx'[t] = 0 /\ NothingPending(t)'
      BY <2>2 DEF Advance, ThreadsTypeOK, NothingPending
    <3> QED
      BY <2>2, <3>1 DEF LocalStateFits, PendingIsUnit, NothingPending, ThreadsTypeOK, Goto, Advance
  <2> QED BY <1>1, <2>1, <2>2
<1> QED BY <1>2, <1>3, <1>4

(* A step that leaves the blocks alone and moves one thread to a place where
   its local state still fits. *)
LEMMA MoveKeeps ==
  ASSUME Local, NEW t \in Threads, NEW label \in Pcs, Goto(t, label),
         UNCHANGED <<scan, next_work_unit, wu_idx, pending>>,
         reader_object_idx' \in [Threads -> Nat],
         query' \in {"running", "cancelled"},
         blocks_scanned' \in Nat, blocks_skipped' \in Nat, rows_emitted' \in Nat,
         label \in {"recheck", "read", "failed"} =>
           pc[t] \in {"open", "recheck", "read"},
         label = "stopped" => pc[t] = "idle",
         label \in {"emit", "dispatch"} => pc[t] = "idle" /\
           label = IF pending_offset[t] < pending_total_rows[t] THEN "emit" ELSE "dispatch",
         label \notin {"idle", "open", "done"}
  PROVE  Local'
<1>1. ThreadsTypeOK'
  BY DEF Local, ThreadsTypeOK, Goto, pending
<1>2. NoSharedUnit'
  BY DEF Local, NoSharedUnit, Goto, pending
<1>3. LocalStateFits'
  <2>1. \A s \in Threads : PendingIsUnit(s)' = PendingIsUnit(s) /\ NothingPending(s)' = NothingPending(s)
    BY DEF PendingIsUnit, NothingPending, pending
  <2>2. pending_offset[t] \in Nat /\ pending_total_rows[t] \in Nat
    BY DEF Local, ThreadsTypeOK
  <2>3. pc[t] = "idle" /\ pending_offset[t] < pending_total_rows[t]
          => wu_idx[t] # 0 /\ PendingIsUnit(t)
    BY <2>2 DEF Local, LocalStateFits, NothingPending
  <2>4. pc[t] = "idle" /\ ~(pending_offset[t] < pending_total_rows[t])
          => wu_idx[t] = 0 /\ NothingPending(t)
    BY <2>2 DEF Local, LocalStateFits, PendingIsUnit
  <2> QED
    BY <2>1, <2>3, <2>4 DEF Local, LocalStateFits, ThreadsTypeOK, Goto, pending, Pcs
<1> QED BY <1>1, <1>2, <1>3 DEF Local

(* Storing a block that can be read makes it the thread's pending block. *)
LEMMA SetPendingFits ==
  ASSUME Local, NEW t \in Threads, NEW u \in Units(scan),
         FastPath(scan) \/ InFile(scan, u), SetPending(t, u), scan' = scan,
         wu_idx' \in [Threads -> Nat], wu_idx'[t] = u
  PROVE  /\ PendingIsUnit(t)'
         /\ pending_total_rows' \in [Threads -> Nat]
         /\ pending_offset' \in [Threads -> Nat]
         /\ pending_unit' \in [Threads -> WorkUnit \cup {NoUnit}]
<1>1. TotalRows(scan, u) \in Nat /\ scan.work_units[u] \in WorkUnit
  BY UnitFacts DEF Local, ThreadsTypeOK
<1>2. /\ pending_total_rows'[t] = TotalRows(scan, u)
      /\ pending_offset'[t] = 0
      /\ pending_unit'[t] = scan.work_units[u]
  BY DEF SetPending, Local, ThreadsTypeOK
<1>3. PendingIsUnit(t)'
  BY <1>1, <1>2 DEF PendingIsUnit, NothingPending
<1> QED BY <1>1, <1>3 DEF SetPending, Local, ThreadsTypeOK

(* The scan does not change. *)
LEMMA ScanKept == [Next]_vars => scan' = scan
  BY DEF vars, Next, Cancel, Finished, Step, Call, Exhausted, Dispatch, OpenReader, OpenFails, Throw,
     SkipBlock, ScanBlock, ReadBlock, ReadFails, FilteredOut, SampledOut, EmitChunk, EmitChunkFast,
     Stop

(* The core is preserved by every step. *)
LEMMA LocalStep == Local /\ [Next]_vars => Local'
<1> SUFFICES ASSUME Local, [Next]_vars PROVE Local'
  OBVIOUS
<1> USE DEF pending, shared, history
<1>1. CASE UNCHANGED vars
  BY <1>1 DEF vars, Local, ThreadsTypeOK, NoSharedUnit, LocalStateFits, PendingIsUnit, NothingPending
<1>2. CASE Cancel
  BY <1>2 DEF Cancel, Local, ThreadsTypeOK, NoSharedUnit, LocalStateFits, PendingIsUnit, NothingPending
<1>3. CASE Finished
  BY <1>1, <1>3 DEF Finished
<1>4. ASSUME NEW t \in Threads, Step(t) PROVE Local'
  <2>0. /\ pc[t] \in Pcs /\ next_work_unit \in Nat
        /\ WellFormedScan(scan) /\ Len(scan.work_units) \in Nat
    BY DEF Local, ThreadsTypeOK, WellFormedScan
  <2>w. WellFormedScan(scan)'
    BY <1>4, <2>0, ScanKept DEF Next
  <2>1. CASE Call(t)
    BY <2>1, MoveKeeps DEF Call, Pcs, Local, ThreadsTypeOK
  <2>2. CASE Exhausted(t)
    <3>1. next_work_unit' = next_work_unit + 1 /\ UNCHANGED <<scan, wu_idx, pending>>
      BY <2>2 DEF Exhausted, FetchAdd
    <3>2. ThreadsTypeOK'
      BY <2>0, <2>2, <3>1 DEF Exhausted, Local, ThreadsTypeOK, Goto, Pcs
    <3>3. NoSharedUnit'
      BY <2>0, <3>1 DEF NoSharedUnit, Local, ThreadsTypeOK
    <3>4. LocalStateFits'
      BY <2>2, <3>1 DEF Exhausted, LocalStateFits, Local, Goto, ThreadsTypeOK, PendingIsUnit, NothingPending
    <3> QED BY <2>w, <3>2, <3>3, <3>4 DEF Local
  <2>3. CASE Dispatch(t)
    <3> DEFINE u == next_work_unit + 1
    <3>1. /\ next_work_unit' = u
          /\ wu_idx' = [wu_idx EXCEPT ![t] = u]
          /\ wu_idx' \in [Threads -> Nat] /\ wu_idx'[t] = u
          /\ u \in Units(scan) /\ scan' = scan
      BY <2>0, <2>3 DEF Dispatch, FetchAdd, Local, ThreadsTypeOK, Units
    <3>2. \A s \in Threads : wu_idx[s] # 0 => wu_idx[s] <= next_work_unit /\ wu_idx[s] \in Nat
      BY DEF Local, NoSharedUnit, ThreadsTypeOK
    <3>3. NoSharedUnit'
      BY <2>0, <3>1, <3>2 DEF NoSharedUnit, Local, Units
    <3>4. CASE FastPath(scan)
      <4>1. SetPending(t, u) /\ Goto(t, "emit")
        BY <2>3, <3>4 DEF Dispatch
      <4>2. PendingIsUnit(t)' /\ ThreadsTypeOK'
        BY <2>0, <2>3, <3>1, <3>4, <4>1, SetPendingFits DEF Dispatch, Local, ThreadsTypeOK, Goto, Pcs
      <4>3. LocalStateFits'
        BY <3>1, <4>1, <4>2 DEF LocalStateFits, Local, Goto, ThreadsTypeOK, SetPending,
             PendingIsUnit, NothingPending
      <4> QED BY <2>w, <3>3, <4>2, <4>3 DEF Local
    <3>5. CASE ~FastPath(scan)
      <4>1. UNCHANGED pending /\ Goto(t, "open")
        BY <2>3, <3>5 DEF Dispatch
      <4>2. ThreadsTypeOK'
        BY <2>0, <2>3, <3>1, <4>1 DEF Dispatch, Local, ThreadsTypeOK, Goto, Pcs
      <4>3. NothingPending(t)'
        BY <2>3, <4>1 DEF Dispatch, Local, LocalStateFits, NothingPending
      <4>4. LocalStateFits'
        BY <3>1, <3>5, <4>1, <4>3 DEF LocalStateFits, Local, Goto, ThreadsTypeOK,
             PendingIsUnit, NothingPending
      <4> QED BY <2>w, <3>3, <4>2, <4>4 DEF Local
    <3> QED BY <3>4, <3>5
  <2>4. CASE OpenReader(t)
    <3>1. reader_object_idx' \in [Threads -> Nat]
      <4>1. wu_idx[t] # 0
        BY <2>4 DEF OpenReader, Local, LocalStateFits
      <4>2. scan.work_units[wu_idx[t]].object_idx \in Nat
        BY <4>1, HeldUnit, UnitFacts DEF WorkUnit
      <4> QED BY <2>4, <4>2 DEF OpenReader, Local, ThreadsTypeOK
    <3> QED BY <2>4, <3>1, MoveKeeps DEF OpenReader, Pcs, Local, ThreadsTypeOK
  <2>5. CASE OpenFails(t)
    BY <2>5, MoveKeeps DEF OpenFails, Throw, Pcs, Local, ThreadsTypeOK
  <2>6. CASE SkipBlock(t)
    <3>1. ThreadsTypeOK'
      BY <2>6 DEF SkipBlock, Local, ThreadsTypeOK, Goto, Pcs
    <3>2. NoSharedUnit'
      BY <2>6 DEF SkipBlock, Local, ThreadsTypeOK, NoSharedUnit
    <3>3. LocalStateFits'
      BY <2>6 DEF SkipBlock, Local, LocalStateFits, ThreadsTypeOK, Goto, PendingIsUnit, NothingPending
    <3> QED BY <2>w, <3>1, <3>2, <3>3 DEF Local
  <2>7. CASE ScanBlock(t)
    BY <2>7, MoveKeeps DEF ScanBlock, Pcs, Local, ThreadsTypeOK
  <2>8. CASE ReadBlock(t)
    <3>1. wu_idx[t] # 0 /\ ~FastPath(scan) /\ InFile(scan, wu_idx[t])
      BY <2>8 DEF ReadBlock, Local, LocalStateFits
    <3>2. wu_idx[t] \in Units(scan)
      BY <3>1, HeldUnit
    <3>3. SetPending(t, wu_idx[t]) /\ Goto(t, "emit") /\ UNCHANGED <<scan, wu_idx>>
      BY <2>8 DEF ReadBlock
    <3>4. PendingIsUnit(t)' /\ ThreadsTypeOK'
      BY <2>8, <3>1, <3>2, <3>3, SetPendingFits DEF ReadBlock, Local, ThreadsTypeOK, Goto, Pcs
    <3>5. NoSharedUnit'
      BY <2>8 DEF ReadBlock, Local, NoSharedUnit
    <3>6. LocalStateFits'
      BY <3>1, <3>3, <3>4 DEF LocalStateFits, Local, Goto, ThreadsTypeOK, SetPending,
           PendingIsUnit, NothingPending
    <3> QED BY <2>w, <3>4, <3>5, <3>6 DEF Local
  <2>9. CASE ReadFails(t)
    BY <2>9, MoveKeeps DEF ReadFails, Throw, Pcs, Local, ThreadsTypeOK
  <2>10. CASE FilteredOut(t)
    BY <2>0, <2>10, AdvanceKeeps DEF FilteredOut, AfterFilteredChunk, Pcs, Local, ThreadsTypeOK
  <2>11. CASE SampledOut(t)
    BY <2>0, <2>11, AdvanceKeeps DEF SampledOut, Pcs, Local, ThreadsTypeOK
  <2>12. CASE EmitChunk(t)
    <3>1. PICK kept \in SUBSET Filtered(t) : rows_emitted' = rows_emitted + Cardinality(kept)
      BY <2>12 DEF EmitChunk
    <3>2. Cardinality(kept) \in Nat
      <4>1. ChunkEnd(t) \in Nat /\ pending_offset[t] \in Nat
        BY <2>12, ChunkFacts DEF EmitChunk
      <4>2. kept \subseteq 1 .. ChunkEnd(t)
        <5>1. wu_idx[t] \in Units(scan) /\ WellFormedScan(scan)
          BY <2>12, ChunkFacts, HeldUnit DEF EmitChunk
        <5>2. FastPath(scan) \/ InFile(scan, wu_idx[t])
          BY <2>12, ChunkFacts DEF EmitChunk, PendingIsUnit
        <5>3. PassingRows(scan, wu_idx[t]) \subseteq Nat
          BY <5>1, <5>2, UnitFacts
        <5> QED BY <4>1, <5>3 DEF Filtered
      <4>3. IsFiniteSet(1 .. ChunkEnd(t))
        <5>1. \A n \in Nat : IsFiniteSet(1 .. n)
          BY FS_Interval
        <5> QED BY <4>1, <5>1
      <4> QED BY <4>2, <4>3, FS_Subset, FS_CardinalityType
    <3>3. rows_emitted' \in Nat
      BY <3>1, <3>2 DEF Local, ThreadsTypeOK
    <3>4. /\ pc[t] = "emit" /\ Advance(t) /\ Goto(t, "idle")
          /\ UNCHANGED <<scan, next_work_unit, reader_object_idx, query>>
          /\ blocks_scanned' \in Nat /\ blocks_skipped' \in Nat
      BY <2>12 DEF EmitChunk, Local, ThreadsTypeOK
    <3> QED BY <3>3, <3>4, AdvanceKeeps DEF Pcs
  <2>13. CASE EmitChunkFast(t)
    <3>1. ChunkRows(t) \in Nat /\ (ChunkRows(t) = 0 => ~MorePending(t))
      BY <2>13, ChunkFacts DEF EmitChunkFast, MorePending, ChunkEnd
    <3> QED
      <4>1. /\ pc[t] = "emit" /\ Advance(t) /\ Goto(t, IF ChunkRows(t) = 0 THEN "done" ELSE "idle")
            /\ UNCHANGED <<scan, next_work_unit, reader_object_idx, query, blocks_scanned, blocks_skipped>>
            /\ rows_emitted' = rows_emitted + ChunkRows(t)
        BY <2>13 DEF EmitChunkFast
      <4>2. blocks_scanned' \in Nat /\ blocks_skipped' \in Nat /\ rows_emitted' \in Nat
        BY <3>1, <4>1 DEF Local, ThreadsTypeOK
      <4> HIDE DEF Local
      <4> QED BY <3>1, <4>1, <4>2, AdvanceKeeps DEF Pcs
  <2>14. CASE Stop(t)
    BY <2>14, MoveKeeps DEF Stop, Pcs, Local, ThreadsTypeOK
  <2> QED
    BY <1>4, <2>1, <2>2, <2>3, <2>4, <2>5, <2>6, <2>7, <2>8, <2>9, <2>10, <2>11,
       <2>12, <2>13, <2>14 DEF Step
<1> QED BY <1>1, <1>2, <1>3, <1>4 DEF Next

(* Every reachable state is well-typed. *)
THEOREM TypeCorrect == Spec => []TypeOK
<1> DEFINE InScans == scan \in Scans
<1>1. Init => InScans
  BY DEF Init
<1>2. InScans /\ [Next]_vars => InScans'
  BY DEF Next, Cancel, Finished, Step, Call, Exhausted, Dispatch, OpenReader, OpenFails,
         SkipBlock, ScanBlock, ReadBlock, ReadFails, FilteredOut, SampledOut, EmitChunk,
         EmitChunkFast, Stop, Throw, vars
<1>3. InScans /\ Local => TypeOK
  BY DEF Local, TypeOK
<1> HIDE DEF InScans
<1> QED BY <1>1, <1>2, <1>3, LocalInit, LocalStep, PTL DEF Spec

(* No two threads ever work on the same unit, whatever their number. *)
THEOREM UnitsNotShared == Spec => []NoSharedUnit
<1>1. Local => NoSharedUnit
  BY DEF Local
<1> QED BY <1>1, LocalInit, LocalStep, PTL DEF Spec

(* What a thread keeps between calls always fits the place it has reached. *)
THEOREM LocalStateAlwaysFits == Spec => []LocalStateFits
<1>1. Local => LocalStateFits
  BY DEF Local
<1> QED BY <1>1, LocalInit, LocalStep, PTL DEF Spec

---------------------------------------------------------------------------
(* Rows *)

Out == delivered \cup sampled_out

(* RowConservation, row by row: a matching row is out exactly when it is no
   longer to come. *)
RowInv ==
  /\ \A u \in Units(scan) : \A r \in PassingRows(scan, u) :
       RowId(scan.work_units[u], r) \in Out <=> ~ToCome(u, r)
  /\ Out \subseteq WantedRows(scan)
  /\ delivered \cap sampled_out = {}

(* A row's identity names its unit and its place: no two rows share one. *)
LEMMA RowIdInjective ==
  ASSUME NEW sc, WellFormedScan(sc), NEW u \in Units(sc), NEW v \in Units(sc),
         NEW r, NEW q, RowId(sc.work_units[u], r) = RowId(sc.work_units[v], q)
  PROVE  u = v /\ r = q
<1>1. sc.work_units[u] \in WorkUnit /\ sc.work_units[v] \in WorkUnit
  BY UnitFacts
<1>2. /\ sc.work_units[u].object_idx = sc.work_units[v].object_idx
      /\ sc.work_units[u].block_idx = sc.work_units[v].block_idx
      /\ r = q
  BY DEF RowId
<1>3. sc.work_units[u] = sc.work_units[v]
  BY <1>1, <1>2 DEF WorkUnit
<1> QED BY <1>2, <1>3, UnitFacts

(* Matching rows are numbered from 1. *)
LEMMA PassingRowsPositive ==
  ASSUME NEW sc, WellFormedScan(sc), NEW u \in Units(sc), NEW r \in PassingRows(sc, u)
  PROVE  r \in Nat /\ r > 0
  BY UnitFacts

(* The row-by-row invariant is RowConservation. *)
LEMMA RowInvConserves == Local /\ RowInv => RowConservation
<1> SUFFICES ASSUME Local, RowInv PROVE RowConservation
  OBVIOUS
<1>0. WellFormedScan(scan)
  BY DEF Local, ThreadsTypeOK
<1>1. ASSUME NEW x \in Out PROVE x \in WantedRows(scan) \ Remaining
  <2>1. x \in WantedRows(scan)
    BY <1>1 DEF RowInv
  <2>2. ASSUME x \in Remaining PROVE FALSE
    <3>1. PICK u \in Units(scan) : x \in {RowId(scan.work_units[u], r) :
                                      r \in {q \in PassingRows(scan, u) : ToCome(u, q)}}
      BY <2>2 DEF Remaining
    <3>2. PICK r \in PassingRows(scan, u) : x = RowId(scan.work_units[u], r) /\ ToCome(u, r)
      BY <3>1
    <3> QED BY <1>1, <3>2 DEF RowInv
  <2> QED BY <2>1, <2>2
<1>2. ASSUME NEW x \in WantedRows(scan), x \notin Remaining PROVE x \in Out
  <2>1. PICK u \in Units(scan) :
          x \in {RowId(scan.work_units[u], r) : r \in PassingRows(scan, u)}
    BY <1>2 DEF WantedRows
  <2>2. PICK r \in PassingRows(scan, u) : x = RowId(scan.work_units[u], r)
    BY <2>1
  <2>3. ~ToCome(u, r)
    BY <1>2, <2>2 DEF Remaining
  <2> QED BY <2>2, <2>3 DEF RowInv
<1> QED BY <1>1, <1>2 DEF RowConservation, RowInv, Out

(* Nothing is out and every unit is in the queue. *)
LEMMA RowStart ==
  ASSUME ThreadsInit, WellFormedScan(scan)
  PROVE  RowInv
<1>1. delivered = {} /\ sampled_out = {} /\ next_work_unit = 0
  BY DEF ThreadsInit
<1>2. \A u \in Units(scan) : next_work_unit < u
  BY <1>1, UnitFacts DEF Units
<1> QED BY <1>1, <1>2 DEF RowInv, ToCome, Out

LEMMA RowInit == Init => RowInv
  BY RowStart, ScanExecAssumption DEF Init

(* A step that emits nothing and brings no row further. *)
LEMMA QuietKeeps ==
  ASSUME RowInv, scan' = scan, UNCHANGED history,
         \A u \in Units(scan) : \A r \in PassingRows(scan, u) :
           ToCome(u, r)' <=> ToCome(u, r)
  PROVE  RowInv'
  BY DEF RowInv, Out, history

(* The rows of a chunk are to come until the thread advances past it; for all
   other rows nothing changes. *)
LEMMA AdvanceBrings ==
  ASSUME Local, NEW t \in Threads, pc[t] = "emit", Advance(t),
         scan' = scan, next_work_unit' = next_work_unit,
         NEW u \in Units(scan), NEW r \in PassingRows(scan, u)
  PROVE  /\ ToCome(u, r)' <=> ToCome(u, r) /\ ~(u = wu_idx[t] /\ r \in Filtered(t))
         /\ u = wu_idx[t] /\ r \in Filtered(t) => ToCome(u, r)
<1>0. WellFormedScan(scan) /\ u \in Nat \ {0} /\ r \in Nat \ {0} /\ next_work_unit \in Nat
  BY PassingRowsPositive, UnitFacts DEF Local, ThreadsTypeOK, Units
<1>1. \A s \in Threads \ {t} : wu_idx'[s] = wu_idx[s] /\ pending_offset'[s] = pending_offset[s]
  BY DEF Advance, Local, ThreadsTypeOK
<1>2. /\ wu_idx'[t] = IF MorePending(t) THEN wu_idx[t] ELSE 0
      /\ pending_offset'[t] = IF MorePending(t) THEN ChunkEnd(t) ELSE 0
  BY DEF Advance, Local, ThreadsTypeOK
<1>3. CASE u # wu_idx[t]
  <2>1. wu_idx'[t] # u /\ wu_idx[t] # u
    BY <1>0, <1>2, <1>3
  <2> QED BY <1>1, <1>3, <2>1 DEF ToCome
<1>4. CASE u = wu_idx[t]
  <2>1. ~(next_work_unit < u) /\ \A s \in Threads \ {t} : wu_idx[s] # u
    BY <1>0, <1>4 DEF Local, NoSharedUnit
  <2>2. /\ PendingIsUnit(t) /\ pending_offset[t] \in Nat /\ ChunkEnd(t) \in Nat
        /\ pending_total_rows[t] \in Nat
        /\ ChunkEnd(t) <= pending_total_rows[t]
        /\ pending_total_rows[t] > 0 => ChunkEnd(t) > pending_offset[t]
        /\ ~MorePending(t) => ChunkEnd(t) = pending_total_rows[t]
    BY ChunkFacts
  <2>3. r <= pending_total_rows[t]
    BY <1>0, <1>4, <2>2, UnitFacts DEF PendingIsUnit
  <2>4. ToCome(u, r) <=> pending_offset[t] < r
    BY <1>4, <2>1 DEF ToCome
  <2>5. ToCome(u, r)' <=> MorePending(t) /\ ChunkEnd(t) < r
    BY <1>0, <1>1, <1>2, <1>4, <2>1 DEF ToCome
  <2>6. r \in Filtered(t) <=> pending_offset[t] < r /\ r <= ChunkEnd(t)
    BY <1>4 DEF Filtered
  <2> QED BY <1>0, <1>4, <2>2, <2>3, <2>4, <2>5, <2>6
<1> QED BY <1>3, <1>4

(* Emitting a chunk: some of its rows are delivered and the others sampled out. *)
LEMMA EmitKeeps ==
  ASSUME Local, RowInv, NEW t \in Threads, pc[t] = "emit", Advance(t),
         scan' = scan, next_work_unit' = next_work_unit,
         NEW kept \in SUBSET Filtered(t),
         delivered' = delivered \cup Emitted(t, kept),
         sampled_out' = sampled_out \cup Emitted(t, Filtered(t) \ kept)
  PROVE  /\ RowInv'
         /\ Emitted(t, kept) \cap Out = {}
<1> DEFINE w == wu_idx[t]
<1>0. WellFormedScan(scan) /\ w \in Units(scan) /\ w # 0
  BY ChunkFacts, HeldUnit
<1>1. pending_unit[t] = scan.work_units[w]
  BY ChunkFacts DEF PendingIsUnit
<1>2. Filtered(t) \subseteq PassingRows(scan, w)
  BY DEF Filtered
<1>3. \A rows : Emitted(t, rows) = {RowId(scan.work_units[w], r) : r \in rows}
  BY <1>1 DEF Emitted
<1>4. ASSUME NEW u \in Units(scan), NEW r \in PassingRows(scan, u), NEW rows \in SUBSET Filtered(t)
      PROVE  RowId(scan.work_units[u], r) \in Emitted(t, rows) <=> u = w /\ r \in rows
  <2>1. ASSUME RowId(scan.work_units[u], r) \in Emitted(t, rows)
        PROVE  u = w /\ r \in rows
    <3>1. PICK q \in rows : RowId(scan.work_units[u], r) = RowId(scan.work_units[w], q)
      BY <1>3, <2>1
    <3>2. u = w /\ r = q
      BY <1>0, <3>1, RowIdInjective
    <3> QED BY <3>1, <3>2
  <2> QED BY <1>3, <2>1
<1>5. Emitted(t, kept) \cup Emitted(t, Filtered(t) \ kept) = Emitted(t, Filtered(t))
  BY <1>3
<1>6. Out' = Out \cup Emitted(t, Filtered(t))
  BY <1>5 DEF Out
<1>7. \A r \in Filtered(t) : RowId(scan.work_units[w], r) \notin Out
  BY <1>0, <1>2, AdvanceBrings DEF RowInv
<1>8. Emitted(t, Filtered(t)) \cap Out = {}
  BY <1>3, <1>7
<1>9. ASSUME NEW u \in Units(scan), NEW r \in PassingRows(scan, u)
      PROVE  RowId(scan.work_units[u], r) \in Out' <=> ~ToCome(u, r)'
  <2>1. RowId(scan.work_units[u], r) \in Out <=> ~ToCome(u, r)
    BY DEF RowInv
  <2>2. RowId(scan.work_units[u], r) \in Emitted(t, Filtered(t)) <=> u = w /\ r \in Filtered(t)
    BY <1>4
  <2>3. ToCome(u, r)' <=> ToCome(u, r) /\ ~(u = w /\ r \in Filtered(t))
    BY AdvanceBrings
  <2> QED BY <1>6, <2>1, <2>2, <2>3
<1>10. Out' \subseteq WantedRows(scan)
  <2>1. Emitted(t, Filtered(t)) \subseteq WantedRows(scan)
    BY <1>0, <1>2, <1>3 DEF WantedRows
  <2> QED BY <1>6, <2>1 DEF RowInv
<1>11. Emitted(t, kept) \cap Emitted(t, Filtered(t) \ kept) = {}
  BY <1>3 DEF RowId
<1>12. /\ Emitted(t, kept) \subseteq Emitted(t, Filtered(t))
       /\ Emitted(t, Filtered(t) \ kept) \subseteq Emitted(t, Filtered(t))
  BY <1>5
<1>13. delivered' \cap sampled_out' = {}
  BY <1>8, <1>11, <1>12 DEF RowInv, Out
<1> QED BY <1>8, <1>9, <1>10, <1>12, <1>13 DEF RowInv

(* The row-by-row invariant is preserved by every step. *)
LEMMA RowStep == Local /\ RowInv /\ [Next]_vars => RowInv'
<1> SUFFICES ASSUME Local, RowInv, [Next]_vars PROVE RowInv'
  OBVIOUS
<1> USE DEF pending, shared, history
<1>1. CASE UNCHANGED vars
  BY <1>1, QuietKeeps DEF vars, ToCome
<1>2. CASE Cancel
  BY <1>2, QuietKeeps DEF Cancel, ToCome
<1>3. CASE Finished
  BY <1>1, <1>3 DEF Finished
<1>4. ASSUME NEW t \in Threads, Step(t) PROVE RowInv'
  <2>0. /\ WellFormedScan(scan) /\ next_work_unit \in Nat
        /\ \A u \in Units(scan) : u \in Nat \ {0} /\ u <= Len(scan.work_units)
        /\ \A u \in Units(scan) : \A r \in PassingRows(scan, u) : r \in Nat /\ r > 0
        /\ Len(scan.work_units) \in Nat
    <3>1. WellFormedScan(scan) /\ next_work_unit \in Nat /\ Len(scan.work_units) \in Nat
      BY DEF Local, ThreadsTypeOK, WellFormedScan
    <3>2. \A u \in Units(scan) : \A r \in PassingRows(scan, u) : r \in Nat /\ r > 0
      BY <3>1, PassingRowsPositive
    <3> QED BY <3>1, <3>2 DEF Units
  <2>1. CASE Call(t)
    BY <2>1, QuietKeeps DEF Call, ToCome
  <2>2. CASE Exhausted(t)
    <3>1. next_work_unit' = next_work_unit + 1 /\ UNCHANGED <<scan, wu_idx, pending, history>>
      BY <2>2 DEF Exhausted, FetchAdd
    <3>2. \A u \in Units(scan) : ~(next_work_unit < u) /\ ~(next_work_unit' < u)
      BY <2>0, <2>2, <3>1 DEF Exhausted
    <3> QED BY <3>1, <3>2, QuietKeeps DEF ToCome
  <2>3. CASE Dispatch(t)
    <3> DEFINE n == next_work_unit + 1
    <3>1. /\ next_work_unit' = n /\ wu_idx'[t] = n /\ wu_idx[t] = 0
          /\ \A s \in Threads \ {t} : wu_idx'[s] = wu_idx[s]
          /\ UNCHANGED <<scan, history>>
      BY <2>3 DEF Dispatch, FetchAdd, Local, LocalStateFits, ThreadsTypeOK
    <3>2. /\ pending_offset'[t] = 0
          /\ \A s \in Threads \ {t} : pending_offset'[s] = pending_offset[s]
      BY <2>3 DEF Dispatch, SetPending, Local, LocalStateFits, NothingPending, ThreadsTypeOK
    <3>3. ASSUME NEW s \in Threads PROVE wu_idx[s] # n
      <4>1. wu_idx[s] # 0 => wu_idx[s] <= next_work_unit
        BY DEF Local, NoSharedUnit
      <4>2. wu_idx[s] \in Nat
        BY DEF Local, ThreadsTypeOK
      <4> QED BY <2>0, <4>1, <4>2
    <3>4. ASSUME NEW u \in Units(scan), NEW r \in PassingRows(scan, u)
          PROVE  ToCome(u, r)' <=> ToCome(u, r)
      <4>1. CASE u = n
        BY <2>0, <3>1, <3>2, <4>1 DEF ToCome
      <4>2. CASE u # n
        <5>1. next_work_unit < u <=> next_work_unit' < u
          BY <2>0, <3>1, <4>2
        <5>2. wu_idx[t] # u /\ wu_idx'[t] # u
          BY <2>0, <3>1, <4>2
        <5> QED BY <3>1, <3>2, <5>1, <5>2 DEF ToCome
      <4> QED BY <4>1, <4>2
    <3> QED BY <3>1, <3>4, QuietKeeps
  <2>4. CASE OpenReader(t)
    BY <2>4, QuietKeeps DEF OpenReader, ToCome
  <2>5. CASE OpenFails(t)
    BY <2>5, QuietKeeps DEF OpenFails, Throw, ToCome
  <2>6. CASE SkipBlock(t)
    <3>1. wu_idx[t] # 0 /\ ~FastPath(scan) /\ wu_idx[t] \in Units(scan)
      BY <2>6, HeldUnit DEF SkipBlock, Local, LocalStateFits
    <3>2. PassingRows(scan, wu_idx[t]) = {}
      BY <2>0, <2>6, <3>1, UnitFacts DEF SkipBlock, BlockPasses
    <3>3. /\ wu_idx'[t] = 0 /\ \A s \in Threads \ {t} : wu_idx'[s] = wu_idx[s]
          /\ UNCHANGED <<scan, next_work_unit, pending_offset, history>>
      BY <2>6 DEF SkipBlock, Local, ThreadsTypeOK
    <3>4. ASSUME NEW u \in Units(scan), NEW r \in PassingRows(scan, u)
          PROVE  ToCome(u, r)' <=> ToCome(u, r)
      <4>1. wu_idx[t] # u /\ wu_idx'[t] # u
        BY <2>0, <3>2, <3>3
      <4> QED BY <3>3, <4>1 DEF ToCome
    <3> QED BY <3>3, <3>4, QuietKeeps
  <2>7. CASE ScanBlock(t)
    BY <2>7, QuietKeeps DEF ScanBlock, ToCome
  <2>8. CASE ReadBlock(t)
    <3>1. pending_offset' = pending_offset
      BY <2>8 DEF ReadBlock, SetPending, Local, LocalStateFits, NothingPending, ThreadsTypeOK
    <3> QED BY <2>8, <3>1, QuietKeeps DEF ReadBlock, ToCome
  <2>9. CASE ReadFails(t)
    BY <2>9, QuietKeeps DEF ReadFails, Throw, ToCome
  <2>10. CASE FilteredOut(t)
    <3>1. /\ pc[t] = "emit" /\ Advance(t) /\ Filtered(t) = {}
          /\ scan' = scan /\ next_work_unit' = next_work_unit
          /\ delivered' = delivered /\ sampled_out' = sampled_out
      BY <2>10 DEF FilteredOut
    <3>2. Emitted(t, {}) = {} /\ Filtered(t) \ {} = {}
      BY <3>1 DEF Emitted
    <3> QED BY <3>1, <3>2, EmitKeeps
  <2>11. CASE SampledOut(t)
    <3>1. /\ pc[t] = "emit" /\ Advance(t)
          /\ scan' = scan /\ next_work_unit' = next_work_unit
          /\ delivered' = delivered
          /\ sampled_out' = sampled_out \cup Emitted(t, Filtered(t))
      BY <2>11 DEF SampledOut
    <3>2. Emitted(t, {}) = {} /\ Filtered(t) \ {} = Filtered(t)
      BY DEF Emitted
    <3> QED BY <3>1, <3>2, EmitKeeps
  <2>12. CASE EmitChunk(t)
    <3>1. PICK kept \in SUBSET Filtered(t) :
            /\ delivered' = delivered \cup Emitted(t, kept)
            /\ sampled_out' = sampled_out \cup Emitted(t, Filtered(t) \ kept)
      BY <2>12 DEF EmitChunk
    <3>2. /\ pc[t] = "emit" /\ Advance(t)
          /\ scan' = scan /\ next_work_unit' = next_work_unit
      BY <2>12 DEF EmitChunk
    <3> QED BY <3>1, <3>2, EmitKeeps
  <2>13. CASE EmitChunkFast(t)
    <3>1. /\ pc[t] = "emit" /\ Advance(t)
          /\ scan' = scan /\ next_work_unit' = next_work_unit
          /\ delivered' = delivered \cup Emitted(t, Filtered(t))
          /\ sampled_out' = sampled_out
      BY <2>13 DEF EmitChunkFast
    <3>2. Emitted(t, Filtered(t) \ Filtered(t)) = {}
      BY DEF Emitted
    <3> QED BY <3>1, <3>2, EmitKeeps
  <2>14. CASE Stop(t)
    BY <2>14, QuietKeeps DEF Stop, ToCome
  <2> QED
    BY <1>4, <2>1, <2>2, <2>3, <2>4, <2>5, <2>6, <2>7, <2>8, <2>9, <2>10, <2>11,
       <2>12, <2>13, <2>14 DEF Step
<1> QED BY <1>1, <1>2, <1>3, <1>4 DEF Next

(* No row is lost, repeated or invented: at every moment of every scan the
   matching rows are those delivered, those sampled out and those to come. *)
THEOREM RowsConserved == Spec => []RowConservation
  BY LocalInit, LocalStep, RowInit, RowStep, RowInvConserves, PTL DEF Spec

---------------------------------------------------------------------------
(* Counting, the end of the scan, and readers *)

Emission == IsFiniteSet(delivered) /\ EmittedOnce

(* The rows of a chunk are finitely many. *)
LEMMA FilteredFinite ==
  ASSUME Local, NEW t \in Threads, pc[t] = "emit"
  PROVE  /\ IsFiniteSet(Filtered(t))
         /\ FastPath(scan) => Cardinality(Filtered(t)) = ChunkRows(t)
<1>0. /\ PendingIsUnit(t) /\ wu_idx[t] \in Units(scan) /\ WellFormedScan(scan)
      /\ ChunkRows(t) \in Nat /\ ChunkEnd(t) \in Nat /\ pending_offset[t] \in Nat
      /\ pending_total_rows[t] \in Nat /\ ChunkEnd(t) <= pending_total_rows[t]
  BY ChunkFacts, HeldUnit
<1>1. PassingRows(scan, wu_idx[t]) \subseteq 1 .. pending_total_rows[t]
  BY <1>0, UnitFacts DEF PendingIsUnit
<1>2. Filtered(t) \subseteq 1 .. ChunkEnd(t)
  BY <1>0, <1>1 DEF Filtered
<1>3. IsFiniteSet(Filtered(t))
  <2>1. IsFiniteSet(1 .. ChunkEnd(t))
    <3>1. \A n \in Nat : IsFiniteSet(1 .. n)
      BY FS_Interval
    <3> QED BY <1>0, <3>1
  <2> QED BY <1>2, <2>1, FS_Subset
<1>4. ASSUME FastPath(scan) PROVE Cardinality(Filtered(t)) = ChunkRows(t)
  <2>1. PassingRows(scan, wu_idx[t]) = 1 .. pending_total_rows[t]
    BY <1>0, <1>4 DEF PassingRows, PendingIsUnit
  <2>2. Filtered(t) = (pending_offset[t] + 1) .. ChunkEnd(t)
    BY <1>0, <2>1 DEF Filtered
  <2>3. Cardinality((pending_offset[t] + 1) .. ChunkEnd(t)) =
          IF pending_offset[t] + 1 > ChunkEnd(t) THEN 0
          ELSE ChunkEnd(t) - (pending_offset[t] + 1) + 1
    <3>1. pending_offset[t] + 1 \in Int /\ ChunkEnd(t) \in Int
      BY <1>0
    <3> QED BY ONLY <3>1, FS_Interval
  <2> QED BY <1>0, <2>2, <2>3 DEF ChunkEnd
<1> QED BY <1>3, <1>4

(* Rows are emitted under different identities: as many as there are. *)
LEMMA EmittedCount ==
  ASSUME NEW t \in Threads, NEW rows, IsFiniteSet(rows)
  PROVE  /\ IsFiniteSet(Emitted(t, rows))
         /\ Cardinality(Emitted(t, rows)) = Cardinality(rows)
<1> DEFINE f == [r \in rows |-> RowId(pending_unit[t], r)]
<1>1. f \in Bijection(rows, Emitted(t, rows))
  BY DEF Bijection, Injection, Surjection, IsInjective, Emitted, RowId
<1>2. ExistsBijection(rows, Emitted(t, rows))
  BY <1>1 DEF ExistsBijection
<1> QED BY <1>2, FS_Bijection

(* Adding new rows to the delivered ones adds their number to the counter. *)
LEMMA EmissionAdds ==
  ASSUME Emission, NEW t \in Threads, NEW rows, IsFiniteSet(rows),
         Emitted(t, rows) \cap delivered = {},
         delivered' = delivered \cup Emitted(t, rows),
         rows_emitted' = rows_emitted + Cardinality(rows)
  PROVE  Emission'
<1>1. /\ IsFiniteSet(Emitted(t, rows))
      /\ Cardinality(Emitted(t, rows)) = Cardinality(rows)
  BY EmittedCount
<1>2. /\ IsFiniteSet(delivered')
      /\ Cardinality(delivered') = Cardinality(delivered) + Cardinality(Emitted(t, rows))
           - Cardinality(delivered \cap Emitted(t, rows))
  BY <1>1, FS_Union DEF Emission
<1>3. Cardinality(delivered \cap Emitted(t, rows)) = 0
  <2>1. delivered \cap Emitted(t, rows) = {}
    OBVIOUS
  <2> QED BY <2>1, FS_EmptySet
<1>4. Cardinality(delivered) \in Nat /\ Cardinality(rows) \in Nat
  BY FS_CardinalityType DEF Emission
<1> QED BY <1>1, <1>2, <1>3, <1>4 DEF Emission, EmittedOnce

(* The counter is the number of rows delivered, after every step. *)
LEMMA EmissionStep == Local /\ RowInv /\ Emission /\ [Next]_vars => Emission'
<1> SUFFICES ASSUME Local, RowInv, Emission, [Next]_vars PROVE Emission'
  OBVIOUS
<1> USE DEF shared, history
<1>0. delivered' = delivered /\ rows_emitted' = rows_emitted => Emission'
  BY DEF Emission, EmittedOnce
<1>1. CASE UNCHANGED vars
  BY <1>0, <1>1 DEF vars
<1>2. CASE Cancel
  BY <1>0, <1>2 DEF Cancel
<1>3. CASE Finished
  BY <1>0, <1>3 DEF Finished, vars
<1>4. ASSUME NEW t \in Threads, Step(t) PROVE Emission'
  <2>1. CASE EmitChunk(t)
    <3>1. PICK kept \in SUBSET Filtered(t) :
            /\ rows_emitted' = rows_emitted + Cardinality(kept)
            /\ delivered' = delivered \cup Emitted(t, kept)
            /\ sampled_out' = sampled_out \cup Emitted(t, Filtered(t) \ kept)
      BY <2>1 DEF EmitChunk
    <3>2. /\ pc[t] = "emit" /\ Advance(t)
          /\ scan' = scan /\ next_work_unit' = next_work_unit
      BY <2>1 DEF EmitChunk
    <3>3. Emitted(t, kept) \cap Out = {}
      BY <3>1, <3>2, EmitKeeps
    <3>4. IsFiniteSet(kept)
      BY <3>2, FilteredFinite, FS_Subset
    <3>5. Emitted(t, kept) \cap delivered = {}
      BY <3>3 DEF Out
    <3> QED BY <3>1, <3>4, <3>5, EmissionAdds
  <2>2. CASE EmitChunkFast(t)
    <3>1. /\ pc[t] = "emit" /\ Advance(t) /\ FastPath(scan)
          /\ scan' = scan /\ next_work_unit' = next_work_unit
          /\ delivered' = delivered \cup Emitted(t, Filtered(t))
          /\ sampled_out' = sampled_out
          /\ rows_emitted' = rows_emitted + ChunkRows(t)
      BY <2>2 DEF EmitChunkFast
    <3>2. Emitted(t, Filtered(t) \ Filtered(t)) = {}
      BY DEF Emitted
    <3>3. Emitted(t, Filtered(t)) \cap delivered = {}
      BY <3>1, <3>2, EmitKeeps DEF Out
    <3> QED BY <3>1, <3>3, FilteredFinite, EmissionAdds
  <2>3. CASE ~EmitChunk(t) /\ ~EmitChunkFast(t)
    <3>1. delivered' = delivered /\ rows_emitted' = rows_emitted
      BY <1>4, <2>3 DEF Step, Call, Exhausted, Dispatch, OpenReader, OpenFails, SkipBlock,
           ScanBlock, ReadBlock, ReadFails, FilteredOut, SampledOut, Stop, Throw
    <3> QED BY <1>0, <3>1
  <2> QED BY <2>1, <2>2, <2>3
<1> QED BY <1>1, <1>2, <1>3, <1>4 DEF Next

(* rows_emitted is the number of distinct rows DuckDB was given. *)
THEOREM RowsEmittedOnce == Spec => []EmittedOnce
<1>1. Init => Emission
  BY FS_EmptySet DEF Init, ThreadsInit, Emission, EmittedOnce
<1>2. Emission => EmittedOnce
  BY DEF Emission
<1> QED
  BY <1>1, <1>2, LocalInit, LocalStep, RowInit, RowStep, EmissionStep, PTL DEF Spec

(* A thread gets to the end only by finding the counter at the end, which never
   goes back. *)
LEMMA ExhaustedStep ==
  Local /\ ZeroMeansExhausted /\ [Next]_vars => ZeroMeansExhausted'
<1> SUFFICES ASSUME Local, ZeroMeansExhausted, [Next]_vars,
                    ~scan'.do_sample, NoEmptyUnit(scan'),
                    NEW s \in Threads, pc'[s] = "done"
             PROVE  next_work_unit' >= Len(scan'.work_units)
  BY DEF ZeroMeansExhausted
<1> USE DEF shared
<1>1. next_work_unit \in Nat /\ Len(scan.work_units) \in Nat
  BY DEF Local, ThreadsTypeOK, WellFormedScan
<1>2. scan' = scan /\ next_work_unit' \in {next_work_unit, next_work_unit + 1}
  <2>1. ASSUME NEW t \in Threads, Step(t)
        PROVE  scan' = scan /\ next_work_unit' \in {next_work_unit, next_work_unit + 1}
    BY <2>1 DEF Step, Call, Exhausted, Dispatch, OpenReader, OpenFails, SkipBlock, FetchAdd,
         ScanBlock, ReadBlock, ReadFails, FilteredOut, SampledOut, EmitChunk, EmitChunkFast,
         Stop, Throw
  <2> QED BY <2>1 DEF Next, Cancel, Finished, vars
<1>3. CASE pc[s] = "done"
  BY <1>1, <1>2, <1>3 DEF ZeroMeansExhausted
<1>4. CASE pc[s] # "done"
  <2>1. PICK t \in Threads : Step(t)
    BY <1>4 DEF Next, Cancel, Finished, vars
  <2>2. CASE Exhausted(t)
    BY <1>1, <1>2, <2>2 DEF Exhausted
  <2>3. CASE EmitChunkFast(t)
    <3>1. /\ pc[t] = "emit" /\ FastPath(scan)
          /\ Goto(t, IF ChunkRows(t) = 0 THEN "done" ELSE "idle")
      BY <2>3 DEF EmitChunkFast
    <3>2. PendingIsUnit(t) /\ wu_idx[t] \in Units(scan)
      BY <3>1, ChunkFacts, HeldUnit
    <3>3. pending_total_rows[t] > 0
      BY <1>2, <3>1, <3>2 DEF NoEmptyUnit, PendingIsUnit
    <3>4. ChunkRows(t) # 0
      BY <3>1, <3>3, ChunkFacts DEF ChunkEnd
    <3> QED BY <1>4, <3>1, <3>4 DEF Goto, Local, ThreadsTypeOK
  <2>4. CASE SampledOut(t)
    BY <1>2, <2>4 DEF SampledOut
  <2>5. CASE ~Exhausted(t) /\ ~EmitChunkFast(t) /\ ~SampledOut(t)
    <3>1. \E label \in Pcs \ {"done"} : Goto(t, label)
      BY <2>1, <2>5 DEF Step, Call, Dispatch, OpenReader, OpenFails, SkipBlock, ScanBlock,
           ReadBlock, ReadFails, FilteredOut, AfterFilteredChunk, EmitChunk, Stop, Throw, Pcs
    <3> QED BY <1>4, <3>1 DEF Goto, Local, ThreadsTypeOK
  <2> QED BY <2>2, <2>3, <2>4, <2>5
<1> QED BY <1>3, <1>4

(* A thread is told that the scan is complete only when every work unit has
   been handed out, unless the scan samples or counts an empty unit. *)
THEOREM ZeroOnlyWhenExhausted == Spec => []ZeroMeansExhausted
<1>1. Init => ZeroMeansExhausted
  BY DEF Init, ThreadsInit, ZeroMeansExhausted
<1> QED BY <1>1, LocalInit, LocalStep, ExhaustedStep, PTL DEF Spec

(* Once every thread has been told so, nothing is left to come. *)
LEMMA CompleteFromInvariants ==
  Local /\ RowInv /\ ZeroMeansExhausted /\ sampled_out = {} => CompleteAtEnd
<1> SUFFICES ASSUME Local, RowInv, ZeroMeansExhausted, sampled_out = {},
                    ~scan.do_sample, NoEmptyUnit(scan),
                    \A t \in Threads : pc[t] = "done", Threads # {}
             PROVE  delivered = WantedRows(scan)
  BY DEF CompleteAtEnd
<1>1. PICK t \in Threads : pc[t] = "done"
  OBVIOUS
<1>2. next_work_unit >= Len(scan.work_units)
  BY <1>1 DEF ZeroMeansExhausted
<1>3. \A s \in Threads : wu_idx[s] = 0
  BY DEF Local, LocalStateFits
<1>4. /\ WellFormedScan(scan) /\ next_work_unit \in Nat
      /\ \A u \in Units(scan) : u \in Nat \ {0} /\ u <= Len(scan.work_units)
      /\ Len(scan.work_units) \in Nat
  BY DEF Local, ThreadsTypeOK, Units, WellFormedScan
<1>5. ASSUME NEW u \in Units(scan), NEW r PROVE ~ToCome(u, r)
  <2>1. ~(next_work_unit < u)
    BY <1>2, <1>4
  <2> QED BY <1>3, <1>4, <2>1 DEF ToCome
<1>6. Remaining = {}
  BY <1>5 DEF Remaining
<1>7. delivered \cup sampled_out = WantedRows(scan)
  BY <1>6, RowInvConserves DEF RowConservation
<1> QED BY <1>7

(* Without sampling nothing is ever sampled out. *)
NoSample == ~scan.do_sample => sampled_out = {}

LEMMA NoSampleStep == NoSample /\ Local /\ [Next]_vars => NoSample'
<1> SUFFICES ASSUME NoSample, Local, [Next]_vars PROVE NoSample'
  OBVIOUS
<1> USE DEF history, NoSample
<1>1. CASE UNCHANGED vars \/ Cancel \/ Finished
  BY <1>1 DEF vars, Cancel, Finished
<1>2. ASSUME NEW t \in Threads, Step(t) PROVE NoSample'
  <2>1. CASE EmitChunk(t)
    <3>1. PICK kept \in SUBSET Filtered(t) :
            /\ scan.do_sample \/ kept = Filtered(t)
            /\ sampled_out' = sampled_out \cup Emitted(t, Filtered(t) \ kept)
      BY <2>1 DEF EmitChunk
    <3>2. kept = Filtered(t) => Emitted(t, Filtered(t) \ kept) = {}
      BY DEF Emitted
    <3> QED BY <2>1, <3>1, <3>2 DEF EmitChunk
  <2>2. CASE ~EmitChunk(t)
    BY <1>2, <2>2 DEF Step, Call, Exhausted, Dispatch, OpenReader, OpenFails, SkipBlock,
         ScanBlock, ReadBlock, ReadFails, FilteredOut, SampledOut, EmitChunkFast, Stop, Throw
  <2> QED BY <2>1, <2>2
<1> QED BY <1>1, <1>2 DEF Next

(* When all threads have been told that the scan is complete, all matching
   rows have been delivered. *)
THEOREM ScanCompleteAtEnd == Spec => []CompleteAtEnd
<1>1. Init => NoSample /\ ZeroMeansExhausted
  BY DEF Init, ThreadsInit, ZeroMeansExhausted, NoSample
<1>2. NoSample /\ Local /\ RowInv /\ ZeroMeansExhausted => CompleteAtEnd
  BY CompleteFromInvariants DEF CompleteAtEnd, NoSample
<1> QED
  BY <1>1, <1>2, LocalInit, LocalStep, RowInit, RowStep, ExhaustedStep, NoSampleStep, PTL DEF Spec

---------------------------------------------------------------------------
(* Statistics *)

(* The threads between taking a unit and counting its block, and those that an
   error stopped: some of these before the block was counted. *)
Opening == {t \in Threads : pc[t] \in {"open", "recheck"}}
Failed == {t \in Threads : pc[t] = "failed"}

(* The units handed out. *)
Taken == IF next_work_unit < Len(scan.work_units) THEN next_work_unit
         ELSE Len(scan.work_units)

(* Of the units handed out and of base blocks that were counted beforehand, those
   not counted yet are with a thread that opens or has failed.  BlockAccounting
   is the case of no such thread; it does not say enough to be inductive. *)
Accounted(base) ==
  /\ IsFiniteSet(Opening) /\ IsFiniteSet(Failed)
  /\ FastPath(scan) => blocks_scanned + blocks_skipped = base
  /\ ~FastPath(scan) =>
       /\ blocks_scanned + blocks_skipped + Cardinality(Opening) <= base + Taken
       /\ base + Taken <=
            blocks_scanned + blocks_skipped + Cardinality(Opening) + Cardinality(Failed)

(* A step that counts nothing and moves no thread in or out of the two sets. *)
LEMMA AccountedKeeps ==
  ASSUME NEW base \in Nat, Accounted(base), Opening' = Opening, Failed' = Failed,
         UNCHANGED <<scan, blocks_scanned, blocks_skipped>>, Taken' = Taken
  PROVE  Accounted(base)'
  BY DEF Accounted

(* Where a thread goes decides which of the two sets it is in. *)
LEMMA SetsAfterGoto ==
  ASSUME Local, NEW t \in Threads, NEW label \in Pcs, Goto(t, label)
  PROVE  /\ Opening' = IF label \in {"open", "recheck"} THEN Opening \cup {t} ELSE Opening \ {t}
         /\ Failed' = IF label = "failed" THEN Failed \cup {t} ELSE Failed \ {t}
  BY DEF Goto, Local, ThreadsTypeOK, Opening, Failed

(* The sets grow and shrink by one. *)
LEMMA OneMore ==
  ASSUME NEW S, NEW x, IsFiniteSet(S)
  PROVE  /\ Cardinality(S) \in Nat
         /\ IsFiniteSet(S \cup {x}) /\ IsFiniteSet(S \ {x})
         /\ x \notin S => Cardinality(S \cup {x}) = Cardinality(S) + 1
         /\ x \in S => Cardinality(S \ {x}) = Cardinality(S) - 1
  BY FS_CardinalityType, FS_AddElement, FS_RemoveElement

(* The account is kept by every step of every thread. *)
LEMMA AccountedStep ==
  ASSUME Local, NEW base \in Nat, Accounted(base), [Next]_vars
  PROVE  Accounted(base)'
<1> USE DEF pending, shared, history
<1>1. CASE UNCHANGED vars \/ Cancel \/ Finished
  <2>1. UNCHANGED <<scan, blocks_scanned, blocks_skipped, next_work_unit, pc>>
    BY <1>1 DEF vars, Cancel, Finished
  <2>2. Opening' = Opening /\ Failed' = Failed /\ Taken' = Taken
    BY <2>1 DEF Opening, Failed, Taken
  <2> QED BY <2>1, <2>2, AccountedKeeps
<1>2. ASSUME NEW t \in Threads, Step(t) PROVE Accounted(base)'
  <2>0. /\ next_work_unit \in Nat /\ Len(scan.work_units) \in Nat
        /\ blocks_scanned \in Nat /\ blocks_skipped \in Nat
        /\ Taken \in Nat
        /\ IsFiniteSet(Opening) /\ IsFiniteSet(Failed)
        /\ Cardinality(Opening) \in Nat /\ Cardinality(Failed) \in Nat
    <3>1. /\ next_work_unit \in Nat /\ Len(scan.work_units) \in Nat
          /\ blocks_scanned \in Nat /\ blocks_skipped \in Nat
      BY DEF Local, ThreadsTypeOK, WellFormedScan
    <3>2. IsFiniteSet(Opening) /\ IsFiniteSet(Failed)
      BY DEF Accounted
    <3> QED BY <3>1, <3>2, OneMore DEF Taken
  <2>1. CASE Dispatch(t)
    <3>1. /\ pc[t] = "dispatch" /\ next_work_unit' = next_work_unit + 1
          /\ next_work_unit < Len(scan.work_units)
          /\ UNCHANGED <<scan, blocks_scanned, blocks_skipped>>
          /\ Goto(t, IF FastPath(scan) THEN "emit" ELSE "open")
      BY <2>1 DEF Dispatch, FetchAdd
    <3>2. Taken' = Taken + 1
      BY <2>0, <3>1 DEF Taken
    <3>3. t \notin Opening /\ t \notin Failed
      BY <3>1 DEF Opening, Failed
    <3>4. CASE FastPath(scan)
      <4>1. Opening' = Opening \ {t} /\ Failed' = Failed \ {t}
        BY <3>1, <3>4, SetsAfterGoto DEF Pcs
      <4> QED BY <2>0, <3>1, <3>4, <4>1, OneMore DEF Accounted
    <3>5. CASE ~FastPath(scan)
      <4>1. Opening' = Opening \cup {t} /\ Failed' = Failed \ {t}
        BY <3>1, <3>5, SetsAfterGoto DEF Pcs
      <4>2. Failed' = Failed
        BY <3>3, <4>1
      <4>3. IsFiniteSet(Opening') /\ Cardinality(Opening') = Cardinality(Opening) + 1
        BY <2>0, <3>3, <4>1, OneMore
      <4> QED BY <2>0, <3>1, <3>2, <3>5, <4>2, <4>3 DEF Accounted
    <3> QED BY <3>4, <3>5
  <2>2. CASE SkipBlock(t) \/ ScanBlock(t)
    <3>0. \/ blocks_scanned' = blocks_scanned + 1 /\ blocks_skipped' = blocks_skipped
          \/ blocks_scanned' = blocks_scanned /\ blocks_skipped' = blocks_skipped + 1
      BY <2>0, <2>2 DEF SkipBlock, ScanBlock
    <3>1. /\ pc[t] = "recheck" /\ UNCHANGED <<scan, next_work_unit>>
          /\ \E label \in {"dispatch", "read"} : Goto(t, label)
      BY <2>2 DEF SkipBlock, ScanBlock
    <3>2. t \in Opening /\ t \notin Failed /\ ~FastPath(scan) /\ Taken' = Taken
      BY <3>1 DEF Opening, Failed, Taken, Local, LocalStateFits
    <3>3. Opening' = Opening \ {t} /\ Failed' = Failed \ {t}
      BY <3>1, SetsAfterGoto DEF Pcs
    <3>4. IsFiniteSet(Opening') /\ Cardinality(Opening') = Cardinality(Opening) - 1
      BY <2>0, <3>2, <3>3, OneMore
    <3>5. Failed' = Failed
      BY <3>2, <3>3
    <3> QED BY <2>0, <3>0, <3>1, <3>2, <3>4, <3>5 DEF Accounted
  <2>3. CASE OpenFails(t) \/ ReadFails(t)
    <3>1. /\ pc[t] \in {"open", "read"} /\ Goto(t, "failed")
          /\ UNCHANGED <<scan, next_work_unit, blocks_scanned, blocks_skipped>>
      BY <2>3 DEF OpenFails, ReadFails, Throw
    <3>2. t \notin Failed /\ Taken' = Taken /\ ~FastPath(scan)
      BY <3>1 DEF Failed, Taken, Local, LocalStateFits
    <3>3. Opening' = Opening \ {t} /\ Failed' = Failed \cup {t}
      BY <3>1, SetsAfterGoto DEF Pcs
    <3>4. /\ IsFiniteSet(Opening') /\ IsFiniteSet(Failed')
          /\ Cardinality(Failed') = Cardinality(Failed) + 1
      BY <2>0, <3>2, <3>3, OneMore
    <3>5. Cardinality(Opening') \in {Cardinality(Opening), Cardinality(Opening) - 1}
      BY <2>0, <3>3, FS_RemoveElement
    <3> QED BY <2>0, <3>1, <3>2, <3>4, <3>5 DEF Accounted
  <2>4. CASE OpenReader(t)
    <3>1. /\ pc[t] = "open" /\ Goto(t, "recheck")
          /\ UNCHANGED <<scan, next_work_unit, blocks_scanned, blocks_skipped>>
      BY <2>4 DEF OpenReader
    <3>2. t \in Opening /\ t \notin Failed /\ Taken' = Taken
      BY <3>1 DEF Opening, Failed, Taken
    <3>3. Opening' = Opening /\ Failed' = Failed
      BY <3>1, <3>2, SetsAfterGoto DEF Pcs
    <3> QED BY <3>1, <3>2, <3>3, AccountedKeeps
  <2>5. CASE Exhausted(t)
    <3>1. /\ pc[t] = "dispatch" /\ next_work_unit' = next_work_unit + 1 /\ Goto(t, "done")
          /\ next_work_unit >= Len(scan.work_units)
          /\ UNCHANGED <<scan, blocks_scanned, blocks_skipped>>
      BY <2>5 DEF Exhausted, FetchAdd
    <3>2. t \notin Opening /\ t \notin Failed /\ Taken' = Taken
      BY <2>0, <3>1 DEF Opening, Failed, Taken
    <3>3. Opening' = Opening \ {t} /\ Failed' = Failed \ {t}
      BY <3>1, SetsAfterGoto DEF Pcs
    <3> QED BY <3>1, <3>2, <3>3, AccountedKeeps
  <2>6. CASE \/ Call(t) \/ ReadBlock(t) \/ FilteredOut(t) \/ SampledOut(t)
             \/ EmitChunk(t) \/ EmitChunkFast(t) \/ Stop(t)
    <3>1. /\ pc[t] \in {"idle", "read", "emit"}
          /\ UNCHANGED <<scan, next_work_unit, blocks_scanned, blocks_skipped>>
          /\ \E label \in Pcs \ {"open", "recheck", "failed"} : Goto(t, label)
      BY <2>6 DEF Call, ReadBlock, FilteredOut, AfterFilteredChunk, SampledOut, EmitChunk,
           EmitChunkFast, Stop, Pcs
    <3>2. t \notin Opening /\ t \notin Failed /\ Taken' = Taken
      BY <3>1 DEF Opening, Failed, Taken
    <3>3. Opening' = Opening /\ Failed' = Failed
      BY <3>1, <3>2, SetsAfterGoto
    <3> QED BY <3>1, <3>2, <3>3, AccountedKeeps
  <2> QED BY <1>2, <2>1, <2>2, <2>3, <2>4, <2>5, <2>6 DEF Step
<1> QED BY <1>1, <1>2 DEF Next

LEMMA AccountedInit ==
  ASSUME ThreadsInit, NEW base \in Nat, blocks_skipped = base, WellFormedScan(scan)
  PROVE  Accounted(base)
<1>1. Opening = {} /\ Failed = {}
  BY DEF ThreadsInit, Opening, Failed
<1>2. Len(scan.work_units) \in Nat
  BY ScanExecAssumption DEF WellFormedScan
<1>3. Taken = 0 /\ blocks_scanned = 0
  BY <1>2 DEF ThreadsInit, Taken
<1> QED BY <1>1, <1>3, FS_EmptySet DEF Accounted

(* The blocks counted as scanned and as skipped are the units handed out,
   whichever threads counted them and whatever errors came between. *)
THEOREM BlocksAccounted == Spec => []BlockAccounting
<1>1. Init => Accounted(0)
  BY AccountedInit, ScanExecAssumption DEF Init
<1>2. Local /\ Accounted(0) /\ [Next]_vars => Accounted(0)'
  BY AccountedStep
<1>3. Local /\ Accounted(0) => BlockAccounting
  <2> SUFFICES ASSUME Local, Accounted(0), ~FastPath(scan),
                      \A t \in Threads : pc[t] \notin {"open", "recheck", "failed"}
               PROVE  blocks_scanned + blocks_skipped = Taken
    BY DEF BlockAccounting, Taken
  <2>1. Cardinality(Opening) = 0 /\ Cardinality(Failed) = 0
    BY FS_EmptySet DEF Opening, Failed
  <2>2. blocks_scanned \in Nat /\ blocks_skipped \in Nat /\ Taken \in Nat
    BY DEF Local, ThreadsTypeOK, Taken, WellFormedScan
  <2> QED BY <2>1, <2>2 DEF Accounted
<1> QED BY <1>1, <1>2, <1>3, LocalInit, LocalStep, PTL DEF Spec

---------------------------------------------------------------------------
(* Readers *)

(* A reader is open on the object of the unit it is used for. *)
THEOREM ReaderAlwaysMatches == Spec => []ReaderMatchesUnit
<1>1. Init => ReaderMatchesUnit
  BY DEF Init, ThreadsInit, ReaderMatchesUnit
<1>2. Local /\ ReaderMatchesUnit /\ [Next]_vars => ReaderMatchesUnit'
  <2> SUFFICES ASSUME Local, ReaderMatchesUnit, [Next]_vars,
                      NEW s \in Threads, pc'[s] \in {"recheck", "read"}
               PROVE  reader_object_idx'[s] = scan'.work_units[wu_idx'[s]].object_idx
    BY DEF ReaderMatchesUnit
  <2>1. CASE UNCHANGED vars \/ Cancel \/ Finished
    BY <2>1 DEF vars, Cancel, Finished, ReaderMatchesUnit
  <2>2. ASSUME NEW t \in Threads, Step(t)
        PROVE  reader_object_idx'[s] = scan'.work_units[wu_idx'[s]].object_idx
    <3>1. CASE OpenReader(t)
      BY <3>1 DEF OpenReader, ReaderIsOpen, Goto, ReaderMatchesUnit, Local, ThreadsTypeOK
    <3>2. CASE ScanBlock(t)
      BY <3>2 DEF ScanBlock, Goto, ReaderMatchesUnit, Local, ThreadsTypeOK
    <3>3. CASE ~OpenReader(t) /\ ~ScanBlock(t)
      <4>1. scan' = scan /\ reader_object_idx' = reader_object_idx
        BY <2>2, <3>3 DEF Step, Call, Exhausted, Dispatch, OpenFails, SkipBlock, ReadBlock,
             ReadFails, FilteredOut, SampledOut, EmitChunk, EmitChunkFast, Stop, Throw
      <4>2. \E label \in Pcs \ {"recheck", "read"} : Goto(t, label)
        BY <2>2, <3>3 DEF Step, Call, Exhausted, Dispatch, OpenFails, SkipBlock, ReadBlock,
             ReadFails, FilteredOut, AfterFilteredChunk, SampledOut, EmitChunk,
             EmitChunkFast, Stop, Throw, Pcs
      <4>3. s # t /\ pc[s] \in {"recheck", "read"}
        BY <4>2 DEF Goto, Local, ThreadsTypeOK
      <4>4. wu_idx'[s] = wu_idx[s]
        BY <2>2, <3>3, <4>3 DEF Step, Call, Exhausted, Dispatch, OpenFails, SkipBlock, ReadBlock,
             ReadFails, FilteredOut, SampledOut, EmitChunk, EmitChunkFast, Advance, Stop,
             Throw, Local, ThreadsTypeOK
      <4> QED BY <4>1, <4>3, <4>4 DEF ReaderMatchesUnit
    <3> QED BY <3>1, <3>2, <3>3
  <2> QED BY <2>1, <2>2 DEF Next
<1> QED BY <1>1, <1>2, LocalInit, LocalStep, PTL DEF Spec
---------------------------------------------------------------------------
(* Every step counts *)

(* A step is one thread's: the others stay where they are, with what they have. *)
LEMMA StepOfOne ==
  ASSUME Local, NEW t \in Threads, Step(t)
  PROVE  /\ scan' = scan /\ next_work_unit' \in {next_work_unit, next_work_unit + 1}
         /\ \A s \in Threads \ {t} : StepsLeft(s)' = StepsLeft(s)
<1> USE DEF shared, pending
<1>1. scan' = scan /\ next_work_unit' \in {next_work_unit, next_work_unit + 1}
  BY DEF Step, Call, Exhausted, Dispatch, OpenReader, OpenFails, SkipBlock, FetchAdd, ScanBlock,
     ReadBlock, ReadFails, FilteredOut, SampledOut, EmitChunk, EmitChunkFast, Stop, Throw
<1>2. \E label : Goto(t, label)
  BY DEF Step, Call, Exhausted, Dispatch, OpenReader, OpenFails, SkipBlock, ScanBlock,
     ReadBlock, ReadFails, FilteredOut, SampledOut, EmitChunk, EmitChunkFast, Stop, Throw
<1>3. \/ UNCHANGED pending \/ Advance(t)
      \/ \E u : SetPending(t, u)
  BY DEF Step, Call, Exhausted, Dispatch, OpenReader, OpenFails, SkipBlock, ScanBlock,
     ReadBlock, ReadFails, FilteredOut, SampledOut, EmitChunk, EmitChunkFast, Stop, Throw
<1>4. wu_idx' = wu_idx \/ \E u : wu_idx' = [wu_idx EXCEPT ![t] = u]
  BY DEF Step, Call, Exhausted, Dispatch, OpenReader, OpenFails, SkipBlock, ScanBlock,
     ReadBlock, ReadFails, FilteredOut, SampledOut, EmitChunk, EmitChunkFast, Stop, Throw, Advance
<1>5. ASSUME NEW s \in Threads \ {t} PROVE StepsLeft(s)' = StepsLeft(s)
  <2>1. pc'[s] = pc[s]
    BY <1>2 DEF Goto, Local, ThreadsTypeOK
  <2>2. wu_idx'[s] = wu_idx[s]
    BY <1>4 DEF Local, ThreadsTypeOK
  <2>3. pending_total_rows'[s] = pending_total_rows[s] /\ pending_offset'[s] = pending_offset[s]
    BY <1>3 DEF Advance, SetPending, Local, ThreadsTypeOK
  <2> QED BY <1>1, <2>1, <2>2, <2>3 DEF StepsLeft, RowsLeft
<1> QED BY <1>1, <1>5

(* What is left to do is a number, and nothing without a unit. *)
LeftIsNumber ==
  \A t \in Threads :
    /\ RowsLeft(t) \in Nat /\ StepsLeft(t) \in Nat
    /\ pc[t] \in {"dispatch", "done", "failed"} => RowsLeft(t) = 0

LEMMA LocalLeft == Local => LeftIsNumber
<1> SUFFICES ASSUME Local, NEW t \in Threads
             PROVE  /\ RowsLeft(t) \in Nat /\ StepsLeft(t) \in Nat
                    /\ pc[t] \in {"dispatch", "done", "failed"} => RowsLeft(t) = 0
  BY DEF LeftIsNumber
<1>1. /\ pc[t] \in Pcs
      /\ pending_total_rows[t] \in Nat /\ pending_offset[t] \in Nat
  BY DEF Local, ThreadsTypeOK
<1>2. CASE pc[t] \in {"open", "recheck", "read"}
  <2>1. wu_idx[t] # 0
    BY <1>2 DEF Local, LocalStateFits
  <2>2. InFile(scan, wu_idx[t]) => TotalRows(scan, wu_idx[t]) \in Nat
    BY <2>1, HeldUnit, UnitFacts
  <2> QED BY <1>2, <2>2 DEF RowsLeft, StepsLeft, Stage
<1>3. CASE pc[t] \notin {"open", "recheck", "read"}
  <2>1. pending_offset[t] <= pending_total_rows[t]
    BY <1>1, <1>3 DEF Local, LocalStateFits, PendingIsUnit, NothingPending, Pcs
  <2>2. pc[t] \in {"dispatch", "done", "failed"} => NothingPending(t)
    BY DEF Local, LocalStateFits
  <2>3. RowsLeft(t) = pending_total_rows[t] - pending_offset[t]
    BY <1>3 DEF RowsLeft
  <2>4. RowsLeft(t) \in Nat /\ (pc[t] \in {"dispatch", "done", "failed"} => RowsLeft(t) = 0)
    BY <1>1, <2>1, <2>2, <2>3 DEF NothingPending
  <2>5. Stage[pc[t]] \in Nat
    BY <1>1 DEF Stage, Pcs
  <2> QED BY <2>4, <2>5 DEF StepsLeft
<1> QED BY <1>2, <1>3

(* A chunk takes its rows off, whether they are returned or not; only a block of no
   rows has a chunk of none. *)
LEMMA AdvanceCounts ==
  ASSUME Local, Local', NEW t \in Threads, pc[t] = "emit", Advance(t),
         NEW label \in {"emit", "idle", "dispatch", "done"}, Goto(t, label),
         pending_total_rows[t] = 0 => label \in {"dispatch", "done"},
         scan' = scan
  PROVE  StepsLeft(t)' < StepsLeft(t)
<1>1. /\ pending_offset[t] \in Nat /\ pending_total_rows[t] \in Nat
      /\ ChunkEnd(t) \in Nat /\ ChunkEnd(t) <= pending_total_rows[t]
      /\ pending_total_rows[t] > 0 => ChunkEnd(t) > pending_offset[t]
      /\ MorePending(t) = (ChunkEnd(t) < pending_total_rows[t])
      /\ PendingIsUnit(t)
  BY ChunkFacts DEF MorePending
<1>2. /\ pc'[t] = label
      /\ pending_total_rows'[t] = IF MorePending(t) THEN pending_total_rows[t] ELSE 0
      /\ pending_offset'[t] = IF MorePending(t) THEN ChunkEnd(t) ELSE 0
  BY DEF Advance, Goto, Local, ThreadsTypeOK
<1>3. /\ RowsLeft(t) = pending_total_rows[t] - pending_offset[t]
      /\ RowsLeft(t)' = pending_total_rows'[t] - pending_offset'[t]
  BY <1>2 DEF RowsLeft
<1>4. /\ StepsLeft(t) = 2 * RowsLeft(t) + 2
      /\ StepsLeft(t)' = 2 * RowsLeft(t)' + Stage[label]
  BY <1>2 DEF StepsLeft, Stage
<1>5. CASE pending_total_rows[t] > 0
  <2>1. RowsLeft(t)' + 1 <= RowsLeft(t) /\ RowsLeft(t) \in Nat /\ RowsLeft(t)' \in Nat
    <3>1. pending_offset[t] < pending_total_rows[t]
      BY <1>1, <1>5
    <3> QED BY <1>1, <1>2, <1>3, <3>1
  <2>2. Stage[label] \in 0 .. 3
    BY DEF Stage
  <2> QED BY <1>4, <2>1, <2>2
<1>6. CASE pending_total_rows[t] = 0
  <2>1. RowsLeft(t) = 0 /\ RowsLeft(t)' = 0
    BY <1>1, <1>2, <1>3, <1>6 DEF PendingIsUnit, NothingPending
  <2>2. Stage[label] \in 0 .. 1
    BY <1>6 DEF Stage
  <2> QED BY <1>4, <2>1, <2>2
<1> QED BY <1>1, <1>5, <1>6

(* A step takes a unit of the queue or leaves its thread less to do.  In particular no
   step leaves everything as it was. *)
LEMMA StepCounts ==
  ASSUME Local, Local', NEW t \in Threads, Step(t)
  PROVE  \/ next_work_unit < Len(scan.work_units) /\ next_work_unit' = next_work_unit + 1
         \/ StepsLeft(t)' \in Nat /\ StepsLeft(t)' < StepsLeft(t)
<1> USE DEF shared, pending
<1>0. /\ pc[t] \in Pcs /\ pc \in [Threads -> Pcs]
      /\ RowsLeft(t) \in Nat /\ RowsLeft(t)' \in Nat /\ StepsLeft(t) \in Nat /\ StepsLeft(t)' \in Nat
      /\ pc[t] \in {"dispatch", "done", "failed"} => RowsLeft(t) = 0
      /\ pc'[t] \in {"dispatch", "done", "failed"} => RowsLeft(t)' = 0
      /\ scan' = scan
  <2>1. LeftIsNumber /\ LeftIsNumber'
    BY LocalLeft, PTL
  <2> QED BY <2>1, StepOfOne DEF LeftIsNumber, Local, ThreadsTypeOK
<1>1. CASE Call(t) \/ Stop(t)
  <2>1. /\ pc[t] = "idle" /\ pc'[t] \in {"emit", "dispatch", "stopped"}
        /\ RowsLeft(t)' = RowsLeft(t)
    BY <1>0, <1>1 DEF Call, Stop, Goto, RowsLeft
  <2> QED BY <1>0, <2>1 DEF StepsLeft, Stage
<1>2. CASE Exhausted(t)
  <2>1. pc[t] = "dispatch" /\ pc'[t] = "done"
    BY <1>0, <1>2 DEF Exhausted, Goto
  <2> QED BY <1>0, <2>1 DEF StepsLeft, Stage
<1>3. CASE Dispatch(t)
  BY <1>3 DEF Dispatch, FetchAdd
<1>4. CASE OpenReader(t) \/ ScanBlock(t)
  <2>1. /\ \/ pc[t] = "open" /\ pc'[t] = "recheck"
           \/ pc[t] = "recheck" /\ pc'[t] = "read"
        /\ RowsLeft(t)' = RowsLeft(t)
    BY <1>0, <1>4 DEF OpenReader, ScanBlock, Goto, RowsLeft
  <2> QED BY <1>0, <2>1 DEF StepsLeft, Stage
<1>5. CASE OpenFails(t) \/ ReadFails(t) \/ SkipBlock(t)
  <2>1. pc[t] \in {"open", "recheck", "read"} /\ pc'[t] \in {"failed", "dispatch"}
    BY <1>0, <1>5 DEF OpenFails, ReadFails, SkipBlock, Throw, Goto
  <2> QED BY <1>0, <2>1 DEF StepsLeft, Stage
<1>6. CASE ReadBlock(t)
  <2>1. /\ pc[t] = "read" /\ pc'[t] = "emit"
        /\ InFile(scan, wu_idx[t]) /\ wu_idx' = wu_idx
        /\ pending_total_rows'[t] = TotalRows(scan, wu_idx[t]) /\ pending_offset'[t] = 0
    BY <1>0, <1>6 DEF ReadBlock, Goto, SetPending, Local, ThreadsTypeOK
  <2>2. RowsLeft(t)' = RowsLeft(t)
    BY <1>0, <2>1 DEF RowsLeft
  <2> QED BY <1>0, <2>1, <2>2 DEF StepsLeft, Stage
<1>7. CASE FilteredOut(t) \/ SampledOut(t) \/ EmitChunk(t) \/ EmitChunkFast(t)
  <2>1. pc[t] = "emit" /\ Advance(t)
    BY <1>7 DEF FilteredOut, SampledOut, EmitChunk, EmitChunkFast
  <2>2. /\ ChunkRows(t) \in Nat /\ pending_offset[t] \in Nat /\ pending_total_rows[t] \in Nat
        /\ ChunkEnd(t) = pending_offset[t] + ChunkRows(t)
        /\ pending_total_rows[t] > 0 => ChunkEnd(t) > pending_offset[t]
        /\ ChunkEnd(t) <= pending_total_rows[t]
        /\ MorePending(t) = (ChunkEnd(t) < pending_total_rows[t])
        /\ wu_idx[t] \in Units(scan) /\ PendingIsUnit(t)
    BY <2>1, ChunkFacts, HeldUnit DEF ChunkEnd, MorePending
  <2>3. pending_total_rows[t] = 0 => ~MorePending(t) /\ ChunkRows(t) = 0 /\ Filtered(t) = {}
    <3> SUFFICES ASSUME pending_total_rows[t] = 0
                 PROVE  ~MorePending(t) /\ ChunkRows(t) = 0 /\ Filtered(t) = {}
      OBVIOUS
    <3>1. PassingRows(scan, wu_idx[t]) \subseteq 1 .. 0
      BY <2>2, UnitFacts DEF PendingIsUnit, Local
    <3>2. Filtered(t) = {}
      BY <3>1 DEF Filtered
    <3>3. ChunkRows(t) = 0 /\ ~(ChunkEnd(t) < pending_total_rows[t])
      BY <2>2
    <3> QED BY <2>2, <3>2, <3>3
  <2>4. CASE FilteredOut(t)
    BY <1>0, <2>1, <2>3, <2>4, AdvanceCounts DEF FilteredOut, AfterFilteredChunk
  <2>5. CASE SampledOut(t)
    BY <1>0, <2>1, <2>3, <2>5, AdvanceCounts DEF SampledOut
  <2>6. CASE EmitChunk(t)
    BY <1>0, <2>1, <2>3, <2>6, AdvanceCounts DEF EmitChunk
  <2>7. CASE EmitChunkFast(t)
    BY <1>0, <2>1, <2>3, <2>7, AdvanceCounts DEF EmitChunkFast
  <2> QED BY <1>7, <2>4, <2>5, <2>6, <2>7
<1> QED BY <1>1, <1>2, <1>3, <1>4, <1>5, <1>6, <1>7 DEF Step

(* No loop of TAEScanExecute goes round without getting on: a step takes one of the
   finitely many units, or uses up something of its thread's own and gives nothing to
   do to another.  With the fairness of Step this is why every thread's task ends. *)
THEOREM StepsCount == Spec => EveryStepCounts
<1>1. Local /\ Local' /\ [Next]_vars =>
        [\A t \in Threads : Step(t) =>
           \/ next_work_unit < Len(scan.work_units) /\ next_work_unit' = next_work_unit + 1
           \/ /\ next_work_unit' >= next_work_unit
              /\ StepsLeft(t)' \in Nat /\ StepsLeft(t)' < StepsLeft(t)
              /\ \A s \in Threads \ {t} : StepsLeft(s)' = StepsLeft(s)]_vars
  <2> SUFFICES ASSUME Local, Local', NEW t \in Threads, Step(t)
               PROVE  \/ next_work_unit < Len(scan.work_units) /\ next_work_unit' = next_work_unit + 1
                      \/ /\ next_work_unit' >= next_work_unit
                         /\ StepsLeft(t)' \in Nat /\ StepsLeft(t)' < StepsLeft(t)
                         /\ \A s \in Threads \ {t} : StepsLeft(s)' = StepsLeft(s)
    OBVIOUS
  <2>1. next_work_unit \in Nat
    BY DEF Local, ThreadsTypeOK
  <2> QED BY <2>1, StepOfOne, StepCounts
<1> QED BY <1>1, LocalInit, LocalStep, PTL DEF Spec, EveryStepCounts
===========================================================================
