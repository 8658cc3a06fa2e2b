---------------------------- MODULE TaeScan_proofs ----------------------------
(***************************************************************************)
(* Theorems about a whole scan, for all bind data and any number of        *)
(* threads: what ScanInit_proofs says of plans and ScanExec_proofs of       *)
(* threads, put together.                                                  *)
(***************************************************************************)
EXTENDS ScanStatistics, ScanInit_proofs

(* What is proved of the threads, for the plan as their scan. *)
ExecP == INSTANCE ScanExec_proofs WITH scan <- Plan, Scans <- {}

---------------------------------------------------------------------------
(* TaeScan takes its threads from ScanExec, and ScanExec_proofs extends it: the
   definitions are the same. *)
LEMMA SameScan ==
  ASSUME NEW sc
  PROVE  /\ Exec!FastPath(sc) <=> ExecP!FastPath(sc)
         /\ Exec!WantedRows(sc) = ExecP!WantedRows(sc)
         /\ Exec!WellFormedScan(sc) <=> ExecP!WellFormedScan(sc)
         /\ \A u : /\ Exec!UnitObject(sc, u) = ExecP!UnitObject(sc, u)
                   /\ Exec!InFile(sc, u) <=> ExecP!InFile(sc, u)
                   /\ Exec!UnitBlock(sc, u) = ExecP!UnitBlock(sc, u)
                   /\ Exec!TotalRows(sc, u) = ExecP!TotalRows(sc, u)
                   /\ Exec!PassingRows(sc, u) = ExecP!PassingRows(sc, u)
<1>1. Exec!FastPath(sc) <=> ExecP!FastPath(sc)
  BY DEF Exec!FastPath, ExecP!FastPath
<1>2. ASSUME NEW u
      PROVE  /\ Exec!UnitObject(sc, u) = ExecP!UnitObject(sc, u)
             /\ Exec!InFile(sc, u) <=> ExecP!InFile(sc, u)
             /\ Exec!UnitBlock(sc, u) = ExecP!UnitBlock(sc, u)
             /\ Exec!TotalRows(sc, u) = ExecP!TotalRows(sc, u)
  BY <1>1 DEF Exec!UnitObject, ExecP!UnitObject, Exec!InFile, ExecP!InFile, Exec!UnitBlock,
       ExecP!UnitBlock, Exec!TotalRows, ExecP!TotalRows, Exec!ManifestBlockRowCount,
       ExecP!ManifestBlockRowCount, Exec!RowsBeforeLast, ExecP!RowsBeforeLast,
       Exec!RowsOfLast, ExecP!RowsOfLast
<1>3. ASSUME NEW u PROVE Exec!PassingRows(sc, u) = ExecP!PassingRows(sc, u)
  BY <1>1, <1>2 DEF Exec!PassingRows, ExecP!PassingRows
<1>4. Exec!WantedRows(sc) = ExecP!WantedRows(sc)
  BY <1>3 DEF Exec!WantedRows, ExecP!WantedRows, Exec!Units, ExecP!Units, Exec!RowId,
       ExecP!RowId
<1>5. Exec!WellFormedScan(sc) <=> ExecP!WellFormedScan(sc)
  BY <1>2 DEF Exec!WellFormedScan, ExecP!WellFormedScan, Exec!Units, ExecP!Units, Exec!Object,
       ExecP!Object, Exec!FileBlock, ExecP!FileBlock, Exec!WorkUnit, ExecP!WorkUnit
<1> QED BY <1>1, <1>2, <1>3, <1>4, <1>5

LEMMA SameNext == Exec!Next <=> ExecP!Next
<1>1. ASSUME NEW t \in Threads PROVE Exec!Step(t) <=> ExecP!Step(t)
  <2>1. /\ Exec!ChunkRows(t) = ExecP!ChunkRows(t)
        /\ Exec!MorePending(t) <=> ExecP!MorePending(t)
        /\ Exec!Filtered(t) = ExecP!Filtered(t)
    BY SameScan DEF Exec!ChunkRows, ExecP!ChunkRows, Exec!ChunkEnd, ExecP!ChunkEnd,
         Exec!MorePending, ExecP!MorePending, Exec!Filtered, ExecP!Filtered
  <2>2. /\ Exec!Advance(t) <=> ExecP!Advance(t)
        /\ \A rows : Exec!Emitted(t, rows) = ExecP!Emitted(t, rows)
    BY <2>1 DEF Exec!Advance, ExecP!Advance, Exec!ChunkEnd, ExecP!ChunkEnd, Exec!ChunkRows,
         ExecP!ChunkRows, Exec!Emitted, ExecP!Emitted, Exec!RowId, ExecP!RowId
  <2>3. Exec!Call(t) <=> ExecP!Call(t)
    BY <2>1, <2>2, SameScan DEF Exec!Call, ExecP!Call, Exec!Goto, ExecP!Goto, Exec!shared,
         ExecP!shared, Exec!pending, ExecP!pending, Exec!history, ExecP!history
  <2>4. Exec!Exhausted(t) <=> ExecP!Exhausted(t)
    BY <2>1, <2>2, SameScan DEF Exec!Exhausted, ExecP!Exhausted, Exec!Goto, ExecP!Goto,
         Exec!FetchAdd, ExecP!FetchAdd, Exec!pending, ExecP!pending, Exec!history,
         ExecP!history
  <2>5. Exec!Dispatch(t) <=> ExecP!Dispatch(t)
    BY <2>1, <2>2, SameScan DEF Exec!Dispatch, ExecP!Dispatch, Exec!Goto, ExecP!Goto,
         Exec!FetchAdd, ExecP!FetchAdd, Exec!SetPending, ExecP!SetPending, Exec!pending,
         ExecP!pending, Exec!history, ExecP!history
  <2>6. Exec!OpenReader(t) <=> ExecP!OpenReader(t)
    BY <2>1, <2>2, SameScan DEF Exec!OpenReader, ExecP!OpenReader, Exec!ReaderIsOpen,
         ExecP!ReaderIsOpen, Exec!Goto, ExecP!Goto, Exec!shared, ExecP!shared, Exec!pending,
         ExecP!pending, Exec!history, ExecP!history
  <2>7. Exec!OpenFails(t) <=> ExecP!OpenFails(t)
    BY <2>1, <2>2, SameScan DEF Exec!OpenFails, ExecP!OpenFails, Exec!ReaderIsOpen,
         ExecP!ReaderIsOpen, Exec!Throw, ExecP!Throw, Exec!Goto, ExecP!Goto, Exec!shared,
         ExecP!shared, Exec!pending, ExecP!pending, Exec!history, ExecP!history
  <2>8. Exec!SkipBlock(t) <=> ExecP!SkipBlock(t)
    BY <2>1, <2>2, SameScan DEF Exec!SkipBlock, ExecP!SkipBlock, Exec!BlockPasses,
         ExecP!BlockPasses, Exec!Goto, ExecP!Goto, Exec!pending, ExecP!pending, Exec!history,
         ExecP!history
  <2>9. Exec!ScanBlock(t) <=> ExecP!ScanBlock(t)
    BY <2>1, <2>2, SameScan DEF Exec!ScanBlock, ExecP!ScanBlock, Exec!BlockPasses,
         ExecP!BlockPasses, Exec!Goto, ExecP!Goto, Exec!pending, ExecP!pending, Exec!history,
         ExecP!history
  <2>10. Exec!ReadBlock(t) <=> ExecP!ReadBlock(t)
    BY <2>1, <2>2, SameScan DEF Exec!ReadBlock, ExecP!ReadBlock, Exec!SetPending,
         ExecP!SetPending, Exec!Goto, ExecP!Goto, Exec!shared, ExecP!shared, Exec!history,
         ExecP!history
  <2>11. Exec!ReadFails(t) <=> ExecP!ReadFails(t)
    BY <2>1, <2>2, SameScan DEF Exec!ReadFails, ExecP!ReadFails, Exec!Throw, ExecP!Throw,
         Exec!Goto, ExecP!Goto, Exec!shared, ExecP!shared, Exec!pending, ExecP!pending,
         Exec!history, ExecP!history
  <2>12. Exec!FilteredOut(t) <=> ExecP!FilteredOut(t)
    BY <2>1, <2>2, SameScan DEF Exec!FilteredOut, ExecP!FilteredOut, Exec!Goto, ExecP!Goto,
         Exec!AfterFilteredChunk, ExecP!AfterFilteredChunk, Exec!shared, ExecP!shared,
         Exec!history, ExecP!history
  <2>13. Exec!SampledOut(t) <=> ExecP!SampledOut(t)
    BY <2>1, <2>2, SameScan DEF Exec!SampledOut, ExecP!SampledOut, Exec!Goto, ExecP!Goto,
         Exec!shared, ExecP!shared, Exec!history, ExecP!history
  <2>14. Exec!EmitChunk(t) <=> ExecP!EmitChunk(t)
    BY <2>1, <2>2, SameScan DEF Exec!EmitChunk, ExecP!EmitChunk, Exec!Goto, ExecP!Goto,
         Exec!Cardinality, ExecP!Cardinality
  <2>15. Exec!EmitChunkFast(t) <=> ExecP!EmitChunkFast(t)
    BY <2>1, <2>2, SameScan DEF Exec!EmitChunkFast, ExecP!EmitChunkFast, Exec!Goto, ExecP!Goto
  <2>16. Exec!Stop(t) <=> ExecP!Stop(t)
    BY <2>1, <2>2, SameScan DEF Exec!Stop, ExecP!Stop, Exec!Goto, ExecP!Goto, Exec!shared,
         ExecP!shared, Exec!pending, ExecP!pending, Exec!history, ExecP!history
  <2> QED BY <2>3, <2>4, <2>5, <2>6, <2>7, <2>8, <2>9, <2>10, <2>11, <2>12, <2>13, <2>14,
       <2>15, <2>16 DEF Exec!Step, ExecP!Step
<1>2. Exec!Cancel <=> ExecP!Cancel
  BY DEF Exec!Cancel, ExecP!Cancel, Exec!shared, ExecP!shared, Exec!pending, ExecP!pending,
       Exec!history, ExecP!history
<1>3. Exec!Finished <=> ExecP!Finished
  BY DEF Exec!Finished, ExecP!Finished, Exec!Terminal, ExecP!Terminal, Exec!vars, ExecP!vars,
       Exec!shared, ExecP!shared, Exec!pending, ExecP!pending, Exec!history, ExecP!history
<1> QED BY <1>1, <1>2, <1>3 DEF Exec!Next, ExecP!Next

---------------------------------------------------------------------------
(* The plan *)

(* The rows of a block are a sequence. *)
LEMMA BlockRows ==
  ASSUME TypeOK, NEW o \in 1 .. Len(bind.objects), NEW b \in 1 .. Len(bind.objects[o].file)
  PROVE  /\ Len(bind.objects[o].file[b].rows) \in Nat
         /\ DOMAIN bind.objects[o].file[b].rows = 1 .. Len(bind.objects[o].file[b].rows)
<1> DEFINE file == bind.objects[o].file
           Rows == Seq([Columns -> Int \cup {Null}])
           Maps == [Columns -> [inited : {FALSE}] \cup [inited : {TRUE}, min : Int, max : Int]]
<1>1. WellFormedBind(bind) /\ o \in DOMAIN bind.objects
  BY BindFacts DEF WellFormedBind
<1>2. file \in Seq([rows : Rows, zms : Maps])
  BY <1>1 DEF WellFormedBind, WellFormedObject
<1>3. file[b].rows \in Rows
  <2> HIDE DEF Rows, Maps
  <2>1. file[b] \in [rows : Rows, zms : Maps]
    BY <1>2, ElementOfSeq
  <2> QED BY <2>1
<1> QED BY <1>3

(* The objects of a plan, as the threads see them. *)
LEMMA PlanObjects ==
  ASSUME TypeOK, NEW o \in 1 .. Len(bind.objects)
  PROVE  /\ AsObject(bind.objects[o]) \in ExecP!Object
         /\ \A b \in 1 .. Len(bind.objects[o].file) :
              LET block == AsFileBlock(bind.objects[o].file[b])
              IN  /\ AsObject(bind.objects[o]).file[b] = block
                  /\ block.match \subseteq 1 .. block.rows
                  /\ HasMatch(o, b) <=> block.match # {}
                  /\ ~block.zm_pass => block.match = {}
<1> DEFINE obj_o == bind.objects[o]
           file == bind.objects[o].file
<1>1. /\ obj_o.rows \in Nat /\ obj_o.blocks \in Nat
      /\ Len(file) \in Nat /\ DOMAIN file = 1 .. Len(file)
      /\ \A b \in 1 .. Len(file) : /\ Len(file[b].rows) \in Nat
                                  /\ DOMAIN file[b].rows = 1 .. Len(file[b].rows)
  <2>1. obj_o.rows \in Nat
    BY BindFacts, TaeScanAssumption DEF TypeOK, WellFormedBind
  <2> QED BY <2>1, BindFacts, BlockRows
<1>2. ASSUME NEW b \in 1 .. Len(file)
      PROVE  LET block == AsFileBlock(file[b])
             IN  /\ block \in ExecP!FileBlock
                 /\ block.match \subseteq 1 .. block.rows
                 /\ HasMatch(o, b) <=> block.match # {}
                 /\ ~block.zm_pass => block.match = {}
  <2>1. AsFileBlock(file[b]) \in ExecP!FileBlock
    BY <1>1 DEF AsFileBlock, ExecP!FileBlock, BlockPassesFilters
  <2>2. HasMatch(o, b) <=> AsFileBlock(file[b]).match # {}
    BY DEF HasMatch, AsFileBlock
  <2>3. ~AsFileBlock(file[b]).zm_pass => AsFileBlock(file[b]).match = {}
    BY <1>1, <2>2, RejectedHasNoMatch DEF AsFileBlock
  <2>4. AsFileBlock(file[b]).match \subseteq 1 .. AsFileBlock(file[b]).rows
    BY <1>1 DEF AsFileBlock
  <2> QED BY <2>1, <2>2, <2>3, <2>4
<1>3. [b \in 1 .. Len(file) |-> AsFileBlock(file[b])] \in Seq(ExecP!FileBlock)
  BY <1>1, <1>2
<1>4. AsObject(obj_o) \in ExecP!Object
  BY <1>1, <1>3 DEF AsObject, ExecP!Object
<1> QED BY <1>2, <1>4 DEF AsObject

(* A unit is a block of an object, if the file has it. *)
LEMMA PlanUnit ==
  ASSUME TypeOK, NEW u \in 1 .. Len(work_units)
  PROVE  \E o \in 1 .. Len(bind.objects), b \in Nat \ {0} :
           /\ work_units[u] = Unit(o, b) /\ Plan.work_units[u] = Unit(o, b)
           /\ ExecP!UnitObject(Plan, u) = AsObject(bind.objects[o])
           /\ ExecP!InFile(Plan, u) <=> b \in 1 .. Len(bind.objects[o].file)
           /\ ExecP!InFile(Plan, u) =>
                ExecP!UnitBlock(Plan, u) = AsFileBlock(bind.objects[o].file[b])
<1>1. PICK o \in 1 .. Len(bind.objects), b \in Nat \ {0} : work_units[u] = Unit(o, b)
  BY PlanFacts DEF UnitsOfBind, Unit
<1>2. /\ Plan.work_units = work_units
      /\ Plan.objects = [x \in 1 .. Len(bind.objects) |-> AsObject(bind.objects[x])]
  BY DEF Plan
<1>3. ExecP!UnitObject(Plan, u) = AsObject(bind.objects[o])
  BY <1>1, <1>2 DEF ExecP!UnitObject, Unit
<1>4. Len(bind.objects[o].file) \in Nat
  BY BindFacts
<1>5. Len(AsObject(bind.objects[o]).file) = Len(bind.objects[o].file)
  BY <1>4 DEF AsObject
<1>6. ExecP!InFile(Plan, u) <=> b \in 1 .. Len(bind.objects[o].file)
  BY <1>1, <1>2, <1>3, <1>4, <1>5 DEF ExecP!InFile, Unit
<1>7. ExecP!InFile(Plan, u) => ExecP!UnitBlock(Plan, u) = AsFileBlock(bind.objects[o].file[b])
  BY <1>1, <1>2, <1>3, <1>6, PlanObjects DEF ExecP!UnitBlock, Unit
<1> QED BY <1>1, <1>2, <1>3, <1>6, <1>7

(* The plan is one that TAEScanExecute can work off. *)
LEMMA PlanWellFormed == TypeOK /\ UnitsDistinct => ExecP!WellFormedScan(Plan)
<1> SUFFICES ASSUME TypeOK, UnitsDistinct PROVE ExecP!WellFormedScan(Plan)
  OBVIOUS
<1> DEFINE objects == [o \in 1 .. Len(bind.objects) |-> AsObject(bind.objects[o])]
<1>1. Len(bind.objects) \in Nat /\ objects \in Seq(ExecP!Object) /\ Len(objects) = Len(bind.objects)
  BY BindFacts, PlanObjects
<1>2. work_units \in Seq(ExecP!WorkUnit)
  <2>1. UnitsOfBind \subseteq ExecP!WorkUnit
    BY <1>1 DEF UnitsOfBind, ExecP!WorkUnit
  <2> QED BY <2>1, PlanFacts
<1>3. Plan \in [objects : Seq(ExecP!Object), work_units : Seq(ExecP!WorkUnit),
                read_seqnums : BOOLEAN, filters : BOOLEAN, do_sample : BOOLEAN]
  <2>1. bind.read_columns \in BOOLEAN /\ bind.do_sample \in BOOLEAN
    BY TaeScanAssumption DEF TypeOK
  <2> QED BY <1>1, <1>2, <2>1 DEF Plan
<1>4. Plan.objects = objects /\ Plan.work_units = work_units
  BY DEF Plan
<1>5. \A u \in 1 .. Len(work_units) : work_units[u].object_idx \in 1 .. Len(bind.objects)
  BY PlanFacts DEF UnitsOfBind
<1>6. \A u, v \in 1 .. Len(work_units) : u # v => work_units[u] # work_units[v]
  BY PlanFacts DEF UnitsDistinct
<1>7. ASSUME NEW u \in 1 .. Len(work_units), ExecP!InFile(Plan, u)
      PROVE  /\ ExecP!UnitBlock(Plan, u).match \subseteq 1 .. ExecP!UnitBlock(Plan, u).rows
             /\ ~ExecP!UnitBlock(Plan, u).zm_pass => ExecP!UnitBlock(Plan, u).match = {}
  <2>1. PICK o \in 1 .. Len(bind.objects), b \in Nat \ {0} :
          /\ b \in 1 .. Len(bind.objects[o].file)
          /\ ExecP!UnitBlock(Plan, u) = AsFileBlock(bind.objects[o].file[b])
    BY <1>7, PlanUnit
  <2> QED BY <2>1, PlanObjects
<1> QED
  BY <1>1, <1>3, <1>4, <1>5, <1>6, <1>7 DEF ExecP!WellFormedScan, ExecP!Units

---------------------------------------------------------------------------
(* Plans without filters *)

(* Without filters a plan lists the manifest's blocks and no others. *)
UnfilteredInv == bind.filters = {} =>
  /\ phase # "blocks"
  /\ \A u \in Planned : u.block_idx <= bind.objects[u.object_idx].blocks
  /\ ~MayBeCut =>
       \A o \in Decided : \A b \in 1 .. bind.objects[o].blocks : Unit(o, b) \in Planned

LEMMA UnfilteredInit == Init => UnfilteredInv
  BY DEF Init, UnfilteredInv, Planned, Decided

LEMMA UnfilteredStep == TypeOK /\ KeptInv /\ UnfilteredInv /\ [Next]_init_vars => UnfilteredInv'
<1> SUFFICES ASSUME TypeOK, KeptInv, UnfilteredInv, [Next]_init_vars, bind.filters = {}
             PROVE  UnfilteredInv'
  BY DEF UnfilteredInv, Next, InitStep, ListObject, SkipObject, ReadMeta, Fallback, KeepBlock, DropBlock,
         EndObject, EndPruning, SortUnits, SortFails, Truncate, Returned, init_vars
<1>0. /\ phase # "blocks"
      /\ \A u \in Planned : u.block_idx <= bind.objects[u.object_idx].blocks
      /\ ~MayBeCut =>
           \A o \in Decided : \A b \in 1 .. bind.objects[o].blocks : Unit(o, b) \in Planned
  BY DEF UnfilteredInv
<1>1. CASE ListObject
  <2>1. PICK o \in 1 .. Len(bind.objects) : o = obj
    BY <1>1, BindFacts DEF ListObject, AtObject, TypeOK
  <2>2. Planned' = Planned \cup {Unit(o, b) : b \in 1 .. bind.objects[o].blocks}
    BY <1>1, <2>1, PlannedGrows DEF ListObject
  <2>3. UNCHANGED <<bind, phase>> /\ phase = "object" /\ obj' = o + 1
    BY <1>1, <2>1 DEF ListObject, AtObject
  <2>4. Decided' = Decided \cup {o}
    BY <2>1, <2>3, BindFacts DEF Decided
  <2>5. \A b \in 1 .. bind.objects[o].blocks : Unit(o, b).block_idx <= bind.objects[o].blocks
                                             /\ Unit(o, b).object_idx = o
    BY BindFacts DEF Unit
  <2> QED BY <1>0, <2>2, <2>3, <2>4, <2>5 DEF UnfilteredInv, MayBeCut
<1>2. CASE SortUnits
  <2>1. Planned' = Planned /\ UNCHANGED bind
    BY <1>2, ReorderingFacts DEF SortUnits, Planned
  <2>2. phase = "order" /\ phase' \in {"truncate", "ready"} /\ Decided' = Decided
    BY <1>2 DEF SortUnits, Decided
  <2> QED BY <1>0, <2>1, <2>2 DEF UnfilteredInv, MayBeCut
<1>3. CASE Truncate
  <2>1. Planned' \subseteq Planned /\ UNCHANGED bind
    BY <1>3, TruncateFacts DEF Truncate, Planned
  <2>2. phase' = "ready" /\ MayBeCut'
    BY <1>3 DEF Truncate, KeptInv, MayBeCut
  <2> QED BY <1>0, <2>1, <2>2 DEF UnfilteredInv
<1>4. CASE UNCHANGED <<bind, work_units>> /\ phase' # "blocks" /\ Decided' = Decided
           /\ (MayBeCut => MayBeCut')
  BY <1>0, <1>4 DEF UnfilteredInv, Planned
<1>5. CASE EndPruning \/ SortFails
  <2>1. UNCHANGED <<bind, work_units>> /\ phase' \notin {"object", "blocks"} /\ ~MayBeCut
    BY <1>5 DEF EndPruning, SortFails, MayBeCut
  <2>2. Decided' = Decided
    BY <1>5, <2>1, BindFacts DEF EndPruning, SortFails, Decided, TypeOK
  <2> QED BY <1>4, <2>1, <2>2
<1>6. CASE Returned \/ UNCHANGED init_vars
  BY <1>0, <1>4, <1>6 DEF Returned, init_vars, Decided, MayBeCut
<1> QED BY <1>0, <1>1, <1>2, <1>3, <1>5, <1>6 DEF Next, InitStep, AtObject, AtBlock, SkipObject, ReadMeta,
           Fallback, KeepBlock, DropBlock, EndObject

---------------------------------------------------------------------------
(* The invariant *)

(* The plan, while it is made and while it is worked off. *)
PlanInv == TypeOK /\ DistinctInv /\ KeptInv /\ UnfilteredInv

(* The threads, for the units planned so far. *)
ThreadsInv == ExecP!Local /\ ExecP!RowInv /\ ExecP!NoSample /\ ExecP!ZeroMeansExhausted

(* The threads start when the plan is ready. *)
Waiting == phase # "ready" => ExecP!ThreadsInit

Inv == PlanInv /\ ThreadsInv /\ Waiting

(* A step of TAEScanInit, or a step of the threads on a plan that is ready; the
   other steps change nothing. *)
Planning == InitStep /\ UNCHANGED thread_vars

Running ==
  /\ UNCHANGED <<bind, phase, obj, blk, any_block_passes, work_units, objects_skipped>>
  /\ [ExecP!Next]_(ExecP!vars)
  /\ phase = "ready" \/ UNCHANGED scan_vars

LEMMA StepCases == [ScanNext]_scan_vars => Planning \/ Running
<1>1. UNCHANGED scan_vars => UNCHANGED ExecP!vars /\ UNCHANGED init_vars
  BY DEF scan_vars, init_vars, thread_vars, ExecP!vars, ExecP!shared, ExecP!pending, ExecP!history,
         Plan, AsObject, AsFileBlock
<1>2. Plans => Planning
  BY DEF Plans, Planning
<1>3. Executes => Running
  BY SameNext DEF Executes, Running
<1>4. UNCHANGED scan_vars => Running
  BY <1>1 DEF Running, init_vars
<1> QED BY <1>2, <1>3, <1>4 DEF ScanNext, PlanFailed

(* TAEScanInit's steps are those of ScanInit and end with the plan. *)
LEMMA PlanningFacts ==
  Planning => /\ [Next]_init_vars
              /\ phase # "ready" /\ UNCHANGED thread_vars
  BY DEF Planning, InitStep, Next, AtObject, MayThrow, AtBlock, ListObject, SkipObject, ReadMeta,
         Fallback, KeepBlock, DropBlock, EndObject, EndPruning, SortUnits, SortFails, Truncate

(* Before the threads have done anything, what holds of them holds for any
   plan. *)
LEMMA ThreadsStart == TypeOK /\ UnitsDistinct /\ ExecP!ThreadsInit => ThreadsInv
<1> SUFFICES ASSUME TypeOK, UnitsDistinct, ExecP!ThreadsInit PROVE ThreadsInv
  OBVIOUS
<1>1. ExecP!WellFormedScan(Plan) /\ blocks_skipped \in Nat
  BY PlanWellFormed DEF TypeOK
<1>2. ExecP!Local
  BY <1>1, ExecP!LocalStart, TaeScanAssumption
<1>3. ExecP!RowInv
  BY <1>1, ExecP!RowStart, TaeScanAssumption
<1>4. ExecP!NoSample /\ ExecP!ZeroMeansExhausted
  BY DEF ExecP!ThreadsInit, ExecP!NoSample, ExecP!ZeroMeansExhausted
<1> QED BY <1>2, <1>3, <1>4 DEF ThreadsInv

LEMMA SameInit == Exec!ThreadsInit <=> ExecP!ThreadsInit
  BY DEF Exec!ThreadsInit, ExecP!ThreadsInit, Exec!NoUnit, ExecP!NoUnit

LEMMA InvInit == ScanStart => Inv
<1> SUFFICES ASSUME Init, ExecP!ThreadsInit PROVE Inv
  BY SameInit DEF ScanStart
<1>1. PlanInv
  BY TypeInit, DistinctInit, KeptInit, UnfilteredInit DEF PlanInv
<1> QED BY <1>1, ThreadsStart DEF Inv, Waiting, PlanInv, DistinctInv

(* The threads leave the plan as it is. *)
LEMMA PlanKept ==
  ASSUME PlanInv, blocks_skipped' \in Nat,
         UNCHANGED <<bind, phase, obj, blk, any_block_passes, work_units, objects_skipped>>
  PROVE  PlanInv' /\ Plan' = Plan
<1>1. TypeOK'
  BY DEF PlanInv, TypeOK, UnitsOfBind
<1>2. DistinctInv'
  BY DEF PlanInv, DistinctInv, UnitsDistinct, QueuedSoFar
<1>3. KeptInv'
  BY DEF PlanInv, KeptInv, MayBeCut, Decided, KeptUpTo, MatchesFile, HasMatch, Planned
<1>4. UnfilteredInv'
  BY DEF PlanInv, UnfilteredInv, Planned, MayBeCut, Decided
<1>5. Plan' = Plan
  BY DEF Plan, AsObject, AsFileBlock
<1> QED BY <1>1, <1>2, <1>3, <1>4, <1>5 DEF PlanInv

LEMMA InvStep == Inv /\ [ScanNext]_scan_vars => Inv'
<1>1. ASSUME Inv, Planning PROVE Inv'
  <2>1. PlanInv'
    BY <1>1, PlanningFacts, TypeStep, DistinctStep, KeptStep, UnfilteredStep
       DEF Inv, PlanInv
  <2>2. ExecP!ThreadsInit'
    BY <1>1, PlanningFacts DEF Inv, Waiting, ExecP!ThreadsInit, thread_vars
  <2>3. ThreadsInv'
    <3>1. (TypeOK /\ UnitsDistinct /\ ExecP!ThreadsInit => ThreadsInv)'
      BY ThreadsStart, PTL
    <3> QED BY <2>1, <2>2, <3>1 DEF PlanInv, DistinctInv
  <2> QED BY <2>1, <2>2, <2>3 DEF Inv, Waiting
<1>2. ASSUME Inv, Running PROVE Inv'
  <2>1. ThreadsInv'
    <3>1. ExecP!Local'
      BY <1>2, ExecP!LocalStep, TaeScanAssumption DEF Inv, ThreadsInv, Running
    <3>2. ExecP!RowInv'
      BY <1>2, ExecP!RowStep, TaeScanAssumption DEF Inv, ThreadsInv, Running
    <3>3. ExecP!NoSample' /\ ExecP!ZeroMeansExhausted'
      BY <1>2, ExecP!NoSampleStep, ExecP!ExhaustedStep, TaeScanAssumption
         DEF Inv, ThreadsInv, Running
    <3> QED BY <3>1, <3>2, <3>3 DEF ThreadsInv
  <2>2. PlanInv'
    BY <1>2, <2>1, PlanKept DEF Inv, ThreadsInv, Running, ExecP!Local, ExecP!ThreadsTypeOK
  <2>3. Waiting'
    BY <1>2 DEF Inv, Waiting, Running, ExecP!ThreadsInit, scan_vars, thread_vars
  <2> QED BY <2>1, <2>2, <2>3 DEF Inv
<1> QED BY <1>1, <1>2, StepCases

LEMMA InvAlways == ScanSpec => []Inv
  BY InvInit, InvStep, PTL DEF ScanSpec

(* No plan breaks what TAEScanExecute relies on. *)
THEOREM PlansAreWellFormed == ScanSpec => []PlanIsWellFormed
<1>1. Inv => PlanIsWellFormed
  BY PlanWellFormed, SameScan DEF Inv, PlanInv, DistinctInv, PlanIsWellFormed
<1> QED BY <1>1, InvAlways, PTL

---------------------------------------------------------------------------
(* The answer to a query *)

(* The rows a unit yields when files are read: those that satisfy the filters. *)
LEMMA UnitRows ==
  ASSUME TypeOK, ~ExecP!FastPath(Plan), NEW u \in 1 .. Len(work_units)
  PROVE  \E o \in 1 .. Len(bind.objects), b \in Nat \ {0} :
           /\ Plan.work_units[u] = Unit(o, b) /\ work_units[u] = Unit(o, b)
           /\ ExecP!PassingRows(Plan, u) =
                IF b \in 1 .. Len(bind.objects[o].file)
                THEN AsFileBlock(bind.objects[o].file[b]).match ELSE {}
<1>1. PICK o \in 1 .. Len(bind.objects), b \in Nat \ {0} :
        /\ work_units[u] = Unit(o, b) /\ Plan.work_units[u] = Unit(o, b)
        /\ ExecP!InFile(Plan, u) <=> b \in 1 .. Len(bind.objects[o].file)
        /\ ExecP!InFile(Plan, u) =>
             ExecP!UnitBlock(Plan, u) = AsFileBlock(bind.objects[o].file[b])
  BY PlanUnit
<1>2. Plan.filters <=> bind.filters # {}
  BY DEF Plan
<1>3. CASE ExecP!InFile(Plan, u)
  <2> DEFINE block == AsFileBlock(bind.objects[o].file[b])
  <2>1. bind.filters = {} => block.match = 1 .. block.rows
    <3>1. /\ Len(bind.objects[o].file[b].rows) \in Nat
          /\ DOMAIN bind.objects[o].file[b].rows = 1 .. Len(bind.objects[o].file[b].rows)
      BY <1>1, <1>3, BlockRows
    <3> QED BY <3>1 DEF AsFileBlock, RowPassesFilters
  <2> HIDE DEF block
  <2>2. ExecP!UnitBlock(Plan, u) = block /\ b \in 1 .. Len(bind.objects[o].file)
    BY <1>1, <1>3 DEF block
  <2>3. ExecP!PassingRows(Plan, u) = block.match
    BY <1>2, <1>3, <2>1, <2>2 DEF ExecP!PassingRows
  <2> QED BY <1>1, <2>2, <2>3 DEF block
<1>4. CASE ~ExecP!InFile(Plan, u)
  BY <1>1, <1>4 DEF ExecP!PassingRows
<1> QED BY <1>3, <1>4

(* A wanted row is one of a unit. *)
LEMMA WantedRow ==
  ASSUME NEW r
  PROVE  r \in ExecP!WantedRows(Plan) <=>
           \E u \in 1 .. Len(work_units) :
             \E i \in ExecP!PassingRows(Plan, u) : r = ExecP!RowId(Plan.work_units[u], i)
<1>1. ExecP!Units(Plan) = 1 .. Len(work_units)
  BY DEF ExecP!Units, Plan
<1> QED BY <1>1 DEF ExecP!WantedRows

(* A plan that was not cut asks for the rows of the table that satisfy the
   filters. *)
LEMMA WantedIsAnswer ==
  ASSUME TypeOK, KeptInv, phase = "ready", bind.order.row_limit = 0, AllMatch,
         ~ExecP!FastPath(Plan)
  PROVE  ExecP!WantedRows(Plan) = Answer
<1>1. ASSUME NEW r \in ExecP!WantedRows(Plan) PROVE r \in Answer
  <2>0. PICK u \in 1 .. Len(work_units) :
          \E i \in ExecP!PassingRows(Plan, u) : r = ExecP!RowId(Plan.work_units[u], i)
    BY WantedRow
  <2>1. PICK i \in ExecP!PassingRows(Plan, u) : r = ExecP!RowId(Plan.work_units[u], i)
    BY <2>0
  <2>2. PICK o \in 1 .. Len(bind.objects), b \in Nat \ {0} :
          /\ Plan.work_units[u] = Unit(o, b)
          /\ ExecP!PassingRows(Plan, u) =
               IF b \in 1 .. Len(bind.objects[o].file)
               THEN AsFileBlock(bind.objects[o].file[b]).match ELSE {}
    BY UnitRows
  <2>3. r = <<o, b, i>>
    BY <2>1, <2>2 DEF ExecP!RowId, Unit
  <2>4. o \in DOMAIN bind.objects /\ b \in DOMAIN bind.objects[o].file
    BY <2>1, <2>2, BindFacts DEF WellFormedBind
  <2>5. i \in AsFileBlock(bind.objects[o].file[b]).match
    BY <2>1, <2>2
  <2> QED BY <2>3, <2>4, <2>5 DEF Answer
<1>2. ASSUME NEW r \in Answer PROVE r \in ExecP!WantedRows(Plan)
  <2>1. PICK o \in DOMAIN bind.objects : \E b \in DOMAIN bind.objects[o].file :
          \E i \in AsFileBlock(bind.objects[o].file[b]).match : r = <<o, b, i>>
    BY DEF Answer
  <2>0. PICK b \in DOMAIN bind.objects[o].file :
          \E i \in AsFileBlock(bind.objects[o].file[b]).match : r = <<o, b, i>>
    BY <2>1
  <2>2. PICK i \in AsFileBlock(bind.objects[o].file[b]).match : r = <<o, b, i>>
    BY <2>0
  <2>3. /\ o \in 1 .. Len(bind.objects) /\ b \in 1 .. Len(bind.objects[o].file)
        /\ b \in Nat \ {0}
    BY BindFacts DEF WellFormedBind
  <2>4. Unit(o, b) \in Planned
    <3>1. HasMatch(o, b)
      BY <2>2, <2>3, PlanObjects
    <3>2. o \in Decided /\ ~MayBeCut /\ MatchesFile(bind.objects[o])
      BY <2>3 DEF Decided, MayBeCut, AllMatch
    <3> QED BY <2>3, <3>1, <3>2 DEF KeptInv, KeptUpTo
  <2>5. PICK u \in 1 .. Len(work_units) : work_units[u] = Unit(o, b)
    BY <2>4, PlanFacts DEF Planned
  <2>6. i \in ExecP!PassingRows(Plan, u) /\ Plan.work_units[u] = Unit(o, b)
    <3>1. PICK p \in 1 .. Len(bind.objects), c \in Nat \ {0} :
            /\ Plan.work_units[u] = Unit(p, c) /\ work_units[u] = Unit(p, c)
            /\ ExecP!PassingRows(Plan, u) =
                 IF c \in 1 .. Len(bind.objects[p].file)
                 THEN AsFileBlock(bind.objects[p].file[c]).match ELSE {}
      BY UnitRows
    <3>2. p = o /\ c = b
      BY <2>5, <3>1 DEF Unit
    <3> QED BY <2>2, <2>3, <3>1, <3>2
  <2>7. r = ExecP!RowId(Plan.work_units[u], i)
    BY <2>2, <2>6 DEF ExecP!RowId, Unit
  <2> QED BY <2>6, <2>7, WantedRow
<1> QED BY <1>1, <1>2

(* When every thread is done and nothing was sampled, all rows the plan asks for
   are out. *)
LEMMA DoneIsComplete ==
  ASSUME Inv, WholeScanDone, ExecP!NoEmptyUnit(Plan)
  PROVE  delivered = ExecP!WantedRows(Plan)
<1>1. ~Plan.do_sample
  BY DEF WholeScanDone, Plan
<1>2. sampled_out = {}
  BY <1>1 DEF Inv, ThreadsInv, ExecP!NoSample
<1>3. ExecP!CompleteAtEnd
  BY <1>2, ExecP!CompleteFromInvariants, TaeScanAssumption DEF Inv, ThreadsInv
<1> QED BY <1>1, <1>3, TaeScanAssumption DEF WholeScanDone, ExecP!CompleteAtEnd

(* A query gets exactly the rows of the table that satisfy its filters, for all
   tables, filters and numbers of threads, if the manifest counts the blocks. *)
THEOREM QueriesAnswered == ScanSpec => []QueryAnswer
<1>1. Inv => QueryAnswer
  <2> SUFFICES ASSUME Inv, WholeScanDone, ~Exec!FastPath(Plan), AllMatch
               PROVE  delivered = Answer
    BY DEF QueryAnswer, AllMatch
  <2>1. ~ExecP!FastPath(Plan) /\ ExecP!NoEmptyUnit(Plan)
    BY SameScan DEF ExecP!NoEmptyUnit
  <2>2. delivered = ExecP!WantedRows(Plan)
    BY <2>1, DoneIsComplete
  <2> QED BY <2>1, <2>2, WantedIsAnswer DEF Inv, PlanInv, WholeScanDone
<1> QED BY <1>1, InvAlways, PTL

---------------------------------------------------------------------------
(* The counters *)

(* The blocks that were queued or skipped are blocks of the table, also when the
   plan has been cut. *)
FitsTable == AllMatch => Len(work_units) + blocks_skipped <= BlocksUpTo(Len(bind.objects))

LEMMA FitsUncut == TypeOK /\ CountInv /\ ~MayBeCut => FitsTable
<1> SUFFICES ASSUME TypeOK, CountInv, ~MayBeCut, AllMatch
             PROVE  Len(work_units) + blocks_skipped <= BlocksUpTo(Len(bind.objects))
  BY DEF FitsTable
<1> DEFINE N == Len(bind.objects)
<1>1. Len(work_units) + blocks_skipped = BlocksSeen
  BY DEF CountInv
<1>2. PICK o \in 1 .. N + 1, b \in Nat \ {0} : o = obj /\ b = blk
  BY DEF TypeOK
<1>3. N \in Nat /\ o - 1 \in 0 .. N /\ BlocksUpTo(N) \in Nat
  BY <1>2, BindFacts, BlocksUpToFacts
<1>4. CASE phase = "object"
  BY <1>1, <1>2, <1>3, <1>4, BlocksUpToFacts DEF BlocksSeen
<1>5. CASE phase = "blocks"
  <2>1. o \in 1 .. N
    BY <1>2, <1>3, <1>5 DEF TypeOK
  <2>2. PICK c \in Nat, d \in Nat :
          c = BlocksUpTo(o - 1) /\ d = bind.objects[o].blocks /\ c + d = BlocksUpTo(o)
    BY <1>3, <2>1, BindFacts, BlocksUpToFacts
  <2>3. b - 1 <= d
    <3>1. d = Len(File) /\ b <= Len(File) + 1
      BY <1>2, <1>5, <2>1, <2>2, BindFacts DEF CountInv, File, AllMatch, MatchesFile, WellFormedBind
    <3> QED BY <2>2, <3>1
  <2>4. PICK e \in Nat : e = BlocksUpTo(N) /\ c + d <= e
    BY <1>3, <2>1, <2>2, BlocksUpToFacts
  <2>5. BlocksSeen = c + (b - 1)
    BY <1>2, <1>5, <2>2 DEF BlocksSeen
  <2> QED BY <1>1, <2>3, <2>4, <2>5
<1>6. CASE phase \notin {"object", "blocks"}
  BY <1>1, <1>3, <1>6 DEF BlocksSeen
<1> QED BY <1>4, <1>5, <1>6

(* TAEScanInit may make a plan shorter at its very end. *)
LEMMA FitsStep ==
  ASSUME TypeOK, TypeOK', CountInv, CountInv', KeptInv, Planning
  PROVE  FitsTable'
<1>1. CASE ~MayBeCut'
  <2>1. (TypeOK /\ CountInv /\ ~MayBeCut => FitsTable)'
    BY FitsUncut, PTL
  <2> QED BY <1>1, <2>1
<1>2. CASE MayBeCut'
  <2>1. ~MayBeCut /\ FitsTable
    BY FitsUncut, PlanningFacts DEF MayBeCut
  <2>2. UNCHANGED <<bind, blocks_skipped>> /\ (Truncate \/ UNCHANGED work_units)
    BY <1>2 DEF Planning, InitStep, MayBeCut, AtObject, AtBlock, MayThrow, ListObject, SkipObject, ReadMeta,
           Fallback, KeepBlock, DropBlock, EndObject, EndPruning, SortUnits, SortFails, Truncate
  <2>3. PICK m \in Nat, n \in Nat, k \in Nat :
          m = Len(work_units) /\ n = Len(work_units') /\ n <= m /\ k = blocks_skipped
    <3>1. CASE Truncate
      <4>1. work_units' \in Seq(UnitsOfBind) /\ DOMAIN work_units' \subseteq DOMAIN work_units
        BY <3>1, TruncateFacts
      <4>2. Len(work_units') \in Nat /\ DOMAIN work_units' = 1 .. Len(work_units')
        BY <4>1
      <4>3. Len(work_units') <= Len(work_units)
        BY <4>1, <4>2, PlanFacts
      <4> QED BY <4>2, <4>3, PlanFacts DEF TypeOK
    <3>2. CASE UNCHANGED work_units
      BY <3>2, PlanFacts DEF TypeOK
    <3> QED BY <2>2, <3>1, <3>2
  <2>4. PICK e \in Nat : e = BlocksUpTo(Len(bind.objects)) /\ BlocksUpTo(Len(bind.objects))' = e
    <3>1. BlocksUpTo(Len(bind.objects)) \in Nat
      BY BindFacts, BlocksUpToFacts
    <3>2. BlocksUpTo(Len(bind.objects))' = BlocksUpTo(Len(bind.objects))
      BY <2>2 DEF BlocksUpTo
    <3> QED BY <3>1, <3>2
  <2>5. AllMatch' => m + k <= e
    BY <2>1, <2>2, <2>3, <2>4 DEF FitsTable, AllMatch, MatchesFile
  <2>6. AllMatch' => n + k <= e
    BY <2>3, <2>4, <2>5
  <2> QED BY <2>2, <2>3, <2>4, <2>6 DEF FitsTable
<1> QED BY <1>1, <1>2

(* Without filters no block is looked at while planning. *)
UnreadInv == bind.filters = {} => phase # "blocks" /\ blocks_skipped = 0

LEMMA UnreadStep ==
  ASSUME UnreadInv, Planning
  PROVE  UnreadInv'
  BY DEF UnreadInv, Planning, InitStep, AtObject, AtBlock, ListObject, SkipObject, ReadMeta, Fallback,
     KeepBlock, DropBlock, EndObject, EndPruning, SortUnits, SortFails, Truncate

(* The number of blocks that were skipped while planning, once the threads count on
   in the same counter. *)
SkippedBefore(n) ==
  /\ AllMatch => Len(work_units) + n <= BlocksUpTo(Len(bind.objects))
  /\ AllMatch /\ ~MayBeCut /\ phase = "ready" =>
       Len(work_units) + n = BlocksUpTo(Len(bind.objects))
  /\ bind.filters = {} => n = 0

ChargeInv ==
  /\ phase # "ready" => CountInv /\ UnreadInv
  /\ \E n \in Nat : ExecP!Accounted(n) /\ SkippedBefore(n)

LEMMA ChargeStart ==
  ASSUME NEW n \in Nat
  PROVE  TypeOK /\ UnitsDistinct /\ ExecP!ThreadsInit /\ blocks_skipped = n => ExecP!Accounted(n)
<1> SUFFICES ASSUME TypeOK, UnitsDistinct, ExecP!ThreadsInit, blocks_skipped = n
             PROVE  ExecP!Accounted(n)
  OBVIOUS
<1>1. ExecP!WellFormedScan(Plan)
  BY PlanWellFormed
<1> QED BY <1>1, ExecP!AccountedInit, TaeScanAssumption

LEMMA ChargeInit == ScanStart => ChargeInv
<1> SUFFICES ASSUME ScanStart PROVE ChargeInv
  OBVIOUS
<1>1. Inv /\ CountInv /\ UnreadInv /\ phase # "ready" /\ blocks_skipped = 0 /\ ~MayBeCut
  BY InvInit, CountInit DEF ScanStart, Init, UnreadInv, MayBeCut
<1>2. ExecP!Accounted(0)
  BY <1>1, ChargeStart DEF Inv, PlanInv, DistinctInv, Waiting
<1>3. FitsTable
  BY <1>1, FitsUncut DEF Inv, PlanInv
<1>4. SkippedBefore(0)
  BY <1>1, <1>3 DEF SkippedBefore, FitsTable
<1> QED BY <1>1, <1>2, <1>4 DEF ChargeInv

LEMMA ChargeStep == Inv /\ Inv' /\ ChargeInv /\ [ScanNext]_scan_vars => ChargeInv'
<1>1. ASSUME Inv, Inv', ChargeInv, Planning PROVE ChargeInv'
  <2>1. phase # "ready" /\ [Next]_init_vars /\ ExecP!ThreadsInit'
    BY <1>1, PlanningFacts DEF Inv, Waiting, ExecP!ThreadsInit, thread_vars
  <2>2. CountInv' /\ UnreadInv'
    BY <1>1, <2>1, CountStep, UnreadStep DEF ChargeInv, Inv, PlanInv
  <2>3. FitsTable'
    BY <1>1, <2>1, <2>2, FitsStep DEF ChargeInv, Inv, PlanInv
  <2>4. PICK n \in Nat : n = blocks_skipped'
    BY <1>1 DEF Inv, PlanInv, TypeOK
  <2>5. ExecP!Accounted(n)'
    <3>1. (TypeOK /\ UnitsDistinct /\ ExecP!ThreadsInit /\ blocks_skipped = n => ExecP!Accounted(n))'
      BY ChargeStart, PTL
    <3> QED BY <1>1, <2>1, <2>4, <3>1 DEF Inv, PlanInv, DistinctInv
  <2>6. SkippedBefore(n)'
    <3>1. phase' = "ready" => BlocksSeen' = BlocksUpTo(Len(bind.objects))'
      BY DEF BlocksSeen
    <3> QED BY <2>2, <2>3, <2>4, <3>1 DEF SkippedBefore, FitsTable, CountInv, UnreadInv
  <2> QED BY <2>2, <2>5, <2>6 DEF ChargeInv
<1>2. ASSUME Inv, Inv', ChargeInv, Running PROVE ChargeInv'
  <2>1. PICK n \in Nat : ExecP!Accounted(n) /\ SkippedBefore(n)
    BY <1>2 DEF ChargeInv
  <2>2. ExecP!Accounted(n)'
    BY <1>2, <2>1, ExecP!AccountedStep, TaeScanAssumption DEF Inv, ThreadsInv, Running
  <2>3. UNCHANGED <<bind, phase, work_units>>
    BY <1>2 DEF Running
  <2>4. SkippedBefore(n)'
    BY <2>1, <2>3 DEF SkippedBefore, AllMatch, MatchesFile, MayBeCut, BlocksUpTo
  <2>5. phase' # "ready" => CountInv' /\ UnreadInv'
    <3> SUFFICES ASSUME phase # "ready" PROVE CountInv' /\ UnreadInv'
      BY <2>3
    <3>1. UNCHANGED init_vars
      BY <1>2 DEF Running, scan_vars
    <3> QED BY <1>2, <3>1 DEF ChargeInv, CountInv, UnreadInv, AllMatch, MatchesFile, MayBeCut, BlocksSeen,
                  BlocksUpTo, File, init_vars
  <2> QED BY <2>2, <2>4, <2>5 DEF ChargeInv
<1> QED BY <1>1, <1>2, StepCases

LEMMA ChargeAlways == ScanSpec => [](Inv /\ ChargeInv)
  BY InvInit, InvStep, ChargeInit, ChargeStep, PTL DEF ScanSpec

(* What has been counted so far, in terms of what was handed out. *)
LEMMA CountedFacts ==
  ASSUME Inv, NEW n \in Nat, ExecP!Accounted(n), SkippedBefore(n)
  PROVE  /\ blocks_scanned \in Nat /\ blocks_skipped \in Nat
         /\ ExecP!FastPath(Plan) => blocks_scanned + blocks_skipped = 0
         /\ ~ExecP!FastPath(Plan) =>
              /\ blocks_scanned + blocks_skipped <= n + Len(work_units)
              /\ WholeScanDone => blocks_scanned + blocks_skipped = n + Len(work_units)
<1>1. /\ Len(work_units) \in Nat /\ Plan.work_units = work_units
      /\ ExecP!Taken = IF next_work_unit < Len(work_units) THEN next_work_unit ELSE Len(work_units)
  BY PlanFacts DEF Inv, PlanInv, ExecP!Taken, Plan
<1>2. next_work_unit \in Nat /\ blocks_scanned \in Nat /\ blocks_skipped \in Nat
  BY DEF Inv, ThreadsInv, ExecP!Local, ExecP!ThreadsTypeOK
<1>3. ExecP!FastPath(Plan) => blocks_scanned + blocks_skipped = 0
  BY DEF ExecP!Accounted, SkippedBefore, ExecP!FastPath, Plan
<1>4. ASSUME ~ExecP!FastPath(Plan)
      PROVE  blocks_scanned + blocks_skipped <= n + Len(work_units)
  <2>1. PICK k \in Nat : k = ExecP!Cardinality(ExecP!Opening)
    BY ExecP!OneMore, TaeScanAssumption DEF ExecP!Accounted
  <2>2. blocks_scanned + blocks_skipped + k <= n + ExecP!Taken
    BY <1>4, <2>1 DEF ExecP!Accounted
  <2> QED BY <1>1, <1>2, <2>1, <2>2
<1>5. ASSUME ~ExecP!FastPath(Plan), WholeScanDone
      PROVE  blocks_scanned + blocks_skipped = n + Len(work_units)
  <2>1. ExecP!Opening = {} /\ ExecP!Failed = {}
    BY <1>5 DEF WholeScanDone, ExecP!Opening, ExecP!Failed
  <2>2. ExecP!Cardinality({}) = 0
    BY FS_EmptySet DEF ExecP!Cardinality, Cardinality
  <2>3. ExecP!Taken = Len(work_units)
    <3>1. ~Plan.do_sample /\ ExecP!NoEmptyUnit(Plan)
      BY <1>5 DEF WholeScanDone, Plan, ExecP!NoEmptyUnit
    <3>2. next_work_unit >= Len(work_units)
      BY <1>1, <1>5, <3>1, TaeScanAssumption DEF WholeScanDone, Inv, ThreadsInv, ExecP!ZeroMeansExhausted
    <3> QED BY <1>1, <1>2, <3>2
  <2>4. blocks_scanned + blocks_skipped + 0 <= n + Len(work_units)
    BY <1>5, <2>1, <2>2, <2>3 DEF ExecP!Accounted
  <2>5. n + Len(work_units) <= blocks_scanned + blocks_skipped + 0 + 0
    BY <1>5, <2>1, <2>2, <2>3 DEF ExecP!Accounted
  <2> QED BY <1>1, <1>2, <2>4, <2>5
<1> QED BY <1>2, <1>3, <1>4, <1>5

(* The counters of EXPLAIN ANALYZE, kept by two functions and any number of threads,
   add up to the blocks of the table: for scans without a row limit or sampling, of
   files that match the manifest. *)
THEOREM BlocksOfTableAccounted == ScanSpec => []AllBlocksAccounted
<1>1. Inv /\ ChargeInv => AllBlocksAccounted
  <2> SUFFICES ASSUME Inv, ChargeInv, WholeScanDone, ~Exec!FastPath(Plan), AllMatch
               PROVE  blocks_scanned + blocks_skipped = BlocksUpTo(Len(bind.objects))
    BY DEF AllBlocksAccounted, AllMatch
  <2>1. PICK n \in Nat : ExecP!Accounted(n) /\ SkippedBefore(n)
    BY DEF ChargeInv
  <2>2. ~ExecP!FastPath(Plan)
    BY SameScan
  <2>3. blocks_scanned + blocks_skipped = n + Len(work_units)
    BY <2>1, <2>2, CountedFacts
  <2>4. Len(work_units) + n = BlocksUpTo(Len(bind.objects))
    BY <2>1 DEF SkippedBefore, WholeScanDone, MayBeCut
  <2>5. Len(work_units) \in Nat
    BY PlanFacts DEF Inv, PlanInv
  <2> QED BY <2>3, <2>4, <2>5
<1> QED BY <1>1, ChargeAlways, PTL

(* The progress bar never leaves its range. *)
THEOREM ProgressInRange == ScanSpec => []ProgressBounded
<1>1. Inv /\ ChargeInv => ProgressBounded
  <2> SUFFICES ASSUME Inv, ChargeInv, AllMatch \/ Exec!FastPath(Plan)
               PROVE  ScanProgress \in 0 .. 100
    BY DEF ProgressBounded, AllMatch
  <2>1. PICK n \in Nat : ExecP!Accounted(n) /\ SkippedBefore(n)
    BY DEF ChargeInv
  <2>2. PICK total \in Nat : total = BlocksUpTo(Len(bind.objects))
    BY BindFacts, BlocksUpToFacts DEF Inv, PlanInv
  <2>3. PICK seen \in Nat : seen = blocks_scanned + blocks_skipped /\ seen <= total
    <3>1. PICK w \in Nat, x \in Nat, y \in Nat :
            w = Len(work_units) /\ x = blocks_scanned /\ y = blocks_skipped
      BY <2>1, CountedFacts, PlanFacts DEF Inv, PlanInv
    <3>2. CASE ExecP!FastPath(Plan)
      BY <2>1, <2>2, <3>1, <3>2, CountedFacts
    <3>3. CASE ~ExecP!FastPath(Plan)
      <4>1. x + y <= n + w
        BY <2>1, <3>1, <3>3, CountedFacts
      <4>2. w + n <= total
        BY <2>1, <2>2, <3>1, <3>3, SameScan DEF SkippedBefore
      <4> QED BY <3>1, <4>1, <4>2
    <3> QED BY <3>2, <3>3
  <2>4. CASE total = 0
    BY <2>2, <2>4 DEF ScanProgress
  <2>5. CASE total # 0
    <3> DEFINE q == (seen * 100) \div total
    <3>1. q \in Nat /\ q * total <= seen * 100
      BY <2>5
    <3>2. q <= 100
      <4> SUFFICES ASSUME q > 100 PROVE FALSE
        BY <3>1
      <4>1. q * total >= 101 * total
        BY <3>1
      <4> QED BY <2>3, <2>5, <3>1, <4>1
    <3>3. ScanProgress = q
      BY <2>2, <2>3, <2>5 DEF ScanProgress
    <3> HIDE DEF q
    <3> QED BY <3>1, <3>2, <3>3
  <2> QED BY <2>4, <2>5
<1> QED BY <1>1, ChargeAlways, PTL

---------------------------------------------------------------------------
(* Numbers of rows *)

(* The rows of N objects with m[o] blocks each, of which block b has cnt[o][b]
   rows. *)
RowSet(N, m, cnt) ==
  UNION {UNION {{<<o, b, r>> : r \in 1 .. cnt[o][b]} : b \in 1 .. m[o]} : o \in 1 .. N}

LEMMA RowCount ==
  ASSUME NEW N \in Nat, NEW m, NEW cnt, NEW total,
         \A o \in 1 .. N : /\ m[o] \in Nat
                           /\ \A b \in 1 .. m[o] : cnt[o][b] \in Nat
                           /\ SumTo(cnt[o], m[o]) = total[o]
  PROVE  /\ IsFiniteSet(RowSet(N, m, cnt))
         /\ Cardinality(RowSet(N, m, cnt)) = SumTo(total, N)
<1> DEFINE Block(o, b) == {<<o, b, r>> : r \in 1 .. cnt[o][b]}
           Blocks(o) == [b \in 1 .. m[o] |-> Block(o, b)]
           Rows(o) == UNION {Blocks(o)[b] : b \in 1 .. m[o]}
           Objects == [o \in 1 .. N |-> Rows(o)]
<1>1. ASSUME NEW o \in 1 .. N, NEW b \in 1 .. m[o]
      PROVE  IsFiniteSet(Block(o, b)) /\ Cardinality(Block(o, b)) = cnt[o][b]
  <2> DEFINE f == [r \in 1 .. cnt[o][b] |-> <<o, b, r>>]
  <2>1. cnt[o][b] \in Nat /\ \A i, j \in 1 .. cnt[o][b] : i # j => f[i] # f[j]
    OBVIOUS
  <2>2. Block(o, b) = {f[i] : i \in 1 .. cnt[o][b]}
    OBVIOUS
  <2> HIDE DEF f
  <2>3. /\ IsFiniteSet({f[i] : i \in 1 .. cnt[o][b]})
        /\ Cardinality({f[i] : i \in 1 .. cnt[o][b]}) = cnt[o][b]
    BY <2>1, CountOfImage
  <2> QED BY <2>2, <2>3
<1>2. ASSUME NEW o \in 1 .. N
      PROVE  IsFiniteSet(Rows(o)) /\ Cardinality(Rows(o)) = total[o]
  <2>1. \A b, c \in 1 .. m[o] : b # c => Block(o, b) \cap Block(o, c) = {}
    OBVIOUS
  <2>2. \A b \in 1 .. m[o] : Blocks(o)[b] = Block(o, b)
    OBVIOUS
  <2> HIDE DEF Block
  <2>3. \A b \in 1 .. m[o] : IsFiniteSet(Blocks(o)[b]) /\ Cardinality(Blocks(o)[b]) = cnt[o][b]
    BY <1>1, <2>2
  <2>4. \A b, c \in 1 .. m[o] : b # c => Blocks(o)[b] \cap Blocks(o)[c] = {}
    BY <2>1, <2>2
  <2>5. m[o] \in Nat /\ SumTo(cnt[o], m[o]) = total[o]
    OBVIOUS
  <2> HIDE DEF Blocks
  <2> QED BY <2>3, <2>4, <2>5, CountOfDisjoint
<1>r. ASSUME NEW o \in 1 .. N PROVE Rows(o) = UNION {Block(o, b) : b \in 1 .. m[o]}
  <2>1. \A b \in 1 .. m[o] : Blocks(o)[b] = Block(o, b)
    OBVIOUS
  <2> HIDE DEF Block, Blocks
  <2> QED BY <2>1
<1>3. \A o \in 1 .. N : Objects[o] = Rows(o)
  OBVIOUS
<1>4. \A o, p \in 1 .. N : o # p => Objects[o] \cap Objects[p] = {}
  <2> TAKE o \in 1 .. N, p \in 1 .. N
  <2>1. \A q \in 1 .. N : \A b \in 1 .. m[q] : \A x \in Block(q, b) : x[1] = q
    OBVIOUS
  <2> HIDE DEF Block, Rows
  <2>2. (\A x \in Rows(o) : x[1] = o) /\ (\A x \in Rows(p) : x[1] = p)
    BY <1>r, <2>1
  <2> QED BY <1>3, <2>2
<1>5. RowSet(N, m, cnt) = UNION {Objects[o] : o \in 1 .. N}
  <2> HIDE DEF Rows
  <2>1. RowSet(N, m, cnt) = UNION {Rows(o) : o \in 1 .. N}
    BY <1>r DEF RowSet
  <2> QED BY <1>3, <2>1
<1>6. \A o \in 1 .. N : IsFiniteSet(Objects[o]) /\ Cardinality(Objects[o]) = total[o]
  BY <1>2, <1>3
<1>7. /\ IsFiniteSet(UNION {Objects[o] : o \in 1 .. N})
      /\ Cardinality(UNION {Objects[o] : o \in 1 .. N}) = SumTo(total, N)
  <2> HIDE DEF Objects
  <2> QED BY <1>4, <1>6, CountOfDisjoint
<1> QED BY <1>5, <1>7

(* The manifest's row count of an object, split over its blocks, adds up again and
   leaves no block empty. *)
LEMMA SplitAddsUp ==
  ASSUME NEW x, x.rows \in Nat, x.blocks \in Nat, ExecP!SplitsEvenly(x)
  PROVE  LET count == [b \in 1 .. x.blocks |-> ExecP!ManifestBlockRowCount(x, b)]
         IN  /\ \A b \in 1 .. x.blocks : count[b] \in Nat \ {0}
             /\ SumTo(count, x.blocks) = x.rows
<1> DEFINE count == [b \in 1 .. x.blocks |-> ExecP!ManifestBlockRowCount(x, b)]
<1> SUFFICES /\ \A b \in 1 .. x.blocks : count[b] \in Nat \ {0}
             /\ SumTo(count, x.blocks) = x.rows
  OBVIOUS
<1>1. PICK n \in Nat \ {0}, w \in Nat \ {0}, p \in Nat \ {0}, M \in Nat \ {0} :
        /\ n = x.blocks /\ w = x.rows /\ p = RowsPerBlock /\ M = WordMod
        /\ w < M /\ n <= w
        /\ w > p => (n - 1) * p < w
  BY TaeScanAssumption DEF ExecP!SplitsEvenly
<1>2. CASE n = 1
  <2>1. count[1] = w
    BY <1>1, <1>2 DEF ExecP!ManifestBlockRowCount
  <2> HIDE DEF count
  <2>2. SumTo(count, 0 + 1) = SumTo(count, 0) + count[0 + 1]
    BY SumNext
  <2>3. SumTo(count, 1) = w
    BY <2>1, <2>2, SumEmpty
  <2>4. \A b \in 1 .. n : count[b] \in Nat \ {0}
    BY <1>1, <1>2, <2>1
  <2> QED BY <1>1, <1>2, <2>3, <2>4
<1>3. CASE n > 1
  <2>1. PICK q \in Nat \ {0} : q = ExecP!RowsBeforeLast(x) /\ (n - 1) * q < w
    <3>1. CASE w <= p
      <4>1. PICK q \in Nat : q = w \div n /\ n * q <= w /\ w < n * q + n
        OBVIOUS
      <4>2. q # 0
        <5> SUFFICES ASSUME q = 0 PROVE FALSE
          OBVIOUS
        <5>1. n * q = 0
          OBVIOUS
        <5> QED BY <1>1, <4>1, <5>1
      <4>3. (n - 1) * q < w
        BY <4>1, <4>2
      <4>4. q = ExecP!RowsBeforeLast(x)
        BY <1>1, <3>1, <4>1 DEF ExecP!RowsBeforeLast
      <4> QED BY <4>2, <4>3, <4>4
    <3>2. CASE w > p
      <4>1. p = ExecP!RowsBeforeLast(x)
        BY <1>1, <3>2 DEF ExecP!RowsBeforeLast
      <4>2. (n - 1) * p < w
        BY <1>1, <3>2
      <4> QED BY <4>1, <4>2
    <3> QED BY <3>1, <3>2
  <2>2. PICK rest \in Nat \ {0} : rest = w - (n - 1) * q /\ rest < M
    <3>1. PICK d \in Nat : d = (n - 1) * q
      OBVIOUS
    <3>2. w - d \in Nat \ {0} /\ w - d < M
      BY <1>1, <2>1, <3>1
    <3> QED BY <3>1, <3>2
  <2>3. ExecP!RowsOfLast(x) = rest
    <3>1. rest % M = rest
      BY <2>2
    <3> QED BY <1>1, <2>1, <2>2, <3>1 DEF ExecP!RowsOfLast
  <2>4. \A b \in 1 .. n : count[b] = IF b < n THEN q ELSE rest
    BY <1>1, <1>3, <2>1, <2>3 DEF ExecP!ManifestBlockRowCount
  <2> HIDE DEF count
  <2>5. \A k \in Nat : k < n => SumTo(count, k) = k * q
    <3> DEFINE S == {k \in Nat : k < n => SumTo(count, k) = k * q}
    <3>1. 0 \in S
      BY SumEmpty
    <3>2. ASSUME NEW k \in Nat, k \in S PROVE k + 1 \in S
      <4> SUFFICES ASSUME k + 1 < n PROVE SumTo(count, k + 1) = (k + 1) * q
        OBVIOUS
      <4>1. SumTo(count, k) = k * q /\ count[k + 1] = q
        BY <2>4, <3>2
      <4>2. SumTo(count, k + 1) = SumTo(count, k) + count[k + 1]
        BY SumNext
      <4>3. k * q + q = (k + 1) * q
        OBVIOUS
      <4> QED BY <4>1, <4>2, <4>3
    <3> HIDE DEF S
    <3>3. Nat \subseteq S
      BY <3>1, <3>2, NatSetInduction
    <3> QED BY <3>3 DEF S
  <2>6. SumTo(count, n) = w
    <3>1. PICK k \in Nat : k + 1 = n /\ k = n - 1
      BY <1>1
    <3>2. SumTo(count, k + 1) = SumTo(count, k) + count[k + 1]
      BY SumNext
    <3>3. SumTo(count, k) = k * q /\ count[k + 1] = rest
      BY <2>4, <2>5, <3>1
    <3>4. k * q + rest = w
      BY <2>2, <3>1
    <3> QED BY <3>1, <3>2, <3>3, <3>4
  <2> QED BY <1>1, <2>4, <2>6
<1>4. n = 1 \/ n > 1
  OBVIOUS
<1> HIDE DEF count
<1> QED BY <1>2, <1>3, <1>4

(* The counts of the manifest, and those of the files. *)
ManifestBlocks == [o \in 1 .. Len(bind.objects) |-> bind.objects[o].blocks]
ManifestCounts ==
  [o \in 1 .. Len(bind.objects) |->
     [b \in 1 .. bind.objects[o].blocks |-> ExecP!ManifestBlockRowCount(bind.objects[o], b)]]
FileBlockCounts == [o \in 1 .. Len(bind.objects) |-> Len(bind.objects[o].file)]
FileCounts ==
  [o \in 1 .. Len(bind.objects) |->
     [b \in 1 .. Len(bind.objects[o].file) |-> Len(bind.objects[o].file[b].rows)]]

(* A unit of a scan that only counts: the manifest says how many rows it has. *)
LEMMA FastUnit ==
  ASSUME PlanInv, ExecP!FastPath(Plan), NEW u \in 1 .. Len(work_units)
  PROVE  \E o \in 1 .. Len(bind.objects) : \E b \in 1 .. bind.objects[o].blocks :
           /\ Plan.work_units[u] = Unit(o, b) /\ work_units[u] = Unit(o, b)
           /\ ExecP!TotalRows(Plan, u) = ManifestCounts[o][b]
           /\ ExecP!PassingRows(Plan, u) = 1 .. ManifestCounts[o][b]
<1>1. PICK o \in 1 .. Len(bind.objects), b \in Nat \ {0} :
        /\ work_units[u] = Unit(o, b) /\ Plan.work_units[u] = Unit(o, b)
        /\ ExecP!UnitObject(Plan, u) = AsObject(bind.objects[o])
  BY PlanUnit DEF PlanInv
<1>2. bind.filters = {}
  BY DEF ExecP!FastPath, Plan
<1>3. bind.objects[o].blocks \in Nat
  BY BindFacts DEF PlanInv
<1>4. b \in 1 .. bind.objects[o].blocks
  <2>1. Unit(o, b) \in Planned
    BY <1>1, PlanFacts DEF PlanInv, Planned
  <2>2. Unit(o, b).block_idx <= bind.objects[Unit(o, b).object_idx].blocks
    BY <1>2, <2>1 DEF PlanInv, UnfilteredInv
  <2> QED BY <1>3, <2>2 DEF Unit
<1>5. ExecP!TotalRows(Plan, u) = ExecP!ManifestBlockRowCount(AsObject(bind.objects[o]), b)
  BY <1>1 DEF ExecP!TotalRows, Unit
<1>6. ExecP!ManifestBlockRowCount(AsObject(bind.objects[o]), b) =
        ExecP!ManifestBlockRowCount(bind.objects[o], b)
  BY DEF ExecP!ManifestBlockRowCount, ExecP!RowsBeforeLast, ExecP!RowsOfLast, AsObject
<1>7. ExecP!TotalRows(Plan, u) = ManifestCounts[o][b]
  BY <1>4, <1>5, <1>6 DEF ManifestCounts
<1>8. ExecP!PassingRows(Plan, u) = 1 .. ExecP!TotalRows(Plan, u)
  BY DEF ExecP!PassingRows
<1> QED BY <1>1, <1>4, <1>7, <1>8

(* A scan that only counts wants no rows that the manifest does not count, and all
   of them if the plan is not cut. *)
LEMMA CountedRows ==
  ASSUME PlanInv, ExecP!FastPath(Plan)
  PROVE  LET rows == RowSet(Len(bind.objects), ManifestBlocks, ManifestCounts)
         IN  /\ ExecP!WantedRows(Plan) \subseteq rows
             /\ phase = "ready" /\ bind.order.row_limit = 0 => rows \subseteq ExecP!WantedRows(Plan)
<1> DEFINE rows == RowSet(Len(bind.objects), ManifestBlocks, ManifestCounts)
<1>m. \A o \in 1 .. Len(bind.objects) : ManifestBlocks[o] = bind.objects[o].blocks
  BY DEF ManifestBlocks
<1>1. ASSUME NEW r \in ExecP!WantedRows(Plan) PROVE r \in rows
  <2>0. PICK u \in 1 .. Len(work_units) :
          \E i \in ExecP!PassingRows(Plan, u) : r = ExecP!RowId(Plan.work_units[u], i)
    BY WantedRow
  <2>1. PICK i \in ExecP!PassingRows(Plan, u) : r = ExecP!RowId(Plan.work_units[u], i)
    BY <2>0
  <2>2. PICK o \in 1 .. Len(bind.objects) : \E b \in 1 .. bind.objects[o].blocks :
          /\ Plan.work_units[u] = Unit(o, b)
          /\ ExecP!PassingRows(Plan, u) = 1 .. ManifestCounts[o][b]
    BY FastUnit
  <2>3. PICK b \in 1 .. bind.objects[o].blocks :
          /\ Plan.work_units[u] = Unit(o, b)
          /\ ExecP!PassingRows(Plan, u) = 1 .. ManifestCounts[o][b]
    BY <2>2
  <2>4. r = <<o, b, i>> /\ i \in 1 .. ManifestCounts[o][b] /\ b \in 1 .. ManifestBlocks[o]
    BY <1>m, <2>1, <2>3 DEF ExecP!RowId, Unit
  <2> QED BY <2>4 DEF RowSet
<1>2. ASSUME phase = "ready", bind.order.row_limit = 0, NEW r \in rows
      PROVE  r \in ExecP!WantedRows(Plan)
  <2>1. PICK o \in 1 .. Len(bind.objects) : \E b \in 1 .. ManifestBlocks[o] :
          \E i \in 1 .. ManifestCounts[o][b] : r = <<o, b, i>>
    BY DEF RowSet
  <2>2. PICK b \in 1 .. bind.objects[o].blocks : \E i \in 1 .. ManifestCounts[o][b] : r = <<o, b, i>>
    BY <1>m, <2>1
  <2>3. PICK i \in 1 .. ManifestCounts[o][b] : r = <<o, b, i>>
    BY <2>2
  <2>4. Unit(o, b) \in Planned
    <3>1. bind.filters = {}
      BY DEF ExecP!FastPath, Plan
    <3>2. ~MayBeCut
      BY <1>2 DEF MayBeCut
    <3>3. o \in Decided
      BY <1>2 DEF Decided
    <3> QED BY <3>1, <3>2, <3>3 DEF PlanInv, UnfilteredInv
  <2>5. PICK u \in 1 .. Len(work_units) : work_units[u] = Unit(o, b)
    BY <2>4, PlanFacts DEF PlanInv, Planned
  <2>6. PICK p \in 1 .. Len(bind.objects) : \E c \in 1 .. bind.objects[p].blocks :
          /\ Plan.work_units[u] = Unit(p, c) /\ work_units[u] = Unit(p, c)
          /\ ExecP!PassingRows(Plan, u) = 1 .. ManifestCounts[p][c]
    BY FastUnit
  <2>7. Plan.work_units[u] = Unit(o, b) /\ ExecP!PassingRows(Plan, u) = 1 .. ManifestCounts[o][b]
    BY <2>5, <2>6 DEF Unit
  <2>8. r = ExecP!RowId(Plan.work_units[u], i)
    BY <2>3, <2>7 DEF ExecP!RowId, Unit
  <2> QED BY <2>3, <2>7, <2>8, WantedRow
<1> QED BY <1>1, <1>2

(* The rows the manifest counts. *)
LEMMA ManifestTotal ==
  ASSUME TypeOK, \A o \in DOMAIN bind.objects : ExecP!SplitsEvenly(bind.objects[o])
  PROVE  /\ IsFiniteSet(RowSet(Len(bind.objects), ManifestBlocks, ManifestCounts))
         /\ Cardinality(RowSet(Len(bind.objects), ManifestBlocks, ManifestCounts)) =
              RowsUpTo(Len(bind.objects))
         /\ \A o \in 1 .. Len(bind.objects) : \A b \in 1 .. bind.objects[o].blocks :
              ManifestCounts[o][b] \in Nat \ {0}
<1> DEFINE N == Len(bind.objects)
           total == [o \in DOMAIN bind.objects |-> bind.objects[o].rows]
<1>1. N \in Nat /\ DOMAIN bind.objects = 1 .. N
  BY BindFacts DEF WellFormedBind
<1>2. ASSUME NEW o \in 1 .. N
      PROVE  /\ ManifestBlocks[o] = bind.objects[o].blocks /\ ManifestBlocks[o] \in Nat
             /\ \A b \in 1 .. bind.objects[o].blocks : ManifestCounts[o][b] \in Nat \ {0}
             /\ SumTo(ManifestCounts[o], ManifestBlocks[o]) = total[o]
  <2>1. bind.objects[o].rows \in Nat /\ bind.objects[o].blocks \in Nat
    BY <1>1, BindFacts, TaeScanAssumption DEF TypeOK
  <2>2. LET count == [b \in 1 .. bind.objects[o].blocks |->
                        ExecP!ManifestBlockRowCount(bind.objects[o], b)]
        IN  /\ \A b \in 1 .. bind.objects[o].blocks : count[b] \in Nat \ {0}
            /\ SumTo(count, bind.objects[o].blocks) = bind.objects[o].rows
    BY <1>1, <2>1, SplitAddsUp
  <2>3. ManifestCounts[o] = [b \in 1 .. bind.objects[o].blocks |->
                               ExecP!ManifestBlockRowCount(bind.objects[o], b)]
    BY DEF ManifestCounts
  <2>4. ManifestBlocks[o] = bind.objects[o].blocks
    BY DEF ManifestBlocks
  <2> QED BY <1>1, <2>1, <2>2, <2>3, <2>4
<1>3. \A o \in 1 .. N : /\ ManifestBlocks[o] \in Nat
                        /\ \A b \in 1 .. ManifestBlocks[o] : ManifestCounts[o][b] \in Nat
                        /\ SumTo(ManifestCounts[o], ManifestBlocks[o]) = total[o]
  BY <1>2
<1>4. RowsUpTo(N) = SumTo(total, N)
  BY DEF RowsUpTo
<1> HIDE DEF total
<1>5. /\ IsFiniteSet(RowSet(N, ManifestBlocks, ManifestCounts))
      /\ Cardinality(RowSet(N, ManifestBlocks, ManifestCounts)) = SumTo(total, N)
  BY <1>1, <1>3, RowCount
<1> QED BY <1>2, <1>4, <1>5

(* COUNT( * ) is the manifest's row count, for every manifest whose counts split
   over the blocks. *)
THEOREM CountFromManifest == ScanSpec => []CountStar
<1>1. Inv => CountStar
  <2> SUFFICES ASSUME Inv, WholeScanDone, Exec!FastPath(Plan),
                      \A o \in DOMAIN bind.objects : Exec!SplitsEvenly(bind.objects[o])
               PROVE  Cardinality(delivered) = RowsUpTo(Len(bind.objects))
    BY DEF CountStar
  <2>1. ExecP!FastPath(Plan) /\ \A o \in DOMAIN bind.objects : ExecP!SplitsEvenly(bind.objects[o])
    BY SameScan DEF Exec!SplitsEvenly, ExecP!SplitsEvenly
  <2>2. ASSUME NEW u \in ExecP!Units(Plan) PROVE ExecP!TotalRows(Plan, u) > 0
    <3>1. u \in 1 .. Len(work_units)
      BY DEF ExecP!Units, Plan
    <3>2. PICK o \in 1 .. Len(bind.objects) : \E b \in 1 .. bind.objects[o].blocks :
            ExecP!TotalRows(Plan, u) = ManifestCounts[o][b]
      BY <2>1, <3>1, FastUnit DEF Inv
    <3>3. PICK b \in 1 .. bind.objects[o].blocks : ExecP!TotalRows(Plan, u) = ManifestCounts[o][b]
      BY <3>2
    <3>4. ManifestCounts[o][b] \in Nat \ {0}
      BY <2>1, ManifestTotal DEF Inv, PlanInv
    <3> QED BY <3>3, <3>4
  <2>3. delivered = ExecP!WantedRows(Plan)
    BY <2>2, DoneIsComplete DEF ExecP!NoEmptyUnit
  <2>4. ExecP!WantedRows(Plan) = RowSet(Len(bind.objects), ManifestBlocks, ManifestCounts)
    BY <2>1, CountedRows DEF Inv, WholeScanDone
  <2> QED BY <2>1, <2>3, <2>4, ManifestTotal DEF Inv, PlanInv
<1> QED BY <1>1, InvAlways, PTL

---------------------------------------------------------------------------
(* What the planner was told *)

LEMMA FiniteImage ==
  ASSUME NEW S, IsFiniteSet(S), NEW f
  PROVE  IsFiniteSet({f[x] : x \in S})
<1> DEFINE T == {f[x] : x \in S}
           g == [x \in S |-> f[x]]
<1>1. g \in Surjection(S, T)
  BY DEF Surjection
<1> HIDE DEF T, g
<1>2. IsFiniteSet(T)
  BY <1>1, FS_Surjection
<1> QED BY <1>2 DEF T

(* A finite set of integers has ends, which Min and Max find. *)
LEMMA EndsExist ==
  ASSUME NEW S \in SUBSET Int, IsFiniteSet(S), S # {}
  PROVE  \E m, n \in S : \A x \in S : m <= x /\ x <= n
<1> DEFINE K == {k \in Nat : \A T \in SUBSET Int :
                   IsFiniteSet(T) /\ Cardinality(T) = k /\ T # {} =>
                     \E m, n \in T : \A x \in T : m <= x /\ x <= n}
<1>1. 0 \in K
  BY FS_EmptySet
<1>2. ASSUME NEW k \in Nat, k \in K PROVE k + 1 \in K
  <2> SUFFICES ASSUME NEW T \in SUBSET Int, IsFiniteSet(T), Cardinality(T) = k + 1, T # {}
               PROVE  \E m, n \in T : \A x \in T : m <= x /\ x <= n
    OBVIOUS
  <2>1. PICK y \in T : TRUE
    OBVIOUS
  <2>2. IsFiniteSet(T \ {y}) /\ Cardinality(T \ {y}) = k
    <3> HIDE DEF K
    <3>1. Cardinality(T \ {y}) = (k + 1) - 1 /\ IsFiniteSet(T \ {y})
      BY <2>1, FS_RemoveElement
    <3> QED BY <3>1
  <2>3. CASE T \ {y} = {}
    <3>1. \A x \in T : x = y
      BY <2>3
    <3>2. y \in Int
      BY <2>1
    <3> QED BY <2>1, <3>1, <3>2
  <2>4. CASE T \ {y} # {}
    <3>1. PICK m \in T \ {y}, n \in T \ {y} : \A x \in T \ {y} : m <= x /\ x <= n
      BY <1>2, <2>2, <2>4
    <3> DEFINE lo == IF y < m THEN y ELSE m
               hi == IF y > n THEN y ELSE n
    <3>2. lo \in T /\ hi \in T
      BY <2>1
    <3>3. \A x \in T : lo <= x /\ x <= hi
      BY <2>1, <3>1
    <3> QED BY <3>2, <3>3
  <2> QED BY <2>3, <2>4
<1> HIDE DEF K
<1>3. Cardinality(S) \in K
  BY <1>1, <1>2, NatSetInduction, FS_CardinalityType
<1> QED BY <1>3 DEF K

LEMMA EndsFound ==
  ASSUME NEW S \in SUBSET Int, IsFiniteSet(S), NEW x \in S
  PROVE  Min(S) <= x /\ x <= Max(S)
<1>1. PICK m \in S, n \in S : \A y \in S : m <= y /\ y <= n
  BY EndsExist
<1>2. \E lo \in S : \A y \in S : lo =< y
  BY <1>1
<1>3. \E hi \in S : \A y \in S : hi >= y
  BY <1>1
<1>4. \A y \in S : Min(S) <= y
  BY <1>2 DEF Min
<1>5. \A y \in S : Max(S) >= y
  BY <1>3 DEF Max
<1>6. x \in Int /\ Max(S) \in Int
  BY <1>3 DEF Max
<1> QED BY <1>4, <1>5, <1>6

(* The statistics look at finitely many blocks, whose zone maps hold integers. *)
LEMMA BlocksAreFew ==
  ASSUME TypeOK
  PROVE  /\ IsFiniteSet(FileBlocks)
         /\ \A block \in FileBlocks : \A c \in Columns :
              MinBuf(block.zms[c]) \in Int /\ MaxBuf(block.zms[c]) \in Int
<1> DEFINE N == Len(bind.objects)
           Blocks == [o \in 1 .. N |-> {bind.objects[o].file[b] : b \in DOMAIN bind.objects[o].file}]
<1>1. N \in Nat /\ DOMAIN bind.objects = 1 .. N
  BY BindFacts DEF WellFormedBind
<1>2. FileBlocks \subseteq UNION {Blocks[o] : o \in 1 .. N}
  <2> SUFFICES ASSUME NEW x \in FileBlocks PROVE \E o \in 1 .. N : x \in Blocks[o]
    OBVIOUS
  <2>1. PICK o \in 1 .. N : \E b \in DOMAIN bind.objects[o].file : x = bind.objects[o].file[b]
    BY <1>1 DEF FileBlocks
  <2>2. x \in Blocks[o]
    BY <2>1
  <2> QED BY <2>2
<1>3. ASSUME NEW o \in 1 .. N PROVE IsFiniteSet(Blocks[o])
  <2>1. DOMAIN bind.objects[o].file = 1 .. Len(bind.objects[o].file)
        /\ Len(bind.objects[o].file) \in Nat
    BY BindFacts
  <2>2. IsFiniteSet(1 .. Len(bind.objects[o].file))
    <3>1. \A n \in Nat : IsFiniteSet(1 .. n)
      BY FS_Interval
    <3> QED BY <2>1, <3>1
  <2>3. IsFiniteSet({bind.objects[o].file[b] : b \in 1 .. Len(bind.objects[o].file)})
    BY <2>2, FiniteImage
  <2> QED BY <2>1, <2>3
<1>4. IsFiniteSet(FileBlocks)
  <2> HIDE DEF Blocks
  <2>1. IsFiniteSet(1 .. N)
    <3>1. \A n \in Nat : IsFiniteSet(1 .. n)
      BY FS_Interval
    <3> QED BY <1>1, <3>1
  <2>2. IsFiniteSet({Blocks[o] : o \in 1 .. N})
    BY <2>1, FiniteImage
  <2>3. IsFiniteSet(UNION {Blocks[o] : o \in 1 .. N})
    BY <1>3, <2>2, FS_UNION
  <2> QED BY <1>2, <2>3, FS_Subset
<1>5. ASSUME NEW block \in FileBlocks, NEW c \in Columns
      PROVE  MinBuf(block.zms[c]) \in Int /\ MaxBuf(block.zms[c]) \in Int
  <2>1. PICK o \in 1 .. N : \E b \in DOMAIN bind.objects[o].file : block = bind.objects[o].file[b]
    BY <1>1 DEF FileBlocks
  <2>2. PICK b \in DOMAIN bind.objects[o].file : block = bind.objects[o].file[b]
    BY <2>1
  <2> DEFINE Rows == Seq([Columns -> Int \cup {Null}])
             ZoneMaps == [Columns -> [inited : {FALSE}] \cup [inited : {TRUE}, min : Int, max : Int]]
  <2>3. bind.objects[o].file \in Seq([rows : Rows, zms : ZoneMaps])
    BY BindFacts DEF WellFormedBind, WellFormedObject
  <2> HIDE DEF Rows, ZoneMaps
  <2>4. block \in [rows : Rows, zms : ZoneMaps]
    BY <2>2, <2>3, LenProperties, ElementOfSeq
  <2>5. block.zms[c] \in [inited : {FALSE}] \cup [inited : {TRUE}, min : Int, max : Int]
    BY <2>4 DEF ZoneMaps
  <2> DEFINE z == block.zms[c]
  <2>6. z.inited => z.min \in Int /\ z.max \in Int
    BY <2>5
  <2> HIDE DEF z
  <2>7. MinBuf(z) \in Int /\ MaxBuf(z) \in Int
    BY <2>6 DEF MinBuf, MaxBuf
  <2> QED BY <2>7 DEF z
<1> QED BY <1>4, <1>5

(* A value in a file lies where the statistics said, NULLs included. *)
LEMMA ValueAllowed ==
  ASSUME TypeOK, NEW o \in 1 .. Len(bind.objects), NEW b \in DOMAIN bind.objects[o].file,
         NEW i \in DOMAIN bind.objects[o].file[b].rows, NEW c \in Columns
  PROVE  Allows(ColumnStatistics(c), bind.objects[o].file[b].rows[i][c])
<1> DEFINE block == bind.objects[o].file[b]
           v == block.rows[i][c]
           z == block.zms[c]
           lows == {MinBuf(d.zms[c]) : d \in FileBlocks}
           highs == {MaxBuf(d.zms[c]) : d \in FileBlocks}
           nulls == \E d \in FileBlocks : Null \in Column(d, c)
<1> SUFFICES ASSUME ColumnStatistics(c).known
             PROVE  IF v = Null THEN ColumnStatistics(c).has_null
                    ELSE ColumnStatistics(c).min <= v /\ v <= ColumnStatistics(c).max
  BY DEF Allows
<1>1. block \in FileBlocks /\ v \in Column(block, c)
  BY BindFacts DEF FileBlocks, Column, WellFormedBind
<1>2. /\ ColumnStatistics(c).min = Min(lows) /\ ColumnStatistics(c).max = Max(highs)
      /\ ColumnStatistics(c).has_null = nulls
  <2>1. ColumnStatistics(c) =
          [known |-> TRUE, min |-> Min(lows), max |-> Max(highs), has_null |-> nulls]
    BY DEF ColumnStatistics, NoStatistics
  <2> HIDE DEF lows, highs, nulls
  <2> QED BY <2>1
<1>3. CASE v = Null
  <2>1. nulls
    BY <1>1, <1>3
  <2> HIDE DEF nulls, v
  <2> QED BY <1>2, <1>3, <2>1
<1>4. CASE v # Null
  <2>1. z.inited
    <3>1. bind \in Binds /\ o \in DOMAIN bind.objects
      BY BindFacts DEF TypeOK, WellFormedBind
    <3>2. ~z.inited => Column(block, c) \subseteq {Null}
      BY <3>1, TrustedTables
    <3> QED BY <1>1, <1>4, <3>2
  <2>2. v \in Int /\ z.min <= v /\ v <= z.max /\ z.min \in Int /\ z.max \in Int
    BY <1>4, <2>1, FileFacts
  <2>3. z.min \in lows /\ z.max \in highs
    BY <1>1, <2>1 DEF MinBuf, MaxBuf
  <2>4. lows \in SUBSET Int /\ highs \in SUBSET Int
    BY BlocksAreFew
  <2>5. IsFiniteSet(lows) /\ IsFiniteSet(highs)
    <3> DEFINE f == [d \in FileBlocks |-> MinBuf(d.zms[c])]
               g == [d \in FileBlocks |-> MaxBuf(d.zms[c])]
    <3>1. lows = {f[d] : d \in FileBlocks} /\ highs = {g[d] : d \in FileBlocks}
      OBVIOUS
    <3> HIDE DEF f, g, lows, highs
    <3> QED BY <3>1, BlocksAreFew, FiniteImage
  <2>6. Min(lows) <= z.min /\ z.max <= Max(highs)
    <3> HIDE DEF lows, highs
    <3> QED BY <2>3, <2>4, <2>5, EndsFound
  <2>7. Min(lows) \in Int /\ Max(highs) \in Int
    <3> HIDE DEF lows, highs
    <3>1. \E m \in lows : \A y \in lows : m =< y
      BY <2>3, <2>4, <2>5, EndsExist
    <3>2. \E n \in highs : \A y \in highs : n >= y
      BY <2>3, <2>4, <2>5, EndsExist
    <3>3. Min(lows) \in lows /\ Max(highs) \in highs
      BY <3>1, <3>2 DEF Min, Max
    <3> QED BY <2>4, <3>3
  <2>8. Min(lows) <= v /\ v <= Max(highs)
    <3> HIDE DEF lows, highs, v, z
    <3> QED BY <2>2, <2>6, <2>7
  <2> HIDE DEF lows, highs, v, z
  <2> QED BY <1>2, <1>4, <2>8
<1> QED BY <1>3, <1>4

(* The rows that the files hold are no more than the manifest says. *)
LEMMA FileRowsFew ==
  ASSUME TypeOK
  PROVE  LET rows == RowSet(Len(bind.objects), FileBlockCounts, FileCounts)
         IN  IsFiniteSet(rows) /\ Cardinality(rows) <= ScanCardinality
<1> DEFINE N == Len(bind.objects)
           rows == RowSet(N, FileBlockCounts, FileCounts)
           held == [o \in 1 .. N |-> SumTo(FileCounts[o], FileBlockCounts[o])]
           said == [o \in DOMAIN bind.objects |-> bind.objects[o].rows]
<1>1. N \in Nat /\ DOMAIN bind.objects = 1 .. N /\ bind \in Binds
  BY BindFacts DEF WellFormedBind, TypeOK
<1>2. ASSUME NEW o \in 1 .. N
      PROVE  /\ FileBlockCounts[o] \in Nat
             /\ \A b \in 1 .. FileBlockCounts[o] : FileCounts[o][b] \in Nat
             /\ SumTo(FileCounts[o], FileBlockCounts[o]) \in Nat
             /\ said[o] \in Nat /\ SumTo(FileCounts[o], FileBlockCounts[o]) <= said[o]
  <2> DEFINE file == bind.objects[o].file
  <2>1. Len(file) \in Nat /\ DOMAIN file = 1 .. Len(file)
    BY BindFacts
  <2>2. FileBlockCounts[o] = Len(file)
    BY DEF FileBlockCounts
  <2>3. FileCounts[o] = [b \in 1 .. Len(file) |-> Len(file[b].rows)]
    BY DEF FileCounts
  <2>4. \A b \in 1 .. Len(file) : Len(file[b].rows) \in Nat
    BY <2>1, BlockRows
  <2>5. said[o] = bind.objects[o].rows /\ said[o] \in Nat
    BY <1>1, TaeScanAssumption
  <2>6. SumTo([b \in DOMAIN file |-> Len(file[b].rows)], Len(file)) <= bind.objects[o].rows
    BY <1>1, TrustedTables
  <2>7. \A b \in 1 .. FileBlockCounts[o] : FileCounts[o][b] \in Nat
    BY <2>2, <2>3, <2>4
  <2>8. FileBlockCounts[o] \in Nat
    BY <2>1, <2>2
  <2>9. SumTo(FileCounts[o], FileBlockCounts[o]) \in Nat
    BY <2>7, <2>8, SumType
  <2> HIDE DEF file, said
  <2> QED BY <2>1, <2>2, <2>3, <2>5, <2>6, <2>7, <2>8, <2>9
<1>3. \A o \in 1 .. N : /\ FileBlockCounts[o] \in Nat
                        /\ \A b \in 1 .. FileBlockCounts[o] : FileCounts[o][b] \in Nat
                        /\ SumTo(FileCounts[o], FileBlockCounts[o]) = held[o]
  BY <1>2
<1>4. \A o \in 1 .. N : held[o] \in Nat /\ said[o] \in Nat /\ held[o] <= said[o]
  BY <1>2
<1>5. ScanCardinality = SumTo(said, N)
  BY DEF ScanCardinality, RowsUpTo
<1> HIDE DEF held, said
<1>6. IsFiniteSet(rows) /\ Cardinality(rows) = SumTo(held, N)
  BY <1>1, <1>3, RowCount
<1>7. SumTo(held, N) <= SumTo(said, N)
  BY <1>1, <1>4, SumMonotone
<1> HIDE DEF rows
<1>8. Cardinality(rows) <= ScanCardinality
  BY <1>5, <1>6, <1>7
<1> QED BY <1>6, <1>8 DEF rows

(* A row of a unit is a row of a file, unless the scan only counts. *)
LEMMA WantedInFile ==
  ASSUME TypeOK, ~ExecP!FastPath(Plan), NEW r \in ExecP!WantedRows(Plan)
  PROVE  \E o \in 1 .. Len(bind.objects) : \E b \in 1 .. Len(bind.objects[o].file) :
           \E i \in DOMAIN bind.objects[o].file[b].rows : r = <<o, b, i>>
<1>0. PICK u \in 1 .. Len(work_units) :
        \E i \in ExecP!PassingRows(Plan, u) : r = ExecP!RowId(Plan.work_units[u], i)
  BY WantedRow
<1>1. PICK i \in ExecP!PassingRows(Plan, u) : r = ExecP!RowId(Plan.work_units[u], i)
  BY <1>0
<1>2. PICK o \in 1 .. Len(bind.objects), b \in Nat \ {0} :
        /\ Plan.work_units[u] = Unit(o, b)
        /\ ExecP!PassingRows(Plan, u) =
             IF b \in 1 .. Len(bind.objects[o].file)
             THEN AsFileBlock(bind.objects[o].file[b]).match ELSE {}
  BY UnitRows
<1>3. r = <<o, b, i>>
  BY <1>1, <1>2 DEF ExecP!RowId, Unit
<1>4. b \in 1 .. Len(bind.objects[o].file) /\ i \in AsFileBlock(bind.objects[o].file[b]).match
  BY <1>1, <1>2
<1>5. i \in DOMAIN bind.objects[o].file[b].rows
  BY <1>4 DEF AsFileBlock
<1> QED BY <1>3, <1>4, <1>5

(* What the planner was told of values and of the number of rows is true, for every
   table of which the writer's promises are (TrustedTables). *)
THEOREM PlannerToldTrue == ScanSpec => []PlannerWasTold
<1>1. Inv => PlannerWasTold
  <2> SUFFICES ASSUME Inv PROVE PlannerWasTold
    OBVIOUS
  <2>1. delivered \subseteq ExecP!WantedRows(Plan) /\ TypeOK
    BY DEF Inv, PlanInv, ThreadsInv, ExecP!RowInv, ExecP!Out
  <2>2. Exec!FastPath(Plan) <=> ExecP!FastPath(Plan)
    BY SameScan
  <2>3. ASSUME ~ExecP!FastPath(Plan), NEW r \in delivered, NEW c \in Columns
        PROVE  Allows(ColumnStatistics(c), bind.objects[r[1]].file[r[2]].rows[r[3]][c])
    <3>1. PICK o \in 1 .. Len(bind.objects) : \E b \in 1 .. Len(bind.objects[o].file) :
            \E i \in DOMAIN bind.objects[o].file[b].rows : r = <<o, b, i>>
      BY <2>1, <2>3, WantedInFile
    <3>2. PICK b \in 1 .. Len(bind.objects[o].file) :
            \E i \in DOMAIN bind.objects[o].file[b].rows : r = <<o, b, i>>
      BY <3>1
    <3>3. PICK i \in DOMAIN bind.objects[o].file[b].rows : r = <<o, b, i>>
      BY <3>2
    <3>4. Allows(ColumnStatistics(c), bind.objects[o].file[b].rows[i][c])
      BY <2>1, BindFacts, ValueAllowed
    <3> QED BY <3>3, <3>4
  <2>4. ASSUME \A o \in DOMAIN bind.objects : Exec!SplitsEvenly(bind.objects[o])
        PROVE  Cardinality(delivered) <= ScanCardinality
    <3>0. \A o \in DOMAIN bind.objects : ExecP!SplitsEvenly(bind.objects[o])
      BY <2>4 DEF Exec!SplitsEvenly, ExecP!SplitsEvenly
    <3>1. \E rows : /\ IsFiniteSet(rows) /\ Cardinality(rows) <= ScanCardinality
                    /\ ExecP!WantedRows(Plan) \subseteq rows
      <4>1. CASE ExecP!FastPath(Plan)
        <5> DEFINE rows == RowSet(Len(bind.objects), ManifestBlocks, ManifestCounts)
        <5>1. IsFiniteSet(rows) /\ Cardinality(rows) = ScanCardinality
          BY <2>1, <3>0, ManifestTotal DEF ScanCardinality
        <5>2. ExecP!WantedRows(Plan) \subseteq rows
          BY <4>1, CountedRows DEF Inv
        <5>3. Cardinality(rows) \in Nat
          BY <5>1, FS_CardinalityType
        <5> HIDE DEF rows
        <5>4. Cardinality(rows) <= ScanCardinality
          BY <5>1, <5>3
        <5> QED BY <5>1, <5>2, <5>4
      <4>2. CASE ~ExecP!FastPath(Plan)
        <5> DEFINE rows == RowSet(Len(bind.objects), FileBlockCounts, FileCounts)
        <5>1. IsFiniteSet(rows) /\ Cardinality(rows) <= ScanCardinality
          BY <2>1, FileRowsFew
        <5>2. ASSUME NEW r \in ExecP!WantedRows(Plan) PROVE r \in rows
          <6>1. PICK o \in 1 .. Len(bind.objects) : \E b \in 1 .. Len(bind.objects[o].file) :
                  \E i \in DOMAIN bind.objects[o].file[b].rows : r = <<o, b, i>>
            BY <2>1, <4>2, WantedInFile
          <6>2. PICK b \in 1 .. Len(bind.objects[o].file) :
                  \E i \in DOMAIN bind.objects[o].file[b].rows : r = <<o, b, i>>
            BY <6>1
          <6>3. PICK i \in DOMAIN bind.objects[o].file[b].rows : r = <<o, b, i>>
            BY <6>2
          <6>4. i \in 1 .. Len(bind.objects[o].file[b].rows)
            BY <2>1, BlockRows
          <6>5. b \in 1 .. FileBlockCounts[o] /\ i \in 1 .. FileCounts[o][b]
            BY <6>4 DEF FileBlockCounts, FileCounts
          <6> QED BY <6>3, <6>5 DEF RowSet
        <5> HIDE DEF rows
        <5> QED BY <5>1, <5>2
      <4> QED BY <4>1, <4>2
    <3>2. PICK rows : /\ IsFiniteSet(rows) /\ Cardinality(rows) <= ScanCardinality
                      /\ ExecP!WantedRows(Plan) \subseteq rows
      BY <3>1
    <3>3. IsFiniteSet(delivered) /\ Cardinality(delivered) <= Cardinality(rows)
      BY <2>1, <3>2, FS_Subset
    <3>4. /\ Cardinality(delivered) \in Nat /\ Cardinality(rows) \in Nat
          /\ ScanCardinality \in Nat
      <4>1. ScanCardinality \in Nat
        <5> DEFINE said == [o \in DOMAIN bind.objects |-> bind.objects[o].rows]
        <5>1. /\ Len(bind.objects) \in Nat /\ DOMAIN bind.objects = 1 .. Len(bind.objects)
              /\ bind \in Binds
          BY <2>1, BindFacts DEF WellFormedBind, TypeOK
        <5>2. \A o \in 1 .. Len(bind.objects) : said[o] \in Nat
          BY <5>1, TaeScanAssumption
        <5>3. ScanCardinality = SumTo(said, Len(bind.objects))
          BY DEF ScanCardinality, RowsUpTo
        <5> HIDE DEF said
        <5> QED BY <5>1, <5>2, <5>3, SumType
      <4> QED BY <3>2, <3>3, <4>1, FS_CardinalityType
    <3> QED BY <3>2, <3>3, <3>4
  <2> QED BY <2>2, <2>3, <2>4 DEF PlannerWasTold
<1> QED BY <1>1, InvAlways, PTL
===========================================================================
