----------------------- MODULE ScanRefinement_proofs -----------------------
(***************************************************************************)
(* A parallel scan that neither samples nor counts empty units implements  *)
(* ScanResult, for every set of threads and every such scan.               *)
(***************************************************************************)
EXTENDS ScanRefinement, ScanExec_proofs

Inv == scan \in Scans /\ Local /\ RowInv /\ Emission /\ ZeroMeansExhausted /\ sampled_out = {}

(* The scans at hand neither sample nor count empty units. *)
LEMMA PlainScan == scan \in Scans => ~scan.do_sample /\ NoEmptyUnit(scan)
  BY ScanRefinementAssumption

(* All that the refinement rests on is preserved. *)
LEMMA InvStep == Inv /\ [Next]_vars => Inv'
<1> SUFFICES ASSUME Inv, [Next]_vars PROVE Inv'
  OBVIOUS
<1>1. Local' /\ RowInv' /\ Emission' /\ ZeroMeansExhausted'
  BY LocalStep, RowStep, EmissionStep, ExhaustedStep DEF Inv
<1>2. ~scan'.do_sample
  <2>1. scan' \in Scans
    BY ScanKept DEF Inv
  <2> QED BY <2>1, ScanRefinementAssumption
<1>3. (~scan.do_sample => sampled_out = {})'
  BY NoSampleStep DEF Inv, NoSample
<1> QED BY <1>1, <1>2, <1>3, ScanKept DEF Inv

(* A chunk is a delivery: its rows are new, wanted, counted, and at least one. *)
LEMMA ChunkIsDelivery ==
  ASSUME Inv, Inv', NEW t \in Threads, NEW rows \in SUBSET Filtered(t),
         rows # {}, pc[t] = "emit", Goto(t, "idle"),
         Emitted(t, rows) \cap Out = {},
         delivered' = delivered \cup Emitted(t, rows),
         rows_emitted' = rows_emitted + Cardinality(rows),
         scan' = scan, query' = query
  PROVE  Result!Deliver
<1>1. IsFiniteSet(rows)
  BY FilteredFinite, FS_Subset DEF Inv
<1>2. delivered' \ delivered = Emitted(t, rows)
  BY DEF Out
<1>3. Cardinality(delivered' \ delivered) = Cardinality(rows)
  BY <1>1, <1>2, EmittedCount
<1>4. delivered' # delivered
  <2>1. Emitted(t, rows) # {}
    BY DEF Emitted
  <2> QED BY <1>2, <2>1
<1>5. delivered' \subseteq WantedRows(scan)
  BY DEF Inv, RowInv, Out
<1>6. Status' = Status /\ Status # "complete"
  <2>1. pc[t] # "done" /\ pc'[t] # "done"
    BY DEF Goto, Inv, Local, ThreadsTypeOK
  <2>2. query # "complete"
    BY DEF Inv, Local, ThreadsTypeOK
  <2> QED BY <2>1, <2>2 DEF Status
<1>7. rows_emitted' = rows_emitted + Cardinality(delivered' \ delivered)
  BY <1>3
<1>8. delivered \subseteq delivered' /\ WantedRows(scan)' = WantedRows(scan)
  OBVIOUS
<1>9. rows_emitted' = rows_emitted + Result!Cardinality(delivered' \ delivered)
  BY <1>7 DEF Result!Cardinality, Cardinality
<1> QED BY <1>4, <1>5, <1>6, <1>8, <1>9 DEF Result!Deliver

(* A step that delivers nothing ends the scan, cancels it, or does not show. *)
LEMMA SilentStep ==
  ASSUME Inv, Inv', scan' = scan, delivered' = delivered, rows_emitted' = rows_emitted,
         query' \in {query, "cancelled"},
         pc' # pc => \E t \in Threads : pc[t] # "done"
  PROVE  [Result!Next]_(Result!vars)
<1>1. query \in {"running", "cancelled"} /\ query' \in {"running", "cancelled"}
  BY DEF Inv, Local, ThreadsTypeOK
<1>2. CASE \A t \in Threads : pc[t] = "done"
  <2>1. pc' = pc
    BY <1>2
  <2> QED BY <1>2, <2>1 DEF Status, Result!vars
<1>3. CASE (\E t \in Threads : pc[t] # "done") /\ \A t \in Threads : pc'[t] = "done"
  <2>1. CompleteAtEnd'
    <3>1. (Local /\ RowInv /\ ZeroMeansExhausted /\ sampled_out = {} => CompleteAtEnd)'
      BY CompleteFromInvariants, PTL
    <3> QED BY <3>1 DEF Inv
  <2>2. ~scan.do_sample /\ NoEmptyUnit(scan)
    BY PlainScan DEF Inv
  <2>3. delivered = WantedRows(scan)
    BY <1>3, <2>1, <2>2, ScanRefinementAssumption DEF CompleteAtEnd
  <2> QED BY <1>3, <2>3 DEF Status, Result!Next, Result!Complete
<1>4. CASE (\E t \in Threads : pc[t] # "done") /\ (\E t \in Threads : pc'[t] # "done")
  <2>1. Status = query /\ Status' = query'
    BY <1>4 DEF Status
  <2> QED BY <1>1, <2>1 DEF Result!Next, Result!Cancel, Result!vars
<1> QED BY <1>2, <1>3, <1>4

(* Every step of the scan is a step of ScanResult or leaves it as it is. *)
LEMMA StepRefines == Inv /\ Inv' /\ [Next]_vars => [Result!Next]_(Result!vars)
<1> SUFFICES ASSUME Inv, Inv', [Next]_vars PROVE [Result!Next]_(Result!vars)
  OBVIOUS
<1> USE DEF shared, history
<1>1. CASE UNCHANGED vars \/ Finished
  BY <1>1 DEF vars, Finished, Status, Result!vars
<1>2. CASE Cancel
  BY <1>2, SilentStep DEF Cancel
<1>3. ASSUME NEW t \in Threads, Step(t) PROVE [Result!Next]_(Result!vars)
  <2>1. CASE EmitChunk(t)
    <3>1. PICK kept \in SUBSET Filtered(t) :
            /\ kept # {}
            /\ rows_emitted' = rows_emitted + Cardinality(kept)
            /\ delivered' = delivered \cup Emitted(t, kept)
            /\ sampled_out' = sampled_out \cup Emitted(t, Filtered(t) \ kept)
      BY <2>1 DEF EmitChunk
    <3>2. /\ pc[t] = "emit" /\ Advance(t) /\ Goto(t, "idle") /\ query' = query
          /\ scan' = scan /\ next_work_unit' = next_work_unit
      BY <2>1 DEF EmitChunk
    <3>3. Emitted(t, kept) \cap Out = {}
      BY <3>1, <3>2, EmitKeeps DEF Inv
    <3> QED BY <3>1, <3>2, <3>3, ChunkIsDelivery DEF Result!Next
  <2>2. CASE EmitChunkFast(t)
    <3>1. /\ pc[t] = "emit" /\ Advance(t) /\ FastPath(scan) /\ query' = query
          /\ scan' = scan /\ next_work_unit' = next_work_unit
          /\ delivered' = delivered \cup Emitted(t, Filtered(t))
          /\ sampled_out' = sampled_out
          /\ rows_emitted' = rows_emitted + ChunkRows(t)
          /\ Goto(t, IF ChunkRows(t) = 0 THEN "done" ELSE "idle")
      BY <2>2 DEF EmitChunkFast
    <3>2. PendingIsUnit(t) /\ wu_idx[t] \in Units(scan) /\ NoEmptyUnit(scan)
      BY <3>1, ChunkFacts, HeldUnit, PlainScan DEF Inv
    <3>3. pending_total_rows[t] > 0
      BY <3>1, <3>2 DEF NoEmptyUnit, PendingIsUnit
    <3>4. ChunkRows(t) # 0
      BY <3>1, <3>3, ChunkFacts DEF ChunkEnd, Inv
    <3>5. Cardinality(Filtered(t)) = ChunkRows(t)
      BY <3>1, FilteredFinite DEF Inv
    <3>6. Filtered(t) # {}
      BY <3>4, <3>5, FS_EmptySet
    <3>7. Emitted(t, Filtered(t) \ Filtered(t)) = {}
      BY DEF Emitted
    <3>8. Emitted(t, Filtered(t)) \cap Out = {}
      BY <3>1, <3>7, EmitKeeps DEF Inv
    <3> QED BY <3>1, <3>4, <3>5, <3>6, <3>8, ChunkIsDelivery DEF Result!Next
  <2>3. CASE ~EmitChunk(t) /\ ~EmitChunkFast(t)
    <3>1. /\ scan' = scan /\ delivered' = delivered /\ rows_emitted' = rows_emitted
          /\ query' \in {query, "cancelled"} /\ pc[t] # "done"
      BY <1>3, <2>3 DEF Step, Call, Exhausted, Dispatch, OpenReader, OpenFails, SkipBlock,
           ScanBlock, ReadBlock, ReadFails, FilteredOut, SampledOut, Stop, Throw
    <3> QED BY <3>1, SilentStep
  <2> QED BY <2>1, <2>2, <2>3
<1> QED BY <1>1, <1>2, <1>3 DEF Next

(* The parallel scan implements the promise of ScanResult. *)
THEOREM ScanImplementsResult == Spec => ImplementsResult
<1>1. Init => Inv
  BY LocalInit, RowInit, FS_EmptySet DEF Init, ThreadsInit, Inv, Emission, EmittedOnce, ZeroMeansExhausted
<1>2. Init => Result!Init
  BY ScanRefinementAssumption DEF Init, ThreadsInit, Result!Init, Status
<1> QED
  BY <1>1, <1>2, InvStep, StepRefines, PTL DEF Spec, ImplementsResult, Result!Spec
===========================================================================
