-------------------------- MODULE ScanRefinement --------------------------
(***************************************************************************)
(* A parallel scan implements the promise of ScanResult, unless it samples *)
(* or counts a manifest unit of no rows.                                   *)
(***************************************************************************)
EXTENDS ScanExec

ASSUME ScanRefinementAssumption ==
  /\ Threads # {}
  /\ \A sc \in Scans : ~sc.do_sample /\ NoEmptyUnit(sc)

Status == IF \A t \in Threads : pc[t] = "done" THEN "complete"
          ELSE query

Result == INSTANCE ScanResult WITH wanted <- WantedRows(scan), status <- Status

(* TAEScanExecute, run by any number of threads, is a scan in the sense of
   ScanResult: each call's chunk is new, and the last thread to be told that
   the scan is complete is told so when all matching rows are out. *)
ImplementsResult == Result!Spec
===========================================================================
