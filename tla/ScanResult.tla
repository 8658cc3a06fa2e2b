---------------------------- MODULE ScanResult ----------------------------
(***************************************************************************)
(* What a table scan promises to the query that runs it: it returns rows   *)
(* of the wanted set, each of them once, and says that it is complete only *)
(* when it has returned all of them.  The query may be cancelled.          *)
(***************************************************************************)
EXTENDS Integers, FiniteSets

VARIABLES wanted, delivered, rows_emitted, status

vars == <<wanted, delivered, rows_emitted, status>>

Init == /\ delivered = {}
        /\ rows_emitted = 0
        /\ status = "running"

(* A chunk of rows the query has not had yet; calls already made when the
   query is cancelled may still return theirs. *)
Deliver == /\ status # "complete"
           /\ delivered \subseteq delivered' /\ delivered' # delivered
           /\ delivered' \subseteq wanted
           /\ rows_emitted' = rows_emitted + Cardinality(delivered' \ delivered)
           /\ UNCHANGED <<wanted, status>>

Complete == /\ delivered = wanted
            /\ status' = "complete"
            /\ UNCHANGED <<wanted, delivered, rows_emitted>>

Cancel == /\ status = "running"
          /\ status' = "cancelled"
          /\ UNCHANGED <<wanted, delivered, rows_emitted>>

Next == Deliver \/ Complete \/ Cancel

Spec == Init /\ [][Next]_vars
===========================================================================
