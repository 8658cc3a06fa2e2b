---------------------------- MODULE ColumnBlock ----------------------------
(***************************************************************************)
(* One column of one block, as it is written: MatrixOne appends values and *)
(* keeps the zone map, and at any moment the block could be sealed and     *)
(* scanned.  The properties say what the scan's zone-map test may conclude.*)
(***************************************************************************)
EXTENDS ZoneMap, FiniteSets

CONSTANTS Fixed,    \* the integers rows are made of
          Strings,  \* the strings rows are made of
          FixedFilters, StringFilters,   \* the filters considered
          MaxRows   \* bound on the distinct values of a block

ASSUME ColumnBlockAssumption ==
  /\ Fixed \subseteq Int
  /\ Strings \subseteq Seq(Nat)
  /\ FixedFilters \subseteq Filter(Int)
  /\ StringFilters \subseteq Filter(Seq(Nat))

VARIABLES kind,   \* what the column holds: "fixed" or "string"
          rows,   \* the values of the block's rows
          zm      \* the block's zone map

vars == <<kind, rows, zm>>

Values == IF kind = "string" THEN Strings ELSE Fixed

Init == /\ kind \in {"fixed", "string"}
        /\ rows = {}
        /\ zm = NoZoneMap

AppendRow(v) == /\ Cardinality(rows) < MaxRows
                /\ rows' = rows \cup {v}
                /\ zm' = UpdateZoneMap(kind, zm, v)
                /\ UNCHANGED kind

Next == \E v \in Values \cup {Null} : AppendRow(v)

Spec == Init /\ [][Next]_vars

---------------------------------------------------------------------------
(* Properties *)

(* The zone map rejects a filter that some row of the block satisfies. *)
FalseSkip(f) ==
  ~EvalFilterOnZoneMap(kind, f, zm) /\ \E v \in rows : RowPassesFilter(kind, f, v)

(* tae_zonemap.hpp:147, "Returns false if the block DEFINITELY has no matching
   rows", for the fixed-width types: whatever values and NULLs a block holds, a
   filter its zone map rejects is satisfied by none of its rows. *)
NoFalseSkipFixed ==
  kind = "fixed" => \A f \in FixedFilters : ~FalseSkip(f)

(* The same for strings, cut minima and maxima included; but for NOT_EQUAL only
   while no string of the block is cut. *)
NoFalseSkipString ==
  kind = "string" => \A f \in StringFilters :
    (f.op = "NOT_EQUAL" => \A v \in rows \ {Null} : Len(v) <= Width) => ~FalseSkip(f)

(* The comment's claim for strings without that exception. *)
NoFalseSkipNotEqual ==
  kind = "string" => \A f \in StringFilters : f.op = "NOT_EQUAL" => ~FalseSkip(f)

(* The test is as sharp as a minimum and a maximum allow: a block is kept for a
   comparison only if a value between its minimum and maximum would satisfy it,
   so a filter outside a block's range costs no read. *)
KeptOnlyIfInRange ==
  kind = "fixed" /\ zm.inited => \A f \in FixedFilters :
    f.op \in ScalarOps /\ EvalFilterOnZoneMap(kind, f, zm)
      => \E x \in zm.min .. zm.max : OpHolds(f.op, CompareFixed(x, f.constant))
===========================================================================
