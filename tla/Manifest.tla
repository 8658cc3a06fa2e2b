------------------------------ MODULE Manifest ------------------------------
(***************************************************************************)
(* ParseManifestBytes: from the JSON manifest to bind data, or an error.   *)
(* The JSON itself is a record                                             *)
(*   [columns : Seq([name, oid, width, seqnum]),                           *)
(*    objects : Seq([rows, blocks]), sort_column]                          *)
(* where seqnum may be Absent.  Integers of columns are read through       *)
(* yyjson_get_int, which keeps IntBits bits of them, before they are       *)
(* checked; those of objects are checked at full width.  The document is   *)
(* otherwise in the form the code asks for: required strings, sizes, paths.*)
(***************************************************************************)
EXTENDS TaeTypes, FiniteSets

CONSTANTS Absent, IntBits, SeqnumMax, CountMax     \* 32, UINT16_MAX, UINT32_MAX

ASSUME ManifestAssumption ==
  /\ IntBits \in Nat \ {0} /\ SeqnumMax \in Nat /\ CountMax \in Nat /\ Absent \notin Int
  /\ SeqnumMax < (2 ^ IntBits) \div 2

(* yyjson_get_int *)
AsInt(q) ==
  LET m == 2 ^ IntBits IN ((q + m \div 2) % m) - m \div 2

(* A column without a number has the number of its place, from 0. *)
Seqnum(m, i) == IF m.columns[i].seqnum = Absent THEN i - 1 ELSE AsInt(m.columns[i].seqnum)

SeqnumsAccepted(m) ==
  \A i \in DOMAIN m.columns :
    /\ Seqnum(m, i) \in 0 .. SeqnumMax
    /\ \A j \in 1 .. i - 1 : Seqnum(m, j) # Seqnum(m, i)

TypesAccepted(m) ==
  \A i \in DOMAIN m.columns : m.columns[i].oid \in DOMAIN MOTypeToDuckDB

ObjectsAccepted(m) ==
  \A o \in DOMAIN m.objects : m.objects[o].rows \in 0 .. CountMax /\ m.objects[o].blocks \in 0 .. CountMax

Accepted(m) == SeqnumsAccepted(m) /\ TypesAccepted(m) /\ ObjectsAccepted(m)

TotalRows(objects) ==
  LET total[n \in 0 .. Len(objects)] == IF n = 0 THEN 0 ELSE total[n - 1] + objects[n].rows
  IN  total[Len(objects)]

TotalBlocks(objects) ==
  LET total[n \in 0 .. Len(objects)] == IF n = 0 THEN 0 ELSE total[n - 1] + objects[n].blocks
  IN  total[Len(objects)]

(* The first column of the sort column's name; 0 for the code's -1. *)
SortColumn(m) ==
  LET named == {i \in DOMAIN m.columns : m.columns[i].name = m.sort_column}
  IN  IF named = {} THEN 0 ELSE CHOOSE i \in named : \A j \in named : i <= j

ParseManifest(m) ==
  [all_col_types |-> [i \in DOMAIN m.columns |-> MOTypeToDuckDB[m.columns[i].oid]],
   all_col_mo_oids |-> [i \in DOMAIN m.columns |-> m.columns[i].oid],
   all_col_widths |-> [i \in DOMAIN m.columns |-> m.columns[i].width],
   all_col_seqnums |-> [i \in DOMAIN m.columns |-> Seqnum(m, i)],
   total_rows |-> TotalRows(m.objects),
   total_blocks |-> TotalBlocks(m.objects),
   sort_column_idx |-> SortColumn(m)]
===========================================================================
