----------------------------- MODULE MCTaeScan -----------------------------
(* Small instances of TaeScan and ScanStatistics: tables of three blocks in two
   objects, pruned by one or two filters, sorted or not; one with a file that the
   manifest does not match; and COUNT( * ) over objects whose rows split evenly,
   with a rest, and into full blocks. *)
EXTENDS ScanStatistics, MCScanInit

CONSTANTS t1, t2

Symmetry == Permutations(Threads)

Stored(file, blocks) ==
  [rows |-> Len(FlattenSeq([b \in DOMAIN file |-> file[b].rows])), blocks |-> blocks,
   file |-> file, sort_key_zm |-> ZoneMapOf(ColumnA(file))]

Tables ==
  {<<Stored(<<High, Low>>, 2), Stored(<<Wide>>, 1)>>,
   <<Stored(<<Low>>, 1), Stored(<<Wide, Nulls>>, 2)>>,
   <<Stored(<<Low>>, 1), Stored(<<High, Low>>, 3)>>}

Reads ==
  [objects : Tables, sort_column : {"a"}, filters : FilterSets,
   order : {NoOrder, [NoOrder EXCEPT !.column = "a"]},
   read_columns : {TRUE}, do_sample : {FALSE}]

Counted(rows, blocks) ==
  [rows |-> rows, blocks |-> blocks, file |-> <<>>, sort_key_zm |-> NoZoneMap]

Counts ==
  [objects : {<<Counted(n, b), Counted(1, 1)>> : n \in 1 .. 9, b \in 1 .. 3},
   sort_column : {NoColumn}, filters : {{}}, order : {NoOrder},
   read_columns : {FALSE}, do_sample : {FALSE}]

(* One object of no rows, or of fewer rows than blocks, before another. *)
SparseCounts == {[b EXCEPT !.objects[1].rows = n] : b \in Counts, n \in 0 .. 1}

MCScanBinds == Reads \cup Counts
===========================================================================
