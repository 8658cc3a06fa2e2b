----------------------------- MODULE MCScanInit -----------------------------
(* Small instances of ScanInit: two objects of one or two blocks, over columns a
   and b.  The blocks cover disjoint and overlapping ranges, NULLs, and a column
   with nothing but NULLs, whose zone map is never initialised.  Manifests match
   the files, or claim a block too many or too few. *)
EXTENDS ScanInit, SequencesExt

MCColumns == {"a", "b"}

Row(a, b) == [c \in MCColumns |-> IF c = "a" THEN a ELSE b]

(* The zone map a writer that saw these values leaves. *)
ZoneMapOf(values) ==
  FoldLeft(LAMBDA zm, v : UpdateZoneMap("fixed", zm, v), NoZoneMap, values)

MCBlock(rows) ==
  [rows |-> rows,
   zms |-> [c \in MCColumns |-> ZoneMapOf([i \in DOMAIN rows |-> rows[i][c]])]]

Low == MCBlock(<<Row(1, 1), Row(2, Null)>>)
High == MCBlock(<<Row(3, 2), Row(4, 1)>>)
Wide == MCBlock(<<Row(2, 2), Row(5, 2)>>)
Single == MCBlock(<<Row(-1, Null)>>)
Nulls == MCBlock(<<Row(Null, 1)>>)

Files == {<<Low>>, <<High, Low>>, <<Single, High>>, <<Wide>>, <<Wide, Nulls>>}

ColumnA(file) ==
  FlattenSeq([b \in DOMAIN file |-> [i \in DOMAIN file[b].rows |-> file[b].rows[i]["a"]]])

MCObject(file, blocks, has_zm) ==
  [file |-> file, blocks |-> blocks,
   sort_key_zm |-> IF has_zm THEN ZoneMapOf(ColumnA(file)) ELSE NoZoneMap]

(* Both objects match, or the second does not. *)
ObjectPairs ==
  {<<MCObject(f, Len(f), z), MCObject(g, Len(g), TRUE)>> : f \in Files, g \in Files, z \in BOOLEAN}
    \cup {<<MCObject(<<Low>>, 1, TRUE), MCObject(g, Len(g) + d, TRUE)>> :
            g \in {<<High, Low>>, <<Wide>>}, d \in {-1, 1}}

On(column, filter) == [column |-> column, filter |-> filter]
Scalar(op, c) == [op |-> op, constant |-> c]

FilterSets ==
  {{},
   {On("a", Scalar("GREATER_THAN", 2))},
   {On("b", Scalar("EQUAL", 1))},
   {On("a", Scalar("LESS_THAN_OR_EQUAL", 1)), On("b", Scalar("NOT_EQUAL", 2))},
   {On("a", [op |-> "IN_SET", in_values |-> {2, 5}])},
   {On("a", [op |-> "IS_NULL"])}}

NoOrder == [column |-> NoColumn, ascending |-> TRUE, use_min_stat |-> TRUE, row_limit |-> 0]

Orders ==
  {[column |-> "a", ascending |-> asc, use_min_stat |-> asc, row_limit |-> n] :
     asc \in BOOLEAN, n \in {0, 1, 3, 4}}

MCBinds ==
  [objects : ObjectPairs, sort_column : {NoColumn, "a"}, filters : FilterSets,
   order : Orders \cup {NoOrder}]
===========================================================================
