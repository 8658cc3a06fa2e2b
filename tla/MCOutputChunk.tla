--------------------------- MODULE MCOutputChunk ---------------------------
(* Small instances of OutputChunk.  Tables have a number column a, a date d and a
   string s, whose numbers in the object are not those of the table; blocks of up
   to three rows with NULLs at different places, constant and NULL-constant
   columns, and none. *)
EXTENDS OutputChunk

Flat(oid, values) == [oid |-> oid, width |-> 0, form |-> "flat", values |-> values]
Constant(oid, v, n) ==
  [oid |-> oid, width |-> 0, form |-> "constant", values |-> [i \in 1 .. n |-> v]]

(* Strings: longer than a slot holds, and not. *)
Long == <<1, 2>>
Short == <<1>>

Column(name, oid, seqnum) == [name |-> name, oid |-> oid, width |-> 0, seqnum |-> seqnum]
Decimal(name, width) == [name |-> name, oid |-> "decimal64", width |-> width, seqnum |-> Absent]

Objects == <<[path |-> "f1", rows |-> 4, blocks |-> 2], [path |-> "f2", rows |-> 1, blocks |-> 1]>>

Columns == <<Column("a", "int64", 2), Column("d", "date", 0), Column("s", "varchar", 1)>>

Schema(columns) == [columns |-> columns, objects |-> Objects, sort_column |-> "a"]

Block(object, idx, a, d, s) ==
  [object |-> object, block_idx |-> idx, rows |-> Len(a.values),
   columns |-> [q \in 0 .. 2 |-> IF q = 2 THEN a ELSE IF q = 0 THEN d ELSE s]]

Mixed == Block(1, 0, Flat("int64", <<1, Null, 2>>), Flat("date", <<Null, 0, 4>>),
               Flat("varchar", <<Long, Short, Long>>))
NullFirst == Block(1, 1, Flat("int64", <<Null, 2, 1>>), Flat("date", <<3, -3, Null>>),
                   Flat("varchar", <<Null, Long, Null>>))
Whole == Block(2, 0, Flat("int64", <<2, 1>>), Flat("date", <<4, 0>>), Flat("varchar", <<Short, Long>>))
Constants == Block(2, 1, Constant("int64", 1, 2), Constant("date", 3, 2), Flat("varchar", <<Null, Short>>))
NullConstant == Block(2, 2, Flat("int64", <<1>>), Constant("date", Null, 1), Constant("varchar", Long, 1))
Empty == Block(1, 2, Flat("int64", <<>>), Flat("date", <<>>), Flat("varchar", <<>>))

Library == {Mixed, NullFirst, Whole, Constants, NullConstant, Empty}

Blocks == {<<x, y>> : x \in Library, y \in Library} \cup {<<Mixed, NullFirst, Whole>>, <<NullFirst, Empty, Mixed>>}

a == 1
d == 2
s == 3
FilePath == VirtualColumnStart
BlockId == VirtualColumnStart + 1
RowId == VirtualColumnStart + 2

Compared(op, c) == [class |-> "comparison", operand |-> "column", op |-> op, constant |-> c]
In(values) == [class |-> "in", operand |-> "column", values |-> values]
Test(op) == [class |-> op, operand |-> "column"]
Join(class, names) == [class |-> class, children |-> names]

MCExprs ==
  [eq1 |-> Compared("EQUAL", 1), gt1 |-> Compared("GREATER_THAN", 1), lt2 |-> Compared("LESS_THAN", 2),
   distinct1 |-> Compared("DISTINCT_FROM", 1), eqnull |-> Compared("EQUAL", Null),
   plus |-> [Compared("EQUAL", 1) EXCEPT !.operand = "expression"],
   in27 |-> In({2, 7}), in1null |-> In({1, Null}),
   null |-> Test("IS_NULL"), notnull |-> Test("IS_NOT_NULL"),
   hint |-> Join("optional", {"plus"}), lt2hint |-> Join("and", {"lt2", "hint", "notnull"}),
   either |-> Join("or", {"eq1", "null"}), eithernotnull |-> Join("and", {"notnull", "either"}),
   lt4 |-> Compared("LESS_THAN", 4), ltinf |-> Compared("LESS_THAN", 7),
   ge0 |-> Compared("GREATER_THAN_OR_EQUAL", 0),
   islong |-> Compared("EQUAL", Long), ltlong |-> Compared("LESS_THAN", Long), inshort |-> In({Short})]

Numbers == {"eq1", "gt1", "distinct1", "eqnull", "plus", "in27", "in1null", "null", "notnull", "hint",
            "lt2hint", "either", "eithernotnull"}
Dates == {"lt4", "ltinf", "ge0"}
Texts == {"islong", "ltlong", "inshort"}

On(place, names) == {{[place |-> place, expr |-> e]} : e \in names}

Query(ids, projections, filters) ==
  [column_ids : {ids}, projection_ids : projections, filters : filters, sample : {NoSample}]

Queries ==
  Query(<<a, d, s>>, {<<>>, <<2, 3>>}, {{}} \cup On(1, Numbers))
    \cup Query(<<BlockId, s, RowId, d>>, {<<>>, <<1, 4>>}, On(2, Texts) \cup On(4, Dates))
    \cup Query(<<d, BlockId, a>>, {<<2, 3>>}, On(2, {"eq1"}))
    \cup Query(<<FilePath, a, s>>, {<<1, 3>>},
               {f \cup g : f \in On(2, {"notnull"}), g \in On(3, Texts)})

Samples == {[percentage |-> TRUE, size |-> 50], [percentage |-> FALSE, size |-> 2],
            [percentage |-> FALSE, size |-> 9]}

SampledQueries ==
  {[q EXCEPT !.sample = x] : q \in Query(<<a, s>>, {<<>>}, {{}} \cup On(1, {"gt1"})), x \in Samples}
    \cup {[q EXCEPT !.sample = x] : q \in Query(<<BlockId>>, {<<>>}, {{}}), x \in {[percentage |-> TRUE, size |-> 50]}}

Read == [manifest : {Schema(Columns)}, blocks : Blocks, query : Queries \cup SampledQueries]

(* Manifests that are refused, one whose numbers lose their upper bits, and one
   that leaves the numbers out. *)
Odd ==
  [manifest : {Schema(<<Column("a", "int64", 1), Column("d", "date", 0), Column("s", "varchar", 1)>>),
               Schema(<<Column("a", "int64", 5), Column("d", "date", -1), Column("s", "varchar", 1)>>),
               Schema(<<Column("a", "int64", 18), Column("d", "date", 0), Column("s", "varchar", 1)>>),
               Schema(<<Column("a", "int64", 2), Column("d", "decimal256", 0), Column("s", "varchar", 1)>>)},
   blocks : {<<Mixed>>}, query : Query(<<a>>, {<<>>}, {{}})]

(* Types: decimals of different widths, an array, and a type that filters cannot
   encode. *)
Typed ==
  [manifest : {Schema(<<Decimal("n", 4), Decimal("w", 18), Column("y", "year", Absent),
                        Column("v", "array_float32", Absent)>>)},
   blocks : {<<[object |-> 1, block_idx |-> 0, rows |-> 3,
                columns |-> [q \in 0 .. 3 |->
                  IF q = 3 THEN [Flat("array_float32", <<Short, Null, Long>>) EXCEPT !.width = 0]
                  ELSE IF q = 2 THEN Flat("year", <<1, 2, Null>>)
                  ELSE [Flat("decimal64", <<1, 100, Null>>) EXCEPT !.width = IF q = 0 THEN 4 ELSE 18]]]>>},
   query : Query(<<1, 2, 3, 4>>, {<<>>}, {{}} \cup On(3, {"eq1", "null"})
                                        \cup On(4, {"null"}) \cup On(2, {"eq1"}))]

MCScans == Read \cup Odd \cup Typed
===========================================================================
