--------------------------- MODULE DecodedColumns ---------------------------
(***************************************************************************)
(* The columns of a block as DecodeVector leaves them, and the test of a   *)
(* pushed-down filter on a row of one.  A column has, as in the code,      *)
(*   vec_class    "flat", or "constant" for one value in every row         *)
(*   data         its elements: numbers, or slots of strings               *)
(*   area         the bytes of the strings that do not fit their slot      *)
(*   null_bitmap  words, each the set of its bits that are set; there may  *)
(*                be fewer words than the rows need                        *)
(*   null_count, row_count, oid                                            *)
(* Rows, words and bits are numbered from 0 as in the code.                *)
(***************************************************************************)
EXTENDS Pushdown, FiniteSets

CONSTANTS WordBits,    \* 64
          InlineMax    \* VARLENA_INLINE_MAX

ASSUME DecodedColumnsAssumption == WordBits \in Nat \ {0} /\ InlineMax \in Nat

BitIsSet(col, row) ==
  /\ row \div WordBits < Len(col.null_bitmap)
  /\ row % WordBits \in col.null_bitmap[row \div WordBits + 1]

(* The bytes of a string: in its slot, or in the column's area. *)
VarlenaBytes(col, slot) ==
  IF slot.inline THEN slot.bytes ELSE SubSeq(col.area, slot.offset + 1, slot.offset + slot.length)

Cell(col, row) ==
  IF IsStringType(col.oid) THEN VarlenaBytes(col, col.data[row + 1]) ELSE col.data[row + 1]

(* The element of a row is found by its index, in a constant column too, which
   has one element or none: the verdict on its other rows is that on whatever
   lies behind.  The outcomes are a set for that. *)
RowVerdicts(f, col, row) ==
  LET is_null == row < col.row_count /\ BitIsSet(col, row)
      kind == IF IsStringType(col.oid) THEN "string" ELSE "fixed"
  IN  IF is_null THEN {RowPassesFilter(kind, f, Null)}
      ELSE IF f.op \in NullOps THEN {f.op = "IS_NOT_NULL"}
      ELSE IF row < Len(col.data) THEN {RowPassesFilter(kind, f, Cell(col, row))}
      ELSE BOOLEAN

---------------------------------------------------------------------------
(* The writer: MatrixOne, outside this repository, and the decoding of what it
   wrote.  Values are as DuckDB shows them. *)

(* The slot of a string behind the area's bytes so far. *)
Varlena(v, offset) ==
  IF Len(v) <= InlineMax THEN [inline |-> TRUE, bytes |-> v]
  ELSE [inline |-> FALSE, offset |-> offset, length |-> Len(v)]

(* The area when the strings of the first n rows are written. *)
AreaOf(values, n) ==
  LET area[i \in 0 .. n] ==
        IF i = 0 THEN <<>>
        ELSE IF values[i] = Null \/ Len(values[i]) <= InlineMax THEN area[i - 1]
        ELSE area[i - 1] \o values[i]
  IN  area[n]

(* The element of row i; that of a NULL is zero. *)
Element(oid, values, i) ==
  IF IsStringType(oid)
  THEN IF values[i] = Null THEN Varlena(<<>>, 0) ELSE Varlena(values[i], Len(AreaOf(values, i - 1)))
  ELSE IF values[i] = Null THEN 0 ELSE Stored(oid, values[i])

(* The words up to the last NULL. *)
Bitmap(nulls) ==
  LET last == CHOOSE n \in nulls : \A m \in nulls : m <= n
  IN  IF nulls = {} THEN <<>>
      ELSE [w \in 1 .. last \div WordBits + 1 |->
              {bit \in 0 .. WordBits - 1 : (w - 1) * WordBits + bit \in nulls}]

FlatColumn(oid, width, values) ==
  LET nulls == {i - 1 : i \in {j \in DOMAIN values : values[j] = Null}}
  IN  [vec_class |-> "flat", oid |-> oid, width |-> width, row_count |-> Len(values),
       data |-> [i \in DOMAIN values |-> Element(oid, values, i)],
       area |-> IF IsStringType(oid) THEN AreaOf(values, Len(values)) ELSE <<>>,
       null_bitmap |-> Bitmap(nulls),
       null_count |-> Cardinality(nulls)]

(* What the writer has in a column: NULL, or a value of the column's type that fits
   its bytes; one value for all rows if it is not flat. *)
ValuesOf(oid) ==
  IF IsStringType(oid) THEN Seq(Nat) ELSE IF oid = "date" THEN {v \in Int : Signed(v, 4) = v} ELSE Int

WellFormed(c) ==
  /\ Len(c.values) \in Nat /\ DOMAIN c.values = 1 .. Len(c.values)
  /\ c.oid # "array_float32" => \A i \in DOMAIN c.values : c.values[i] = Null \/ c.values[i] \in ValuesOf(c.oid)
  /\ c.form # "flat" => \A i \in DOMAIN c.values : c.values[i] = c.values[1]

(* One value for n rows.  A constant NULL has no data. *)
ConstantColumn(oid, width, v, n) ==
  [FlatColumn(oid, width, <<v>>) EXCEPT
     !.vec_class = "constant", !.row_count = n,
     !.data = IF v = Null THEN <<>> ELSE @]
===========================================================================
