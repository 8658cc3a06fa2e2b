--------------------------- MODULE OutputVectors ---------------------------
(***************************************************************************)
(* DuckDB's vectors, as much of them as the scan touches, and how a column *)
(* of a block gets into one.  A vector has                                 *)
(*   vtype     "flat", "constant", "dictionary"                            *)
(*   data      its slots; of a dictionary vector those of the vector below *)
(*   invalid   the positions whose validity bit is cleared                 *)
(*   sel       the position behind each row of a dictionary vector         *)
(* Filling a vector writes data and clears validity bits; nothing here     *)
(* ever sets a bit again.  What a fill does to a dictionary vector depends *)
(* on DuckDB's internals: it becomes "undefined".                          *)
(***************************************************************************)
EXTENDS DecodedColumns

CONSTANT Undefined     \* what is read from a slot that nobody wrote

(* A vector of a chunk that DuckDB has reset. *)
FreshVector == [vtype |-> "flat", data |-> <<>>, invalid |-> {}, sel |-> <<>>]

At(data, position) == IF position < Len(data) THEN data[position + 1] ELSE Undefined

(* The value that DuckDB reads in a row. *)
ReadVector(vec, row) ==
  LET position == IF vec.vtype = "constant" THEN 0
                  ELSE IF vec.vtype = "dictionary" THEN vec.sel[row + 1] ELSE row
  IN  IF vec.vtype = "undefined" THEN Undefined
      ELSE IF position \in vec.invalid THEN Null ELSE At(vec.data, position)

---------------------------------------------------------------------------
(* Slots *)

(* The elements are copied as bytes: where a slot is smaller than an element,
   several slots share one. *)
CopyFixedSlot(col, row0, i) ==
  LET size == MOTypeFixedSize[col.oid]
      slot == SlotSize(col.oid, col.width)
      per == size \div slot
  IN  IF per = 1 THEN col.data[row0 + i + 1]
      ELSE Limb(col.data[row0 + i \div per + 1], i % per, slot)

Slot(col, row0, i) ==
  IF col.oid = "date" THEN Signed(col.data[row0 + i + 1] - EpochDays, 4)
  ELSE IF IsStringType(col.oid) THEN Cell(col, row0 + i)
  ELSE CopyFixedSlot(col, row0, i)

(* The slots of count rows from src_offset on.  An array's are not written. *)
Slots(col, count, src_offset) ==
  IF col.oid = "array_float32" THEN <<>>
  ELSE [i \in 1 .. count |-> Slot(col, src_offset, i - 1)]

(* Mutant: the mask is read from the first row of the block on. *)
NullMaskOfBlock(col, count, src_offset) ==
  IF col.null_count = 0 THEN {} ELSE {i \in 0 .. count - 1 : BitIsSet(col, i)}

NullMask(col, count, src_offset) ==
  IF col.null_count = 0 THEN {} ELSE {i \in 0 .. count - 1 : BitIsSet(col, src_offset + i)}

FillConstantColumn(vec, col) ==
  LET is_null == Len(col.data) = 0 \/ (col.null_count > 0 /\ BitIsSet(col, 0))
  IN  [vec EXCEPT !.vtype = "constant",
                  !.data = IF is_null THEN @ ELSE Slots(col, 1, 0),
                  !.invalid = IF is_null THEN @ \cup {0} ELSE @]

FillFlatColumn(vec, col, count, src_offset) ==
  [vec EXCEPT !.data = Slots(col, count, src_offset),
              !.invalid = @ \cup NullMask(col, count, src_offset)]

FillColumn(vec, col, count, src_offset) ==
  IF vec.vtype \in {"dictionary", "undefined"} THEN [vec EXCEPT !.vtype = "undefined"]
  ELSE IF col.vec_class = "constant" THEN FillConstantColumn(vec, col)
  ELSE FillFlatColumn(vec, col, count, src_offset)

(* A virtual column: one value in every slot. *)
FillVirtual(vec, value, count) ==
  IF vec.vtype \in {"dictionary", "undefined"} THEN [vec EXCEPT !.vtype = "undefined"]
  ELSE [vec EXCEPT !.data = [i \in 1 .. count |-> value]]

(* Vector::Slice, DuckDB's: rows are chosen by their numbers, in order. *)
SliceVector(vec, sel) ==
  IF vec.vtype \in {"constant", "undefined"} THEN vec
  ELSE [vec EXCEPT !.vtype = "dictionary",
                   !.sel = IF vec.vtype = "flat" THEN sel
                           ELSE [i \in DOMAIN sel |-> vec.sel[sel[i] + 1]]]
===========================================================================
