------------------------------ MODULE TaeTypes ------------------------------
(***************************************************************************)
(* MatrixOne's column types, the DuckDB types they become, and how a value *)
(* changes between the two.  A type stands for all that are treated alike: *)
(* int64 for everything copied byte by byte into a slot of its own size,   *)
(* date also for the timestamps, varchar for all strings, decimal64 for    *)
(* the decimals, year for the types that cannot be encoded as filter       *)
(* constants (year, bit, enum), array_float32 for both array types.        *)
(*                                                                         *)
(* A byte has BitsPerByte bits, so a small instance has small integers.    *)
(***************************************************************************)
EXTENDS Integers, Sequences

CONSTANTS BitsPerByte,
          EpochDays    \* MO_UNIX_EPOCH_DAYS: DuckDB's day 0 in MatrixOne's days

ASSUME TaeTypesAssumption == BitsPerByte \in Nat \ {0} /\ EpochDays \in Nat

(* Two's complement in the given number of bytes. *)
Signed(x, bytes) ==
  LET m == 2 ^ (bytes * BitsPerByte) IN ((x + m \div 2) % m) - m \div 2

(* The oids that have a DuckDB type: the function's domain.  decimal256 and the
   internal types are outside. *)
MOTypeToDuckDB ==
  [int64 |-> "BIGINT", date |-> "DATE", decimal64 |-> "DECIMAL", year |-> "SMALLINT",
   varchar |-> "VARCHAR", array_float32 |-> "LIST"]

IsStringType(oid) == oid = "varchar"

(* Bytes of an element of MatrixOne's vector; -1 where it has a varlena. *)
MOTypeFixedSize ==
  [int64 |-> 8, date |-> 4, decimal64 |-> 8, year |-> 2, varchar |-> -1, array_float32 |-> -1]

(* Bytes of a slot of DuckDB's vector: a decimal takes as few as its width needs. *)
SlotSize(oid, width) ==
  IF oid # "decimal64" THEN MOTypeFixedSize[oid]
  ELSE IF width <= 4 THEN 2 ELSE IF width <= 9 THEN 4 ELSE 8

(* Part k of a value cut into slots of the given size, the lowest first. *)
Limb(x, k, bytes) == Signed((x \div 2 ^ (k * bytes * BitsPerByte)), bytes)

(* The stored form of DuckDB's value v, as MatrixOne wrote it, and back.  The
   scan adds the offset to filter constants and subtracts it from cells. *)
Stored(oid, v) == IF oid = "date" THEN v + EpochDays ELSE v

(* The bytes of a filter constant. *)
EncodeConstant(oid, c) == IF oid = "date" THEN Signed(c + EpochDays, 4) ELSE c

(* The types that EncodeConstant has a case for. *)
Encodable(oid) == oid \notin {"year", "array_float32"}
===========================================================================
