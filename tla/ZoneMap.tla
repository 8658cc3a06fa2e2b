------------------------------ MODULE ZoneMap ------------------------------
(***************************************************************************)
(* Zone maps: the min/max summary of one column of one block, and the test *)
(* of a pushed-down filter against it, beside the test of the same filter  *)
(* against a row.  A block that fails the first is never read, so no row   *)
(* of it may pass the second.                                              *)
(*                                                                         *)
(* Values are integers (every fixed-width type) or strings, sequences of   *)
(* bytes.  A zone map keeps at most Width bytes of a string (30 in the     *)
(* format) and a bit that says that the maximum was cut.                   *)
(***************************************************************************)
EXTENDS Integers, Sequences

CONSTANTS Null,     \* the NULL value
          Width     \* ZM_MIN_LEN, ZM_MAX_LEN

ScalarOps == {"EQUAL", "NOT_EQUAL", "GREATER_THAN", "GREATER_THAN_OR_EQUAL",
              "LESS_THAN", "LESS_THAN_OR_EQUAL"}
NullOps == {"IS_NULL", "IS_NOT_NULL"}

(* A pushed-down filter: an operator with its constant, or with the set of
   constants of IN. *)
Filter(V) ==
  [op : ScalarOps, constant : V] \cup [op : {"IN_SET"}, in_values : SUBSET V]
    \cup [op : NullOps]

ASSUME ZoneMapAssumption == Width \in Nat \ {0} /\ Null \notin Int

---------------------------------------------------------------------------
(* Strings *)

Shorter(a, b) == IF Len(a) < Len(b) THEN Len(a) ELSE Len(b)

(* The sign of memcmp(a, b, n): that of the first difference of the first n
   bytes. *)
Memcmp(a, b, n) ==
  IF \A i \in 1 .. n : a[i] = b[i] THEN 0
  ELSE LET i == CHOOSE i \in 1 .. n : a[i] # b[i] /\ \A j \in 1 .. i - 1 : a[j] = b[j]
       IN  IF a[i] < b[i] THEN -1 ELSE 1

(* The order of strings: a prefix comes before what it is a prefix of. *)
CompareString(a, b) ==
  LET m == Memcmp(a, b, Shorter(a, b))
  IN  IF m # 0 THEN m
      ELSE IF Len(a) < Len(b) THEN -1 ELSE IF Len(a) > Len(b) THEN 1 ELSE 0

CompareFixed(a, b) == IF a < b THEN -1 ELSE IF a > b THEN 1 ELSE 0

Compare(kind, a, b) == IF kind = "string" THEN CompareString(a, b) ELSE CompareFixed(a, b)

---------------------------------------------------------------------------
(* The row filter *)

OpHolds(op, cmp) ==
  \/ op = "EQUAL" /\ cmp = 0
  \/ op = "NOT_EQUAL" /\ cmp # 0
  \/ op = "GREATER_THAN" /\ cmp > 0
  \/ op = "GREATER_THAN_OR_EQUAL" /\ cmp >= 0
  \/ op = "LESS_THAN" /\ cmp < 0
  \/ op = "LESS_THAN_OR_EQUAL" /\ cmp <= 0

RowPassesFilter(kind, f, v) ==
  \/ f.op = "IS_NULL" /\ v = Null
  \/ f.op = "IS_NOT_NULL" /\ v # Null
  \/ f.op = "IN_SET" /\ v # Null /\ \E c \in f.in_values : Compare(kind, v, c) = 0
  \/ f.op \in ScalarOps /\ v # Null /\ OpHolds(f.op, Compare(kind, v, f.constant))

---------------------------------------------------------------------------
(* The zone-map test *)

(* Mutant: "can hold a greater value" asked of the minimum. *)
AnyGTOfMin(zm, key) == zm.min > key

(* Mutant: "less" confused with "less or equal". *)
AnyLTInclusive(zm, key) == zm.min <= key

AnyGE(zm, key) == zm.max >= key
AnyGT(zm, key) == zm.max > key
AnyLE(zm, key) == zm.min <= key
AnyLT(zm, key) == zm.min < key
ContainsKey(zm, key) == zm.min <= key /\ key <= zm.max

ZoneMapCheckFixed(zm, op, c) ==
  zm.inited =>
    \/ op = "EQUAL" /\ ContainsKey(zm, c)
    \/ op = "NOT_EQUAL" /\ ~(zm.min = c /\ zm.max = c)
    \/ op = "GREATER_THAN" /\ AnyGT(zm, c)
    \/ op = "GREATER_THAN_OR_EQUAL" /\ AnyGE(zm, c)
    \/ op = "LESS_THAN" /\ AnyLT(zm, c)
    \/ op = "LESS_THAN_OR_EQUAL" /\ AnyLE(zm, c)
    \/ op \in NullOps

(* Mutant: the cut maximum is compared by its length like a whole one. *)
AnyGEStringUntruncated(zm, key) ==
  LET cmp == Memcmp(zm.max, key, Shorter(zm.max, key))
  IN  cmp > 0 \/ (cmp = 0 /\ Len(zm.max) >= Len(key))

AnyGEString(zm, key) ==
  LET cmp == Memcmp(zm.max, key, Shorter(zm.max, key))
  IN  cmp > 0 \/ (cmp = 0 /\ (zm.max_truncated \/ Len(zm.max) >= Len(key)))

AnyGTString(zm, key) ==
  LET cmp == Memcmp(zm.max, key, Shorter(zm.max, key))
  IN  cmp > 0 \/ (cmp = 0 /\ (zm.max_truncated \/ Len(zm.max) > Len(key)))

AnyLEString(zm, key) ==
  LET cmp == Memcmp(zm.min, key, Shorter(zm.min, key))
  IN  cmp < 0 \/ (cmp = 0 /\ Len(zm.min) <= Len(key))

AnyLTString(zm, key) ==
  LET cmp == Memcmp(zm.min, key, Shorter(zm.min, key))
  IN  cmp < 0 \/ (cmp = 0 /\ Len(zm.min) < Len(key))

ContainsKeyString(zm, key) == AnyGEString(zm, key) /\ AnyLEString(zm, key)

ZoneMapCheckString(zm, op, c) ==
  zm.inited =>
    \/ op = "EQUAL" /\ ContainsKeyString(zm, c)
    \/ op = "NOT_EQUAL" /\ ~(/\ Len(zm.min) = Len(zm.max) /\ Len(zm.min) = Len(c)
                             /\ Memcmp(zm.min, c, Len(c)) = 0 /\ Memcmp(zm.max, c, Len(c)) = 0)
    \/ op = "GREATER_THAN" /\ AnyGTString(zm, c)
    \/ op = "GREATER_THAN_OR_EQUAL" /\ AnyGEString(zm, c)
    \/ op = "LESS_THAN" /\ AnyLTString(zm, c)
    \/ op = "LESS_THAN_OR_EQUAL" /\ AnyLEString(zm, c)
    \/ op \in NullOps

ZoneMapCheckScalar(kind, zm, op, c) ==
  IF kind = "string" THEN ZoneMapCheckString(zm, op, c) ELSE ZoneMapCheckFixed(zm, op, c)

EvalFilterOnZoneMap(kind, f, zm) ==
  zm.inited =>
    \/ f.op \in NullOps
    \/ f.op = "IN_SET" /\ \E c \in f.in_values : ZoneMapCheckScalar(kind, zm, "EQUAL", c)
    \/ f.op \in ScalarOps /\ ZoneMapCheckScalar(kind, zm, f.op, f.constant)

---------------------------------------------------------------------------
(* The writer: MatrixOne, outside this repository.  It keeps the zone map of a
   column up to date while it appends values; a NULL leaves it alone. *)

NoZoneMap == [inited |-> FALSE]

CutTo(v) == IF Len(v) > Width THEN SubSeq(v, 1, Width) ELSE v

FixedZoneMap(lo, hi) == [inited |-> TRUE, min |-> lo, max |-> hi]

StringZoneMap(lo, hi, truncated) ==
  [inited |-> TRUE, min |-> lo, max |-> hi, max_truncated |-> truncated]

UpdateFixed(zm, v) ==
  IF ~zm.inited THEN FixedZoneMap(v, v)
  ELSE FixedZoneMap(IF v < zm.min THEN v ELSE zm.min, IF v > zm.max THEN v ELSE zm.max)

UpdateString(zm, v) ==
  LET cut == CutTo(v)
      long == Len(v) > Width
  IN  IF ~zm.inited THEN StringZoneMap(cut, cut, long)
      ELSE LET c == CompareString(cut, zm.max)
           IN StringZoneMap(IF CompareString(cut, zm.min) < 0 THEN cut ELSE zm.min,
                            IF c > 0 THEN cut ELSE zm.max,
                            IF c > 0 THEN long ELSE zm.max_truncated \/ (c = 0 /\ long))

UpdateZoneMap(kind, zm, v) ==
  IF v = Null THEN zm
  ELSE IF kind = "string" THEN UpdateString(zm, v) ELSE UpdateFixed(zm, v)
===========================================================================
