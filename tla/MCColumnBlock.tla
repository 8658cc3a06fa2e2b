----------------------------- MODULE MCColumnBlock -----------------------------
(* Small instances of ColumnBlock: integers on both sides of 0, and all strings of
   up to three bytes over two byte values, with room for two bytes in the zone
   map.  IN takes up to two constants: its test is a disjunction over them. *)
EXTENDS ColumnBlock

MCFixed == -2 .. 2

MCStrings == UNION {[1 .. n -> {0, 1}] : n \in 0 .. 3}

Filters(V) ==
  [op : ScalarOps, constant : V] \cup [op : NullOps]
    \cup [op : {"IN_SET"}, in_values : {{}} \cup {{c, d} : c \in V, d \in V}]

MCFixedFilters == Filters(-3 .. 3)
MCStringFilters == Filters(MCStrings)
===========================================================================
