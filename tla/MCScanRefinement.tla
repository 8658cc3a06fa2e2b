------------------------- MODULE MCScanRefinement -------------------------
(* Small instances of ScanRefinement; no symmetry, as liveness is checked. *)
EXTENDS ScanRefinement, TLC

Blk(n, m, z) == [rows |-> n, match |-> m, zm_pass |-> z]
Shapes == {Blk(0, {}, TRUE), Blk(3, {3}, TRUE), Blk(3, {1, 2, 3}, TRUE),
           Blk(1, {}, FALSE)}

Obj(file) == [rows |-> Len(file), blocks |-> Len(file), file |-> file]
U(o, b) == [object_idx |-> o, block_idx |-> b]

SlowScans ==
  {[objects |-> <<Obj(<<a, b>>), Obj(<<c>>)>>,
    work_units |-> <<U(1, 1), U(2, 1), U(1, 2)>>,
    read_seqnums |-> TRUE, filters |-> f, do_sample |-> FALSE] :
      a \in Shapes, b \in {Blk(3, {3}, TRUE)}, c \in {Blk(2, {}, TRUE), Blk(3, {1}, TRUE)},
      f \in BOOLEAN}

\* Every manifest of one object that splits without an empty block.
FastScans ==
  {[objects |-> <<o>>, work_units |-> [i \in 1 .. o.blocks |-> U(1, i)],
    read_seqnums |-> FALSE, filters |-> FALSE, do_sample |-> FALSE] :
      o \in {x \in [rows : 1 .. 9, blocks : 1 .. 3, file : {<<>>}] : SplitsEvenly(x)}}

MCScans == SlowScans \cup FastScans
===========================================================================
