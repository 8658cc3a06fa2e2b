---------------------------- MODULE MCScanExec ----------------------------
(* Small instances of ScanExec. *)
EXTENDS ScanExec, TLC

CONSTANTS t1, t2

Symmetry == Permutations(Threads)

\* Block shapes, with VectorSize = 2: an empty block, one whose first chunk is
\* filtered out, one that matches across chunks, one that the zone maps rule
\* out and one that they wrongly let through.
Blk(n, m, z) == [rows |-> n, match |-> m, zm_pass |-> z]
Shapes == {Blk(0, {}, TRUE), Blk(3, {3}, TRUE), Blk(3, {1, 2, 3}, TRUE),
           Blk(1, {}, FALSE), Blk(2, {}, TRUE)}

Obj(file) == [rows |-> Len(file), blocks |-> Len(file), file |-> file]
U(o, b) == [object_idx |-> o, block_idx |-> b]

\* In manifest order; reordered by ORDER BY so that the objects alternate; and
\* with a block that the file does not have.
Plans == {<<U(1, 1), U(1, 2), U(2, 1)>>, <<U(1, 2), U(2, 1), U(1, 1)>>,
          <<U(1, 1), U(2, 2), U(2, 1)>>}

SlowScans ==
  {[objects |-> <<Obj(<<a, b>>), Obj(<<c>>)>>, work_units |-> p,
    read_seqnums |-> TRUE, filters |-> f, do_sample |-> FALSE] :
      a \in Shapes, b \in {Blk(3, {3}, TRUE), Blk(1, {}, FALSE)},
      c \in {Blk(0, {}, TRUE), Blk(3, {1, 2, 3}, TRUE)},
      p \in Plans, f \in BOOLEAN}

SampledScans ==
  {[objects |-> <<Obj(<<a, b>>)>>, work_units |-> <<U(1, 1), U(1, 2)>>,
    read_seqnums |-> r, filters |-> f, do_sample |-> TRUE] :
      a \in Shapes, b \in {Blk(3, {1, 3}, TRUE), Blk(1, {}, FALSE)},
      f \in BOOLEAN, r \in BOOLEAN}

\* Counted from the manifest alone: rows and blocks of one object and, after
\* it, an object of one row.
FastScans ==
  {[objects |-> <<[rows |-> n, blocks |-> b, file |-> <<>>],
                  [rows |-> 1, blocks |-> 1, file |-> <<>>]>>,
    work_units |-> [i \in 1 .. b |-> U(1, i)] \o <<U(2, 1)>>,
    read_seqnums |-> FALSE, filters |-> FALSE, do_sample |-> FALSE] :
      n \in 0 .. 9, b \in 1 .. 3}

MCScans == SlowScans \cup SampledScans \cup FastScans
===========================================================================
