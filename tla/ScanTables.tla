---------------------------- MODULE ScanTables ----------------------------
(***************************************************************************)
(* The data a scan works on: the objects a manifest lists, the blocks of   *)
(* their files, and the work units (object, block) a scan dispatches.      *)
(*                                                                         *)
(* Objects, blocks and rows are numbered from 1 (the code counts from 0).  *)
(* The 64-bit row counts of the code wrap at WordMod, and a full block has *)
(* RowsPerBlock rows (8192 in the code).                                   *)
(***************************************************************************)
EXTENDS Integers, Sequences

CONSTANTS RowsPerBlock,  \* ROWS_PER_BLOCK
          WordMod        \* 2^64, the modulus of idx_t

ASSUME ScanTablesAssumption ==
  /\ RowsPerBlock \in Nat \ {0}
  /\ WordMod \in Nat \ {0}

(* A work unit names a block of an object by its two indexes. *)
WorkUnit == [object_idx : Nat \ {0}, block_idx : Nat \ {0}]

(* What an object file says of one of its blocks, as far as a scan can tell
   blocks apart: its row count, the rows that satisfy the pushed-down filters,
   and whether the block's zone maps pass those filters. *)
FileBlock == [rows : Nat, match : SUBSET (Nat \ {0}), zm_pass : BOOLEAN]

(* An object: the row and block counts the manifest claims for it, and the
   blocks really present in its file. *)
Object == [rows : Nat, blocks : Nat, file : Seq(FileBlock)]

(* Rows the even split, or the full-block rule, gives every block of an
   object but the last one. *)
RowsBeforeLast(obj) ==
  IF obj.rows <= RowsPerBlock THEN obj.rows \div obj.blocks ELSE RowsPerBlock

(* Mutant: the subtraction is signed. *)
RowsOfLastSigned(obj) == obj.rows - (obj.blocks - 1) * RowsBeforeLast(obj)

(* Mutant: the last block gets no remainder. *)
RowsOfLastEven(obj) == RowsBeforeLast(obj)

(* The last block takes the rest; the subtraction is unsigned. *)
RowsOfLast(obj) ==
  (obj.rows - (obj.blocks - 1) * RowsBeforeLast(obj)) % WordMod

ManifestBlockRowCount(obj, block_idx) ==
  IF obj.blocks <= 1 THEN obj.rows
  ELSE IF block_idx < obj.blocks THEN RowsBeforeLast(obj)
  ELSE RowsOfLast(obj)

(* An object whose counts split without a wrap and without an empty block:
   what a manifest written by the storage engine satisfies. *)
SplitsEvenly(obj) ==
  /\ obj.rows < WordMod
  /\ obj.blocks \in Nat \ {0}
  /\ obj.blocks <= obj.rows
  /\ obj.rows > RowsPerBlock => (obj.blocks - 1) * RowsPerBlock < obj.rows
===========================================================================
