-------------------------- MODULE MCObjectReader --------------------------
(* Small instances of ObjectReader: checksum blocks of one byte and three bytes
   of content, a header of four bytes.  The extents of a block touch, are one
   or more bytes apart, lie in and across checksum blocks, overlap, or span more
   than a read's length can say.  Files end in a full checksum block, a partial
   one, or too early. *)
EXTENDS ObjectReader

E(offset, length) == [offset |-> offset, length |-> length]

Layouts ==
  {[meta |-> E(14, 2), blocks |-> <<<<E(4, 2), E(6, 3), E(10, 4)>>>>],
   [meta |-> E(4, 3), blocks |-> <<<<E(12, 4), E(7, 2), E(9, 1)>>, <<E(16, 2), E(7, 1)>>>>],
   [meta |-> E(4, 1), blocks |-> <<<<E(5, 6), E(6, 2), E(12, 3)>>>>],
   [meta |-> E(8, 2), blocks |-> <<<<E(4, 3), E(12, 9), E(21, 3)>>>>]}

\* Where a layout's content ends.
LayoutEnd(l) ==
  LET ends == {l.meta.offset + l.meta.length} \cup
              UNION {{l.blocks[b][c].offset + l.blocks[b][c].length : c \in DOMAIN l.blocks[b]}
                     : b \in DOMAIN l.blocks}
  IN  CHOOSE e \in ends : \A x \in ends : x <= e

\* The size of a CRC file with n content bytes.
CrcFileSize(n) == CHOOSE s \in 0 .. 2 * n + 2 : StrippedLen(s) = n /\ s % CrcBlockSize # CrcSize

MCFile(format, size, l) ==
  [format |-> format, size |-> size, meta |-> l.meta, blocks |-> l.blocks]

MCFiles ==
  {MCFile("raw", LayoutEnd(l) - d, l) : l \in Layouts, d \in 0 .. 1}
    \cup {MCFile("raw", size, l) : l \in Layouts, size \in 2 .. 3}
    \cup {MCFile("crc", CrcFileSize(LayoutEnd(l) + d), l) : l \in Layouts, d \in 0 .. 2}
    \cup {MCFile("crc", CrcFileSize(LayoutEnd(l)) - 1, l) : l \in Layouts}
    \cup {MCFile("other", LayoutEnd(l), l) : l \in Layouts}

MCCalls ==
  {[block_idx |-> b, seqnums |-> s] :
     b \in 1 .. 2, s \in {<<1, 2, 3>>, <<3, 1, 2>>, <<2, 1>>, <<2>>, <<>>}}

MCGaps == {0, 1, 2, 8}
MCThresholds == {0, 22, 40}
===========================================================================
