# A model of the TAE scanner

The repository is a DuckDB extension with one table function, `tae_scan`. It
reads tables that MatrixOne stored as TAE object files. A JSON manifest lists
the objects; the extension prunes objects and blocks by zone maps, hands the
blocks that are left to DuckDB's threads, filters their rows and returns them in
chunks. The files in this directory model that scan in TLA+, check it with TLC
and prove theorems about it with TLAPS.

The question behind most of it: **is the answer of a scan exactly the rows of
the table that satisfy the filters**, however the manifest, the pruning, the
sorting of blocks, the threads, the chunks and the errors fall together? Two
models answer it from two sides: `TaeScan` for which rows, with all threads and
all pruning; `OutputChunk` for what is in them, value by value.

## The system

| Part | Where | State | Operations |
|---|---|---|---|
| Manifest parser | `tae_scanner.cpp` 47-226 | none, it builds bind data | `HexDecode`, `ParseManifestBytes`, `ParseManifest` |
| Bind, pushdown | `tae_scanner.cpp` 233-276, 974-1002; `tae_filter.cpp` 23-203 | `TAEScanBindData`: objects, columns, scan order | `TAEScanBind`, `TAESetScanOrder`, `SupportsPushdownType`, `ExtractFilter`, `EncodeConstant` |
| Planner | `TAEScanInit`, 281-510 | `TAEScanState`: work units, filters, skip counters | prune objects, prune blocks, fall back, sort, truncate |
| Executor | `TAEScanExecute`, 515-784 | shared: the work counter and statistics, atomics; per thread: a reader, a pending block, an offset | take a unit, open, recheck, read, emit, filter, sample |
| Zone maps | `tae_zonemap.hpp`; `tae_filter.cpp` 210-285 | none | one test per operator, for fixed-width values and strings |
| Row filter | `tae_filter.cpp` 291-508 | none | `RowPassesFilter`, `ApplyRowFilters` |
| Object reader | `tae_object_reader.cpp` | file, its format, the cache of a small file, parsed metadata | `ReadMeta`, `ReadBlock`, `GetZoneMap`, below them `ReadBytes`, `ReadRawBytes`, `StripCrc32Blocks` |
| Column fill | `tae_column_fill.cpp` | the vectors of DuckDB's chunk | copy a decoded column |
| Type mapping | `tae_types.hpp` | none | tables |
| Statistics, progress | `tae_scanner.cpp` 789-958 | none, they read the others' | cardinality, column statistics, progress, EXPLAIN |
| Extension | `tae_scanner_extension.cpp` | none | registers the function |

DuckDB calls bind once, `TAEScanInit` once, `TAEScanInitLocal` once per thread
and then `TAEScanExecute` on every thread until a call returns no rows. The
planner gives the executor its work units and filters through `TAEScanState`,
which only the atomics change afterwards. Planner and executor each open object
readers; a reader belongs to one thread. The planner and the executor both ask
the zone maps; the row filter has the last word on a row.

What is hard here:

- **Threads.** Units come from one `fetch_add`; the statistics are atomics that
  are written at different places of a call. A thread keeps a half-emitted
  block and an open reader between calls.
- **A protocol with a meaning for zero.** A call that returns no rows tells
  DuckDB that the thread's part of the scan is over. Filtering, sampling and
  empty blocks all can produce no rows.
- **Swallowed errors.** The planner takes an object unread when its metadata
  cannot be read; the executor then meets blocks the manifest made up.
- **One meaning in several codings.** Each operator is coded for rows, for
  fixed-width zone maps and for string zone maps with cut bounds. A test that is
  too strict silently loses rows.
- **A chunk used twice.** A call that finds nothing to return fills the same chunk
  again; what one fill does not overwrite stays from the fill before.
- **Many numberings.** A column has a number in the table, in the query's list, in
  the chunk, among the decoded columns and in the object; a row has one in the
  block, the chunk and the selection.
- **A division of labour.** DuckDB asks which expressions the scan can test, hands
  those over and never looks at them again.
- **Boundaries.** Chunks in blocks, the manifest's split of rows over blocks,
  limits inside a block, checksum blocks in files, spans that wrap at 32 bits.

`PROJECT.json` lists each hazard with its line and the properties aimed at it.

## The modules

`TaeScan` composes planner and executor; `OutputChunk` follows one thread from the
manifest to DuckDB's vectors; `ObjectReader` stands below both.

    ScanTables <- ScanExec <- ScanRefinement -> ScanResult
                     ^
                     |  INSTANCE
       +-- ScanInit <- TaeScan <- ScanStatistics
       v
    ZoneMap <- ColumnBlock                            ObjectReader
       ^
    Pushdown <- DecodedColumns <- OutputVectors <- OutputChunk
       v                                               v
    TaeTypes <-------------------------------------- Manifest

(An arrow points at the module that is extended or instantiated.)

### ScanTables, ScanExec: TAEScanExecute

`ScanExec` has all threads of a scan. `pc[t]` is the place of thread `t` in the
function: `idle` between calls, `dispatch` before the `fetch_add` (617), `open`
(623-645), `recheck` (647-651), `read` (653-682), `emit` (702-783 or 580-606),
and the ends `done` (returned no rows), `failed` (an exception) and `stopped`
(DuckDB gave up calling). A step ends where another thread can see or be seen:
at each atomic, each call into the file system and each return. Variables have
the names of the fields. `wu_idx` is the code's local `wu_idx` plus one and stays
set while the thread's block is pending. `delivered` and `sampled_out` are history: the rows
given to DuckDB and those sampling dropped. They are sets of (object, block,
row); a row given twice shows in `rows_emitted`.

`scan`, chosen once, is what the bind data and `TAEScanInit` leave: the objects,
the units, whether columns are read, filtered, sampled. The blocks of a file
carry the rows that match and whether the zone maps pass. `ScanTables` has the
manifest's split of rows over blocks, in words of `WordMod` values.

Errors: an open that throws, a block the file does not have, a read that throws.
The thread fails and the query is cancelled; other threads end what they are at.
`Cancel` is DuckDB stopping for its own reasons.

### ScanResult, ScanRefinement

`ScanResult` is the promise without threads: rows of a wanted set are delivered,
each once, and the scan completes only with all. `ScanRefinement` instantiates it
with the wanted rows of the plan, `delivered`, `rows_emitted` and a status read
off the threads' places; `ImplementsResult` says that every behaviour of
`ScanExec` is one of `ScanResult`, sampled scans and manifests with empty units
excepted (see the findings).

### ZoneMap, ColumnBlock: pruning

`ZoneMap` has three things side by side, each from its own code: `RowPassesFilter`,
`ZoneMapCheckFixed` and `ZoneMapCheckString` with their helpers. Strings are
sequences of bytes, compared like `memcmp` with the shorter first; a string bound
is cut to `Width` bytes and the maximum marked. Types of fixed width are integers.
`ColumnBlock` fills a block value by value as MatrixOne's writer does (external,
from the format the header documents); after every row the block, its zone map and
the filters are compared.

### ScanInit: TAEScanInit

One action per iteration of each loop: `SkipObject`, `ListObject` (no filters), `ReadMeta` and
then `KeepBlock` or `DropBlock` per block, `Fallback`, `EndObject`; `SortUnits`,
`SortFails`, `Truncate`. `bind` is the table with all rows and zone maps, the
sort column, the filters and the order, chosen once. `std::sort` leaves equal
keys in any order; `Sorted` allows each. The filters are evaluated with
`ZoneMap`'s operators.

### TaeScan: the two together

`TaeScan` runs `ScanInit` and then `ScanExec` (by `INSTANCE`) on the plan it
made, over the same table. The blocks that `ScanExec` sees, with matching rows
and zone-map verdicts, are computed from the table's values. Here the question
which rows the query returns can be asked in full: `QueryAnswer`.

### ScanStatistics: what DuckDB was told

`ScanStatistics` adds to `TaeScan` the three callbacks that report instead of
scanning: `ColumnStatistics` (minima and maxima merged over the zone maps of all
blocks, an uninitialised one read as zeros, and whether there are NULLs; nothing
beyond `MaxObjectsForStats` objects), `ScanCardinality` and `ScanProgress`. The
optimizer draws conclusions from the first two, so `PlannerWasTold` compares them
with the rows that are really delivered, also under a manifest with wrong counts.
`ProgressBounded` ties the counters of planner and threads to the block count.

### TaeTypes, Manifest, Pushdown: before the scan

Pure operators. `TaeTypes` has one type for each kind of treatment: `int64` copied
as it is, `date` shifted by an epoch (as timestamps are), `varchar` a string,
`decimal64` copied into slots that may be narrower, `year` without an encoding for
filters, `array_float32` not filled. `Manifest` says which manifests bind, and to
what: sequence numbers given, left out, repeated, out of range, or cut to
`IntBits` bits by the accessor that reads them. `Pushdown` has DuckDB's expressions
as a finite set of named nodes, what the scan says it can take
(`SupportsPushdownType`, `SupportsFilterExpression`) and what it makes of them
(`ExtractExpression`, `CanExtract`); `Holds` is their meaning to DuckDB.

### DecodedColumns, OutputVectors, OutputChunk: the values

`DecodedColumns` has a block's columns as `DecodeVector` leaves them: elements or
string slots, the string area, the null bitmap in words of `WordBits`, constant
columns of one element or none; and `RowPassesFilter` on them by address.
`OutputVectors` has DuckDB's vectors (slots, validity, constant and dictionary
form) and `FillColumn`. `OutputChunk` is one thread's scan: `Bind` or `BindThrows`;
`InitScan` or `InitThrows` (column maps, filters, sampling); then calls. A call
resets the chunk (`Call`), takes a block (`NextBlock`), fills (`Emit`), filters and
advances (`ApplyRowFilters`), samples (`Sample`), and either returns the chunk or
goes on in it, which is the point: `fills` remembers what the chunk was filled with in this
call and `source` which stored row is behind each of its rows. A verdict on what lies
behind the single element of a constant column is either; a dictionary vector that
is filled again is `undefined`, as DuckDB decides what happens to it; reading a
slot that nobody wrote gives `Undefined`.

`RowsExact` asks that every value read is the stored one. `SelectionExact` asks that
the rows delivered, once DuckDB has tested what was not pushed, are those of the
WHERE clause, in stored order. What they except is written in them by name
(`Disturbed`, `NullBefore`, `Copied`, `FilterIsExact`) and listed below.

### ObjectReader: TAEObjectReader

One reader on one file: `DetectCrcFormat`, `ReadHeader` and `ReadMetadata`
(`ReadMeta`), then calls of `ReadBlock` in steps: the sort, the coalescing loop
(`ExtendRead`, `StartRead`), one `IssueRead` per merged read, one `SliceColumn`
per column. A content byte is named by its offset, so a byte from a wrong place
is told from the right one; checksums are the byte `Crc`. Under them
`ReadBytes` translates logical ranges to checksum blocks and back and
`ReadRawBytes` caches small files. A merged read's length wraps at `LengthMod`.
An exception ends the reader, as all its callers let it; each place that throws is
an action (`UnknownFormat`, `MetaRejected`, `OutOfRange`, `ReadPastEnd`,
`ColumnReadOverflow`, `IoFails`). What happens to a column's bytes afterwards (LZ4,
`DecodeVector`) depends on these bytes only and is left out. `PrefetchBlock` gives the ranges
the system is told to read ahead, with their own translation to checksum blocks;
`PrefetchCovers` compares them with what reading the block then needs.

## The runs

| Run | Module | Shows |
|---|---|---|
| `scan_exec` | MCScanExec | In all interleavings of two threads no unit is shared, each row is delivered once, dropped by sampling or still to come, statistics add up, readers fit, zero rows mean the end, and every step counts towards it |
| `scan_refinement` | MCScanRefinement | The threads implement `ScanResult`; every task ends; an undisturbed scan delivers everything |
| `column_block` | MCColumnBlock | No zone-map test rejects a filter that a row of the block satisfies, `<>` on cut strings excepted; fixed-width comparisons are also sharp |
| `scan_init` | MCScanInit | Plans have no block twice, keep every block with a match, count skips exactly, and keep an answer to ORDER BY ... LIMIT when blocks do not overlap |
| `tae_scan` | MCTaeScan | Plan and threads together: the answer is exactly the matching rows, COUNT(\*) the manifest's, all blocks accounted for; what the executor assumes of a plan is what the planner makes; statistics, cardinality and progress told to DuckDB are true of the rows it gets |
| `object_reader` | MCObjectReader | Columns are the extents asked for, or an error; intact files are readable to the last byte; merged reads share no byte and are further apart than a gap above 0; a small file is read once; hints cover the block's reads |
| `output_chunk` | MCOutputChunk | Every value DuckDB reads is the stored one; pushed and kept expressions together select exactly the rows of the WHERE clause, in stored order; accepted expressions can be taken apart |
| `sampled_end` `count_star` `not_equal` `top_n` `stale_nulls` | | violations, see the findings |

A pair in `mutants` goes with every property of the passing runs: a plausible
wrong version of one definition (in the module, above the right one, marked
*Mutant*) with which the run fails.

### Bounds

- Two threads. Units move by one atomic and nothing else is shared but counters,
  so a third thread adds no new kind of conflict; the theorems cover any number.
- `VectorSize = 2` for 2048, blocks of at most 3 rows: no chunk, one full, one
  full and a rest, and a chunk that is filtered out before or after another one.
- `RowsPerBlock = 4` for 8192, `WordMod = 16` for 2^64: manifests with up to 9
  rows in up to 3 blocks split evenly, with a rest, into full blocks, and wrap.
- Two objects, three units, in manifest order, reordered, and with a block that
  the file does not have.
- `column_block`: integers -2..2 with filter constants -3..3; all strings up to 3
  bytes over two byte values with `Width = 2` for 30, so strings are shorter than,
  as long as and longer than a bound, with equal and different prefixes; blocks of
  up to 3 rows with NULLs; IN with up to two constants (its test is a disjunction).
- `scan_init`: 5832 combinations of objects (disjoint, overlapping, all-NULL,
  singleton blocks; manifests that match, claim one block too many or too few),
  sort column, filters and orders. Limits 0, 1, 3 and 4 fall before, in and at
  the end of a unit. `TopNKept` is asked for order columns without NULLs, with the
  statistic that fits the direction.
- `object_reader`: checksum blocks of 1 + 3 bytes for 4 + 2044, a magic of 2 and a
  header of 4 bytes for 8 and 64, `LengthMod = 16` for 2^32. Extents touch, overlap,
  cross blocks and span more than a length can say; files are complete, longer,
  and cut by a byte. Gaps 0, 1, 2, 8; thresholds below, between and above the sizes.
  The count of file reads stops at 2, as only "more than one" is asked.

- `tae_scan` sets `MaxObjectsForStats = 2` for 16, so its tables of one and two
  objects have statistics, with and without blocks of NULLs.
- `output_chunk`: `VectorSize = 2` with blocks of 0 to 3 rows, all pairs of six blocks and two
  triples: NULLs at different places, constants, constant NULLs, an empty block.
  `WordBits = 2` for 64 puts the third row into a second bitmap word; `InlineMax = 1`
  for 23 puts strings of two bytes into the area; a byte of one bit makes dates of 4
  bits, so an infinite date wraps; `IntBits = 4` for 32. Queries read columns in
  other orders than the table's, with filter-only and virtual columns; 16 kinds of
  expressions on numbers and strings and three on dates; sampling by rate and by rows.

`CHECK_DEADLOCK FALSE` is set for `column_block` only: a block is full after
`MaxRows`. Finished scans, returned plans and destroyed readers stutter by actions
of their own.

### Fairness

Only `scan_refinement` needs it: weak fairness of `Step(t)` for each thread. A
call of `TAEScanExecute` has no waiting in it and runs to its end, and DuckDB's
executor calls a source again until it returns no rows or the query is cancelled.
Nothing makes it cancel, so `Cancel` is not fair, and `EventuallyComplete`
allows for it.

## What is proved

All theorems are for every value of the constants: any number of threads, any
vector and block size, any table, plan, filter and file that meets the named
assumptions. These are:

- `TaeScanAssumption`: there is a thread, sizes are positive, manifests count in
  natural numbers. `ScanExecAssumption`, which `ScanExec` needs for itself: plans are well formed.
  The whole-scan theorems do not take it on trust, they prove it of the planner.
- `TrustedTables`, for the statistics only: what `ColumnStatistics` takes from the
  table's writer without a test. The manifest has a count for every row, and a column with a
  value in a block has a zone map there.
- `ObjectReaderAssumption`: sizes are positive, the header holds the magic, and a
  checksum block's content does (2044 bytes and 8).
- `OutputChunkAssumption`, about what comes from outside. DuckDB asks for columns of the
  schema, or virtual ones, whose numbers are above all others; it projects what it asked for; and it compares a
  column with values of the column's type or NULL. In a block of the writer a column has a value of
  its type or NULL for every row, one value if it is constant, under a number a block can have.
  `ManifestAssumption`: these numbers fit the accessor that reads them, with its sign.
  `PushdownAssumption`: expressions are trees.
- In the other modules assumptions that give inputs their types.

TLC evaluates them for the instances of the runs.

- **ScanExec** (`ScanExec_proofs`). `RowConservation` is not inductive: a thread
  with a wrong idea of its pending block would lose rows. The invariant is built in
  layers. `Local` = `TypeOK`, `NoSharedUnit`, `LocalStateFits` is inductive by
  itself. On it stands `RowInv`, what is delivered or sampled out per unit against
  who has it and how far he is; on both `Emission`: `rows_emitted` counts a finite set.
  From these follow `ZeroMeansExhausted` and `CompleteAtEnd`. `ReaderMatchesUnit`
  is inductive with `Local`. `BlockAccounting` is strengthened to `Accounted`: the units
  handed out lie between those counted with those being opened, and the same with those that failed.
  `EveryStepCounts` is the part of termination that needs no fairness: `StepsLeft`, what a thread can still do
  with its unit, falls with each step that takes no unit (`StepCounts`, an `AdvanceCounts` for the chunks), and
  the units are finite.
- **ScanRefinement**: each action maps to `Deliver`, `Complete`, `Cancel` or a
  stutter under the invariants above.
- **ZoneMap, ColumnBlock**: a fixed-width map that spans a value rejects no filter the
  value satisfies (`SpanIsSound`, operator by operator), nor does a string map that covers it
  (`CoverOfStringIsSound`; for `<>` only if the value is not longer than the bounds). For strings everything goes back to the first byte in
  which two differ: cutting a minimum can only lower it, and a maximum that was cut is compared
  on its prefix. The writer's maps span and cover all they have seen (`Covers`,
  `StringCovers`), so `NoFalseSkipFixed` and `NoFalseSkipString`; with the bounds being
  values of the block also `KeptOnlyIfInRange`.
- **ScanInit**: `UnitsDistinct` needs that the units queued so far are of earlier
  objects or of earlier blocks of the present one (`QueuedSoFar`) and that sorting
  is a bijection; `PruningKeepsMatches` needs that blocks are decided in order
  (`KeptInv`) and the soundness of the zone-map test. `PruneAccounting` compares counters with
  sums over the objects so far. `TopNKept`: the units before the cut hold as many rows as the limit
  asks, and where ranges are apart those rows come before the rows that were cut.
- **TaeScan, ScanStatistics**: the proofs of planner and threads are put together by
  `INSTANCE`. The planner's invariant holds on and on, and when it is done its plan is a
  well-formed scan (`PlansAreWellFormed`). From there on the theorems about
  threads hold of that plan, and rows of pruned blocks do not match: so `QueryAnswer`, the property
  the project is about. `AllBlocksAccounted`, `CountStar` and `ProgressBounded` add the sums of
  both; `PlannerWasTold` adds that merged ranges span every block's range.
- **ObjectReader**: `ReadExact` shows by arithmetic of `div` and `mod` that a
  range cut along checksum blocks and stripped is the logical range. The invariant
  `IInv` adds to `TypeOK` that the cache is the file, that the format found is the
  file's, that requests are the call's in file order, that a request starts no
  earlier than its read, and that buffers and finished columns are exact. It follows
  that `ReadBlock` is right or throws, even when a merged length wraps, because the
  check before the slice compares with the bytes really read. On intact files more holds:
  merged reads are of content and apart (`RangesInv`), each starts with a request and reaches
  to the end of those that joined it (`PlacedInv`), a small file is in the cache after its first read
  (`OnceInv`); so `ReadsApart`, `SmallFileReadOnce` and `IntactIsReadable`. `PrefetchCovers` compares
  the two translations to checksum blocks.
- **OutputChunk**: `InStoredOrder` is not inductive, as it says nothing of the thread.
  `ThreadInv` relates block, offset, rows and columns: that the rows of a block are taken from
  its first column's length is used here. `SourceInv` has the rows behind the chunk, which before
  filtering are those from the offset on. `OrderInv` says that the thread is beyond every row
  that was delivered and that rows which wait for sampling come after them.
  `TypeOK` follows too. `PushdownKept` is about recursive definitions over expressions. Their tables
  exist as fixed points of what grows with its argument (`FixedPoint`), and what was accepted can be
  taken apart because a tree has a lowest counterexample.
- **OutputChunk, which rows**: `SelectionExact` speaks of the end only, so `SelInv` says at each step
  that of the rows behind the thread exactly those that satisfy all pushed filters are delivered.
  A row's verdict is compared with the expression from the inside out: the encoding of a
  constant, which orders integers and strings as they are ordered; the element or string in the decoded column,
  found by the row's index times the element size; the bit in the null bitmap; each operator; and
  conjunctions taken apart (`FlatVerdict`, `PartVerdict`). `ReadInv` ties the columns
  that the thread reads to those that the query asks for. That the rows come once and in stored
  order is `InStoredOrder`; the two together say what the query gets.
- **OutputChunk, which values**: `RowsExact` has its invariant in `ChunkInv`: each vector holds for each row
  of the chunk the stored value in the slot the row is read from, or a NULL of an earlier fill, or it is
  `Disturbed`. Below it are lemmas for each way of filling a vector (copies, shifted epochs, strings inline or in
  the area, constants, virtual columns), for the null mask, which only clears, and for slicing. Bitmaps and
  the area are recursive functions, so what they hold comes from induction (`NatSetInduction`): a bit is set
  just if its row is NULL, and a string in the area is found where its slot says. `OneFillExact`
  sharpens the result: only a call that fills its chunk again can turn a value into NULL.

Sums over blocks and objects are recursive functions. What the proofs need of them (`SumTo` of
one more, of parts, of equal or smaller terms) comes from induction over sets of numbers: a set
that has 0 and with every number the next one has all (`NatSetInduction`).

Model-checked only: liveness (`Termination`, `EventuallyComplete`), which TLAPS does not treat
under fairness; `EveryStepCounts` is proved of what they rest on.

## Findings

- `sampled_end`: when sampling keeps no row of a block's last chunk, the call
  returns no rows (774-775), which the comment at 755-757 says must not happen
  while units are left: the thread ends, and when every thread ends so the rest of
  the table is never sampled.
- `count_star`: COUNT(\*) from the manifest stops early at a unit of no rows: an
  object of no rows, or of fewer rows than blocks.
- `not_equal`: `<>` on strings skips a block in which minimum and cut maximum
  equal the constant although longer strings in it differ.
- `top_n`: ORDER BY ... ASC LIMIT keeps the first blocks by minimum whose row counts
  reach the limit, which is right only if ranges do not overlap. Of blocks with the
  values -1, with 2 and 5, and with 3 and 4, a limit of 3 keeps the first two, and the
  rows -1, 2, 5 are returned instead of -1, 2, 3. (Descending, by maximum, it is the same;
  the run asks for the case that the test names.)
- `stale_nulls`: a chunk whose rows were all dropped is filled again without a
  reset (753, 758, 772), from the rest of the block or from the next one. `SetNullMask`
  only clears validity bits, so a slot in which a dropped row had a NULL stays NULL and
  a stored value is returned as NULL. In the run one block of three rows is enough, with two
  rows to a vector: its first two rows fail the filter, the third is put where the first was.

Seen on the way, modelled, and excepted by name in the properties:

- A coalescing gap of 0, which `tae_object_reader.hpp:203` says disables coalescing
  (and `test_reader.cpp:199` takes for one read per column), still merges extents that
  touch (`tae_object_reader.cpp` 556), as their gap is 0 as well. The columns are
  the same (`ColumnsExact` is checked and proved for a gap of 0 too); `ReadsApart` asks
  a gap of 0 only for reads that share no byte.
- A filter on a constant column looks for each row's element behind the one there
  is (`tae_filter.cpp` 346, 405, 439); its verdict on rows after the first is arbitrary.
- A refill of a vector that an earlier fill of the call made constant leaves it
  constant (`tae_column_fill.cpp` 114 sets the type, nothing sets it back).
- `decimal64` is copied in eight bytes per row also where DuckDB's slot has two or
  four, which is so up to nine digits; the tests use ten and more.
- Filters on `year`, `bit` and `enum` columns are accepted by their DuckDB type and
  then fail the query, as `EncodeConstant` has no case for them.
- Array columns are given a type and never filled.
- The encoding of an infinite date wraps, and so compares with another date.
- Manifest integers beyond 32 bits lose their upper bits before the range check.

And beside the models: string statistics are built from the two ends of a column, so
whether there are other than ASCII characters between them is not known.

## Not modelled, and why

- *Byte layouts*: metadata (`ParseMetadata`), vectors (`DecodeVector`), LZ4 and the JSON
  of the manifest. They are straight-line readers of a format whose writer is not in
  the repository; the models take their result. With them go the manifest's rules
  about paths, sizes and required members.
- *Single types*: widths, floats and NaN, uuid's byte order, `decimal128`, time zones.
  Types appear by kind.
- *Statistics of strings, EXPLAIN texts, metrics*: strings of DuckDB's own making.
- *Copies of bind data*, which lose the scan order: whether DuckDB copies between
  setting the order and the scan is not visible here.
- *The branch of `TAEScanExecute` without local state* (683-697): unreachable, as the
  function registers `TAEScanInitLocal`.
- *The registration of the function*: no state and no order.

## Plan

Done: the executor, its abstract result, the zone maps, the planner, their
composition with what DuckDB is told, the object reader, the way from manifest to
DuckDB's vectors, and a theorem for each safety property of these. Next, in this order:

1. *ParseMetadata*: its bounds checks with sums of 32 bits, over a small layout.
2. *Several threads over decoded values*: `ScanExec` and `OutputChunk` are joined by the properties they
   share (units in order, rows by block and place), not by a module.
