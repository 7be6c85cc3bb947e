# A TLA+ model of lazpy

lazpy reads and writes LAS and LAZ point clouds: a C core (`src/src/laz_*.c`), a
binding of it for Python (`src/src/cpylaz*.c`) and a Python package over that
(`src/lazpy/*.py`).  This directory holds TLA+ modules of its core, the TLC
configurations that check them on small instances, and TLAPS proofs.

Paths below are relative to the repository, whose C sources are in `src/` and
Python sources in `lazpy/`; a function is named as it is in the code.

## 1. The system

### 1.1 Components

| Component | State it keeps | Operations | What it calls, who calls it |
|---|---|---|---|
| Point reader, `laz_readpoint.c` | `chunk_size`, `chunk_count`, `current_chunk`, `number_chunks`, `tabled_chunks`, `chunk_totals`, `chunk_starts`, `point_start`, which readers are active | setup, init, read, seek | reads the input stream; drives the decoder and the item readers; called by the PointReader |
| PointReader, `cpylaz_reader.c` | `index`, the current point | read, seek, read_into, read_within, checksum, bounds, build_index, columns, chunk_starts | calls the point reader, with the GIL released in bulk calls |
| Point writer, `laz_writepoint.c` | chunk counters, `chunk_sizes`, `chunk_bytes`, positions, which writers are active | init, write, chunk, done | encoder, item writers, output stream; called by the PointWriter |
| PointWriter, `cpylaz_writer.c` | `ready`, `index`, running counts and bounds | write, write_from, chunk, done | calls the point writer |
| Input stream, `laz_stream.c` | buffer, `base`, `pos`, `fill`, `length`, `eof`, `failed`, `view` | get, seek, seek_end, tell, remaining | calls back into a Python file object |
| Output stream, `laz_stream.c` | staging buffer, `pos`, `failed` | put, flush, seek, destroy | calls back into a Python file object |
| Array streams, `laz_stream.c` | bytes and a position | the same | layers, index payloads |
| Arithmetic coder, `laz_arithmetic.c` | interval, output ring, adaptive models | encode, decode, init, done | streams |
| Integer compressor, `laz_intcompressor.c` | models by context | compress, decompress | coder; used for coordinates and the chunk table |
| Item readers and writers, `laz_readitem*.c`, `laz_writeitem*.c` | contexts, predictors, layers | init, read/write, chunk_sizes, chunk_bytes | coder; used by the point reader and writer |
| Spatial index, `laz_index.c`, `cpylaz_index.c` | quadtree, cells, intervals | read, intersect rectangle/circle | array stream |
| Index builder, `laz_indexbuild.c` | cells with intervals | add, complete, serialize | fed by PointReader.build_index |
| Point view, `cpylaz_point.c` | one record | field access, packing | reader and writer bindings |
| Reader, `lazpy/reader.py` | file object, header, lazy extended records and index | open, read, seek, points, arrays, region queries, close | PointReader; reads the same file object for extended records |
| Writer, `lazpy/writer.py` | file object, header, `_failure`, `_closed` | write, write_arrays, chunk, close, append_spatial_index | PointWriter; patches the header |
| Headers, extra bytes, compat, CRS, formats | none that outlives a call | parse, pack | Reader and Writer |

### 1.2 How they interact, and where it is hard

* **The file object is shared.**  The streams call back into it, buffer over it
  and keep their own account of where it stands; an extended record's payload
  is read through the same object (`_read_data`), which puts it back.
* **Every call of the file object may raise.**  The stream records that in
  `failed` and goes inert, since calling Python with an exception pending is
  not allowed; the core asks at the end of each operation.
* **The chunk table is at the end of the file, its position at the start.**  A
  writer that stops leaves a placeholder, a position with no table behind it,
  or, on a pipe, neither.  A reader decodes, verifies, gives up, rebuilds or
  extends the table while reading, and later seeks jump by what it has.
* **A decoder's state is only good from the start of a chunk on.**  Reads,
  seeks, failures and rebuilt tables in any order have to leave
  `chunk_count`, `current_chunk`, `readers` and the stream in agreement with
  each other and with the binding's `index`.
* **Bulk calls and seeks are loops** that stop at the first failure and leave
  the index to be adjusted.
* There are no threads inside the program.  Bulk calls release the GIL without
  taking a lock: two callers of one reader are on their own.

### 1.3 What makes each component correct

* Reader: a point handed out under an index is the point with that index;
  starts in the table are chunk boundaries; arrays are indexed inside their
  allocation whatever the table says; a point the file has can be read and
  seeked to; a failure leaves the index where the decoder is.
* Writer: a finished file reads back to exactly what was accepted; whatever
  interrupts it, the file says so or reads back; no failure is swallowed.
* Streams: the buffer cannot be observed; a failed stream stays inert.
* Coder: decoding inverts encoding, a carry reaches the byte it belongs to, a
  model stays a distribution, and one that failed to allocate is not used.
* Spatial index: no point of a region is outside the intervals of its query.
* Writer.close: a compressor's end, records, header and file each once, the
  first failure reported, the file closed whatever happens.

## 2. The modules

| Module | What it is |
|---|---|
| `PointSource` | abstract: a cursor over numbered points |
| `ChunkReader` | `laz_readpoint.c` and the index of `cpylaz_reader.c`; implements `PointSource` |
| `MCReader` | the files TLC opens it on |
| `ChunkReaderProofs` | proof that no chunk array is indexed past its end, and of its types; that the reader of an intact file stays in step, reaches every point, tables boundaries only and implements `PointSource` |
| `Overlays` | writing over a sequence |
| `ByteFile` | abstract: an output file with no buffer, which may break |
| `FileSink` | the buffered output stream; implements `ByteFile` |
| `FileSinkProofs` | proof of that, and of its invariants |
| `ChunkWriter` | `laz_writepoint.c` and `cpylaz_writer.c`, over `FileSink` |
| `ChunkWriterProofs` | proof of its types, that failures are reported and that only the placeholder is patched |
| `WrittenFileProofs` | proof that finished files read back and interrupted ones say so |
| `MCWriter` | containers for it |
| `RoundTrip` | `ChunkWriter`, then `ChunkReader` on what it left on the disk |
| `RoundTripProofs` | proof that the files `done()` returned for are intact for the reader |
| `MCTrip` | containers for it |
| `ByteSource` | abstract: an input file with no buffer |
| `FileStream` | the buffered input stream and the extended-record reader beside it; implements `ByteSource` |
| `FileStreamProofs` | proof of that, and of its invariant |
| `MCStream` | a file for it |
| `WriterLifecycle` | `writer.py`: `Writer` and `append_spatial_index`, over `ChunkWriter` and its file object |
| `WriterLifecycleProofs` | proof that closed files state what they hold, headers keep their word, and the handle and the index are where they should be |
| `MCLifecycle` | files for it |
| `Quadtree` | operators: the tree both halves of the spatial index have to agree on, in single precision |
| `IndexBuilder` | `laz_indexbuild.c` and `build_index`, over `Quadtree` |
| `RegionReader` | `laz_index.c` and the region queries of `reader.py`, over the index `IndexBuilder` wrote |
| `RegionReaderProofs` | proof that an index covers its points, that no query leaves the file or its region, and that one with an index is a scan of the file |
| `MCIndex` | files, indexes and queries for it |
| `AdaptiveModels` | operators: the bit and symbol models of `laz_arithmetic.c` |
| `ArithmeticCoder` | its encoder and decoder, as the bindings of `cpylaz_models.c` call them |
| `MCCoder` | narrow registers, calls and used models for it |
| `IntCompressor` | operators: `laz_intcompressor.c`'s correctors and their intervals |
| `ItemCoding` | operators: what all item coders share (`laz_item.h`) and the coder as they see it |
| `LayeredItems` | operators: what the LAS 1.4 items share |
| `WriteItemV1`, `WriteItemV2`, `WriteItemV3` | the writers of `laz_writeitem_v1.c` to `_v3.c`, the fourth version included |
| `ReadItemV1`, `ReadItemV2`, `ReadItemV3` | the readers of `laz_readitem_v1.c` to `_v3.c` |
| `ItemTrip` | writers and readers of the same item, point by point |
| `MCItems` | items for it |

An operator carries the name of the C function it stands for and maps one state
record to the next: `laz_readpoint_read(f, s, ...)` is the state the function
leaves, with its return value in the field `ok`.  The actions are the methods of
the bindings (`Reader_read`, `Writer_done`).  Operators whose comment begins
with "A mutant" are wrong on purpose; nothing uses them but the demonstration
that each property can be violated.

### 2.1 ChunkReader

`rp` is the `LazReadPoint` together with what it can see of the stream; `index`
is `ReaderObject.index`.  `file` says where the chunks really start, how many
points they hold, what the table states (`table.kind`: entries, interrupted,
unreadable, misplaced) and how far decoding it goes (`behind`), and where the file
ends.  A chunk of n points is n + 1 units long, so a position inside a chunk is
never its end.

`read_chunk_table` reads the table's position from wherever the stream stands, as
the code does.  The first time that is in front of the chunks; an attempt that
failed and left `number_chunks` at `U32_MAX`, which happens with adaptive files
only, is followed by another from the place where it stopped, and that one takes
bytes of the first point for a position.  `PositionAt` is what the eight bytes at a place
lead to: `file.table` in front of the chunks, and elsewhere `file.strays`, a table
of its own for each position.  Both are `IsTable`.

Bytes are abstracted to positions and points to numbers.  Two ghost fields say
what a decode comes to: `origin`, where the decoder was started, and `decoded`,
how many points it has produced.  Started anywhere but at a chunk's start, or
run past its end, it yields `GARBAGE` and moves the stream by some gap in `Gaps`.

`open_next_chunk`, `init_dec`, `read_chunk_table`, `decode_chunk_table` and
`recover_chunk_table` are the C functions with their early returns, in order;
`at_tabled_start`, `note_chunk_start`, `size_from_table`, `jump_to_chunk` are
parts of them that have a name here.  The loop of a seek and the loop of
`read_into` and `checksum` are separate steps, since each turn may fail.

`Intact(file)` is what most of the reader's properties are about: the points are
all there, behind a header, and the table states their boundaries, or nothing at
all where the chunks are of one size.  A table in the middle of the points
(`misplaced`) is not that.  An adaptive file is of use only with its table, so an
intact one is behind a stream that can go there and come back.
Layered chunks (`load_chunk`, `decode_layered`) are taken in whole with their
first point, refused if they cannot fit in what is left of the file, and report
an exhausted layer at the point that needs it.  They stand for the formats
whose record is one item; with several, more than one may report.

### 2.2 FileSink and ChunkWriter

`sink` is the output stream: what the file object holds (`disk`), where it
stands (`at`), what it takes before it raises (`room`), how often it lets itself
be sent elsewhere (`seeks`), the staging buffer and the position.  What is
appended to a full buffer, emitted past it, dropped after a failure or flushed
before a seek is as in `fileout_put_bytes`, `fileout_flush` and `fileout_seek`.

`ChunkWriter` writes units into such a stream: a raw point, an encoded point,
the end of an arithmetic stream, a point count, a position, and the table's
version, count and rows.  `wp` is the `LazWritePoint`.  Memory runs out where
`Ooms` allows it.  A layered chunk's layers are one here.

### 2.3 RoundTrip

The only new definition is `FileOf`: how the units on a disk look to a reader.
The file is opened once the writer is done, failed or dropped, which is what a
crash leaves too: everything in the staging buffer may be missing.  Rows of a
table that are not on the disk decode to something (`Remains`), since the
reader's decoder is handed zeros past the end, and bytes of a point that are taken
for a table's position lead to something (`Stray`): before the file, past its end,
or to bytes that are no table.

### 2.4 FileStream

The input stream, call by call of the file object; the object may stop
answering at any of them (`Calls`), hand back less than it is asked for
(`Mosts`), or have a `readinto` that refuses (`view`).  A get is a call and one
step for each turn of its loop; `get` is what such a call keeps.  The four steps of
`_read_data` come between two uses of the stream by the decoder, as they do in
one thread.

### 2.5 WriterLifecycle

The Python `Writer` and the point writer share one file object, so the module
takes `ChunkWriter`'s actions for `write`, `chunk` and `done` and gives the
rest of `close()` the same `disk`, `at`, `room` and `seeks`.  In front of the
points are three units: the header, the "lascompatible" record and the LASzip
record.  `self` is the `Writer`; `frame` says where `close()` or
`append_spatial_index()` is and holds their local variables.  Each call of the
file object is a step, an interrupt may come between two, and a file object
that is closed may raise.  `_patch_header` and `_patch_compatibility_record`
are one step each, as `keeping_position` puts the handle back whatever happens
inside: what an interrupt between the seek and the write leaves is what one in
front of both does.  The `raised` field is a history that only
`ClosedFilesAreWhole` looks at.

`ChunkWriter` takes what stands in front of the points as the constant
`Preface`; on its own it is a header of one unit.

### 2.6 Quadtree, IndexBuilder and RegionReader

Coordinates are integers, in a unit in which a leaf is `CellSize` wide and
cells can be halved.  Points and queries are doubles in the code and exact
here; the box, its midpoints and the cells' edges are floats, rounded to
`MantissaBits` bits by `F32` after each operation the code does in single
precision.

`Quadtree` has `laz_indexbuilder_setup`'s box (`TreeOver`), the leaf of a point
(`Leaf`) and the cells a query reaches (`Hits`).  `IndexBuilder` is the state
of a build: `Setup` over the extent, one `Add` per turn of `build_index`,
`Complete` with its coarsening passes and its merge, and `Serialize`.  The C
code merges siblings in the array it is searching; so does `Pass`, which is
why what a pass meets depends on its order.  At "complete" the builder also
keeps `coarse`, `minimum` and `asked`, which only properties look at.

`RegionReader` composes them: `Build` is a step of the builder, `PointsWithin`,
`ReadWithin` and `Drop` are a query's generator, `ArraysWithin` the bulk form.
An index is the builder's or one from `Beside`, which may say anything; `own`
tells the two apart for the properties.  Points are read as `PointSource`
promises, and a generator is driven by one caller who does not move the reader
between its turns: the code promises nothing else.

`Picked` and `Arranged` stand for the loops that choose from an array and for
`qsort`, as recursive functions, so that the proofs can follow what they do.

### 2.7 AdaptiveModels and ArithmeticCoder

All arithmetic of `laz_arithmetic.c`, with its shifts and its wrap-around, on
registers of `REGISTER_BITS` bits of which a byte is a fourth.  `e` is the
`LazEncoder` with its ring, `d` the `LazDecoder`; `models` are a bit model and a
symbol model for each.  A behaviour encodes a sequence of calls, is done with it,
and decodes it.  `Init` is behind `Encoder_start` and has the models in any of
the states `Pasts` names: initialised once or more often (the image
`laz_symbol_model_init` keeps is taken the second time, or not, for want of
memory), and having coded symbols since, which is how they come to be skew and
near their limits.  The ring is what malloc or the stream before left in it.

Two fields of `e` are histories: `number`, the number written so far with
unbounded digits, and `late`, whether a carry was for a byte that had left the
ring.  A byte waits in the ring while at most `AC_BUFFER_SIZE` others do, and
nothing keeps a run of full bytes shorter (section 5.2); with a ring of four
bytes that happens in a few of the streams, and `RingIsTheNumber` and
`DecodesWhatWasEncoded` are about the others.

A decoder is only asked for what was encoded, in that order, with models of the
same alphabet: values no encoder wrote are not considered.

### 2.8 IntCompressor, the item coders and ItemTrip

A corrector and its interval are computed as they are there.  The coder below
the items is a tape of symbols (`ItemCoding`): an entry names the model it was
coded with and whether that model had been used since it was last initialised;
a decoder that asks with another model, or with one of another age, is out of
step for good.  That is what is needed of `ArithmeticCoder` and what it gives:
of two models with the same history one decodes what the other encoded.

Each item has `_init` and `_write` or `_read` operators named for the C
functions, from its state and an item to its next state.  Where the C function
is long its parts have names (`p14_switch`, `p14_write_returns`,
`gps11v2_extreme`).  Medians, return maps, GPS sequences, channels, layers and
what each of them predicts are as in the code; a model bank
(`laz_bank_get`) creates its models at their first use, and memory may run out
then (`Memories`).  A layered item has `layers`, each a coder of its own, and
`contexts`, one per scanner channel met.

`ItemTrip` lets a writer and a reader of one kind of item go in step.  `Seed`
starts a chunk with an item stored raw, `Code` and `CodeLayers` put one through
both.  Which layers a reader asked for and which came to have bytes is chosen
with the chunk (`Selections`); the writer keeps to it, so that a layer without
bytes is one whose field never changed.

The code behind a channel switch differs by version: the third version's other
items follow POINT14 into a context only where POINT14 says that the channel
changed, the fourth's always.

## 3. What is checked

| Run | Result | What it shows |
|---|---|---|
| `reader_honest` | passes, 23 305 states | 29 files: every container, every fate of the table, whole and cut short, adaptive ones whose table there is no getting at; any sequence of reads, bulk reads of 3 and seeks: `StartsAreBoundaries`, `StaysInStep`, `ArraysInBounds`, `PointsAreReachable`, `SeeksArrive`, and the refinement of `PointSource` |
| `sink_buffered` | passes | puts of 0 to 3 bytes around a buffer of 2, seeks anywhere: `KeepsPosition`, `FailedIsInert`, and the refinement of `ByteFile` |
| `stream_buffered` | passes, 89 720 | gets, seeks, measurements and payload reads: `BufferIsTheFile`, and the refinement of `ByteSource` |
| `writer_finish` | passes, 715 751 | every container on a disk of 0 to 22 units, seekable or not: `FinishedFilesReadBack`, `InterruptedFilesSaySo`, `OnlyThePlaceholderIsPatched`, `ReportsFailures` |
| `trip` | passes, 1 371 186 | files of writers that finished, failed or were dropped, with what is missing, or taken for a position and is none, reading as anything: `HandsOutWhatWasWritten`, `FinishedFilesAreIntact`, `FinishedFilesReadOn`, `WhatIsThereIsReadable` |
| `close_files` | passes, 174 657 | files of six kinds with up to 3 points and 2 extended records, the writer's own and lent, edited, closed, closed again, stopped anywhere and appended to: `ClosedFilesAreWhole`, `HeadersKeepTheirWord`, `MistakesCostNothing`, `HandleIsPutBack`, `IndexIsWhereItIsSaid` |
| `regions` | passes, 672 760 | indexes built over every small file with every coarsening and merge, written and asked; indexes of other points, and unreadable ones: `PointsAreCovered`, `CellsHoldTheirPoints`, `CoarseningIsDone`, `SmallestGapsGo`, `QueryIsAFilteredScan`, `SpansStayInTheFile` |
| `items` | passes, 47 240 | every item version, up to 7 items of a chunk, every order of them: `HandsBackWhatWasPut`, `LegacyCopiesAgree`, `PredictorsAgree`, `SymbolsFitTheirModels` |
| `coder` | passes, 248 532 | every sequence of up to four of nine calls, from six pasts: `DecodesWhatWasEncoded`, `RingIsTheNumber`, `ModelsStayDistributions`, `TableBracketsEveryValue` |
| `reader_salvaged`, `regions_far`, `legacy_fields` | violated | section 5 |

`FinishedFilesAreIntact` joins the two halves: the files the writer finishes
satisfy `IsFile` and `Intact`, the hypotheses under which the reader's
properties hold.  Section 4 proves it of all of them, and what the reader then
makes of them.

`HandsOutWhatWasWritten` says nothing of two kinds of adaptive file, since of these
it does not hold: those that end inside their table (`TableCut`), and those whose
table was never written or never pointed at (`TableLost`).  Of the second kind the
first call is refused, and a caller who asks again may be handed garbage under
index 0 (`read_chunk_table` above; section 5.2, `reader_flawed`).  With
`~TableLost` left out `trip` finds that.  Finished files are of neither kind, and
fixed-size ones are not excluded, whatever became of their tables.

Two abstractions promise less than their names might say.  `ByteFile` does not know
what a caller asked to be put: some bytes land at the position and nowhere else;
that they are the caller's, in order, is what `FinishedFilesReadBack` says of the
streams the writer uses.  `ByteSource` lets a measurement of the file forget that
its end was run past, since the code does (`laz_stream.c:699`); what that costs the
reader is in section 5.2, `reader_flawed`.

### 3.1 Bounds, and why they are enough

* *Files*: three chunks of 2, 2, 1 points, or 1, 3, 2 where sizes vary.  Every
  decision of the reader compares a chunk with the one before, the table's
  length or the last; three chunks have a first, a middle and a last of
  another size.  Cuts fall in the last chunk, at its edge and a chunk before.
  Fixed and adaptive files are also behind streams that cannot seek.
* *Indices*: `Targets` are the first point, points inside and at the head of
  chunks, and the end.  Seeks past the end are left out: such a seek fails
  half way, with the consequence that `reader_flawed.cfg` shows.
* `GROWTH` 2 (256 in the code) has a rebuilt table grow twice.  `U32_MAX` 31 is
  out of reach of every count, except where wrap-around is the question.
* `MaxIndex`, `MaxCount`, `MaxChunks` bound the calls, past the end of the file
  by two points at least; what a read past the end does is included.
* *Buffers*: a buffer of 2 or 3 units and puts up to one longer than it, so
  that puts fit, fill, overflow and bypass it.
* *Rooms*: the file object of `writer_finish` fails in the header, the
  placeholder, each chunk, the table, the trailing position and not at all.
* *Writer*: five points in chunks of two, or chunks closed anywhere; `ALLOC` 1
  (1024 in the code) has the arrays grow at once.
* *Allocation*: `writer_finish` fails layers and the table's compressor; a
  failure to seed a chunk is `writer_retried.cfg` in section 5.2.

* *Closing*: one point more than a chunk, so a file has a closed and an open
  one; two extended records under two keys, so that they may clash and the
  first and the last differ.  The file object of `close_files` gives up in the
  placeholder, the points, the table, the records, each patch and not at all,
  by rooms and by seeks.

* *Regions*: every file of five points in the four leaves around a split, of
  four that may also lie in a far leaf, and of six that alternate between two
  leaves, so that runs break, carry on and interleave; line by line files of
  16 to 19 points, whose tree of two or three levels takes two coarsening
  passes.  `RunGap` and `MergeGap` 1 (1000 in the code) and `WITHIN_BLOCK` 2
  have gaps on both sides of each threshold and spans of several blocks.
  `IndexWord` 4 has files whose indices need the wide form and files that do
  not; `CountWord` 4096 is out of reach.  `Minimums` merge nothing, one group,
  groups of groups and nearly all; `Maximums` are none, fewer than there are
  cells and one per cell.  The regions end on edges, in cells, are empty,
  cover all, or are circles that reach a cell or only its rectangle.
  `MantissaBits` 24 is exact for these coordinates; `regions_far` has 3, and
  coordinates with more digits than that.

* *Items*: an `I32` has 14 bits, a `U16` 10, a byte 8, so that the correctors
  that wrap, fold and clamp do with the items of `MCItems`: the least and the
  most of each width, a step, and the same again.  `BITS_HIGH` 8 keeps the bits
  below it apart, `TOP_18` to `TOP_20` cap contexts that get that far with
  14 bits.  `MULTI` 500 is the code's; the times are one multiple apart, further
  than 500 either way, too far for 32 bits and near one of those.  Seven items
  have the fourth extreme time in a row start a sequence; four visit two
  channels and come back, and three do where a point has five items.
  `Memories` are one model bank or plenty, so memory runs out at the second.
* *Coder*: a register of 8 bits with 4 for a symbol's and a bit's probability
  keeps the code's order of magnitudes: the least length is four times the
  scale (512 times there).  Alphabets of 2, 3 and 5 symbols are without a table,
  with one of one bit and with one of two.  Raw numbers of 3 bits go at once and
  one of 4 in two parts.  Four calls write up to eight bytes, twice the ring, so
  each half is handed over, refilled and carried into.  The pasts take the
  counts to the limit and past it within the calls.

Deadlock is not checked: a caller may stop calling.  The bounds stop all of
them eventually.

### 3.2 Fairness

Only `SeeksArrive` needs any.  `FairSpec` adds weak fairness of `PassOver`,
`SeekDone`, `ReadIntoStep` and `ReadIntoDone`: the turns of a C loop that
nothing in the reader's own thread can interrupt.  No caller is ever obliged
to call.

## 4. What is proved

TLAPS checks these for every value of the constants, under the assumptions
named in the modules (`FilesAssumption`, `StreamAssumption`, `WriterAssumption`,
`TripAssumption`, `LifecycleAssumption` and that of `FileSink`), which TLC evaluates
in each run, as are `TreeAssumption`, `BuilderAssumption`, `ReaderAssumption`,
`RegionsAssumption` and `BesideAssumption` of the spatial index.  Further hypotheses of a theorem are given with it; the constants of
the runs satisfy them.

* `ArraysStayInBounds` (`ChunkReaderProofs`): for every set of files satisfying
  `IsFile` -- tables of any length that state anything -- `ArraysInBounds`
  always holds.  It is not inductive: it does not say what a *next* table entry
  finds.  `IInv` strengthens it to `Arrays(rp)`: totals, where there are any,
  are one longer than the chunks and never fall, and then every start is there;
  `tabled_chunks` is at most one more than `number_chunks`; the size is zero
  only while the table states it.  Each operator has a lemma saying that it
  preserves `Arrays`, in the order in which they call one another; the step of
  the induction is then one line per action.  `MaxIsAnElement`, from the
  well-foundedness of the naturals, gives that the search of the table returns
  a chunk in it.
* `ReaderTypes` (`ChunkReaderProofs`): `TypeOK`, from `Typed(file, rp)`, which
  adds to `Arrays` what the fields range over.  That the starts a table sums to
  are integers is an induction over the table; `UpTo`, from `WFMin`, does it by
  the least number it fails for.
* `TabledStartsAreBoundaries`, `ReaderStaysInStep`, `ReaderReachesPoints`
  (`ChunkReaderProofs`): `StartsAreBoundaries`, `StaysInStep` and
  `PointsAreReachable`, for every set of files with any number of chunks of any
  sizes, intact or not, and every sequence of reads, bulk reads and seeks.  An
  adaptive file is intact only behind a stream that can seek to its table.  Two
  hypotheses.  `FarFromLimits`: within the bounds no counter comes to
  `U32_MAX`, where `chunk_count` wraps around and `number_chunks` says that no
  table has been read.  `SeeksInside`: a seek goes to a point of the file or
  behind its last, since `seek()` raises `IndexError` for anything else
  (`lazpy/reader.py:671-676`); what a seek past the end leaves is
  `reader_flawed`'s subject.

  None of the three is inductive.  `Kept` says of an intact file that the reader
  is `Fresh`, as it was opened; or `Raw`, on points that are not compressed; or
  has *right tables* and *stands right*.  `Tables`: every start tabled of a chunk
  the file has is that chunk's boundary, the sizes are the file's or were never
  stated, the size in use is that of the chunk the reader is in, and the table
  stays shorter than the number for none read.  `Where`: while `chunk_count` is
  inside a chunk the decoder was started at the chunk's boundary (`origin`) and
  has decoded that many points, and the stream is behind them.  `Stands(p)`: p
  points lie before the decoder, which is what `index` has to agree with.  At the
  end of the file only the first two hold, since a read there may go anywhere.
  `Reading` ties `Stands` to `index + done` between calls and in `read_into`,
  `Seeking` to `goal - left` inside the loop of a seek, where `index` is still
  the old one.  `ReadingStep` and `SeekingStep` are the two steps everything
  else is made of: the chunk transition, with the table read, given up, rebuilt
  or extended under way, and the jump of a seek, which starts the decoder afresh
  where `StartsRight` says that a chunk begins.
* `IntactFilesHandOutTheirIndex` (`ChunkReaderProofs`): a point handed out of an
  intact file is the one its index names, never garbage.  `HandsOutItsIndex` says
  it of every file, which `reader_flawed` refutes; of intact files it follows from
  `Kept`, since what is decoded is where `Stands` says.  `trip` checks the same of
  files the writer wrote, as `HandsOutWhatWasWritten` but for the two exceptions it
  names.
* `ReaderIsAPointSource` (`ChunkReaderProofs`): `ImplementsPointSource`, if
  all files are intact.  With `Kept`, each action of the binding is an action of
  `PointSource` or a stutter: a turn of a loop is, and a read hands out the point
  `index` names, or fails past the end.  For files cut short, which implement it
  too as long as the missing points count as such, TLC shows it.
* `TypeCorrect`, `PositionIsKept`, `FailedStaysInert`, `SinkImplementsByteFile`
  (`FileSinkProofs`): the invariants of the output stream and that it
  implements `ByteFile`, for every buffer size, alphabet and file object.  The
  inductive invariant is `Sound` = `Typed` (the types and the bound on the
  buffer) and `Straight` (until it fails, `pos` is the file object's position
  with the buffer behind it, with no gap).  `OverlayTwice` is what makes
  staging invisible: writing a, then b right behind it, is writing a followed
  by b.  One lemma per operator (`Emit`, `Flush`, `PutBytes`, `SeekTo`) says
  that it preserves `Sound` and what it makes of the content, and each action
  maps to `Put`, `Seek`, `Break` or a stutter.
* `TheBufferIsTheFile`, `ImplementsTheSource` (`FileStreamProofs`): the same of
  the input stream and `ByteSource`, for every file and buffer, however little
  the file object hands back at a time and wherever it stops answering.  `Inv`
  has three parts.  `Window`: the buffer is a stretch of the file, and empty
  once the end was found, which is why a seek inside of it need not clear
  `eof`.  `Behind`: the file object stands behind the buffer, or, while a
  payload is being read, has that as the place to be put back to, and so the
  next refill continues where the last one ended.  `UnderWay`: what a get has
  got is the file from where it began, and ends at the position.  A get's turns
  are stutters but for the last, which is `Get`; so are a payload's four steps
  (`Aside`).  `Refilled`, `SoughtRaw`, `Sought` and `Measured` say what each
  operator makes of the window.
* `WriterTypes`, `WriterReportsFailures`, `WriterPatchesOnlyThePlaceholder`
  (`ChunkWriterProofs`): the writer's type invariant and two action properties,
  for every container, buffer, file object and place where memory runs out.
  What carries them is `Ready(l, w, c)`: the counters fit each other and the
  container, and the stream under the writer *holds* c.  That is the invariant
  of `FileSinkProofs`, used as `Stream == INSTANCE FileSinkProofs WITH ...`, and
  `Lies`: what is on the disk, failed or not, is the beginning of c but for the
  position, which is put only once all in front of it is in the file.  One
  lemma per operator of the writer says what it makes of c.  The inductive
  invariant `Going` says that there is a c, and each action takes it to a d
  that extends it (`Goes`), whichever call of the file object raises.
* `FinishedFilesAreWhole`, `InterruptedFilesAreHonest` (`WrittenFileProofs`):
  `FinishedFilesReadBack` and `InterruptedFilesSaySo`, for any number of points
  and chunks, under two hypotheses.  Memory runs out only in a layer or in the
  table's compressor (`Ooms \subseteq {"layer", "ic"}`, as in `writer_finish`):
  with a chunk that fails to be seeded the first property does not hold, as
  `writer_retried` shows.  And no chunk comes to `U32_MAX` points (`MaxPoints <
  U32_MAX`), where the counter wraps around.  `Kept` strengthens `Ready`: c is
  whole chunks between boundaries b, each of the size and the points its row of
  the table states, then the points at hand; and the points of c, with those
  still in layers, are the points `write()` returned for.  `Lost` is the other
  case, in which `done()` will fail.  `Last` and `OnFile` read the file back as
  the property does, by its own table; `Sealed` is what a spent writer leaves.
  The inductive invariant `Keeping` joins them.  What `Points` and `StartOf`,
  recursive functions, make of longer data is an induction over data, done by
  the least number it fails for (`UpTo`, from `WFMin`).
* `FinishedFilesAreRead` (`RoundTripProofs`): `FinishedFilesAreIntact`, for every
  container, number of points and way of closing chunks, if no chunk comes to
  `U32_MAX` points.  `Filed`, which `Keeping` has of a writer that is done, keeps
  what `done()` knew of the chunks: `FiledCharts` gives from it the boundaries
  between the chunks, a row of the table for each, the sizes that the writer
  recorded or the one they all have, and that the position in front of the
  points or the last thing in the file leads to the table (`Leads`).  What
  `FileOf` makes of that is computed field by field: the counts (`ChartedCounts`,
  where the division that `CountsOf` does for chunks of one size has to come out
  as the number of rows), the table (`ChartedTable`) and the sums over both
  (`ChartedTotals`).  `Delivered` carries the writer's invariant over the opening
  of the file.  The lemmas of the proof modules of writer and reader are cited
  through two instances of those, which assume what `TripAssumption` does.
* `FinishedFilesHandBackTheirPoints`, `FinishedFilesAreReachable`
  (`RoundTripProofs`): the way there and back, `HandsOutWhatWasWritten` of finished
  files and `FinishedFilesReadOn`: whatever the container, the buffer, the file
  object and the chunks, a reader who reads and seeks as it likes is handed the
  points `write()` took, each under its index, and no read of one, no seek to one
  and no point passed over fails.  `Received` adds to `Delivered` that the reader
  is the one of `ChunkReaderProofs`, over `Readable`, the set of all files that
  satisfy `IsFile`: `Framed` is what makes `FileOf` one of them, `ReadsAreTheirs`
  says that each step of the reader here is a step there, and `Kept` and `Hands`
  are then carried by the lemmas of that module.  The hypothesis, `FarFromLimits`,
  keeps what is counted away from `U32_MAX`, as there.
* `MistakesAreFoundInTime`, `TheHandleIsPutBack`, `IndexesAreWhereTheyAreSaid`
  (`WriterLifecycleProofs`): `MistakesCostNothing`, `HandleIsPutBack` and
  `IndexIsWhereItIsSaid`, for every layout, file object, set of keys and place where
  memory runs out.  The inductive invariant `Living` is `Typed` with one of two
  phases.  `Unfinished`: the point writer is at work or spent, what is in front of
  the points is as it was, and `close()` does not get past `done()` unless
  `Closable`, which was asked before and which nothing has changed since.
  `Finished`: the front end has the file to itself.  Nothing is staged any more, so
  that collecting the point writer leaves the file as it is (`RestDestroyed`), and
  the file object is `Resting`, at the end of the file for as long as it can be sent
  there; a LASzip record is `Aimed` at an index or at none.  The step between the two
  is `done()`: `DoneFinishes` has from the writer's own invariant that its stream is
  flushed and stands at the end of what it holds.
* `ClosedFilesSayWhatTheyHold`, `HeadersAreTheLastWord`
  (`WriterLifecycleProofs`): `ClosedFilesAreWhole` and `HeadersKeepTheirWord`, under
  the hypotheses of `FinishedFilesAreWhole`; where a count does come to `U32_MAX` a
  legacy file states none (section 5.3).  `Faithful` says in addition: until the
  points are finished they are tallied as they are kept (`Counting`); from then on
  (`Truthful`) the file is the block `done()` left, whatever is rewritten in front
  of it, with records and indexes behind it (`Block`), and the header is empty or
  `Stating`, true already.  In between, `Recording` says which of the extended
  records are written and which are left, and `Extended` that the header is aimed
  at them all.  That the header is empty until `close()` gets to it is why an
  interrupt anywhere leaves one that keeps its word; that nothing but the header
  makes it `Stating`, and that no later step takes that back (`StatingStays`), why
  a file stays whole while indexes are appended to it.  `BlockReads` cuts the block
  out of the file as a reader finds it and reads it by `FiledAnew`: what `done()`
  left reads back whatever stands in front of it.

* `PointsStayCovered` (`RegionReaderProofs`): `PointsAreCovered`, for every file,
  cell size, minimum and maximum.  The inductive invariant is `BuildInv`, that the
  builder is `SoundBuilder`.  While points are added (`Adding`) the cells ascend, are
  those of leaves, and each point is in its own leaf (`HeldIn`); `Remembers` says
  that the cell of the last point is where it is said to be.  `Complete` is one step
  of a loop of loops, so most of the work is in lemmas about recursive functions:
  a pass leaves cells none of which lies in another (`Antichain`, with the dropped
  ones left out) and each point in a cell at its leaf or above (`HeldAbove`),
  wherever a turn of it finds the siblings, as a parent already stands where its
  first child was; the sort loses nothing (`Arranged` permutes); joined runs hold
  what they did (`CoalesceHolds`, `CloseProperties`).
* `SpansAlwaysStay` (`RegionReaderProofs`): `SpansStayInTheFile`, whatever is found
  beside a file, from `QueryInv`: the index is `SoundIndex` if it could be read, the
  spans are `SoundSpans` of the file, and what was handed out is inside.
* `QueriesAreFilteredScans` (`RegionReaderProofs`): `QueryIsAFilteredScan` of every
  file that `HasItsPoints`: the points are in the box of the tree over them, which
  rounding may undo (`regions_far` is a file it does that to; `FilesFit`, evaluated
  with each run, says that those of the others have theirs).  That is all the query
  needs of single precision: nothing else in the proof depends on how it rounds,
  because both halves of the index split a cell at the same number.  `FilterInv`
  says how far the query has come (`Scanned`): what is inside up to a position has
  been handed out (`Lists`, in file order, each once), the spans that are left
  follow one another (`InTurn`) and have the rest.  At its start that is the
  descent.  `DescentProperties` goes down to the leaf of a selected point with its
  boxes around the point; the cell that holds it is on that path, those above it
  are `Subdivided` and it is not, since no cell lies in another; `QuarterProperties`
  and `CircleMeetsIt` say that a query that selects the point takes each turn of
  the path (`HeldIsHit`).  From the cell to the spans no point is lost in reading
  the index (`PackedIsTheRun`: not in narrow runs either), merging the hits and
  clamping, and `SpansOfCover` puts it together.  Indexes of other points promise
  less, and the theorem leaves them out as the property does.

`Kept`, like the other inductive invariants, holds of the states TLC finds in the
runs its theorems are about.

Only model-checked: everything else in section 3, among it that files cut short
implement `PointSource`, what a reader makes of files that were interrupted (the
rest of `HandsOutWhatWasWritten`, and `WhatIsThereIsReadable`), how far an index is
coarsened and joined and what its cells count (`CellsHoldTheirPoints`,
`CoarseningIsDone`, `SmallestGapsGo`: sums over a fold and cardinalities), and all
of the coders.  Out of the prover's reach is `SeeksArrive` (liveness).

## 5. Where the code disagrees with what is said of it

### 5.1 Runs that are expected to find a violation

* `reader_salvaged`.  `decode_chunk_table` sums the starts in place and gives
  up at the first that does not move forward (`laz_readpoint.c:300-304`);
  `recover_chunk_table` sums them again (332-334).  A fixed-size file with one
  bad delta then fails at its first chunk transition, though the recovery is
  there so that it "still reads whole" (`tests/test_reading.py:657`).
* `regions_far`.  The box of an index is out to whole cells in single precision
  (`laz_indexbuild.c:108-139`).  Where a coordinate is more cells from zero
  than a float has digits for, the lower edge may come to lie above the first
  points, and a query that ends below it is said to miss the box, though with
  an index a query selects "the same points" as without
  (`lazpy/reader.py:951-953`).  With 24 bits: cells of 0.25 at y = 5000000.80.
* `legacy_fields`.  A point of LAS 1.4 has its class and its flags twice, in the
  older fields and in the extended ones.  A record is said to take the flags from
  the older ones (`lazpy/writer.py:282-286`, `src/cpylaz_point.c:403-408`), and
  `raw_write_point14` does, and takes the class from there where the extended one
  is not set.  That writes a chunk's first point; the others go through
  `p14_write`, which codes the extended fields (`laz_writeitem_v3.c:431-453`).
  Points whose older fields alone are set come back with the first point's class
  and no flags, from the second point of a chunk on.

### 5.2 Further configurations

Kept to be run by hand; each finds its property violated.  One that passes has no
configuration of its own: `reader_honest.cfg` with `Files <- LyingFiles` and the
invariant `StandsWhereTabled`, 34 277 states.  Those are fixed chunks behind wrong
tables, of which no point is handed out that is of a chunk the table puts elsewhere.

* `reader_flawed` (run with `-continue`, as it has four).
  `FailedSeeksKeepStep`: a failed seek has moved the reader
  and leaves `index` behind (`cpylaz_reader.c:862-863`, after
  `laz_readpoint.c:634-640` and 653-656); the comment at 532-534 says what that
  leads to: "the next seek would work out its distance from the wrong place".
  `HandsOutItsIndex`: measuring a file seeks (`laz_stream.c:693-704`) and a seek
  clears `eof` (313): the first layered chunk is measured after its head was
  read off the end of the file, and a point of zeros passes `point_is_whole`.
  `AdaptivePointsNeedTheTable`: the error for a corrupt adaptive table frees
  `chunk_totals` and leaves `number_chunks` set (`laz_readpoint.c:321-326`), so
  a read after it takes the file for one whose table was read, and hands out
  points.  The error for an interrupted writer (349-353) leaves `number_chunks` at
  `U32_MAX` and the stream behind the placeholder: a read after it takes the X and
  Y of the first point for the table's position (345).  If that lies past the
  file's end, version and count read as zeros, which is a table of no chunks
  (246-306); the reader goes back to eight bytes inside the first point (380) and
  hands out garbage under index 0, which violates `HandsOutItsIndex` too
  (`StrayFiles`).  A lost adaptive table is "worth an error rather than an answer"
  (`tests/test_chunking.py:107`); the tests ask once, and get one.
  `AdaptivePointsAreTabled`: the check for a chunk without a stated
  size is asked of `current_chunk` before `open_next_chunk` increments it
  (`laz_readpoint.c:546-552`): if bytes follow the points, one point past the
  last is handed out, which the comment at 532-538 says cannot happen.
* `coder_carry` (`CarriesStayInTheRing`): a carry for a byte that has been handed
  to the stream.  The comment on `propagate_carry` says that "the interval width
  guarantees a non-0xFF byte long before then" (`laz_arithmetic.c:407-413`), but
  an interval may go on having a byte's boundary inside it for as long as one
  likes.  At the code's own scale `write_bits(8, ...)` of 0x80, 0, 0 over and
  over, then 255, has a run of 0xFF for each byte written; after 2 100 of them
  the stream does not decode from byte 1023 on.  Points would have to come by
  such a sequence by chance.
* `regions_unreadable` (`UnreadableIsNotIgnored`): `_index_looked_for` is set
  before the index is read (`lazpy/reader.py:853-860`), so the first query
  raises over an index that cannot be read and the second scans the file,
  which the docstring at 849-851 says is not done.
* `writer_retried` (`FinishedFilesReadBack`): a chunk's first point is in the
  file before memory runs out seeding the compressor
  (`laz_writepoint.c:304-317`); a caller who goes on and closes the file gets
  one that does not read back.  The run goes on after an error, which
  `tests/test_allocation.py` does not.
* `trip_cut` (run with `-continue`, as it has two).  `PipesReadOn`: behind a pipe
  the table position is read from the last eight bytes
  (`laz_readpoint.c:369-373`); if the writer was interrupted those are point
  data, and a position before the file makes the file object raise, which no
  recovery survives.  `HandsOutWhatWasWritten`: the position of the table is on
  the disk before its rows (`laz_writepoint.c:237`, 256-263) and rows that are
  missing decode (`laz_readpoint.c:287-295`): no warning is given and seeks jump
  by made-up starts.  Reading from the start fails or is right (`trip`).

### 5.3 Observations not modelled

A read repeated after a "layer sizes" error or an allocation failure goes on
with the readers of the chunk before.  The distance at `laz_readpoint.c:632` is
computed in 32 bits.  `Writer_write` counts a point before writing it
(`cpylaz_writer.c:342`), so that after a write that failed for memory the counts
by return number exceed the count; `close_files` shows that no file is closed
with them when it is the file object that failed.  `fileout_emit` ignores how many bytes the file object
says it took.  `laz_writepoint_chunk` with no open chunk succeeds on a stream
that has failed (334).  Points read repeatedly off the end of a truncated file
are noted as chunk starts, which is why `StartsAreBoundaries` is stated of
intact files.

`laz_symbol_model_init` with a table of counts leaves `total_count` at the number
of symbols, not at the counts' sum (`laz_arithmetic.c:186-193`), so that the
distribution fits a table of ones only; no coder of points passes a table.  "Every
coding call is bracketed" by `encoder_ready` (`cpylaz_models.c:357`), but
`IntComp_compress` (`cpylaz_intcomp.c:128-136`) asks `intcomp_ready` instead, which
does not ask whether the encoder is started.  The wave packet writers code an
offset that lies as far from the last one as the last packet was long as "the next
one" (`laz_writeitem_v1.c:458-502`), with the length taken as an `I32`; the readers
add it as a `U32` (`laz_readitem_v1.c:416-449`).  For a packet of 2^31 bytes or more
and an offset that goes back by its two's complement, the offset comes back 2^32 too
large.  The wave packets of layered files do the same.

`point_start == 0` means "not started" (`laz_readpoint.c:605`, 416), and is also the
start of the points of a stream without a header: a seek before the first read
counts from the wrong place.  A seek back in a pointwise file leaves `chunk_count`
as it is (644-648); once it gets to `U32_MAX` a chunk transition takes place where
there is none.  A chunk's length is cut to 32 bits (`laz_writepoint.c:201`).  A
legacy count that does not fit is stated as 0 (`lazpy/writer.py:910`); LAS 1.4 and
disguised files have another field, a legacy format in an older version does not,
and `close()` returns.  `keeping_position` does not cover a payload read by another
thread while a bulk call has released the GIL; the code promises nothing there.

## 6. What is not modelled

* Allocation failure in the reader's own arrays, and files with no chunks.
* In `ChunkReader` and `ChunkWriter` a point is a number: "the decoder yields the
  point" is an assumption there, of which `ItemTrip` shows the half that is about
  items and `ArithmeticCoder` the half that is about bytes.  They are not composed:
  a state of all three would be out of TLC's reach.
* Of the coder: values no encoder wrote, symbol models initialised from a table,
  registers as wide as the code's.
* Of the items: the conversions of raw records other than LAS 1.4 points, which
  are copies; times that are not integers, which the code compares as such.
* Of the spatial index: its bytes, memory running out, and what conversions
  of coordinates beyond 32 bits give.  `append_spatial_index` is in
  `WriterLifecycle`, which knows an index as a record only.
* Of the Python `Writer`, the checks of its constructor, and torn writes of a
  header or a record: a unit is written whole or not at all.
* Compatibility recoding, header parsing, CRS, extra-byte descriptions, the
  command line: functions without state, which unit tests reach.
* Tests, tools, documentation and build files.

## 7. Plan

Written: `PointSource`, `ChunkReader`; `Overlays`, `ByteFile`, `FileSink`;
`ChunkWriter`; `RoundTrip`; `ByteSource`, `FileStream`; `WriterLifecycle`;
`Quadtree`, `IndexBuilder`, `RegionReader`; the item coders and `ItemTrip`;
`AdaptiveModels`, `ArithmeticCoder`; the proof modules.

To come, in this order:

1. Proofs: that coding keeps a model a distribution.
2. Compatibility recoding, as operators checked to invert each other, and the
   conversions between point formats.
3. Allocation failure in the reader.
