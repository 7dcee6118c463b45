# TLA+ models of ewf-forensic

This directory models `ewf-forensic`: the crate `ewf` (`core/`), which opens and reads Expert
Witness Format evidence images, `ewf-forensic` (`forensic/`), which recovers and checks damaged
ones, and the programs on top of them (`cli/` and `ewf-check`).  The modules are written from the source; TLC checks them on small instances and
TLAPS proves the main theorems for all values of the constants.

## The system

An EWF v1 image is a set of segment files.  A segment is a file header followed by a chain of
sections (descriptor, body); the `volume` section gives the geometry, `table` sections say where
each chunk (usually 32 KiB, zlib-compressed or stored) lies, `table2` mirrors `table`, `hash` and
`digest` hold the digests of the acquisition.  In an EWF v2 image the descriptor follows its body and
links back to the descriptor before it.  A logical image has, in an `ltree` section, the tree of the
files that were acquired.

| component | state | operations | interacts with |
|---|---|---|---|
| EWF v1 open (`reader.rs` `open_v1`) | segments, descriptors, geometry, table, stored hashes, metadata | order segments, walk a chain, one handler per section type | builds the chunk table the read path uses |
| chunk table (`chunk_table.rs`) | eager: flat vector; lazy: section index and LRU of parsed sections | `parse_table_section`, `section_for`, `get` | called by open (eager) and by every read (lazy) |
| read path (`read_at`, `read_chunk`, `decompress_chunk`) | page LRU behind a mutex | probe, locate, decompress, insert, copy | many threads share one reader through `&self` |
| verification (`verify`) | hashers, batches of pages | parallel decompression, serial hashing, verdict | pool threads call `decompress_chunk` |
| read cursor (`Read`, `Seek`) | position | read, seek | delegates to `read_at` |
| EWF v2 open (`open_segments_v2`, `ewf2.rs`) | as v1 | backward descriptor list, then one handler per section type | eager table only; forensic has its own parser |
| segment discovery | names found so far | five finders: two match a directory against a pattern, three probe name after name | open, `sections`, integrity, recovery, logical |
| recovery (`recover.rs`) | walked sections, output file, counters | tolerant walk, best copy of each chunk, zero fill | reads segments on its own, not through the reader |
| integrity (`integrity.rs`) | list of anomalies, progress | structural checks, table, chunk and hash checks, for v1 and for v2 | reads segments on its own |
| logical tree (`logical.rs`) | entries, extents | find the section, parse the tree, list it, `read_entry` | `Read` and `Seek` of the reader |
| CLI and MCP server (`cli/`), `ewf-check` | request loop, search window, output file | one handler per tool, exit codes | all of the above |
| VFS adapter (`vfs.rs`) | none | `read_at`, `len` | delegates to the reader |

What is hard here: reads interleave on two caches, each probed and filled in separate critical
sections with I/O in between; a panic poisons a lock that is then used on; two table strategies
must agree although one numbers parsed entries and the other declared ones; section order, links,
counts and offsets all come from images that may be damaged; the digest depends on an order that
parallel threads do not keep; recovery must account for every byte whatever is broken; v2 images are
parsed twice, by two programs that walk them in opposite directions; sub-counts and extents of a
logical tree come from a text that may be damaged; a server must outlive its failed calls.
`PROJECT.json` lists these hazards at their lines.

What makes each component correct:

- open: the table is in media order; walks end; eager and lazy opens agree; stored hashes survive;
- read path: an answer is exactly the image's bytes; failures stay with their cause; caches coherent;
- verification: bytes are hashed in order, once, up to the media size; the verdict says what was covered;
- recovery: the output spans the image; counters account for it; no better copy is passed over;
- integrity: a clean report vouches for the image; damage is reported whatever else is damaged;
  progress is monotone and accounts for failed chunks; the two hashing copies agree; walks end;
- EWF v2: the reader and the analysis see the same media; lists of any shape end;
- discovery: all finders agree on a complete set; nothing behind a missing segment is used;
- logical tree: what was acquired is listed and read back, and damaged counts still give a tree;
- programs: a search finds every match, a range is never other bytes, each request is answered
  once, an exit code says what was found, the cursor is that of exact integers.

## Modules

| module | models | proof-ready |
|---|---|---|
| `LruCache` | the `lru` crate as the reader uses it (external) | operators only |
| `ChunkTable` | `parse_table_section`, `Chunk`, `section_for` | recursive functions, no RECURSIVE |
| `ImageSource` | abstract contract of `read_at`: one atomic answer per call | abstract |
| `EwfReader` | the read path, eager and lazy | extends the two operator modules |
| `OpenV1` | `open_v1` | extends `ChunkTable` |
| `Verify` | `verify` | self-contained |
| `Recover` | `recover_segments` | extends `ChunkTable` |
| `IntegrityV1` | `analyse`, `analyse_with_progress` for EWF v1 | extends `ChunkTable` |
| `HashesV1` | `compute_hashes` for EWF v1, after `analyse` on the same image | extends `IntegrityV1` |
| `SegmentOrder` | `validate_and_reorder_segments` | operators only |
| `Ewf2Format` | the v2 container, as both its parsers see it | operators only |
| `OpenV2`, `IntegrityV2` | `open_segments_v2`; the v2 analysis and `compute_hashes_ewf2` | recursive functions only |
| `Ewf2` | composition: one v2 image under both programs | extends both |
| `SegmentDiscovery` | the five finders | extends `SegmentOrder` |
| `LogicalTree` | `find_ltree`, `parse_entry_tree`, `ls`, `read_entry` | recursive functions only |
| `ByteCursor` | abstract contract of `Read` and `Seek`: a position in an array, exact integers | abstract |
| `EwfCursor` | `Read` and `Seek` of the reader, with their word sizes | operators and actions |
| `Commands` | `main.rs`, `mcp.rs`, `handlers.rs`, `ewf_check.rs` | extends `EwfCursor` |
| `EwfReaderProofs`, `OpenV1Proofs`, `VerifyProofs`, `RecoverProofs`, `IntegrityV1Proofs`, `Ewf2Proofs`, `EvidenceProofs`, `CommandsProofs` | theorems; `EvidenceProofs` is about `SegmentDiscovery` and `LogicalTree` | |
| `MCEwfReader`, `MCOpenV1`, `MCVerify`, `MCRecover`, `MCIntegrityV1`, `MCEwf2`, `MCSegmentDiscovery`, `MCLogicalTree`, `MCCommands` | instances for TLC | |

### EwfReader

Each thread runs `read_at`.  One action is one block of code between two accesses to shared state:
`Call`; the loop test (`LoopEnd`, `LoopBody`); the probe under the page lock (`CacheHit`,
`CacheMiss`); the table lookup (`EagerGet`, `OutOfRange`; in the lazy table the probe under the
section lock `SectionHit`, `SectionHitPanics`, `SectionMiss`, the load without a lock
`LoadSection`, `LoadFails`, `LoadPanics`, and the insert `PutSection`); `Decompress`,
`DecompressFails`, `IoError`; the insert `PutPage`; `CopyOut`.  The image (segments, table,
geometry) is constant: nothing changes it once opened.  zlib is the constant operator `Inflate`.
A lookup past the end of a section that skipped entries panics, with the lock held on a hit: the
lock is poisoned and used on, as `PoisonError::into_inner` does.

### OpenV1

Variables are the locals of `open_v1`; each section handler is an action, with the failing cases
in `HandlerFails` (`?` fails the whole open).  An image is a sequence of segments whose `at` gives
the section that the bytes at an offset describe; `whole` says that the body can be read.  The
model opens an image eagerly, then lazily (`OpenLazy`), so that the two results can be compared.
Widths are kept: `OffsetBit` is the weight of bit 63, `SizeModulus` that of `as u32`.

### Verify

Pool threads take chunks of the batch in any order (`Take`, `Decompressed`, `Corrupt`); the caller
collects the batch or aborts, hashes page by page and goes on to the next batch.  A digest is the
stream that was hashed.  That decompression is a function of the chunk, whatever the caches hold,
is what `EwfReader` shows.

### Recover

The walk of each segment (`WalkShort`, `WalkDescriptor`), the geometry (`BadGeometry`,
`CreateOutput`), the chunk loop (`RecoverChunk`, `LoseChunk`, `EndChunks`), the tail (`FillTail`)
and `Finish`; creating and writing the output may fail at any point.  Segments carry real (small)
byte sequences, so that ranges, checksums and padding are computed and not assumed.

### IntegrityV1

The walk and the checks of each segment (`ShortSegment`, `OpenSegment`, `WalkEnds`,
`WalkDescriptor`, `CheckSegment`), the counts (`CheckTotals`), the chunk loop (`NextSegment`,
`ChunkFails`, `HashChunk`) and the comparison of the digests (`CompareHashes`).  The repository has
this code three times: `analyse_all_ewf1`, `analyse_all_ewf1_with_progress` and, for the hashing
alone, `compute_hashes_ewf1`.  The first two do the same, and the model's `progress` is what the
second delivers; the third is `HashesV1`.
Anomalies are a set of kinds with their segment and place; their order, their other fields and the
wrap of the expected segment number after 65 535 segments are left out.

`MCIntegrityV1` does the damage of `docs/anomaly-catalog.md` to a sound image, each kind alone and
together with each other kind, and `DamageReported` demands that each is reported.  `Hides` lists
the exceptions, which are the code's early exits: without a volume nothing is hashed, without a
table no entries are checked, an entry out of place ends the list of a segment's chunks, and so on.

### HashesV1

`compute_hashes_ewf1`, which `analyse_and_compute_hashes` calls once `analyse` has returned.  It takes
nothing over from `analyse`, so it has variables and actions of its own: it looks at the first segment
(`ComputeNone`, `ComputeHashes`), walks it (`WalkSection`) for the volume (`NoVolume`, `ReadVolume`),
then walks every segment (`NextWalk`, `StartLoop`) and feeds its hashers chunk by chunk (`NextList`,
`SkipChunk`, `FeedChunk`, `ReturnHashes`).  What it shares with `analyse` is what the code shares, as
operators of the segment and the list of sections: the end of a walk (`Stops`), whether a volume can be
read (`Readable`) and the ranges of `iter_segment_chunks` (`YieldsIn`, `EntryIn`, `ChunkEndIn`).  The
copies do differ: `analyse` passes over segments shorter than a file header and hashes an image whose
first segment has no signature, `compute_hashes` does neither.  `PassesAgree` says that nothing but the
second of these shows in the result.

### Ewf2: OpenV2 and IntegrityV2

`Ewf2Format` gives a segment's bytes and, for every offset, what they say when parsed as a
descriptor; the body lies in front.  `OpenV2` collects the list backward (`StartWalk`,
`WalkDescriptor`, `WalkFails`) and takes the sections in file order (`CaseSection`, `DeviceSection`,
`TableSection`, `HashSection`, `OtherSection`, all failures in `SectionFails`).  `IntegrityV2` checks
a segment on the way back (`WalkDescriptor2`), closes it (`CloseSegment`) and checks its chunks
(`CheckChunk`); `compute_hashes_ewf2` repeats both loops in a copy of its own, and `pass` tells which
of the two is running.  `MediaRead` is what the reader returns for the whole image, so that
`ToolsAgree` can compare it with what the analysis hashed.  It is stated for images where the two
parsers may be compared: links that go down, one table in a segment, hash sections in the last segment
only and one of a kind, tables and chunks inside the file (`Regular`), and chunks that fill their pages,
except the last, in a media of the size they add up to (`Filled`).  Outside of these the code differs:
the analysis takes the table that is first in the file where the reader takes all of them, reads a
64-bit chunk count where the reader reads 32 bits, keeps the hashes of the last segment where the
reader keeps the last it meets, and hashes a short chunk in the middle as it is where the reader pads
it.  Section type 2 is `CaseData` to the
reader and `MEDIA_INFO` to the analysis, type 10 is `RestartData` and `SHA256_HASH`: the model keeps
both readings.  Reading a path from the file system twice is not distinguished from reading it once.

### SegmentDiscovery

A directory is a function from names to the segment numbers in their headers.  `Glob` is the pattern
of `open` and of `sections`, `Found` and `Miss` the probing loop of the other three, which differ in
where they start, which alphabet they count in and what they recognise (`FirstProbe`, `Candidate`,
`Named`, `Recognised`).  `Sorted` puts each name behind those that sort before it, and `Validate` is the
check the reader makes afterwards.

### LogicalTree

The search through segments and sections, then the recursion of `parse_one` with its stack made
explicit: `ParseOne` makes an entry and calls for its sub-entries, `NoEntry` is a call at the end of
the text, `Return` the end of a loop.  `List` prints, `ReadNext` reads every entry.  A line is the
record of the values it is read for; decoding UTF-16 and splitting columns are left out.  Sizes are taken
from the evidence as the code takes them: a buffer longer than `MaxAlloc` ends the program
(`LtreeAborts`, `ReadAborts`), sums of sizes wrap at `Word` or panic, depending on whether the build
checks for overflow (`checked`), and a seek beyond an i64 fails.

### Commands and EwfCursor

One module for the programs: the server's loop (`SkipLine`, `AnswerLine`, `StartCall`,
`ServerStops`), the handlers that it shares with the command line (each opening, seek, buffer and
answer an action), and `ewf-check`, an argument at a time.  A read may fail (a bad chunk) and the disk
may be full.  What `verify` and the analysis find is taken from the image, since `Verify` and
`IntegrityV1` model how they find it; JSON, formatting and help texts are left out.  `EwfCursor` is the
position all of this goes through, with words of `2 * HalfWord` values; `ByteCursor` says what its callers may rely on, and
`CursorRefines` that they can.

## Runs

| run | question |
|---|---|
| `reader_lazy` | do both LRUs stay coherent, do failures stay with their cause and do reads return, when two threads race on a one-section cache over sections with skipped and missing entries and a poisoned lock? |
| `reader_eager` | are answers exact, and is the contract implemented, with I/O errors? |
| `open_v1` | order, index and agreement of both opens over all short section sequences; does every walk end? |
| `verify` | order, completeness and verdict of the parallel hash |
| `recover` | exact output, best copy, termination over all combinations of damage |
| `integrity_v1` | is all damage reported, is a clean report sound, is progress right, does `compute_hashes` agree, does it end? |
| `ewf2` | do the two v2 parsers agree, is all damage reported, are slices in bounds, does progress complete, do both return? |
| `discovery` | is a complete set found by all finders, and is a hole never crossed? |
| `logical` | is the tree sound, listed and read back, and does listing end? |
| `tools` | are matches, ranges, answers and exit codes right, and does the cursor implement its contract? |
| `open_stored_md5`, `recover_split` | statements of the sources that the code does not keep (below) |

Bounds.  The reader runs use two threads, chunks of two bytes, four or seven chunks and caches of
one or two entries: two threads are enough for every race between a probe and an insert, and a
cache of one entry is full at once.  `open_v1` enumerates every pair of sections from an alphabet
of fifteen after (and without) a volume, in a first segment that is passed second, and chains with
null, backward, circular and dangling links.  `verify` has five chunks, batches of three and two
threads: a full and a short batch, and more chunks than threads.  `recover` combines four chunk
states with six states of each table and three geometries (exact, under- and over-covering).
`integrity_v1` has 28 kinds of damage in pairs, all two-segment images of three chunks out of five
sorts (stored with checksum, whole stream, stream with too much, empty stream, broken stream) with
three media lengths and three set identifiers, a segment shorter than its header between two others,
seven links bent to eight places, thirteen truncations, and three sets of reference hashes.  `ewf2` has 15 kinds of damage in pairs, two
segments with three chunks of five sorts in either order, device sections with and without each
value, and every link, size and count of a sound image replaced.  `discovery` has two places in
digits and two in letters, so that a set goes over from one to the other, and every subset of them.
`logical` has all trees of up to four entries, eleven ways to store a file, texts cut off at every
line or with sub-counts from none to five, and, with words of 64 values and buffers of at most 31, an
`ltree` section and extents that are too large to allocate, to seek to, or to add up.  `tools` has words of four bits, so that every position and
distance at the ends of i64 and u64 is reached, buffers of two bytes and every image of seven bits
with every pattern of up to four, so that a match goes over one or two buffer ends, and every pair of
21 lines followed by a third.  Deadlock is not checked where the modelled code ends (all but the
reader runs); there, liveness (`OpenReturns`, `VerifyReturns`, `RecoveryEnds`, `AnalysisReturns`,
`BothReturn`, `ListingEnds`, `EveryLineAnswered`) says that it ends where it should.

Fairness.  A thread inside `read_at` keeps running: it waits only for locks that are held for a few
instructions, so weak fairness of each thread's steps is what an operating system gives.
`open_v1`, `recover_segments`, `analyse` and `compute_hashes`, the v2 programs, the logical tree and each command are
sequential and wait for nobody; the server waits for its input, which is a file that ends.  `verify`
assumes that some step of the pool or the caller is taken while one is possible, which is weaker than
fairness of each thread.

## Statements the code does not keep

- *An all-zero digest is an ABSENCE, not a value* (`reader.rs`): a digest section without an MD5
  replaces the MD5 of an earlier hash section by nothing (`open_stored_md5`).
- *it recovers every readable sector* (`recover.rs`): chunks of a segment's second table section are
  zero-filled (`recover_split`).

Met while reading, without a run of their own:

- *Both strategies MUST yield byte-identical Chunk metadata* (`chunk_table.rs:15`): an entry whose
  offset overflows u64 is skipped by the parser (`chunk_table.rs:73`); the eager ids after it move up,
  the lazy ones do not, and a lazy lookup of the last id panics; `TablesAgree` is stated for images
  without such entries and with the volume in front of the tables (`Regular`);
- *the three counts always add up to chunks_total* (`recover.rs:50`): not when more chunks are declared
  than the media needs (`recover.rs:487`);
- *bytes_recovered never counts zero-filled regions* (`recover.rs:74`): the padding of a chunk that
  decodes short is counted (`recover.rs:530`);
- *The analyser decompresses and hashes every chunk* (`README.md:348`): chunks of a segment's second
  table section are not hashed (`integrity.rs:1475`);
- *the resulting bounded offset is caught by downstream range checks* (`sections.rs:385`): an offset
  with bit 63 set is masked, and the masked offset may lie inside the segment;
- *Truncate the file after a specific section*, as a cause of `SectionChainBroken`
  (`docs/anomaly-catalog.md:64`): a link to the end of the file is accepted (`integrity.rs:1296`) and
  the walk stops there without that anomaly, though a missing done section is reported;
- *The chunk index identifies exactly which chunk is corrupt* (`integrity.rs:234`): chunks that could
  not be located are not counted (`integrity.rs:1576`), so the numbers after them are too small;
- *E01, E02, ... EZZ* (`integrity_path.rs:221`, `recover.rs:591`): neither finder goes over to letters, so
  `WholeSetFound` demands this of the other finders only (`Covers`);
- recovery that is given a segment other than the first lists it twice and never looks for the first
  (`recover.rs:595`); a logical set is found from its first segment only (`logical.rs:420`);
- `sections` with a bare file name looks for segments in the root directory, and jumps over holes
  (`handlers.rs:81`);
- the v2 progress counts the chunks of each segment anew (`integrity.rs:1833`); *a snapshot after
  each chunk is processed.  The final call has chunks_done == chunks_total* (`integrity.rs:556`): there is
  no call for a chunk that does not decompress (`integrity.rs:1821`), so if the last one fails the total
  is not reached; `ProgressCompletes` is stated for analyses without findings;
- a search pattern longer than 64 KiB and one byte is never found (`handlers.rs:199`); one that is cut
  inside a multi-byte character panics (`handlers.rs:154`), which ends the server;
- a duplicate whose content starts at offset 0 of the media is read as its placeholder byte
  (`logical.rs:606`); a sub-count of up to 2^64 is counted down with no text left (`logical.rs:202`);
- an `ltree` section and a file's extents are allocated as long as they are declared, before anything is
  read (`logical.rs:348`, `609`, `623`, `628`): a size that is larger than memory ends the program instead
  of giving an error; the sum of the extents may wrap (`logical.rs:600`), and an entry of large extents is
  then taken for a duplicate, or a sparse extent shortens what was read before it (`logical.rs:623`);
- each `error2` section replaces the acquisition errors of the one before it (`reader.rs:617`), and the
  kind of an image is that of the first source passed, not of segment 1 (`reader.rs:647`); no document
  says what is meant;
- a volume body that is too short gives no geometry and no anomaly of its own, and then no hash is
  checked (`integrity.rs:1336`): `CleanIsSound` is stated for images whose geometry could be read;
- positions are i64: an image of 2^63 bytes or more could not be sought from its end
  (`reader.rs:1215`).

## Proofs

Each theorem module EXTENDS the modules it is about, and proves `Inductive` (or `Invariant`: it holds
initially and every step keeps it) before it draws the consequences.  `IInv` has what is needed of the
types as its first part; TLC checked it on the instances of the runs before it was proved.

| module | theorems |
|---|---|
| `EwfReaderProofs` | `TypeCorrect`, `CachesStayBounded`, `PagesCoherent`, `SectionsCoherent`, `ReadsExact`, `FailuresOwn`, `ImplementsImageSource`; its first part is about `LruCache`: what `Put` and `Promote` keep |
| `OpenV1Proofs` | `TypeCorrect`, `ChainsAscend`, `IndexIsConsecutive`, `SegmentsOrdered`, `LazyOpens`, `TablesSame` |
| `VerifyProofs` | `TypeCorrect`, `HashesInOrder`, `ReportsErrors`, `SoundVerdict`, `HoldsOneBatch` |
| `RecoverProofs` | `TypeCorrect`, `AccountsForBytes`, `AccountsForChunks`, `OutputIsExact`, `WritesBestCopies` |
| `IntegrityV1Proofs` | `TypeCorrect`, `ProgressIsExact`, `ProgressNeverBack`, `HashesOnlyMedia`, `CleanReportsSound`, `HashPassesAgree` |
| `Ewf2Proofs` | `HashSlicesFit`, `ProgressIsComplete`, `ToolsSeeTheSame` |
| `EvidenceProofs` | `Invariant`, `WholeSets`, `HolesNeverCrossed`; `TreeIsSound`, `TreeIsListed` |
| `CommandsProofs` | `Invariant`, `RangesAreExact`, `SearchesFindAll`, `ExitsTellVerdict`, `CursorImplemented` |

Assumptions, all named and evaluated by TLC on its instances: `WidthAssumption` and `WordAssumption`
(the weights of bits, the word and the chunk size are positive), `ReaderAssumption` (positive chunk
size and cache capacities, which `LruCache::new` demands of its `NonZeroUsize`), `ImageAssumption` and
`IndexAssumption` (what an open image looks like; the index part is the conclusion of
`IndexIsConsecutive` in `OpenV1Proofs`), `OpenAssumption`, `VerifyAssumption`, `RecoverAssumption` and
`IntegrityAssumption` (the images are well-typed data, of any damage), `SizesAssumption` and
`ImagesAssumption` (no digest is longer than a v2 file header; a v2 segment is a file shorter than an
offset can say, of any content, in which every place can be parsed as a descriptor), `DiscoveryAssumption` (a
directory has finitely many names, each of the form of the scheme) and `SessionAssumption` (offsets
and lengths are words, bytes are bytes, an extraction has a length, as the programs' argument parsing
demands, and the image is smaller than 2^63 bytes, since positions are i64).

Why the invariants need strengthening.  In `EwfReader` a thread holds values it took out of a cache
long before: `ThreadInv` says, for each program point, what its locals still mean although the
caches have moved on (a chunk in hand is the table's chunk, a page in hand is that chunk's bytes,
the buffer filled so far is a prefix of the answer).  Refinement of `ImageSource` then maps the
step that leaves `read_at` to the one abstract answer and every other step to a stutter.

In `OpenV1` a chain is ascending only because the next descriptor to be read lies behind those already
read, and the index is consecutive because the next id lies behind every section so far.  `LazyOpens`
and `TablesSame` compare the results of two executions of the same walk.  The walk takes the same
places in both modes, so the proof follows the lazy one beside the eager one that came before: what
the eager open has left when it is done is described, place by place, by a trace that the lazy open is
shown to follow step by step; a section parsed on demand is then the piece of the eager table that was
pushed at the same place.

In `Verify` the stream that was hashed is described by the boundary between the pages already fed and
those still in the batch.  In `Recover` nothing has been written before the geometry is known, and
afterwards the length of the output is the sum of what the counters say.  For `WritesBestCopies` one
must also know where the output stands (`OutputPlaced`: chunk `idx` is written at `idx` chunk sizes, or
at the end of the media; the tail only adds behind), that the running totals of `locate_chunk` never
fall, so that at most one segment holds a chunk, and that a copy with a good checksum is always one
that was found.

In `IntegrityV1` a clean report vouches for the whole image only because, at every point of the walk,
an empty list vouches for the part walked so far (`CleanSoFar`): each segment's sections join without a
gap, and the next descriptor starts no later than the last one's end.  Progress is exact because what
remains of the media is, in the first pass, a function of the number of chunks processed
(`RemainingExact`), and nothing is counted before the geometry is known.  `HashPassesAgree` is about two
copies of the hashing, each with variables of its own.  The lists of sections agree because a walk is
determined by its segment: `analyse` is left with lists in which every section is the one the section
before it leads to and which end where the walk stops (`WalkInv`), and what `compute_hashes` has walked
of a segment is a beginning of that list (`Part`), so that it is the whole of it when its own walk is
over.  A segment without a whole file header, which only one of them walks, has no sections in either
(`WalkStarts`).  The volume then gives both the same chunk size and the same length.  For the loops: a
place (where a loop stands in the segments, what remains of the media, what was hashed) has at most one
place after it (`After`), for given lists and a given chunk size, and each loop is shown to take that
step (`LoopMoves` for the actions of `analyse`, `CopyMoves` for those of `compute_hashes`).  Once
`analyse` is over, every set of places that holds the start and is closed under that step holds an end
with the digest of `analyse` (`LeadsTo`); the same stays true of every place `compute_hashes` reaches
(`Following`), and at its end that set can be the end alone.  No induction on the number of steps is
needed.  This invariant quantifies over sets of places, so TLC cannot evaluate it; it checks
`PassesAgree` itself.

In `Ewf2` everything is about the list of a segment, which the two programs follow with code of their
own: `Listed` is the least set that holds the last descriptor and goes on where a link goes down.  The
analysis stays on it (`CheckSound`), so the table it has found is a table of the list and a body that
is sliced has at least a file header in front of it; progress then ends at the total because, with
tables in place, the loop ends at the table's count.  `ToolsSeeTheSame` follows three things side by
side.  The analysis, as long as it has found nothing, has noted every descriptor above its offset and
has unpacked every chunk behind it (`AnalysisSound`).  The reader's list is `Listed` when it starts on a
segment's sections, so its chunks are the entries of the tables of the segments in order
(`ChunksSound`), and its digests come from hash sections of some list (`StoredSound`).  And what has
been hashed is the pages of the chunks passed, in that order, with only the media's last page cut short
(`HashedSound`): a page starts with what its chunk unpacks to (`PageOf`), although the reader takes the
checksum along where the analysis leaves it out.  `HashedSound` speaks of every numbering of the chunks
and every running concatenation of the pages; that there are such functions is shown at the end.  The
numbering and the concatenation range over all functions, so TLC checks `AnalysisSound` and `ToolsAgree`
and not this invariant.

In `SegmentDiscovery` a probing finder holds nothing but its path and names it has met, has met every
place before the next one, and on a set it covers holds exactly the set's first files.  `open` and `list`
sort: that on a complete set the i-th name is the i-th file rests on counting the names before it.

In `LogicalTree` a new entry has an earlier parent only because every call on the stack stands for an
entry that exists, or for the root; this holds for any evidence, and the theorem has no assumption.
`TreeIsListed` is about any tree that the text holds (`Describes`): after m entries each call still has to
make as many calls as its parent has sub-entries among those to come, inner calls have later parents, and
what is to come belongs to these parents or to entries to come (`Calls`).  The next entry's parent is
therefore on the stack, preorder excludes all but the innermost, and when the stack is empty no entry is
left out.  That the paths of `ls` are well defined rests on parents coming first.  The run also checks
that the evidence TLC is given does hold the acquired trees (`EntryReadExact`), so that `Describes` is no
empty hypothesis.

In `Commands` the search loop keeps a window (`SearchOK`): every match that ends in front of the next
buffer has been found, and the bytes carried over are the last ones in front of it, one fewer than the
pattern has, so that a match of the next window ends behind it.  Extraction keeps its output, its
position and what is left in step (`RangeOK`), and an answer stays true until the next extraction begins
(`AnswersExact`).  `CursorImplemented` needs that a position never leaves i64: then `as i64` is the
identity on it, and a sum that wraps around is negative exactly when the exact one is outside i64.

What a recursive function computes (`ParseTableSection`, `HitsIn`, `ChunksThrough`) is proved for every
input from the principle that a set of numbers that is not empty has a least element (lemma `Least`): the
least place where the claim fails has a place before it where the claim holds.  This takes the place of
the induction theorems of the library, whose operator parameters the provers cannot instantiate.

Only model-checked: liveness (`ReadReturns`, `OpenReturns`, `VerifyReturns`, `GoodImageVerifies`,
`RecoveryEnds`, `AnalysisReturns`, `BothReturn`, `ListingEnds`, `EveryLineAnswered`), which is beyond
this prover; and `DamageReported` and `EntryReadExact`, which are about the images their MC modules
build.

## Not modelled

- Text parsing of headers and of `error2` records (`parse.rs`): pure functions of bytes without state;
  `OpenV1` has when they are called and which result replaces which.
- Splitting the lines and columns of an `ltree` text and decoding its UTF-16.
- JSON, formatting, colours and help texts of the programs; argument parsing by `clap`.
- The contents of zlib streams, MD5, SHA-1, SHA-256 and Adler-32: constant operators, or the stream
  that was hashed.
- Changes to the files while they are read, except that `ewf-check --print-hashes` may find them gone.
