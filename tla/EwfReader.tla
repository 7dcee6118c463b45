------------------------------ MODULE EwfReader ------------------------------
(***************************************************************************)
(* The concurrent read path of core/src/reader.rs over an opened image:    *)
(* many threads call read_at(&self) on one EwfReader.  Each call loops     *)
(* over the chunks its range covers; a chunk comes from the page LRU or    *)
(* is located (eager table, or lazy table with its own section LRU) and    *)
(* decompressed with no lock held, then put into the page LRU.             *)
(*                                                                         *)
(* Segments, table and geometry are constants: the image is immutable once *)
(* opened.  Each Mutex guards one block of the code, so each block is one  *)
(* action; everything between two blocks interleaves freely.               *)
(***************************************************************************)
EXTENDS ChunkTable, LruCache

CONSTANTS
  Threads,     \* callers of read_at
  Requests,    \* the (offset, buf.len()) pairs they pass
  ChunkSize, TotalSize,
  CacheSize, SectionCacheSize,   \* capacities of the two LRUs
  Segments,    \* sequence of segments, each a sequence of bytes
  Lazy,        \* ChunkTable::Lazy or ChunkTable::Eager
  Chunks,      \* the eager table
  Index,       \* the lazy index: SectionMeta plus the entries its segment holds
  Byte,
  Inflate(_),  \* zlib, asked for a page: [ok, bytes it produced]
  IoErrors     \* whether positioned reads may fail

Page == [1..ChunkSize -> Byte]

ASSUME ReaderAssumption ==
  /\ ChunkSize \in Nat \ {0}
  /\ TotalSize \in Nat
  /\ CacheSize \in Nat \ {0}
  /\ SectionCacheSize \in Nat \ {0}
  /\ Requests \subseteq [off : Nat, len : Nat]
  /\ Lazy \in BOOLEAN
  /\ IoErrors \in BOOLEAN
  /\ Chunks \in Seq(Chunk)
  /\ Index \in Seq([first_chunk_id : Nat, entry_count : Nat, segment_idx : Nat,
                    base_offset : Nat, sectors_data_end : Nat \union {None},
                    entries : Seq([comp : BOOLEAN, off : Nat])])
  /\ 0 \in Byte

\* Open numbers the sections' chunks consecutively, so the index is sorted.
ASSUME IndexAssumption ==
  \A p, q \in DOMAIN Index :
    p <= q => Index[p].first_chunk_id <= Index[q].first_chunk_id

VARIABLES
  pc,        \* where each thread is in read_at
  req,       \* its arguments
  off, buf,  \* `off` and buf[..buf_idx]
  chunk,     \* the located Chunk
  section,   \* a parsed table section not yet cached
  page,      \* the decoded page
  reply,     \* how its last call ended
  cache,     \* the page LRU
  sections,  \* the lazy table's section LRU
  poisoned   \* a thread panicked while holding the section LRU's lock

locals == <<req, off, buf, chunk, section, page, reply>>
vars == <<pc, locals, cache, sections, poisoned>>

----------------------------------------------------------------------------
(* The image, as the code computes it.                                     *)

\* SegmentSource::read_at: up to n bytes, short only at the segment's end.
SegmentBytes(seg, o, n) ==
  SubSeq(Segments[seg], o + 1, SmallerOf(o + n, Len(Segments[seg])))

\* decompress_chunk's page starts as zeros and receives what was produced.
Padded(bytes) == [i \in 1..ChunkSize |-> IF i <= Len(bytes) THEN bytes[i] ELSE 0]

\* decompress_chunk after the table lookup.  A compressed chunk fails only on a
\* corrupt stream; an uncompressed one fails on a short read.
Decompressed(c) ==
  LET to_read  == SmallerOf(c.size, ChunkSize)
      raw      == SegmentBytes(c.seg, c.off, to_read)
      inflated == Inflate(SegmentBytes(c.seg, c.off, c.size))
  IN  IF c.seg \notin DOMAIN Segments
      THEN [ok |-> FALSE, page |-> Padded(<<>>)]
      ELSE IF c.comp
           THEN [ok |-> inflated.ok, page |-> Padded(inflated.bytes)]
           ELSE [ok |-> Len(raw) = to_read, page |-> Padded(raw)]

\* A lazy section can be read when its segment exists and holds all the entries
\* its header declares.
SectionReadable(pos) ==
  /\ Index[pos].segment_idx \in DOMAIN Segments
  /\ Index[pos].entry_count <= Len(Index[pos].entries)

ParsedSection ==
  [pos \in DOMAIN Index |->
     ParseTableSection(Index[pos].entries, Index[pos].entry_count, Index[pos].base_offset,
                       Index[pos].segment_idx, ChunkSize, Index[pos].sectors_data_end)]

\* 1-based position of a chunk in its section: `section[local]`.
Local(pos, id) == id - Index[pos].first_chunk_id + 1

\* What parsing and decoding yield for the sections and chunks of this image has
\* the right shape.
TableChunks ==
  IF Lazy THEN UNION {{ParsedSection[p][i] : i \in DOMAIN ParsedSection[p]} : p \in DOMAIN Index}
          ELSE {Chunks[i] : i \in DOMAIN Chunks}

ASSUME ImageAssumption ==
  /\ \A p \in DOMAIN Index : ParsedSection[p] \in Seq(Chunk)
  /\ \A c \in TableChunks : Decompressed(c).ok \in BOOLEAN /\ Decompressed(c).page \in Page

----------------------------------------------------------------------------
(* read_at, one action per step between two accesses to shared state.      *)

Init ==
  /\ pc = [t \in Threads |-> "idle"]
  /\ req = [t \in Threads |-> [off |-> 0, len |-> 0]]
  /\ off = [t \in Threads |-> 0]
  /\ buf = [t \in Threads |-> <<>>]
  /\ chunk = [t \in Threads |-> NewChunk(0, FALSE, 0, 0)]
  /\ section = [t \in Threads |-> <<>>]
  /\ page = [t \in Threads |-> Padded(<<>>)]
  /\ reply = [t \in Threads |-> "none"]
  /\ cache = <<>>
  /\ sections = <<>>
  /\ poisoned = FALSE

Goto(t, from, to) == pc[t] = from /\ pc' = [pc EXCEPT ![t] = to]

\* The locals of read_chunk and below go out of scope.
EndOfScope(t) ==
  /\ chunk' = [chunk EXCEPT ![t] = NewChunk(0, FALSE, 0, 0)]
  /\ section' = [section EXCEPT ![t] = <<>>]
  /\ page' = [page EXCEPT ![t] = Padded(<<>>)]

\* The call returns (an Err or a panic leaves through `?` or by unwinding).
Return(t, from, how) ==
  /\ Goto(t, from, "idle")
  /\ reply' = [reply EXCEPT ![t] = how]
  /\ EndOfScope(t)
  /\ UNCHANGED <<req, off, buf>>

Call(t, r) ==
  /\ Goto(t, "idle", "loop")
  /\ req' = [req EXCEPT ![t] = r]
  /\ off' = [off EXCEPT ![t] = r.off]
  /\ buf' = [buf EXCEPT ![t] = <<>>]
  /\ reply' = [reply EXCEPT ![t] = "none"]
  /\ UNCHANGED <<chunk, section, page, cache, sections, poisoned>>

PageOffset(t) == off[t] % ChunkSize

ToRead(t) ==
  SmallerOf(SmallerOf(ChunkSize - PageOffset(t), SatSub(TotalSize, off[t])),
            req[t].len - Len(buf[t]))

ChunkId(t) == off[t] \div ChunkSize

LoopEnd(t) ==
  /\ Return(t, "loop", "ok")
  /\ ToRead(t) = 0
  /\ UNCHANGED <<cache, sections, poisoned>>

LoopBody(t) ==
  /\ Goto(t, "loop", "probe")
  /\ ToRead(t) # 0
  /\ UNCHANGED <<locals, cache, sections, poisoned>>

\* read_chunk: the probe under the page LRU's lock.
CacheHit(t) ==
  /\ Goto(t, "probe", "copy")
  /\ ChunkId(t) \in Keys(cache)
  /\ page' = [page EXCEPT ![t] = ValueOf(cache, ChunkId(t))]
  /\ cache' = Promote(cache, ChunkId(t))
  /\ UNCHANGED <<req, off, buf, chunk, section, reply, sections, poisoned>>

CacheMiss(t) ==
  /\ Goto(t, "probe", "lookup")
  /\ ChunkId(t) \notin Keys(cache)
  /\ UNCHANGED <<locals, cache, sections, poisoned>>

\* ChunkTable::get on the flat table.
EagerGet(t) ==
  /\ Goto(t, "lookup", "decode")
  /\ ~Lazy
  /\ ChunkId(t) < Len(Chunks)
  /\ chunk' = [chunk EXCEPT ![t] = Chunks[ChunkId(t) + 1]]
  /\ UNCHANGED <<req, off, buf, section, page, reply, cache, sections, poisoned>>

\* Mutant: a poisoned section lock is an error for everyone who comes after.
OutOfRangeOrPoisoned(t) ==
  /\ Return(t, "lookup", "err")
  /\ IF Lazy THEN SectionFor(Index, ChunkId(t)) = None \/ poisoned
             ELSE ChunkId(t) >= Len(Chunks)
  /\ UNCHANGED <<cache, sections, poisoned>>

\* Either table: the id is out of range.
OutOfRange(t) ==
  /\ Return(t, "lookup", "err")
  /\ IF Lazy THEN SectionFor(Index, ChunkId(t)) = None ELSE ChunkId(t) >= Len(Chunks)
  /\ UNCHANGED <<cache, sections, poisoned>>

\* LazyChunkTable::get: the probe under the section LRU's lock.  A poisoned lock
\* is recovered, so it stops nobody.
SectionHit(t) ==
  LET pos == SectionFor(Index, ChunkId(t))
  IN  /\ Goto(t, "lookup", "decode")
      /\ Lazy
      /\ pos # None
      /\ pos \in Keys(sections)
      /\ Local(pos, ChunkId(t)) <= Len(ValueOf(sections, pos))
      /\ chunk' = [chunk EXCEPT ![t] = ValueOf(sections, pos)[Local(pos, ChunkId(t))]]
      /\ sections' = Promote(sections, pos)
      /\ UNCHANGED <<req, off, buf, section, page, reply, cache, poisoned>>

\* `section[local]` past the end of a section that skipped entries: a panic with
\* the lock held.
SectionHitPanics(t) ==
  LET pos == SectionFor(Index, ChunkId(t))
  IN  /\ Return(t, "lookup", "panic")
      /\ Lazy
      /\ pos # None
      /\ pos \in Keys(sections)
      /\ Local(pos, ChunkId(t)) > Len(ValueOf(sections, pos))
      /\ sections' = Promote(sections, pos)
      /\ poisoned' = TRUE
      /\ UNCHANGED cache

\* Mutant: nobody can take a poisoned lock any more.
SectionMissUnpoisoned(t) ==
  LET pos == SectionFor(Index, ChunkId(t))
  IN  /\ Goto(t, "lookup", "load")
      /\ Lazy
      /\ pos # None
      /\ pos \notin Keys(sections)
      /\ ~poisoned
      /\ UNCHANGED <<locals, cache, sections, poisoned>>

SectionMiss(t) ==
  LET pos == SectionFor(Index, ChunkId(t))
  IN  /\ Goto(t, "lookup", "load")
      /\ Lazy
      /\ pos # None
      /\ pos \notin Keys(sections)
      /\ UNCHANGED <<locals, cache, sections, poisoned>>

\* The cache miss, no lock held: read and parse the section, pick the chunk.
LoadSection(t) ==
  LET pos == SectionFor(Index, ChunkId(t))
  IN  /\ Goto(t, "load", "cache_section")
      /\ SectionReadable(pos)
      /\ Local(pos, ChunkId(t)) <= Len(ParsedSection[pos])
      /\ section' = [section EXCEPT ![t] = ParsedSection[pos]]
      /\ chunk' = [chunk EXCEPT ![t] = ParsedSection[pos][Local(pos, ChunkId(t))]]
      /\ UNCHANGED <<req, off, buf, page, reply, cache, sections, poisoned>>

LoadFails(t) ==
  LET pos == SectionFor(Index, ChunkId(t))
  IN  /\ Return(t, "load", "err")
      /\ ~SectionReadable(pos)
      /\ UNCHANGED <<cache, sections, poisoned>>

LoadPanics(t) ==
  LET pos == SectionFor(Index, ChunkId(t))
  IN  /\ Return(t, "load", "panic")
      /\ SectionReadable(pos)
      /\ Local(pos, ChunkId(t)) > Len(ParsedSection[pos])
      /\ UNCHANGED <<cache, sections, poisoned>>

\* Mutant: the section is filed under the chunk's id.
PutSectionByChunk(t) ==
  /\ Goto(t, "cache_section", "decode")
  /\ sections' = Put(sections, ChunkId(t), section[t], SectionCacheSize)
  /\ UNCHANGED <<locals, cache, poisoned>>

PutSection(t) ==
  /\ Goto(t, "cache_section", "decode")
  /\ sections' = Put(sections, SectionFor(Index, ChunkId(t)), section[t], SectionCacheSize)
  /\ UNCHANGED <<locals, cache, poisoned>>

Decompress(t) ==
  /\ Goto(t, "decode", "put")
  /\ Decompressed(chunk[t]).ok
  /\ page' = [page EXCEPT ![t] = Decompressed(chunk[t]).page]
  /\ UNCHANGED <<req, off, buf, chunk, section, reply, cache, sections, poisoned>>

\* Mutant: the page is cached before its error is looked at.
DecompressFailsCached(t) ==
  /\ Return(t, "decode", "err")
  /\ ~Decompressed(chunk[t]).ok
  /\ cache' = Put(cache, ChunkId(t), Padded(<<>>), CacheSize)
  /\ UNCHANGED <<sections, poisoned>>

\* Mutant: a failure in the middle of the range is a short read.
DecompressFailsShort(t) ==
  /\ Return(t, "decode", IF buf[t] = <<>> THEN "err" ELSE "ok")
  /\ ~Decompressed(chunk[t]).ok
  /\ UNCHANGED <<cache, sections, poisoned>>

DecompressFails(t) ==
  /\ Return(t, "decode", "err")
  /\ ~Decompressed(chunk[t]).ok
  /\ UNCHANGED <<cache, sections, poisoned>>

\* A positioned read fails and `?` hands the error to the caller.
IoError(t) ==
  /\ IoErrors
  /\ \E from \in {"load", "decode"} : Return(t, from, "err")
  /\ UNCHANGED <<cache, sections, poisoned>>

\* read_chunk: the insert under the page LRU's lock.
PutPage(t) ==
  /\ Goto(t, "put", "copy")
  /\ cache' = Put(cache, ChunkId(t), page[t], CacheSize)
  /\ UNCHANGED <<locals, sections, poisoned>>

\* Mutant: every chunk is copied from its start.
CopyOutFromStart(t) ==
  /\ Goto(t, "copy", "loop")
  /\ buf' = [buf EXCEPT ![t] = @ \o SubSeq(page[t], 1, ToRead(t))]
  /\ off' = [off EXCEPT ![t] = @ + ToRead(t)]
  /\ EndOfScope(t)
  /\ UNCHANGED <<req, reply, cache, sections, poisoned>>

\* copy_from_slice, and the loop's `off` and `buf_idx`.
CopyOut(t) ==
  /\ Goto(t, "copy", "loop")
  /\ buf' = [buf EXCEPT ![t] =
               @ \o SubSeq(page[t], PageOffset(t) + 1, PageOffset(t) + ToRead(t))]
  /\ off' = [off EXCEPT ![t] = @ + ToRead(t)]
  /\ EndOfScope(t)
  /\ UNCHANGED <<req, reply, cache, sections, poisoned>>

Step(t) ==
  \/ LoopEnd(t) \/ LoopBody(t)
  \/ CacheHit(t) \/ CacheMiss(t)
  \/ EagerGet(t) \/ OutOfRange(t)
  \/ SectionHit(t) \/ SectionHitPanics(t) \/ SectionMiss(t)
  \/ LoadSection(t) \/ LoadFails(t) \/ LoadPanics(t) \/ PutSection(t)
  \/ Decompress(t) \/ DecompressFails(t) \/ IoError(t)
  \/ PutPage(t) \/ CopyOut(t)

Next == \E t \in Threads : Step(t) \/ (\E r \in Requests : Call(t, r))

\* A thread inside read_at keeps running: it waits for nothing but two locks held
\* for a few instructions.
Fairness == \A t \in Threads : WF_vars(Step(t))

SafetySpec == Init /\ [][Next]_vars
Spec == SafetySpec /\ Fairness

----------------------------------------------------------------------------
(* What a read must return: the image as a function of its constants.      *)

\* The chunk a table lookup yields, and how the lookup ends.
Located(id) ==
  LET pos == SectionFor(Index, id)
  IN  IF ~Lazy
      THEN IF id < Len(Chunks) THEN "ok" ELSE "err"
      ELSE IF pos = None \/ ~SectionReadable(pos) THEN "err"
      ELSE IF Local(pos, id) <= Len(ParsedSection[pos]) THEN "ok" ELSE "panic"

ChunkOf(id) ==
  LET pos == SectionFor(Index, id)
  IN  IF Lazy THEN ParsedSection[pos][Local(pos, id)] ELSE Chunks[id + 1]

Readable(id) == Located(id) = "ok" /\ Decompressed(ChunkOf(id)).ok

PageOf(id) == Decompressed(ChunkOf(id)).page

\* Byte o of the image.
ImageByte(o) == PageOf(o \div ChunkSize)[(o % ChunkSize) + 1]

\* The bytes a read of n at o covers: short only at the end of the image.
CoveredLen(r) == SmallerOf(r.len, SatSub(TotalSize, r.off))
ImageBytes(r) == [i \in 1..CoveredLen(r) |-> ImageByte(r.off + i - 1)]
CoveredChunks(r) == {(r.off + i) \div ChunkSize : i \in 0..CoveredLen(r) - 1}

\* The contract of read_at, which knows nothing of caches, tables or locks.
Abstract == INSTANCE ImageSource WITH
  pending <- [t \in Threads |-> pc[t] # "idle"],
  data <- [t \in Threads |-> IF pc[t] = "idle" /\ reply[t] = "ok" THEN buf[t] ELSE <<>>]

----------------------------------------------------------------------------
(* Properties.                                                             *)

TypeOK ==
  /\ pc \in [Threads -> {"idle", "loop", "probe", "lookup", "load", "cache_section",
                         "decode", "put", "copy"}]
  /\ req \in [Threads -> [off : Nat, len : Nat]]
  /\ off \in [Threads -> Nat]
  /\ buf \in [Threads -> Seq(Byte)]
  /\ chunk \in [Threads -> Chunk]
  /\ section \in [Threads -> Seq(Chunk)]
  /\ page \in [Threads -> Page]
  /\ reply \in [Threads -> {"none", "ok", "err", "panic"}]
  /\ cache \in Seq([key : Nat, val : Page])
  /\ sections \in Seq([key : Nat, val : Seq(Chunk)])
  /\ poisoned \in BOOLEAN

\* Whatever the interleaving of probes, decompressions and inserts, a page in the
\* LRU is the page of the chunk it is filed under, and only pages of chunks that
\* really decode are there (read_chunk fills the cache after `?`).
PageCacheCoherent ==
  \A i \in DOMAIN cache :
    Readable(cache[i].key) /\ cache[i].val = PageOf(cache[i].key)

\* The same of the lazy table's section LRU: a cached section is the parse of the
\* section it is filed under, also after a thread panicked with the lock held.
SectionCacheCoherent ==
  \A i \in DOMAIN sections :
    /\ sections[i].key \in DOMAIN Index
    /\ SectionReadable(sections[i].key)
    /\ sections[i].val = ParsedSection[sections[i].key]

\* Two threads that miss on the same chunk both insert it: no key is ever twice
\* in an LRU and neither LRU outgrows its capacity.
CachesBounded ==
  /\ WellFormed(cache, CacheSize)
  /\ WellFormed(sections, SectionCacheSize)

\* A read that returns Ok returned exactly the image's bytes at its offset, short
\* only at the end of the image ("Returns the number of bytes read (short only at
\* end of image)", read_at), whatever other threads did meanwhile.
ReadIsExact ==
  \A t \in Threads :
    pc[t] = "idle" /\ reply[t] = "ok" => buf[t] = ImageBytes(req[t])

\* A read fails only for a reason inside its own range: some chunk it covers is
\* unreadable, or a positioned read failed.  A failure of another thread's chunk
\* (even a panic that poisons the lock) is never the reason.
FailureIsOwn ==
  \A t \in Threads :
    pc[t] = "idle" /\ reply[t] \in {"err", "panic"} =>
      \/ IoErrors /\ reply[t] = "err"
      \/ \E id \in CoveredChunks(req[t]) : ~Readable(id)

\* Every call returns: the chunk loop makes progress and no lock, poisoned or
\* not, holds a thread up.
ReadReturns == \A t \in Threads : pc[t] # "idle" ~> pc[t] = "idle"

\* The read path implements the one-step contract of ImageSource.
Refinement == Abstract!SafetySpec

\* What is known of a thread at each point of read_at: the bytes copied so far
\* are the image's, and what it holds is what the table and the segments say of
\* the chunk it is at.
ThreadInv(t) ==
  /\ pc[t] # "idle" =>
       /\ reply[t] = "none"
       /\ off[t] = req[t].off + Len(buf[t])
       /\ Len(buf[t]) <= CoveredLen(req[t])
       /\ \A i \in 1..Len(buf[t]) :
            /\ Readable((req[t].off + i - 1) \div ChunkSize)
            /\ buf[t][i] = ImageByte(req[t].off + i - 1)
  /\ pc[t] \notin {"idle", "loop"} => Len(buf[t]) < CoveredLen(req[t])
  /\ pc[t] \in {"load", "cache_section"} =>
       Lazy /\ SectionFor(Index, ChunkId(t)) # None
  /\ pc[t] = "cache_section" =>
       /\ SectionReadable(SectionFor(Index, ChunkId(t)))
       /\ section[t] = ParsedSection[SectionFor(Index, ChunkId(t))]
  /\ pc[t] \in {"cache_section", "decode"} =>
       Located(ChunkId(t)) = "ok" /\ chunk[t] = ChunkOf(ChunkId(t))
  /\ pc[t] \in {"put", "copy"} =>
       Readable(ChunkId(t)) /\ page[t] = PageOf(ChunkId(t))
  /\ pc[t] = "idle" /\ reply[t] = "ok" =>
       /\ buf[t] = ImageBytes(req[t])
       /\ \A id \in CoveredChunks(req[t]) : Readable(id)
  /\ pc[t] = "idle" /\ reply[t] \in {"err", "panic"} =>
       \/ IoErrors /\ reply[t] = "err"
       \/ \E id \in CoveredChunks(req[t]) : ~Readable(id)

\* The inductive invariant: every thread's claim, and both LRUs bounded and
\* coherent.
IInv ==
  /\ TypeOK
  /\ CachesBounded
  /\ PageCacheCoherent
  /\ SectionCacheCoherent
  /\ \A t \in Threads : ThreadInv(t)
=============================================================================
