------------------------------ MODULE Recover ------------------------------
(***************************************************************************)
(* Tolerant recovery (forensic/src/recover.rs): every segment's section    *)
(* chain is walked as far as it goes, then each chunk the geometry         *)
(* declares is decoded from the primary table, from table2, or zero-filled,*)
(* and written to the output in order; the rest of the image is zeros.     *)
(*                                                                         *)
(* A segment is [signature, bytes, at]; `at` gives the section that the    *)
(* bytes at an offset describe.  A section's `whole` says that its body or *)
(* table header can be read, and `entries` is the entries the segment      *)
(* holds.  The walk and the chunk loop are steps because the output may    *)
(* fail between two of them.                                               *)
(***************************************************************************)
EXTENDS ChunkTable

CONSTANTS
  Images,          \* sequences of mapped segments
  Byte,
  FileHeaderSize, DescriptorSize, CrcSize,
  MaxChunkSize,
  Inflate(_),      \* zlib, asked for a chunk and one byte: [ok, bytes it produced]
  Adler(_),        \* adler32 of a chunk, as the CrcSize bytes stored after it
  WriteErrors      \* whether writing the output may fail

VARIABLES
  image, pc,
  seg,        \* the segment being walked
  pos,        \* the offset of its next descriptor
  sections,   \* all_sections: what each walked segment's chain held
  truncation, \* truncation_offset
  geom,       \* chunk_size, image_size and total_chunks
  tables,     \* primary, fallback, sec_ends and seg_entry_counts
  idx,        \* the next chunk
  remaining,  \* bytes_remaining
  out,        \* the output file
  recovered_primary, recovered_table2, zero_filled, crc_flagged,
  bytes_recovered, bytes_zero_filled,
  lost_chunks, crc_flagged_chunks

walk == <<seg, pos, sections, truncation>>
counts == <<recovered_primary, recovered_table2, zero_filled, crc_flagged,
            bytes_recovered, bytes_zero_filled, lost_chunks, crc_flagged_chunks>>
vars == <<image, pc, walk, geom, tables, idx, remaining, out, counts>>

TableEntry == [comp : BOOLEAN, off : Nat]

Section ==
  [type : STRING, next : Nat, size : Nat, whole : BOOLEAN,
   sectors_per_chunk : Nat, bytes_per_sector : Nat, sector_count : Nat, chunk_count : Nat,
   entry_count : Nat, base_offset : Nat, entries : Seq(TableEntry)]

ASSUME RecoverAssumption ==
  /\ FileHeaderSize \in Nat /\ DescriptorSize \in Nat \ {0} /\ CrcSize \in Nat
  /\ MaxChunkSize \in Nat /\ WriteErrors \in BOOLEAN
  /\ 0 \in Byte
  /\ \A img \in Images :
       /\ Len(img) \in Nat /\ img = [s \in 1..Len(img) |-> img[s]]
       /\ \A s \in DOMAIN img :
            /\ img[s].bytes \in Seq(Byte)
            /\ \A o \in 0..Len(img[s].bytes) - DescriptorSize :
                 o \in DOMAIN img[s].at /\ img[s].at[o] \in Section
            /\ \A a, b \in 0..Len(img[s].bytes) :
                 Inflate(SubSeq(img[s].bytes, a + 1, b)).bytes \in Seq(Byte)

----------------------------------------------------------------------------
(* What the sections of the image say.                                     *)

DataLen(s) == Len(image[s].bytes)

\* `find`: the first section of a segment with one of these types, if any.
Having(s, types) == {i \in DOMAIN sections[s] : sections[s][i].sec.type \in types}
FirstOf(s, types) ==
  sections[s][CHOOSE i \in Having(s, types) : \A j \in Having(s, types) : i <= j]

\* read_geometry, on the first segment.
HasGeometry ==
  /\ Having(1, {"volume", "disk"}) # {}
  /\ LET v == FirstOf(1, {"volume", "disk"}).sec
     IN  v.whole /\ v.sectors_per_chunk # 0 /\ v.bytes_per_sector # 0

DeclaredGeometry ==
  LET v == FirstOf(1, {"volume", "disk"}).sec
  IN  [chunk_size   |-> SmallerOf(v.sectors_per_chunk * v.bytes_per_sector, U64Max),
       image_size   |-> SmallerOf(v.sector_count * v.bytes_per_sector, U64Max),
       total_chunks |-> v.chunk_count]

GoodGeometry == HasGeometry /\ DeclaredGeometry.chunk_size <= MaxChunkSize

NoTable == [found |-> FALSE, entry_count |-> 0, base_offset |-> 0, entries |-> <<>>]

\* table_ref: the first table of that name in the segment.
TableRef(s, name) ==
  LET sec == FirstOf(s, {name}).sec
  IN  IF Having(s, {name}) = {} \/ ~sec.whole THEN NoTable
      ELSE [found |-> TRUE, entry_count |-> sec.entry_count,
            base_offset |-> sec.base_offset, entries |-> sec.entries]

\* sectors_data_end, or the segment's end without a sectors section.
SectorsEnd(s) ==
  LET sec == FirstOf(s, {"sectors"})
  IN  IF Having(s, {"sectors"}) = {} THEN DataLen(s)
      ELSE SmallerOf(SatAdd(sec.offset, sec.sec.size), DataLen(s))

\* What the loop needs of each segment; a segment contributes its primary table's
\* entries, or table2's when there is no primary.
SegmentTables ==
  [s \in DOMAIN image |->
     LET p == TableRef(s, "table")
         f == TableRef(s, "table2")
     IN  [table |-> p, table2 |-> f, sectors_end |-> SectorsEnd(s),
          count |-> IF p.found THEN p.entry_count ELSE f.entry_count]]

ChunkSize == geom.chunk_size

\* entry_at: None when the segment does not hold the entry.
EntryAt(t, i) ==
  IF i + 1 \in DOMAIN t.entries THEN SatAdd(t.base_offset, t.entries[i + 1].off) ELSE None

\* chunk_range: the entry's start up to the next entry's, or for the last one to
\* the sectors' end.
RangeEnd(s, t, i) ==
  IF i + 1 < t.entry_count THEN EntryAt(t, i + 1) ELSE tables[s].sectors_end
InRange(s, t, i) ==
  /\ EntryAt(t, i) # None
  /\ RangeEnd(s, t, i) # None
  /\ EntryAt(t, i) < RangeEnd(s, t, i)
  /\ RangeEnd(s, t, i) <= DataLen(s)

NoCopy == [found |-> FALSE, clean |-> FALSE, bytes |-> <<>>]
Prefix(bytes, n) == SubSeq(bytes, 1, SmallerOf(Len(bytes), n))

\* decode_chunk: a compressed chunk must inflate to something and is then good; an
\* uncompressed one is always emitted, flagged when its stored checksum differs.
DecodeChunk(raw, compressed) ==
  LET inflated == Inflate(raw)
      stored   == SubSeq(raw, ChunkSize + 1, ChunkSize + CrcSize)
  IN  IF compressed
      THEN IF ~inflated.ok \/ inflated.bytes = <<>> THEN NoCopy
           ELSE [found |-> TRUE, clean |-> TRUE, bytes |-> Prefix(inflated.bytes, ChunkSize)]
      ELSE [found |-> TRUE,
            clean |-> Len(raw) < ChunkSize + CrcSize \/ Adler(Prefix(raw, ChunkSize)) = stored,
            bytes |-> Prefix(raw, ChunkSize)]

\* decode_from.
Copy(s, t, i) ==
  IF ~t.found \/ ~InRange(s, t, i) THEN NoCopy
  ELSE DecodeChunk(SubSeq(image[s].bytes, EntryAt(t, i) + 1, RangeEnd(s, t, i)),
                   t.entries[i + 1].comp)

\* locate_chunk.
ChunksThrough ==
  LET sum[s \in 0..Len(image)] == IF s = 0 THEN 0 ELSE sum[s - 1] + tables[s].count
  IN  sum
Holding(i) == {s \in DOMAIN image : ChunksThrough[s - 1] <= i /\ i < ChunksThrough[s]}

\* Mutant: table2 is only consulted when the primary yields nothing.
ChosenPrimary(i) ==
  LET s       == CHOOSE s \in Holding(i) : TRUE
      local   == i - ChunksThrough[s - 1]
      primary == Copy(s, tables[s].table, local)
      table2  == Copy(s, tables[s].table2, local)
  IN  IF Holding(i) = {} THEN [copy |-> NoCopy, table2 |-> FALSE]
      ELSE IF ~primary.found THEN [copy |-> table2, table2 |-> TRUE]
                             ELSE [copy |-> primary, table2 |-> FALSE]

\* The copy that is emitted: a clean one if there is one, the primary's first.
Chosen(i) ==
  LET s       == CHOOSE s \in Holding(i) : TRUE
      local   == i - ChunksThrough[s - 1]
      primary == Copy(s, tables[s].table, local)
      table2  == Copy(s, tables[s].table2, local)
  IN  IF Holding(i) = {} THEN [copy |-> NoCopy, table2 |-> FALSE]
      ELSE IF ~primary.clean /\ (table2.clean \/ ~primary.found)
           THEN [copy |-> table2, table2 |-> TRUE]
           ELSE [copy |-> primary, table2 |-> FALSE]

----------------------------------------------------------------------------

Init ==
  /\ image \in Images
  /\ pc = "walk"
  /\ seg = 1 /\ pos = FileHeaderSize /\ sections = <<>> /\ truncation = None
  /\ geom = [chunk_size |-> 0, image_size |-> 0, total_chunks |-> 0] /\ tables = <<>>
  /\ idx = 0 /\ remaining = 0 /\ out = <<>>
  /\ recovered_primary = 0 /\ recovered_table2 = 0 /\ zero_filled = 0 /\ crc_flagged = 0
  /\ bytes_recovered = 0 /\ bytes_zero_filled = 0
  /\ lost_chunks = <<>> /\ crc_flagged_chunks = <<>>

Fail(from) ==
  /\ pc = from
  /\ pc' = "failed"
  /\ UNCHANGED <<image, walk, geom, tables, idx, remaining, out, counts>>

\* No segments, or the first one is too short or has another signature.
Unrecognised ==
  image = <<>> \/ DataLen(1) < FileHeaderSize \/ ~image[1].signature

Reject == Fail("walk") /\ Unrecognised

\* Sections of a segment that is being walked for the first time start empty.
Walked == IF seg \in DOMAIN sections THEN sections[seg] ELSE <<>>

\* The walk of this segment is over; the first truncation seen is the one kept.
EndWalk(found, at) ==
  /\ sections' = [s \in 1..seg |-> IF s = seg THEN found ELSE sections[s]]
  /\ truncation' = IF truncation = None THEN at ELSE truncation
  /\ seg' = seg + 1
  /\ pos' = FileHeaderSize
  /\ pc' = IF seg = Len(image) THEN "geometry" ELSE "walk"

\* There is no room for another descriptor: the segment was cut here, unless it
\* ends exactly here.
WalkShort ==
  /\ pc = "walk" /\ ~Unrecognised
  /\ pos + DescriptorSize > DataLen(seg)
  /\ EndWalk(Walked, IF pos < DataLen(seg) THEN pos ELSE None)
  /\ UNCHANGED <<image, geom, tables, idx, remaining, out, counts>>

\* Mutant: a backward link is followed; only sections not seen before are added.
WalkCircular ==
  LET sec   == image[seg].at[pos]
      found == IF \E i \in DOMAIN Walked : Walked[i].offset = pos THEN Walked
               ELSE Append(Walked, [offset |-> pos, sec |-> sec])
  IN  /\ pc = "walk" /\ ~Unrecognised
      /\ pos + DescriptorSize <= DataLen(seg)
      /\ IF sec.type \in {"done", "next"} \/ sec.next = 0
         THEN EndWalk(found, None)
         ELSE IF sec.next > DataLen(seg)
         THEN EndWalk(found, sec.next)
         ELSE /\ sections' = [s \in 1..seg |-> IF s = seg THEN found ELSE sections[s]]
              /\ pos' = sec.next
              /\ UNCHANGED <<seg, truncation, pc>>
      /\ UNCHANGED <<image, geom, tables, idx, remaining, out, counts>>

WalkDescriptor ==
  LET sec   == image[seg].at[pos]
      found == Append(Walked, [offset |-> pos, sec |-> sec])
  IN  /\ pc = "walk" /\ ~Unrecognised
      /\ pos + DescriptorSize <= DataLen(seg)
      /\ IF sec.type \in {"done", "next"} \/ sec.next = 0 \/ sec.next <= pos
         THEN EndWalk(found, None)
         ELSE IF sec.next > DataLen(seg)
         THEN EndWalk(found, sec.next)
         ELSE /\ sections' = [s \in 1..seg |-> IF s = seg THEN found ELSE sections[s]]
              /\ pos' = sec.next
              /\ UNCHANGED <<seg, truncation, pc>>
      /\ UNCHANGED <<image, geom, tables, idx, remaining, out, counts>>

\* Without a usable geometry there is nothing to recover.
BadGeometry == Fail("geometry") /\ ~GoodGeometry

\* The geometry is good: the output file is created.
CreateOutput ==
  /\ pc = "geometry" /\ GoodGeometry
  /\ pc' = "chunks"
  /\ geom' = DeclaredGeometry
  /\ tables' = SegmentTables
  /\ remaining' = DeclaredGeometry.image_size
  /\ UNCHANGED <<image, walk, idx, out, counts>>

----------------------------------------------------------------------------
(* The chunk loop.                                                         *)

Logical == SmallerOf(remaining, ChunkSize)

Sized(bytes, n) == [i \in 1..n |-> IF i <= Len(bytes) THEN bytes[i] ELSE 0]
Zeros(n) == Sized(<<>>, n)

Write(bytes) ==
  /\ out' = out \o Sized(bytes, Logical)
  /\ remaining' = remaining - Logical

InLoop == pc = "chunks" /\ idx < geom.total_chunks /\ remaining # 0

RecoverChunk ==
  LET c == Chosen(idx)
  IN  /\ InLoop /\ c.copy.found
      /\ Write(c.copy.bytes)
      /\ idx' = idx + 1
      /\ bytes_recovered' = bytes_recovered + Logical
      /\ recovered_primary' = recovered_primary + (IF c.table2 THEN 0 ELSE 1)
      /\ recovered_table2' = recovered_table2 + (IF c.table2 THEN 1 ELSE 0)
      /\ crc_flagged' = crc_flagged + (IF c.copy.clean THEN 0 ELSE 1)
      /\ crc_flagged_chunks' =
           IF c.copy.clean THEN crc_flagged_chunks ELSE Append(crc_flagged_chunks, idx)
      /\ UNCHANGED <<image, pc, walk, geom, tables, zero_filled, bytes_zero_filled, lost_chunks>>

LoseChunk ==
  /\ InLoop /\ ~Chosen(idx).copy.found
  /\ Write(<<>>)
  /\ idx' = idx + 1
  /\ zero_filled' = zero_filled + 1
  /\ bytes_zero_filled' = bytes_zero_filled + Logical
  /\ lost_chunks' = Append(lost_chunks, idx)
  /\ UNCHANGED <<image, pc, walk, geom, tables, recovered_primary, recovered_table2, crc_flagged,
                 bytes_recovered, crc_flagged_chunks>>

\* Mutant: a chunk count too small for the media ends the output early.
StopEarly ==
  /\ pc = "chunks" /\ (idx >= geom.total_chunks \/ remaining = 0)
  /\ pc' = "done"
  /\ UNCHANGED <<image, walk, geom, tables, idx, remaining, out, counts>>

EndChunks ==
  /\ pc = "chunks" /\ (idx >= geom.total_chunks \/ remaining = 0)
  /\ pc' = "tail"
  /\ UNCHANGED <<image, walk, geom, tables, idx, remaining, out, counts>>

\* What the chunk count does not cover is zeros.
FillTail ==
  /\ pc = "tail" /\ remaining > 0
  /\ Write(<<>>)
  /\ bytes_zero_filled' = bytes_zero_filled + Logical
  /\ UNCHANGED <<image, pc, walk, geom, tables, idx, recovered_primary, recovered_table2, zero_filled,
                 crc_flagged, bytes_recovered, lost_chunks, crc_flagged_chunks>>

Finish ==
  /\ pc = "tail" /\ remaining = 0
  /\ pc' = "done"
  /\ UNCHANGED <<image, walk, geom, tables, idx, remaining, out, counts>>

\* The output file cannot be created, or writing or flushing it fails.
CreateFails == Fail("geometry") /\ WriteErrors /\ GoodGeometry
WriteFails == WriteErrors /\ (Fail("chunks") \/ Fail("tail"))

Next ==
  \/ Reject \/ WalkShort \/ WalkDescriptor \/ BadGeometry \/ CreateOutput
  \/ RecoverChunk \/ LoseChunk \/ EndChunks \/ FillTail \/ Finish \/ CreateFails
  \/ WriteFails

\* recover_segments runs on its caller's thread and waits for nobody.
SafetySpec == Init /\ [][Next]_vars
Spec == SafetySpec /\ WF_vars(Next)

----------------------------------------------------------------------------
(* Properties.                                                             *)

Writing == pc \in {"chunks", "tail", "done"}

TableRefs == [found : BOOLEAN, entry_count : Nat, base_offset : Nat, entries : Seq(TableEntry)]

TypeOK ==
  /\ pc \in {"walk", "geometry", "chunks", "tail", "done", "failed"}
  /\ seg \in Nat \ {0} /\ pos \in Nat /\ truncation \in Nat \union {None}
  /\ sections \in Seq(Seq([offset : Nat, sec : Section]))
  /\ geom \in [chunk_size : Nat, image_size : Nat, total_chunks : Nat]
  /\ Writing => tables \in [DOMAIN image -> [table : TableRefs, table2 : TableRefs,
                                              sectors_end : Nat, count : Nat]]
  /\ idx \in Nat /\ remaining \in Nat
  /\ out \in Seq(Byte)
  /\ recovered_primary \in Nat /\ recovered_table2 \in Nat /\ zero_filled \in Nat
  /\ crc_flagged \in Nat /\ bytes_recovered \in Nat /\ bytes_zero_filled \in Nat
  /\ lost_chunks \in Seq(Nat) /\ crc_flagged_chunks \in Seq(Nat)

\* Whatever is corrupt, missing or miscounted, a report is only ever returned with
\* an output that spans the image exactly ("The output file is exactly this
\* long"), a geometry that under-covers the media included.
OutputExact == pc = "done" => Len(out) = geom.image_size

\* The byte counters account for every byte of the output at any moment, the last
\* short chunk and the tail included.
BytesAccounted ==
  /\ bytes_recovered + bytes_zero_filled = Len(out)
  /\ Writing => Len(out) + remaining = geom.image_size

\* Every chunk passed is counted once, as recovered or lost, and the two lists
\* name exactly the lost and the flagged ones, in ascending order.
ChunksAccounted ==
  /\ recovered_primary + recovered_table2 + zero_filled = idx
  /\ Len(lost_chunks) = zero_filled
  /\ Len(crc_flagged_chunks) = crc_flagged
  /\ crc_flagged <= recovered_primary + recovered_table2
  /\ \A l \in {lost_chunks, crc_flagged_chunks} :
       /\ \A i \in DOMAIN l : l[i] < idx
       /\ \A i, j \in DOMAIN l : i < j => l[i] < l[j]
  /\ \A i \in DOMAIN lost_chunks, j \in DOMAIN crc_flagged_chunks :
       lost_chunks[i] # crc_flagged_chunks[j]

\* What holds between any two steps: the walk has passed the segments before `seg`,
\* nothing is written before the geometry is known, and the counters account for
\* what is.
IInv ==
  /\ TypeOK
  /\ seg = 1 \/ ~Unrecognised
  /\ Len(sections) \in {seg - 1, seg}
  /\ pc = "walk" => seg = 1 \/ seg <= Len(image)
  /\ pc = "geometry" => image # <<>> /\ Len(sections) = Len(image)
  /\ pc \in {"walk", "geometry"} => out = <<>>
  /\ pc = "done" => remaining = 0
  /\ BytesAccounted
  /\ ChunksAccounted

Ids(list) == {list[i] : i \in DOMAIN list}
Copies(i) ==
  UNION {{Copy(s, t, i - ChunksThrough[s - 1]) : t \in {tables[s].table, tables[s].table2}} :
           s \in Holding(i)}
WrittenAt(i) ==
  SubSeq(out, i * ChunkSize + 1, SmallerOf((i + 1) * ChunkSize, geom.image_size))

FoundCopies(i) == {c \in Copies(i) : c.found}
CleanCopies(i) == {c \in FoundCopies(i) : c.clean}
BestCopies(i) ==
  IF CleanCopies(i) # {} THEN CleanCopies(i)
  ELSE IF FoundCopies(i) # {} THEN FoundCopies(i) ELSE {NoCopy}

WellRecovered(i) ==
  /\ i \in Ids(lost_chunks) <=> FoundCopies(i) = {}
  /\ i \in Ids(crc_flagged_chunks) <=> FoundCopies(i) # {} /\ CleanCopies(i) = {}
  /\ \E c \in BestCopies(i) : WrittenAt(i) = Sized(c.bytes, Len(WrittenAt(i)))

\* No good copy is passed over: a chunk is lost only when neither table yields any
\* bytes, flagged only when neither yields clean ones, and what is written in its
\* place is one of the best copies.
BestCopyWritten == Writing => \A i \in 0..idx - 1 : WellRecovered(i)

\* Where the output stands: the chunk loop appends chunk idx at idx * ChunkSize,
\* and the tail only adds behind the chunks.
OutputPlaced ==
  LET end == SmallerOf(idx * ChunkSize, geom.image_size)
  IN  /\ pc \in {"walk", "geometry"} => idx = 0
      /\ pc = "chunks" => Len(out) = end
      /\ Writing => end <= Len(out)

\* Recovery always ends, in a report or an error.
RecoveryEnds == <>(pc \in {"done", "failed"})

----------------------------------------------------------------------------
(* Statements of the sources that the code does not keep on every image.   *)

\* The entries of all `table` sections, as the reader numbers them.
AllEntries ==
  LET OfSegment(s) ==
        LET cat[i \in 0..Len(sections[s])] ==
              IF i = 0 THEN <<>>
              ELSE IF sections[s][i].sec.type = "table"
                   THEN cat[i - 1] \o [e \in 1..sections[s][i].sec.entry_count |->
                                        [seg |-> s, sec |-> sections[s][i].sec, local |-> e - 1]]
                   ELSE cat[i - 1]
        IN  cat[Len(sections[s])]
      all[s \in 0..Len(image)] == IF s = 0 THEN <<>> ELSE all[s - 1] \o OfSegment(s)
  IN  all[Len(image)]

ReadableFrom(e) ==
  LET t == [found |-> TRUE, entry_count |-> e.sec.entry_count,
            base_offset |-> e.sec.base_offset, entries |-> e.sec.entries]
  IN  /\ InRange(e.seg, t, e.local)
      /\ DecodeChunk(SubSeq(image[e.seg].bytes, EntryAt(t, e.local) + 1,
                            RangeEnd(e.seg, t, e.local)),
                     t.entries[e.local + 1].comp).found

\* "it recovers every readable sector" (module documentation): a chunk is lost
\* only when no table of the image that can describe it yields bytes.
EveryReadableRecovered ==
  pc = "done" =>
    \A i \in Ids(lost_chunks) :
      ~(i + 1 \in DOMAIN AllEntries /\ ReadableFrom(AllEntries[i + 1]))
=============================================================================
