---------------------------- MODULE IntegrityV1 ----------------------------
(***************************************************************************)
(* Integrity analysis of EWF v1 images (forensic/src/integrity.rs):        *)
(* analyse walks and checks every segment, hashes the chunks in order and  *)
(* compares the digests.  analyse and analyse_with_progress are two copies *)
(* of the same code, and the model follows both; compute_hashes, which has *)
(* a walk and a loop of its own, is HashesV1.                              *)
(*                                                                         *)
(* A segment is [signature, number, bytes, at]; `at` gives the section     *)
(* that the bytes at an offset describe.  Rust's Option is a set of at     *)
(* most one element, a digest is the stream that was hashed.  Anomalies    *)
(* are a set: the order in which they are listed is left out, and `seg`    *)
(* tells those of different segments apart.                                *)
(***************************************************************************)
EXTENDS ChunkTable

CONSTANTS
  Images,          \* sequences of segments
  Expectations,    \* external reference hashes: [md5, sha1, sha256]
  Byte,
  FileHeaderSize, DescriptorSize, VolumeMin, TableHeaderSize, CountSize,
  Md5Size, Sha1Size, CrcSize,
  KnownTypes, SectorSizes,
  Inflate(_, _),   \* zlib, asked for at most that many bytes: [ok, bytes]
  Adler(_)         \* adler32 of a chunk, as the CrcSize bytes stored after it

VARIABLES
  image, expected, pc,
  seg, pos,             \* the segment being checked, the offset of its next descriptor
  sections,             \* all_sections
  geometry,
  total_table_entries,
  issues,
  cur,                  \* the segment and the entry the chunk loop is at
  bytes_remaining, global_chunk_idx,
  hashed,               \* what the hashers were fed
  progress,             \* the last AnalysisProgress delivered
  digest                \* the digest that was compared

structure == <<seg, pos, sections, geometry, total_table_entries>>
loop == <<cur, bytes_remaining, global_chunk_idx, hashed, progress>>
vars == <<image, expected, pc, structure, issues, loop, digest>>

TableEntry == [comp : BOOLEAN, off : Nat]

Section ==
  [type : STRING, next : Nat, size : Nat, crc_ok : BOOLEAN,
   media_known : BOOLEAN, sectors_per_chunk : Nat, bytes_per_sector : Nat, sector_count : Nat,
   chunk_count : Nat, set_identifier : Nat, body_crc : BOOLEAN,
   entry_count : Nat, base_offset : Nat, header_crc : BOOLEAN, entries : Seq(TableEntry),
   md5 : Seq(Byte), sha1 : SUBSET Seq(Byte)]

\* The byte ranges of the image's segments.
Ranges(img) ==
  UNION {{SubSeq(img[s].bytes, a + 1, b) : a, b \in 0..Len(img[s].bytes)} : s \in DOMAIN img}

ASSUME IntegrityAssumption ==
  /\ {FileHeaderSize, DescriptorSize, VolumeMin, TableHeaderSize, CountSize,
      Md5Size, Sha1Size, CrcSize} \subseteq Nat
  /\ \A img \in Images :
       /\ Len(img) \in Nat /\ img = [s \in 1..Len(img) |-> img[s]]
       /\ \A s \in DOMAIN img :
            /\ img[s].bytes \in Seq(Byte)
            /\ \A o \in 0..Len(img[s].bytes) - DescriptorSize :
                 o \in DOMAIN img[s].at /\ img[s].at[o] \in Section
  /\ \A raw \in UNION {Ranges(img) : img \in Images}, n \in 1..U64Max + 1 :
       Inflate(raw, n).bytes \in Seq(Byte)

----------------------------------------------------------------------------
(* Finding sections.                                                       *)

DataLen(s) == Len(image[s].bytes)

\* `find`: the first section of a list with one of these types, if any.
HavingIn(list, types) == {i \in DOMAIN list : list[i].sec.type \in types}
FirstIn(list, types) ==
  list[CHOOSE i \in HavingIn(list, types) : \A j \in HavingIn(list, types) : i <= j]
Having(s, types) == HavingIn(sections[s], types)
FirstOf(s, types) == FirstIn(sections[s], types)

Volumes == {"volume", "disk"}
TableOf(s) == FirstOf(s, {"table"})
SectorsOf(s) == FirstOf(s, {"sectors"})

\* The segment g holds n bytes of this section's body.
BodyIn(g, found, n) == found.offset + DescriptorSize + n <= Len(g.bytes)
Holds(s, found, n) == BodyIn(image[s], found, n)

Report(wrong, kind, at) ==
  IF wrong THEN {[kind |-> kind, seg |-> seg, at |-> at]} ELSE {}

----------------------------------------------------------------------------
(* The checks of one segment.                                              *)

HeaderIssues ==
  LET number == image[seg].number
  IN  Report(~image[seg].signature, "InvalidSignature", 0)
      \union Report(number = 0, "SegmentNumberZero", 0)
      \union Report(number # 0 /\ number # seg, "SegmentOutOfOrder", number)

Terminal(sec) == sec.type \in {"done", "next"}

\* The link of the section at this offset leads out of the file or not onwards.
Dangling(g, offset, sec) == sec.next = 0 \/ sec.next > Len(g.bytes) \/ sec.next <= offset

\* walk_sections_v1 goes no further than this section.
Stops(g, offset, sec) == Terminal(sec) \/ Dangling(g, offset, sec)

DescriptorIssues(sec) ==
  LET end  == SatAdd(pos, sec.size)
      gap  == ~Stops(image[seg], pos, sec) /\ sec.next > end
      data == \E i \in end + 1..sec.next : image[seg].bytes[i] # 0
  IN  Report(~sec.crc_ok, "SectionDescriptorCrcMismatch", pos)
      \union Report(sec.type \notin KnownTypes, "UnknownSectionType", pos)
      \union Report(~Terminal(sec) /\ Dangling(image[seg], pos, sec), "SectionChainBroken", pos)
      \union Report(gap /\ data, "SectionGapNonZero", end)
      \union Report(gap /\ ~data, "SectionGapZero", end)

\* check_volume_v1 returns None, and reports nothing, when the body is too short.
Readable(g, list) ==
  LET v == FirstIn(list, Volumes)
  IN  /\ HavingIn(list, Volumes) # {}
      /\ BodyIn(g, v, VolumeMin)
      /\ SatSub(v.sec.size, DescriptorSize) >= VolumeMin
VolumeReadable == Readable(image[seg], sections[seg])

PowerOfTwo(n) == \E k \in 0..n : 2 ^ k = n
SectorsMismatch(v) ==
  LET max == SmallerOf(v.chunk_count * v.sectors_per_chunk, U64Max)
      min == SatSub(max, v.sectors_per_chunk)
  IN  v.sector_count > max \/ (v.chunk_count > 0 /\ v.sector_count <= min)

NoGeometry ==
  [found |-> FALSE, chunk_count |-> 0, chunk_size |-> 0, total_bytes |-> 0, set_identifier |-> 0]
DeclaredGeometry(v) ==
  [found |-> TRUE, chunk_count |-> v.chunk_count,
   chunk_size |-> SmallerOf(v.sectors_per_chunk * v.bytes_per_sector, U64Max),
   total_bytes |-> SmallerOf(v.sector_count * v.bytes_per_sector, U64Max),
   set_identifier |-> v.set_identifier]

VolumeIssues ==
  LET v == FirstOf(seg, Volumes).sec
  IN  Report(seg = 1 /\ Having(seg, Volumes) = {}, "VolumeSectionMissing", 0)
      \union
      (IF ~VolumeReadable THEN {}
       ELSE Report(~v.media_known, "MediaTypeUnknown", 0)
            \union Report(v.bytes_per_sector \notin SectorSizes, "BytesPerSectorInvalid", 0)
            \union Report(~PowerOfTwo(v.sectors_per_chunk), "ChunkSizeInvalid", 0)
            \union Report(PowerOfTwo(v.sectors_per_chunk) /\ SectorsMismatch(v),
                          "SectorCountMismatch", v.sector_count)
            \union Report(~v.body_crc, "VolumeBodyCrcMismatch", 0)
            \union Report(/\ seg > 1 /\ geometry.found
                          /\ 0 \notin {geometry.set_identifier, v.set_identifier}
                          /\ geometry.set_identifier # v.set_identifier,
                          "SetIdentifierMismatch", seg))

\* The geometry is the one of the first segment.
CheckedGeometry ==
  IF seg = 1 /\ VolumeReadable THEN DeclaredGeometry(FirstOf(1, Volumes).sec) ELSE geometry

\* sectors_range, and the two ways an entry can point outside it.
OutsideSectors(s, absolute) ==
  /\ Having(s, {"sectors"}) # {}
  /\ \/ absolute < SectorsOf(s).offset + DescriptorSize
     \/ absolute >= SatAdd(SectorsOf(s).offset, SectorsOf(s).sec.size)

EntryIssues(t, i) ==
  LET absolute == SatAdd(t.base_offset, t.entries[i].off)
  IN  Report(absolute >= DataLen(seg), "TableEntryOutOfBounds", i - 1)
      \union Report(absolute < DataLen(seg) /\ OutsideSectors(seg, absolute),
                    "TableEntryOutsideSectorsRange", i - 1)

\* check_table_v1.  A count that differs from the volume's is reported here only
\* for a single segment.
TableIssues ==
  LET t     == TableOf(seg).sec
      count == CheckedGeometry.chunk_count
  IN  IF Having(seg, {"table"}) = {} THEN Report(TRUE, "TableSectionMissing", 0)
      ELSE IF ~Holds(seg, TableOf(seg), TableHeaderSize) THEN {}
      ELSE Report(~t.header_crc, "TableHeaderAdler32Mismatch", 0)
           \union Report(Len(image) = 1 /\ CheckedGeometry.found /\ t.entry_count # count,
                         "TableChunkCountMismatch", t.entry_count)
           \union UNION {EntryIssues(t, i) : i \in 1..SmallerOf(t.entry_count, Len(t.entries))}

TableCount ==
  IF Having(seg, {"table"}) # {} /\ Holds(seg, TableOf(seg), CountSize)
  THEN TableOf(seg).sec.entry_count ELSE 0

TableBody(sec) == <<sec.size, sec.entry_count, sec.base_offset, sec.header_crc, sec.entries>>
BodyInFile(found) ==
  found.sec.size >= DescriptorSize /\ SatAdd(found.offset, found.sec.size) <= DataLen(seg)

\* Mutant: table2 is only compared with a table that has no findings of its own.
Table2IssuesGuarded ==
  LET t  == TableOf(seg)
      t2 == FirstOf(seg, {"table2"})
  IN  Report(/\ Having(seg, {"table"}) # {} /\ Having(seg, {"table2"}) # {}
             /\ TableIssues = {}
             /\ BodyInFile(t) /\ BodyInFile(t2)
             /\ TableBody(t.sec) # TableBody(t2.sec),
             "Table2Mismatch", 0)

\* Both tables are compared when both bodies are in the file.
Table2Issues ==
  LET t  == TableOf(seg)
      t2 == FirstOf(seg, {"table2"})
  IN  Report(/\ Having(seg, {"table"}) # {} /\ Having(seg, {"table2"}) # {}
             /\ BodyInFile(t) /\ BodyInFile(t2)
             /\ TableBody(t.sec) # TableBody(t2.sec),
             "Table2Mismatch", 0)

Error2Issues ==
  LET e == FirstOf(seg, {"error2"})
  IN  Report(/\ Having(seg, {"error2"}) # {}
             /\ Holds(seg, e, CountSize) /\ e.sec.entry_count > 0,
             "BadSectorsPresent", 0)

SegmentIssues ==
  VolumeIssues
  \union Report(Having(seg, {"sectors"}) = {}, "SectorsSectionMissing", 0)
  \union TableIssues \union Table2Issues \union Error2Issues
  \union Report(seg = Len(image) /\ Having(seg, {"done"}) = {}, "DoneSectionMissing", 0)

----------------------------------------------------------------------------

Init ==
  /\ image \in Images /\ expected \in Expectations
  /\ pc = "segment"
  /\ seg = 1 /\ pos = FileHeaderSize /\ sections = <<>>
  /\ geometry = NoGeometry /\ total_table_entries = 0
  /\ issues = {}
  /\ cur = [seg |-> 1, entry |-> 0]
  /\ bytes_remaining = 0 /\ global_chunk_idx = 0 /\ hashed = <<>>
  /\ progress = [chunks_done |-> 0, bytes_done |-> 0]
  /\ digest = {}

\* A segment without a whole file header is not looked at any further.
ShortSegment ==
  /\ pc = "segment" /\ seg <= Len(image)
  /\ DataLen(seg) < FileHeaderSize
  /\ issues' = issues \union Report(TRUE, "SectionChainBroken", 0)
  /\ sections' = Append(sections, <<>>)
  /\ seg' = seg + 1
  /\ UNCHANGED <<image, expected, pc, pos, geometry, total_table_entries, loop, digest>>

OpenSegment ==
  /\ pc = "segment" /\ seg <= Len(image)
  /\ DataLen(seg) >= FileHeaderSize
  /\ issues' = issues \union HeaderIssues
  /\ sections' = Append(sections, <<>>)
  /\ pos' = FileHeaderSize
  /\ pc' = "walk"
  /\ UNCHANGED <<image, expected, seg, geometry, total_table_entries, loop, digest>>

\* No room for another descriptor: the walk stops, and nothing is reported.
WalkEnds ==
  /\ pc = "walk"
  /\ pos + DescriptorSize > DataLen(seg)
  /\ pc' = "check"
  /\ UNCHANGED <<image, expected, structure, issues, loop, digest>>

WalkDescriptor ==
  LET sec  == image[seg].at[pos]
      stop == Stops(image[seg], pos, sec)
  IN  /\ pc = "walk"
      /\ pos + DescriptorSize <= DataLen(seg)
      /\ issues' = issues \union DescriptorIssues(sec)
      /\ sections' = [sections EXCEPT ![seg] = Append(@, [offset |-> pos, sec |-> sec])]
      /\ pc' = IF stop THEN "check" ELSE "walk"
      /\ pos' = IF stop THEN pos ELSE sec.next
      /\ UNCHANGED <<image, expected, seg, geometry, total_table_entries, loop, digest>>

\* Mutant: each segment's findings replace those of the segment before.
CheckSegmentFresh ==
  /\ pc = "check"
  /\ issues' = SegmentIssues
  /\ geometry' = CheckedGeometry
  /\ total_table_entries' = SmallerOf(total_table_entries + TableCount, SizeModulus - 1)
  /\ seg' = seg + 1
  /\ pc' = "segment"
  /\ UNCHANGED <<image, expected, pos, sections, loop, digest>>

CheckSegment ==
  /\ pc = "check"
  /\ issues' = issues \union SegmentIssues
  /\ geometry' = CheckedGeometry
  /\ total_table_entries' = SmallerOf(total_table_entries + TableCount, SizeModulus - 1)
  /\ seg' = seg + 1
  /\ pc' = "segment"
  /\ UNCHANGED <<image, expected, pos, sections, loop, digest>>

\* Several segments: the sum of the tables' counts against the volume's.
CountsMismatch ==
  Len(image) > 1 /\ geometry.found /\ total_table_entries # geometry.chunk_count

\* Without a geometry the hashes are not checked at all.
CheckTotals ==
  /\ pc = "segment" /\ seg > Len(image)
  /\ issues' = issues \union Report(CountsMismatch, "TableChunkCountMismatch", total_table_entries)
  /\ pc' = IF geometry.found THEN "chunks" ELSE "analysed"
  /\ bytes_remaining' = geometry.total_bytes
  /\ UNCHANGED <<image, expected, structure, cur, global_chunk_idx, hashed, progress, digest>>

----------------------------------------------------------------------------
(* The chunk loop.                                                         *)

EntryIn(list, i) ==
  LET t == FirstIn(list, {"table"}).sec
  IN  IF i + 1 \in DOMAIN t.entries THEN SatAdd(t.base_offset, t.entries[i + 1].off) ELSE None

ChunkEndIn(g, list, i) ==
  LET sectors == FirstIn(list, {"sectors"})
  IN  IF i + 1 < FirstIn(list, {"table"}).sec.entry_count THEN EntryIn(list, i + 1)
      ELSE SmallerOf(SatAdd(sectors.offset, sectors.sec.size), Len(g.bytes))

\* iter_segment_chunks, for segment g and its sections, yields entry i; it stops at
\* the first entry it does not yield.
YieldsIn(g, list, i) ==
  LET table == FirstIn(list, {"table"})
  IN  /\ HavingIn(list, {"table"}) # {} /\ HavingIn(list, {"sectors"}) # {}
      /\ BodyIn(g, table, TableHeaderSize)
      /\ i < table.sec.entry_count
      /\ EntryIn(list, i) # None /\ ChunkEndIn(g, list, i) # None
      /\ EntryIn(list, i) < ChunkEndIn(g, list, i) /\ ChunkEndIn(g, list, i) <= Len(g.bytes)

EntryAt(s, i) == EntryIn(sections[s], i)
ChunkEnd(s, i) == ChunkEndIn(image[s], sections[s], i)
Yields(s, i) == YieldsIn(image[s], sections[s], i)

Raw == SubSeq(image[cur.seg].bytes, EntryAt(cur.seg, cur.entry) + 1, ChunkEnd(cur.seg, cur.entry))
Compressed == TableOf(cur.seg).sec.entries[cur.entry + 1].comp
ToHash == SmallerOf(bytes_remaining, geometry.chunk_size)
Prefix(bytes, n) == SubSeq(bytes, 1, SmallerOf(Len(bytes), n))
Fails == Compressed /\ ~Inflate(Raw, ToHash + 1).ok

\* An uncompressed chunk may be followed by its checksum.
ChecksumBad ==
  /\ ~Compressed /\ Len(Raw) >= geometry.chunk_size + CrcSize
  /\ Adler(Prefix(Raw, geometry.chunk_size))
       # SubSeq(Raw, geometry.chunk_size + 1, geometry.chunk_size + CrcSize)

InSegment == pc = "chunks" /\ cur.seg <= Len(image) /\ Yields(cur.seg, cur.entry)

\* Mutant: a segment that yields nothing is asked again.
NextSegmentStuck ==
  /\ pc = "chunks" /\ cur.seg <= Len(image) /\ ~Yields(cur.seg, cur.entry)
  /\ cur' = [seg |-> IF cur.entry = 0 THEN cur.seg ELSE cur.seg + 1, entry |-> 0]
  /\ UNCHANGED <<image, expected, pc, structure, issues, bytes_remaining, global_chunk_idx, hashed,
                 progress, digest>>

NextSegment ==
  /\ pc = "chunks" /\ cur.seg <= Len(image) /\ ~Yields(cur.seg, cur.entry)
  /\ cur' = [seg |-> cur.seg + 1, entry |-> 0]
  /\ UNCHANGED <<image, expected, pc, structure, issues, bytes_remaining, global_chunk_idx, hashed,
                 progress, digest>>

Found(wrong, kind) ==
  issues \union (IF wrong THEN {[kind |-> kind, seg |-> cur.seg, at |-> global_chunk_idx]} ELSE {})

\* A stream that does not decompress is left out of the hash, its sectors passed over.
ChunkFails ==
  /\ InSegment /\ bytes_remaining # 0 /\ Fails
  /\ issues' = Found(TRUE, "ChunkDecompressionError")
  /\ cur' = [cur EXCEPT !.entry = @ + 1]
  /\ global_chunk_idx' = global_chunk_idx + 1
  /\ bytes_remaining' = bytes_remaining - ToHash
  /\ UNCHANGED <<image, expected, pc, structure, hashed, progress, digest>>

ChunkBytes ==
  Prefix(IF Compressed THEN Inflate(Raw, ToHash + 1).bytes ELSE Raw, ToHash)

\* Mutant: progress counts a whole chunk for the last one.
ProgressWhole(n) ==
  [chunks_done |-> n, bytes_done |-> n * geometry.chunk_size]

Progress(n) ==
  [chunks_done |-> n, bytes_done |-> geometry.total_bytes - (bytes_remaining - ToHash)]

HashChunk ==
  /\ InSegment /\ bytes_remaining # 0 /\ ~Fails
  /\ issues' = Found(ChecksumBad, "ChunkChecksumMismatch")
  /\ cur' = [cur EXCEPT !.entry = @ + 1]
  /\ global_chunk_idx' = global_chunk_idx + 1
  /\ hashed' = hashed \o ChunkBytes
  /\ bytes_remaining' = bytes_remaining - ToHash
  /\ progress' = Progress(global_chunk_idx + 1)
  /\ UNCHANGED <<image, expected, pc, structure, digest>>

\* The loop is over once the media is complete or the segments are exhausted.
LoopEnds ==
  /\ pc = "chunks"
  /\ IF cur.seg <= Len(image) THEN Yields(cur.seg, cur.entry) /\ bytes_remaining = 0 ELSE TRUE

----------------------------------------------------------------------------
(* The digests.                                                            *)

ReportAtEnd(wrong, kind) ==
  IF wrong THEN {[kind |-> kind, seg |-> Len(image), at |-> 0]} ELSE {}

\* The stored hashes are those of the last segment; an all-zero SHA-1 is not set.
StoredMd5 ==
  LET h == FirstOf(Len(image), {"hash"})
  IN  IF Having(Len(image), {"hash"}) # {} /\ Holds(Len(image), h, Md5Size)
      THEN {h.sec.md5} ELSE {}
StoredSha1 ==
  LET d == FirstOf(Len(image), {"digest"})
  IN  IF Having(Len(image), {"digest"}) # {} /\ Holds(Len(image), d, Md5Size + Sha1Size)
      THEN d.sec.sha1 ELSE {}

Differs(stored) == \E h \in stored : h # hashed

HashIssues ==
  ReportAtEnd(Having(Len(image), {"hash"}) = {}, "HashSectionMissing")
  \union ReportAtEnd(Differs(StoredMd5), "HashMismatch")
  \union ReportAtEnd(Differs(StoredSha1), "DigestSha1Mismatch")
  \union ReportAtEnd(Differs(expected.md5), "ExternalMd5Mismatch")
  \union ReportAtEnd(Differs(expected.sha1), "ExternalSha1Mismatch")
  \union ReportAtEnd(Differs(expected.sha256), "ExternalSha256Mismatch")

CompareHashes ==
  /\ LoopEnds
  /\ issues' = issues \union HashIssues
  /\ digest' = {hashed}
  /\ pc' = "analysed"
  /\ UNCHANGED <<image, expected, structure, loop>>

Next ==
  \/ ShortSegment \/ OpenSegment \/ WalkEnds \/ WalkDescriptor \/ CheckSegment \/ CheckTotals
  \/ NextSegment \/ ChunkFails \/ HashChunk \/ CompareHashes

SafetySpec == Init /\ [][Next]_vars

----------------------------------------------------------------------------
(* Properties.                                                             *)

Geometry ==
  [found : BOOLEAN, chunk_count : Nat, chunk_size : 0..U64Max, total_bytes : 0..U64Max,
   set_identifier : Nat]

TypeOK ==
  /\ pc \in {"segment", "walk", "check", "chunks", "analysed"}
  /\ seg \in Nat \ {0} /\ pos \in Nat
  /\ sections \in Seq(Seq([offset : Nat, sec : Section]))
  /\ geometry \in Geometry /\ total_table_entries \in Nat
  /\ cur \in [seg : Nat \ {0}, entry : Nat]
  /\ bytes_remaining \in Nat /\ global_chunk_idx \in Nat
  /\ hashed \in Seq(Byte)
  /\ progress \in [chunks_done : Nat, bytes_done : Nat]

\* However many chunks fail and wherever the media ends, a snapshot's bytes_done is
\* what its chunks_done stand for, and no snapshot counts more chunks than were
\* processed.
ProgressAccounts ==
  /\ progress.bytes_done
       = SmallerOf(geometry.total_bytes, progress.chunks_done * geometry.chunk_size)
  /\ progress.chunks_done <= global_chunk_idx

\* A progress bar never goes back, and every call reports a further chunk.
ProgressAdvances ==
  [][/\ progress.chunks_done < progress'.chunks_done
     /\ progress.bytes_done <= progress'.bytes_done]_progress

\* The digest never covers bytes beyond the media: padding, trailing checksums and
\* chunks after the last sector stay out of it.
HashedWithinMedia ==
  pc = "chunks" => Len(hashed) + bytes_remaining <= geometry.total_bytes

\* The chain of a segment as far as it was walked: ascending, inside the file.
ChainWalked(s) ==
  /\ \A i \in DOMAIN sections[s] : sections[s][i].offset + DescriptorSize <= DataLen(s)
  /\ \A i, j \in DOMAIN sections[s] : i < j => sections[s][i].offset < sections[s][j].offset

\* What a segment without findings is known to be: numbered by its place, its
\* descriptors' checksums right, no bytes between its sections, and the table's
\* entries inside the sectors.
SegmentSound(s) ==
  /\ image[s].signature /\ image[s].number = s
  /\ \A i \in DOMAIN sections[s] :
       /\ sections[s][i].sec.crc_ok
       /\ i + 1 \in DOMAIN sections[s] =>
            sections[s][i + 1].offset <= SatAdd(sections[s][i].offset, sections[s][i].sec.size)

TableSound(s) ==
  /\ Having(s, {"table"}) # {} /\ Having(s, {"sectors"}) # {}
  /\ Holds(s, TableOf(s), TableHeaderSize) =>
       LET t == TableOf(s).sec
       IN  \A i \in 1..SmallerOf(t.entry_count, Len(t.entries)) :
             LET absolute == SatAdd(t.base_offset, t.entries[i].off)
             IN  absolute < DataLen(s) /\ ~OutsideSectors(s, absolute)

Digests == StoredMd5 \union StoredSha1 \union expected.md5 \union expected.sha1
             \union expected.sha256

\* What a clean report vouches for: every segment is sound, the tables' counts make
\* up the volume's, and the digest of the sector data is the stored one and every
\* reference given.
Verified ==
  /\ \A s \in DOMAIN image : SegmentSound(s) /\ TableSound(s)
  /\ Len(image) > 1 => total_table_entries = geometry.chunk_count
  /\ Having(Len(image), {"done"}) # {} /\ Having(Len(image), {"hash"}) # {}
  /\ \A h \in Digests : digest = {h}

\* An empty list of anomalies means something, provided that the geometry could be
\* read (without it analyse does not hash): no check was skipped for a segment, and
\* no later segment's checks undid an earlier one's findings.
CleanIsSound ==
  (pc = "analysed" /\ issues = {} /\ geometry.found) => Verified

\* What each stage has behind it.
Stages ==
  /\ seg <= Len(image) + 1
  /\ pc \in {"walk", "check"} => seg <= Len(image) /\ Len(sections) = seg
  /\ pc \notin {"walk", "check"} => Len(sections) = seg - 1
  /\ pc \in {"chunks", "analysed"} => seg = Len(image) + 1
  /\ pc = "chunks" => geometry.found
  /\ geometry.found => seg > 1
  /\ pc \in {"segment", "walk", "check"} =>
       global_chunk_idx = 0 /\ hashed = <<>>

Chains ==
  /\ \A s \in DOMAIN sections : ChainWalked(s)
  /\ pc = "walk" => \A i \in DOMAIN sections[seg] : sections[seg][i].offset < pos

\* What no anomaly so far means.
CleanSoFar ==
  /\ \A s \in DOMAIN sections : SegmentSound(s)
  /\ \A s \in 1..seg - 1 : TableSound(s)
  /\ (pc = "walk" /\ sections[seg] # <<>>) =>
       LET last == sections[seg][Len(sections[seg])]
       IN  pos <= SatAdd(last.offset, last.sec.size)
  /\ seg > Len(image) => Len(image) = 0 \/ Having(Len(image), {"done"}) # {}
  /\ (pc \in {"chunks", "analysed"} /\ geometry.found /\ Len(image) > 1) =>
       total_table_entries = geometry.chunk_count

\* The chunks processed and the bytes they stand for.
RemainingExact ==
  pc = "chunks" =>
    bytes_remaining
      = geometry.total_bytes
          - SmallerOf(geometry.total_bytes, global_chunk_idx * geometry.chunk_size)

\* What holds between any two steps of the analysis: where each stage stands, how far
\* the chains are walked, what an empty list of anomalies stands for so far, and that
\* the loop's counters and the bytes it hashed make up the media.
IInv ==
  /\ TypeOK /\ Stages /\ Chains
  /\ issues = {} => CleanSoFar
  /\ ProgressAccounts /\ RemainingExact /\ HashedWithinMedia
  /\ CleanIsSound

=============================================================================
