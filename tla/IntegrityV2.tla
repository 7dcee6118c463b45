---------------------------- MODULE IntegrityV2 ----------------------------
(***************************************************************************)
(* Integrity analysis of EWF v2 images (forensic/src/integrity.rs): every  *)
(* segment is walked backward and checked, its chunks are verified, and    *)
(* then compute_hashes_ewf2 walks all segments again, in a copy of its     *)
(* own, for the hashes that are compared.  The two passes share the        *)
(* actions below and differ where `pass` says so.  The hashers of          *)
(* verify_ewf2_sector_data are left out: nobody reads what they yield.     *)
(***************************************************************************)
EXTENDS Ewf2Format

CONSTANTS Expectations   \* external reference hashes: [md5, sha1, sha256]

VARIABLES
  expected,
  step,          \* the checker's control state
  pass,          \* "analyse" or "compute"
  cur,           \* the segment
  desc_offset,
  found,         \* what the walk of this segment has found
  final,         \* the stored hashes of the last segment
  entry,         \* the table entry that comes next
  issues,
  progress,      \* the last AnalysisProgress delivered
  hashed, found_chunks

checkVars == <<expected, step, pass, cur, desc_offset, found, final, entry, issues,
               progress, hashed, found_chunks>>

NoHashes == [md5 |-> {}, sha1 |-> {}, sha256 |-> {}]
Nothing == [hash |-> FALSE, media |-> FALSE, table |-> None, stored |-> NoHashes]
NoProgress == [chunks_done |-> 0, chunks_total |-> 0, bytes_done |-> 0]

CheckInit ==
  /\ expected \in Expectations
  /\ step = "segment" /\ pass = "analyse" /\ cur = 1
  /\ desc_offset = 0 /\ found = Nothing /\ final = NoHashes /\ entry = 1
  /\ issues = {} /\ progress = NoProgress
  /\ hashed = <<>> /\ found_chunks = FALSE

Data == image[cur].bytes
DataLen == Len(Data)
Analysing == pass = "analyse"

Report(wrong, kind, at) ==
  IF wrong /\ Analysing THEN {[kind |-> kind, seg |-> cur, at |-> at]} ELSE {}

NextUp == cur' = cur + 1 /\ step' = "segment"

----------------------------------------------------------------------------
(* The segment's header.                                                   *)

TooShort == DataLen < HeaderSize + DescriptorSize

ShortSegment ==
  /\ step = "segment" /\ cur <= Len(image)
  /\ TooShort
  /\ issues' = issues \union Report(TRUE, "SectionChainBroken", 0)
  /\ NextUp
  /\ UNCHANGED <<expected, pass, desc_offset, found, final, entry, progress, hashed, found_chunks>>

HeaderIssues ==
  LET s == image[cur]
  IN  Report(s.kind = "other", "InvalidSignature", 0)
      \union Report(s.number = 0, "SegmentNumberZero", 0)
      \union Report(s.number # 0 /\ s.number # cur, "SegmentOutOfOrder", s.number)
      \union Report(s.method > 1, "UnsupportedCompressionAlgorithm", s.method)

OpenSegment ==
  /\ step = "segment" /\ cur <= Len(image)
  /\ ~TooShort
  /\ step' = "walk"
  /\ issues' = issues \union HeaderIssues
  /\ desc_offset' = DataLen - DescriptorSize
  /\ found' = Nothing
  /\ UNCHANGED <<expected, pass, cur, final, entry, progress, hashed, found_chunks>>

----------------------------------------------------------------------------
(* The descriptors, from the last to the first.                            *)

\* Mutant: only the file's end is respected.
OutsideFile(o) == o + DescriptorSize > DataLen
Outside(o) == o + DescriptorSize > DataLen \/ o < HeaderSize

\* Mutant: a link to the descriptor itself is followed.
Descends(prev) == prev # 0 /\ prev <= desc_offset
StrictlyDescends(prev) == prev # 0 /\ prev < desc_offset

\* parse_media_info_body.
MediaParses(d) == BodyStart(desc_offset, d) < desc_offset /\ d.text = "zlib"

\* Mutant: an encrypted section is passed over in silence.
SectionIssuesPlain(d) ==
  IF d.encrypted THEN {}
  ELSE Report(d.hash = "differs", "Ewf2SectionDataHashMismatch", desc_offset)
       \union Report(d.type = CaseData /\ ~MediaParses(d), "Ewf2MediaInfoParseFailed", desc_offset)

SectionIssues(d) ==
  IF d.encrypted THEN Report(TRUE, "Ewf2EncryptedSection", desc_offset)
  ELSE Report(d.hash = "differs", "Ewf2SectionDataHashMismatch", desc_offset)
       \union Report(d.type = CaseData /\ ~MediaParses(d), "Ewf2MediaInfoParseFailed", desc_offset)

HashTypes == {Md5Hash, Sha1Hash, Sha256Hash}
HashField(type) ==
  CASE type = Md5Hash  -> [name |-> "md5", size |-> Md5Size]
    [] type = Sha1Hash -> [name |-> "sha1", size |-> Sha1Size]
    [] OTHER           -> [name |-> "sha256", size |-> Sha256Size]

\* A section seen later, that is one earlier in the file, replaces what was found.
Noted(d) ==
  IF d.encrypted THEN found
  ELSE CASE d.type = CaseData    -> [found EXCEPT !.media = TRUE]
         [] d.type = SectorTable -> [found EXCEPT !.table = desc_offset]
         [] d.type \in HashTypes ->
              LET f == HashField(d.type)
              IN  [found EXCEPT !.hash = TRUE,
                                !.stored[f.name] = IF d.size >= f.size THEN {d.digest} ELSE @]
         [] OTHER -> found

WalkDescriptor2 ==
  LET d == image[cur].at[desc_offset]
  IN  /\ step = "walk"
      /\ ~Outside(desc_offset)
      /\ issues' = issues \union SectionIssues(d)
      /\ found' = Noted(d)
      /\ IF StrictlyDescends(d.prev)
         THEN desc_offset' = d.prev /\ UNCHANGED step
         ELSE step' = "walked" /\ UNCHANGED desc_offset
      /\ UNCHANGED <<expected, pass, cur, final, entry, progress, hashed, found_chunks>>

WalkEnds ==
  /\ step = "walk"
  /\ Outside(desc_offset)
  /\ step' = "walked"
  /\ UNCHANGED <<expected, pass, cur, desc_offset, found, final, entry, issues, progress,
                 hashed, found_chunks>>

----------------------------------------------------------------------------
(* The chunks of one segment.                                              *)

Last == cur = Len(image)
Table == image[cur].at[found.table]
TableStart == BodyStart(found.table, Table)
TableLen == found.table - TableStart

HasTable == found.table # None /\ TableLen >= TableHeaderSize + EntrySize

\* The analysis reads 64 bits of count where the reader reads 32.
ChunkCount == Table.count + Table.high * CountBit

\* The checksum is compared when it lies inside the section's body.
ChecksumHeld == TableHeaderSize + ChunkCount * EntrySize + CrcSize <= TableLen

\* What is known at the end of the walk; then the table, if there is one.
CloseSegment ==
  /\ step = "walked"
  /\ issues' = issues
       \union Report(Last /\ ~found.hash, "Ewf2HashSectionMissing", 0)
       \union Report(cur = 1 /\ ~found.media, "Ewf2MediaInfoMissing", 0)
       \union (IF HasTable
               THEN Report(ChecksumHeld /\ ~Table.sum_ok, "Ewf2ChunkTableChecksumMismatch", 0)
               ELSE {})
  /\ final' = IF Last /\ Analysing THEN found.stored ELSE final
  /\ IF HasTable THEN step' = "chunks" /\ UNCHANGED cur ELSE NextUp
  /\ entry' = 1
  /\ UNCHANGED <<expected, pass, desc_offset, found, progress, hashed, found_chunks>>

Entry == Table.entries[entry]
RawSize == SatSub(Entry.size, CrcSize)
Raw == SubSeq(Data, Entry.off + 1, Entry.off + RawSize)
Unpacked == IF Entry.comp THEN Inflate(Raw) ELSE [ok |-> TRUE, bytes |-> Raw]

\* The entry lies inside the table's body, and its data inside the file.
EntryReadable ==
  /\ entry <= ChunkCount
  /\ entry <= EntriesBetween(TableStart, found.table)
  /\ Entry.off + RawSize <= DataLen

StoredCrc == SubSeq(Data, Entry.off + RawSize + 1, Entry.off + RawSize + CrcSize)
CrcHeld == Entry.size >= CrcSize /\ Entry.off + RawSize + CrcSize <= DataLen

\* Mutant: the chunk's index is delivered, not the number of chunks done.
DeliveredEarly ==
  IF Analysing
  THEN [chunks_done |-> entry - 1, chunks_total |-> ChunkCount, bytes_done |-> entry * RawSize]
  ELSE progress
Delivered ==
  IF Analysing
  THEN [chunks_done |-> entry, chunks_total |-> ChunkCount, bytes_done |-> entry * RawSize]
  ELSE progress

CheckChunk ==
  /\ step = "chunks"
  /\ EntryReadable
  /\ issues' = issues
       \union Report(CrcHeld /\ StoredCrc # Adler(Raw), "ChunkChecksumMismatch", entry)
       \union Report(~Unpacked.ok, "ChunkDecompressionError", entry)
  /\ entry' = entry + 1
  /\ IF Unpacked.ok
     THEN /\ progress' = Delivered
          /\ IF Analysing
             THEN UNCHANGED <<hashed, found_chunks>>
             ELSE hashed' = hashed \o Unpacked.bytes /\ found_chunks' = TRUE
     ELSE UNCHANGED <<progress, hashed, found_chunks>>
  /\ UNCHANGED <<expected, step, pass, cur, desc_offset, found, final>>

\* The loop breaks, and nothing is reported, at an entry that cannot be read.
ChunksEnd ==
  /\ step = "chunks"
  /\ ~EntryReadable
  /\ NextUp
  /\ UNCHANGED <<expected, pass, desc_offset, found, final, entry, issues, progress,
                 hashed, found_chunks>>

----------------------------------------------------------------------------
(* The hashes over all segments.                                           *)

StartHashing ==
  /\ step = "segment" /\ cur > Len(image)
  /\ Analysing
  /\ pass' = "compute" /\ cur' = 1
  /\ UNCHANGED <<expected, step, desc_offset, found, final, entry, issues, progress,
                 hashed, found_chunks>>

Differs(reference) == found_chunks /\ reference # {} /\ reference # {hashed}

Compared(names, reference) ==
  {[kind |-> names[f], seg |-> 0, at |-> 0] :
     f \in {g \in DOMAIN names : Differs(reference[g])}}

CompareHashes ==
  /\ step = "segment" /\ cur > Len(image)
  /\ ~Analysing
  /\ step' = "done"
  /\ issues' = issues
       \union Compared([md5 |-> "HashMismatch", sha1 |-> "DigestSha1Mismatch",
                        sha256 |-> "DigestSha256Mismatch"], final)
       \union Compared([md5 |-> "ExternalMd5Mismatch", sha1 |-> "ExternalSha1Mismatch",
                        sha256 |-> "ExternalSha256Mismatch"], expected)
  /\ UNCHANGED <<expected, pass, cur, desc_offset, found, final, entry, progress,
                 hashed, found_chunks>>

CheckNext ==
  \/ ShortSegment \/ OpenSegment \/ WalkDescriptor2 \/ WalkEnds \/ CloseSegment
  \/ CheckChunk \/ ChunksEnd \/ StartHashing \/ CompareHashes

----------------------------------------------------------------------------
(* Properties.                                                             *)

\* A hash section's body is sliced to the digest's size on the word of data_size
\* alone; the walk's lower bound is what keeps `body[..32]` inside the body when a
\* data_size larger than the file has made it start at 0.
SlicesInBounds ==
  step = "walk" /\ ~Outside(desc_offset) =>
    LET d == image[cur].at[desc_offset]
    IN  d.type \in HashTypes /\ ~d.encrypted /\ d.size >= HashField(d.type).size =>
          desc_offset - BodyStart(desc_offset, d) >= HashField(d.type).size

Reported == {f.kind : f \in issues}
TablesOf(s) ==
  {o \in Listed(image[s]) : image[s].at[o].type = SectorTable}

\* A segment's table, and the data of its chunks, lie where they should.
Intact(s) ==
  LET n == Len(image[s].bytes)
  IN  \A o \in TablesOf(s) :
        LET d == image[s].at[o]
        IN  /\ d.size <= o /\ d.high = 0
            /\ d.count <= EntriesBetween(o - d.size, o)
            /\ \A i \in 1..d.count : d.entries[i].off + d.entries[i].size <= n

\* The progress of an image without findings ends at the total of the segment the
\* last call was about, however many segments there are and whatever chunks they have.
ProgressCompletes ==
  step = "done" /\ issues = {} /\ (\A s \in DOMAIN image : Intact(s)) =>
    progress.chunks_done = progress.chunks_total
=============================================================================
