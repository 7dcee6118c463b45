--------------------------- MODULE MCIntegrityV1 ---------------------------
(***************************************************************************)
(* Images for IntegrityV1.  A descriptor has one unit, as have a file      *)
(* header, a checksum, a digest and a table entry; a table's header has    *)
(* two.  Chunks have two bytes.                                            *)
(***************************************************************************)
EXTENDS HashesV1

\* A stream starts with 9 and yields what follows it; anything else is no stream.
MCInflate(raw, limit) ==
  IF raw = <<>> \/ raw[1] # 9 THEN [ok |-> raw = <<>>, bytes |-> <<>>]
  ELSE [ok |-> TRUE, bytes |-> SubSeq(raw, 2, SmallerOf(Len(raw), limit + 1))]
MCAdler(chunk) ==
  <<IF Len(chunk) < 2 THEN 1 ELSE (chunk[1] + 2 * chunk[2]) % 8>>

MCKnownTypes ==
  {"volume", "sectors", "table", "table2", "error2", "hash", "digest", "next", "done"}

Blank ==
  [type |-> "other", next |-> 0, size |-> 1, crc_ok |-> TRUE,
   media_known |-> TRUE, sectors_per_chunk |-> 0, bytes_per_sector |-> 0, sector_count |-> 0,
   chunk_count |-> 0, set_identifier |-> 0, body_crc |-> TRUE,
   entry_count |-> 0, base_offset |-> 0, header_crc |-> TRUE, entries |-> <<>>,
   md5 |-> <<>>, sha1 |-> {}]

\* A section to be written: its fields and its body's bytes.
Part(type, body) == [sec |-> [Blank EXCEPT !.type = type], body |-> body]
Fill(n) == [i \in 1..n |-> 7]

VolumePart(sectors, count) ==
  [Part("volume", Fill(1)) EXCEPT
     !.sec.sectors_per_chunk = 2, !.sec.bytes_per_sector = 1, !.sec.sector_count = sectors,
     !.sec.chunk_count = count, !.sec.set_identifier = 1]
Entry(comp, off) == [comp |-> comp, off |-> off]
TablePart(type, base, entries) ==
  [Part(type, Fill(2 + Len(entries))) EXCEPT
     !.sec.entry_count = Len(entries), !.sec.base_offset = base, !.sec.entries = entries]
HashPart(media) == [Part("hash", Fill(1)) EXCEPT !.sec.md5 = media]
DigestPart(media) == [Part("digest", Fill(2)) EXCEPT !.sec.md5 = media, !.sec.sha1 = {media}]

\* The parts one after another, each linked to the next.
Segment(number, parts) ==
  LET start[i \in 1..Len(parts) + 1] ==
        IF i = 1 THEN 1 ELSE start[i - 1] + 1 + Len(parts[i - 1].body)
      written[i \in 0..Len(parts)] ==
        IF i = 0 THEN <<7>> ELSE written[i - 1] \o <<7>> \o parts[i].body
      len == start[Len(parts) + 1]
      At(o) == IF \E i \in DOMAIN parts : start[i] = o
               THEN LET i == CHOOSE i \in DOMAIN parts : start[i] = o
                    IN  [parts[i].sec EXCEPT !.next = start[i + 1], !.size = start[i + 1] - o]
               ELSE Blank
  IN  [signature |-> TRUE, number |-> number, at |-> [o \in 0..len - 1 |-> At(o)],
       bytes |-> written[Len(parts)]]

\* The first n bytes of a segment; a table keeps the entries that are among them.
Cut(g, n) ==
  [g EXCEPT
     !.bytes = SubSeq(@, 1, n),
     !.at = [o \in 0..n - 1 |->
               [g.at[o] EXCEPT !.entries = SubSeq(@, 1, SmallerOf(Len(@), SatSub(n, o + 3)))]]]

----------------------------------------------------------------------------
(* A whole image, and the damage of the anomaly catalogue done to it.      *)

Media == <<1, 2, 3, 4>>

\* volume at 1, sectors at 3, table at 10, table2 at 15, error2 at 20, hash at 22,
\* digest at 24, done at 27; the chunks at 4 (stored) and 7 (compressed).
Sound(sectors, media) ==
  LET entries == <<Entry(FALSE, 0), Entry(TRUE, 3)>>
  IN  Segment(1, <<VolumePart(sectors, 2), Part("sectors", <<1, 2, 5, 9, 3, 4>>),
                   TablePart("table", 4, entries), TablePart("table2", 4, entries),
                   Part("error2", Fill(1)), HashPart(media), DigestPart(media),
                   Part("done", <<>>)>>)

VolumeKinds == {"MediaTypeUnknown", "BytesPerSectorInvalid", "ChunkSizeInvalid",
                "SectorCountMismatch", "VolumeBodyCrcMismatch"}
ChunkKinds == {"ChunkChecksumMismatch", "ChunkDecompressionError"}
DigestKinds == {"HashMismatch", "HashSectionMissing", "DigestSha1Mismatch"}
TableKinds == {"TableHeaderAdler32Mismatch", "TableChunkCountMismatch", "TableEntryOutOfBounds",
               "TableEntryOutsideSectorsRange", "Table2Mismatch"}
Kinds == VolumeKinds \union ChunkKinds \union DigestKinds \union TableKinds \union
         {"InvalidSignature", "SegmentNumberZero", "SegmentOutOfOrder",
          "SectionDescriptorCrcMismatch", "UnknownSectionType", "SectionChainBroken",
          "SectionGapNonZero", "SectionGapZero", "VolumeSectionMissing", "SectorsSectionMissing",
          "TableSectionMissing", "BadSectorsPresent", "DoneSectionMissing"}

Damage(kind, g) ==
  CASE kind = "InvalidSignature"              -> [g EXCEPT !.signature = FALSE]
    [] kind = "SegmentNumberZero"             -> [g EXCEPT !.number = 0]
    [] kind = "SegmentOutOfOrder"             -> [g EXCEPT !.number = 3]
    [] kind = "SectionDescriptorCrcMismatch"  -> [g EXCEPT !.at[20].crc_ok = FALSE]
    [] kind = "UnknownSectionType"            -> [g EXCEPT !.at[20].type = "other"]
    [] kind = "SectionChainBroken"            -> [g EXCEPT !.at[24].next = 10]
    [] kind = "SectionGapNonZero"             -> [g EXCEPT !.at[20].size = 1]
    [] kind = "SectionGapZero"                -> [g EXCEPT !.at[22].size = 1, !.bytes[24] = 0]
    [] kind = "VolumeSectionMissing"          -> [g EXCEPT !.at[1].type = "other"]
    [] kind = "MediaTypeUnknown"              -> [g EXCEPT !.at[1].media_known = FALSE]
    [] kind = "BytesPerSectorInvalid"         -> [g EXCEPT !.at[1].bytes_per_sector = 3]
    [] kind = "ChunkSizeInvalid"              -> [g EXCEPT !.at[1].sectors_per_chunk = 3]
    [] kind = "SectorCountMismatch"           -> [g EXCEPT !.at[1].sector_count = 5]
    [] kind = "VolumeBodyCrcMismatch"         -> [g EXCEPT !.at[1].body_crc = FALSE]
    [] kind = "SectorsSectionMissing"         -> [g EXCEPT !.at[3].type = "other"]
    [] kind = "TableSectionMissing"           -> [g EXCEPT !.at[10].type = "other"]
    [] kind = "TableHeaderAdler32Mismatch"    -> [g EXCEPT !.at[10].header_crc = FALSE]
    [] kind = "TableChunkCountMismatch"       -> [g EXCEPT !.at[10].entry_count = 1]
    [] kind = "TableEntryOutOfBounds"         -> [g EXCEPT !.at[10].entries[2].off = 40]
    [] kind = "TableEntryOutsideSectorsRange" -> [g EXCEPT !.at[10].entries[1].off = 8]
    [] kind = "Table2Mismatch"                -> [g EXCEPT !.at[15].entries[2].off = 2]
    [] kind = "BadSectorsPresent"             -> [g EXCEPT !.at[20].entry_count = 1]
    [] kind = "ChunkChecksumMismatch"         -> [g EXCEPT !.bytes[7] = 6]
    [] kind = "ChunkDecompressionError"       -> [g EXCEPT !.bytes[8] = 8]
    [] kind = "HashMismatch"                  -> [g EXCEPT !.at[22].md5 = <<6>>]
    [] kind = "HashSectionMissing"            -> [g EXCEPT !.at[22].type = "other"]
    [] kind = "DigestSha1Mismatch"            -> [g EXCEPT !.at[24].sha1 = {<<6>>}]
    [] kind = "DoneSectionMissing"            -> Cut(g, 27)
    [] OTHER                                  -> g

\* What a reader of the report has to know: damage that hides other damage.
Hides(kind) ==
  CASE kind = "VolumeSectionMissing" ->
         VolumeKinds \union ChunkKinds \union DigestKinds \union {"TableChunkCountMismatch"}
    [] kind = "ChunkSizeInvalid" -> {"SectorCountMismatch", "ChunkChecksumMismatch"}
    [] kind = "BytesPerSectorInvalid" -> {"ChunkChecksumMismatch"}
    [] kind = "SectorsSectionMissing" -> ChunkKinds \union {"TableEntryOutsideSectorsRange"}
    [] kind = "TableSectionMissing" -> ChunkKinds \union TableKinds
    [] kind = "TableChunkCountMismatch" -> {"TableEntryOutOfBounds", "ChunkDecompressionError"}
    [] kind \in {"TableEntryOutOfBounds", "TableEntryOutsideSectorsRange"} -> ChunkKinds
    [] kind = "HashSectionMissing" -> {"HashMismatch"}
    [] kind = "SegmentNumberZero" -> {"SegmentOutOfOrder"}
    [] kind = "SegmentOutOfOrder" -> {"SegmentNumberZero"}
    [] kind = "UnknownSectionType" -> {"BadSectorsPresent"}
    [] OTHER -> {}

Cases ==
  {[image |-> <<Damage(k, Damage(j, Sound(4, Media)))>>,
    kinds |-> {x \in {k, j} : x \notin Hides(k) \union Hides(j)}] : k, j \in Kinds}
WholeImages == {<<Sound(4, Media)>>, <<Sound(3, <<1, 2, 3>>)>>}

----------------------------------------------------------------------------
(* Other images: several segments, short and failing streams, broken chains.*)

Pieces == {[comp |-> FALSE, bytes |-> <<1, 2, 5>>], [comp |-> TRUE, bytes |-> <<9, 3, 4>>],
           [comp |-> TRUE, bytes |-> <<9, 3, 4, 5>>], [comp |-> TRUE, bytes |-> <<9>>],
           [comp |-> TRUE, bytes |-> <<8, 3>>]}

FirstOfTwo(p, sectors, count) ==
  Segment(1, <<VolumePart(sectors, count), Part("sectors", p.bytes),
               TablePart("table", 4, <<Entry(p.comp, 0)>>), Part("next", <<>>)>>)
SecondOfTwo(p, q, guid) ==
  Segment(2, <<[VolumePart(4, 2) EXCEPT !.sec.set_identifier = guid],
               Part("sectors", p.bytes \o q.bytes),
               TablePart("table", 4, <<Entry(p.comp, 0), Entry(q.comp, Len(p.bytes))>>),
               HashPart(<<1, 2, 3, 4, 3, 4>>), Part("done", <<>>)>>)

TwoSegments ==
  {<<FirstOfTwo(p, n, 3), SecondOfTwo(q, r, g)>> :
     p, q, r \in Pieces, n \in {3, 5, 6}, g \in {0, 1, 2}}
  \union
  {<<[FirstOfTwo(p, 6, 3) EXCEPT !.at[1].crc_ok = FALSE], SecondOfTwo(q, q, 1)>> : p, q \in Pieces}

\* A segment without a file header between two others.
ShortBetween ==
  {<<FirstOfTwo(p, 5, 3), [SecondOfTwo(p, q, 1) EXCEPT !.bytes = <<>>],
     [SecondOfTwo(q, q, 1) EXCEPT !.number = 3]>> : p, q \in Pieces}

BentChains ==
  {<<[Sound(4, Media) EXCEPT !.at[o].next = n]>> :
     o \in {1, 3, 10, 15, 20, 22, 24}, n \in {0, 1, 3, 15, 16, 27, 28, 29}}
  \union {<<Cut(Sound(4, Media), n)>> : n \in {1, 2, 3, 9, 10, 11, 12, 14, 22, 23, 25, 26, 27}}
  \union {<<[Sound(4, Media) EXCEPT !.bytes = <<>>]>>, <<>>,
          <<[Sound(4, Media) EXCEPT !.at[1].size = 1]>>}

AllImages ==
  {c.image : c \in Cases} \union WholeImages \union TwoSegments \union ShortBetween
  \union BentChains

MCExpectations ==
  {[md5 |-> {}, sha1 |-> {}, sha256 |-> {}], [md5 |-> {Media}, sha1 |-> {Media}, sha256 |-> {Media}],
   [md5 |-> {}, sha1 |-> {}, sha256 |-> {<<6>>}]}

Reported == {f.kind : f \in issues}

\* Every kind of damage in the catalogue is reported under its own name, alone and
\* together with any other, except where Hides says that one hides the other; and
\* a whole image is never accused of anything but a reference that differs.
DamageReported ==
  pc = "analysed" =>
    /\ \A c \in Cases : c.image = image => c.kinds \subseteq Reported
    /\ image \in WholeImages =>
         Reported \subseteq {"ExternalMd5Mismatch", "ExternalSha1Mismatch", "ExternalSha256Mismatch"}
=============================================================================
