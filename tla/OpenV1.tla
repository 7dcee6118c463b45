------------------------------- MODULE OpenV1 -------------------------------
(***************************************************************************)
(* Opening an EWF v1 image (core/src/reader.rs open_v1): the segments are  *)
(* put in the order of their segment numbers, each segment's descriptor    *)
(* chain is walked, and each section updates the state of the open, until  *)
(* it fails or yields a reader.  The same image is opened twice, first     *)
(* with the eager table and then with the lazy one.                        *)
(*                                                                         *)
(* A segment is [number, kind, len, at]: `at` gives the section that the   *)
(* bytes at an offset describe (any 76 bytes parse as a descriptor).  A    *)
(* section record has the fields of every type; `whole` says that the      *)
(* segment holds the body the handler reads, and `entries` is the table    *)
(* entries the segment holds.  A digest of 0 is all zero bytes.            *)
(***************************************************************************)
EXTENDS ChunkTable, SegmentOrder

CONSTANTS
  Images,            \* the images that are opened: sequences of segments
  FileHeaderSize, DescriptorSize,
  MaxChunkSize, MaxTableEntries, MaxSectionData

Modes == {"eager", "lazy"}
Kinds == {"physical", "logical", "ewf2", "invalid"}

Section ==
  [type : STRING, next : Nat, size : Nat, whole : BOOLEAN,
   sectors_per_chunk : Nat, bytes_per_sector : Nat, sector_count : Nat, chunk_count : Nat,
   entry_count : Nat, base_offset : Nat, entries : Seq([comp : BOOLEAN, off : Nat]),
   md5 : Nat, sha1 : Nat, case : Nat, errors : Nat]

ASSUME OpenAssumption ==
  /\ FileHeaderSize \in Nat
  /\ DescriptorSize \in Nat \ {0}
  /\ MaxChunkSize \in Nat /\ MaxTableEntries \in Nat /\ MaxSectionData \in Nat
  /\ \A img \in Images :
       /\ Len(img) \in Nat /\ img = [i \in 1..Len(img) |-> img[i]]
       /\ \A i \in 1..Len(img) :
            /\ img[i].number \in Nat /\ img[i].len \in Nat /\ img[i].kind \in Kinds
            /\ \A o \in 0..(img[i].len - DescriptorSize) :
                 /\ o \in DOMAIN img[i].at /\ img[i].at[o] \in Section
                 /\ MaxChunkSize * img[i].at[o].chunk_count <= U64Max

VARIABLES
  image,     \* the sources, as the caller passed them
  mode,      \* lazy_section_cache.is_some()
  pc,
  ordered,   \* the segments in segment-number order
  seg,       \* the segment being parsed
  off,       \* desc_offset
  descs,     \* its descriptors so far
  pos,       \* the descriptor whose section comes next
  chunk_size, total_size,
  chunks, index, next_chunk_id,
  hashes,    \* stored_md5 and stored_sha1
  metadata, errors,
  opened     \* what each open returned

position == <<ordered, seg, off, descs, pos>>
result == <<chunk_size, total_size, chunks, index, next_chunk_id, hashes, metadata, errors>>
vars == <<image, mode, pc, position, result, opened>>

----------------------------------------------------------------------------

NotOpened == [ok |-> FALSE, done |-> FALSE]
Failed == [ok |-> FALSE, done |-> TRUE]
NoHashes == [md5 |-> None, sha1 |-> None]

Init ==
  /\ image \in Images
  /\ mode = "eager"
  /\ pc = "headers"
  /\ ordered = <<>> /\ seg = 1 /\ off = FileHeaderSize /\ descs = <<>> /\ pos = 1
  /\ chunk_size = 0 /\ total_size = 0
  /\ chunks = <<>> /\ index = <<>> /\ next_chunk_id = 0
  /\ hashes = NoHashes /\ metadata = 0 /\ errors = 0
  /\ opened = [m \in Modes |-> NotOpened]

Goto(from, to) == pc = from /\ pc' = to

\* `?`: the open returns an error.
Fail(from) ==
  /\ Goto(from, "closed")
  /\ opened' = [opened EXCEPT ![mode] = Failed]
  /\ UNCHANGED <<image, mode, position, result>>

\* No sources, an EWF2 signature up front, an unknown signature anywhere, or a
\* gap in the segment numbers.
Rejected(sources) ==
  \/ sources = <<>>
  \/ sources[1].kind = "ewf2"
  \/ \E i \in DOMAIN sources : sources[i].kind \notin {"physical", "logical"}
  \/ ~Sequential(sources)

RejectSources == Fail("headers") /\ Rejected(image)

OrderSegments ==
  /\ Goto("headers", "walk")
  /\ ~Rejected(image)
  /\ ordered' = Reordered(image)
  /\ UNCHANGED <<image, mode, seg, off, descs, pos, result, opened>>

----------------------------------------------------------------------------
(* The descriptor walk of one segment.                                     *)

ChainEnds(o, s) == o + DescriptorSize > SmallerOf(s.len, U64Max)

\* The chain ran into the end of the segment.
WalkTruncated ==
  /\ Goto("walk", "sections")
  /\ ChainEnds(off, ordered[seg])
  /\ UNCHANGED <<image, mode, position, result, opened>>

\* Mutant: a descriptor that is already known is passed over and its link followed.
WalkAgain ==
  LET d == ordered[seg].at[off]
  IN  /\ pc = "walk"
      /\ ~ChainEnds(off, ordered[seg])
      /\ descs' = IF \E i \in DOMAIN descs : descs[i].offset = off
                  THEN descs ELSE Append(descs, [offset |-> off, sec |-> d])
      /\ IF d.next = 0 THEN pc' = "sections" /\ UNCHANGED off
                       ELSE off' = d.next /\ UNCHANGED pc
      /\ UNCHANGED <<image, mode, ordered, seg, pos, result, opened>>

\* One descriptor; a link that is null or does not go forward ends the chain.
WalkDescriptor ==
  LET d == ordered[seg].at[off]
  IN  /\ pc = "walk"
      /\ ~ChainEnds(off, ordered[seg])
      /\ descs' = Append(descs, [offset |-> off, sec |-> d])
      /\ IF d.next = 0 \/ d.next <= off
         THEN pc' = "sections" /\ UNCHANGED off
         ELSE off' = d.next /\ UNCHANGED pc
      /\ UNCHANGED <<image, mode, ordered, seg, pos, result, opened>>

----------------------------------------------------------------------------
(* The sections of one segment, in the order of the walk.                  *)

Types == {descs[i].sec.type : i \in DOMAIN descs}

TableType == IF "table" \in Types THEN "table" ELSE "table2"

\* The first `sectors` section ends here (saturating), or there is none.
SectorsDataEnd ==
  LET is == {i \in DOMAIN descs : descs[i].sec.type = "sectors"}
      first == CHOOSE i \in is : \A j \in is : i <= j
  IN  IF is = {} THEN None ELSE SatAdd(descs[first].offset, descs[first].sec.size)

Current == descs[pos].sec
DataSize == SatSub(Current.size, DescriptorSize)
DataSizeOk == DataSize > 0 /\ DataSize < MaxSectionData

VolumeChunkSize(d) == d.sectors_per_chunk * d.bytes_per_sector

\* EwfVolume::total_size, or the size of all chunks when it is 0.
VolumeTotalSize(d) ==
  LET declared == SmallerOf(d.bytes_per_sector * d.sector_count, U64Max)
  IN  IF declared = 0 THEN VolumeChunkSize(d) * d.chunk_count ELSE declared

IsVolume == Current.type \in {"volume", "disk"}
IsTable == Current.type = TableType
IsHeader == Current.type = "header" /\ metadata = 0

\* Mutant: it is the lazy open that needs all declared entries.
HandlerFailsLazy ==
  LET d == Current
  IN  \/ IsVolume /\ (~d.whole \/ VolumeChunkSize(d) > MaxChunkSize)
      \/ IsTable /\ \/ ~d.whole
                    \/ d.entry_count > MaxTableEntries
                    \/ mode = "lazy" /\ Len(d.entries) < d.entry_count
      \/ d.type \in {"hash", "digest"} /\ ~d.whole
      \/ (IsHeader \/ d.type = "error2") /\ DataSizeOk /\ ~d.whole

\* What makes the handler of a section fail the whole open.
HandlerFails ==
  LET d == Current
  IN  \/ IsVolume /\ (~d.whole \/ VolumeChunkSize(d) > MaxChunkSize)
      \/ IsTable /\ \/ ~d.whole
                    \/ d.entry_count > MaxTableEntries
                    \/ mode = "eager" /\ Len(d.entries) < d.entry_count
      \/ d.type \in {"hash", "digest"} /\ ~d.whole
      \/ (IsHeader \/ d.type = "error2") /\ DataSizeOk /\ ~d.whole

SectionFails ==
  /\ Fail("sections")
  /\ pos <= Len(descs)
  /\ HandlerFails

\* The handlers below run when the section is readable, and advance to the next.
Handle(is) ==
  /\ pc = "sections"
  /\ pos <= Len(descs)
  /\ is
  /\ ~HandlerFails
  /\ pos' = pos + 1
  /\ UNCHANGED <<image, mode, pc, ordered, seg, off, descs, opened>>

VolumeSection ==
  /\ Handle(IsVolume)
  /\ chunk_size' = VolumeChunkSize(Current)
  /\ total_size' = VolumeTotalSize(Current)
  /\ UNCHANGED <<chunks, index, next_chunk_id, hashes, metadata, errors>>

\* Mutant: the eager table is built without the sectors' end.
EagerTableOpenEnd ==
  /\ Handle(IsTable)
  /\ mode = "eager"
  /\ chunks' = chunks \o ParseTableSection(Current.entries, Current.entry_count,
                                           Current.base_offset, seg, chunk_size, None)
  /\ UNCHANGED <<chunk_size, total_size, index, next_chunk_id, hashes, metadata, errors>>

\* The eager table: all entries are parsed now.
EagerTable ==
  /\ Handle(IsTable)
  /\ mode = "eager"
  /\ chunks' = chunks \o ParseTableSection(Current.entries, Current.entry_count,
                                           Current.base_offset, seg, chunk_size,
                                           SectorsDataEnd)
  /\ UNCHANGED <<chunk_size, total_size, index, next_chunk_id, hashes, metadata, errors>>

\* TableSectionRef::read_header.
SectionMeta(d) ==
  [first_chunk_id |-> next_chunk_id, entry_count |-> d.entry_count, segment_idx |-> seg,
   base_offset |-> d.base_offset, sectors_data_end |-> SectorsDataEnd,
   entries |-> d.entries]

\* Mutant: a section counts the entries it holds, not those it declares.
LazyTableByHeld ==
  /\ Handle(IsTable)
  /\ mode = "lazy"
  /\ index' = Append(index, SectionMeta(Current))
  /\ next_chunk_id' = next_chunk_id + Len(Current.entries)
  /\ UNCHANGED <<chunk_size, total_size, chunks, hashes, metadata, errors>>

\* The lazy table: only the section's header is read.
LazyTable ==
  /\ Handle(IsTable)
  /\ mode = "lazy"
  /\ index' = Append(index, SectionMeta(Current))
  /\ next_chunk_id' = next_chunk_id + Current.entry_count
  /\ UNCHANGED <<chunk_size, total_size, chunks, hashes, metadata, errors>>

\* The first `hash` section counts, unless a digest came before it.
HashSection ==
  /\ Handle(Current.type = "hash")
  /\ hashes' = IF hashes.md5 = None THEN [hashes EXCEPT !.md5 = Current.md5] ELSE hashes
  /\ UNCHANGED <<chunk_size, total_size, chunks, index, next_chunk_id, metadata, errors>>

NonZero(digest) == IF digest = 0 THEN None ELSE digest

\* A digest section replaces both hashes; an all-zero one is None.
DigestSection ==
  /\ Handle(Current.type = "digest")
  /\ hashes' = [md5 |-> NonZero(Current.md5), sha1 |-> NonZero(Current.sha1)]
  /\ UNCHANGED <<chunk_size, total_size, chunks, index, next_chunk_id, metadata, errors>>

\* A header is parsed as long as no case number and no OS version is known; its
\* text may hold neither.
HeaderSection ==
  /\ Handle(IsHeader)
  /\ metadata' = IF DataSizeOk THEN Current.case ELSE metadata
  /\ UNCHANGED <<chunk_size, total_size, chunks, index, next_chunk_id, hashes, errors>>

Error2Section ==
  /\ Handle(Current.type = "error2")
  /\ errors' = IF DataSizeOk THEN Current.errors ELSE errors
  /\ UNCHANGED <<chunk_size, total_size, chunks, index, next_chunk_id, hashes, metadata>>

OtherSection ==
  /\ Handle(/\ ~IsVolume /\ ~IsTable /\ ~IsHeader
            /\ Current.type \notin {"hash", "digest", "error2"})
  /\ UNCHANGED result

NextSegment ==
  /\ Goto("sections", IF seg = Len(ordered) THEN "finish" ELSE "walk")
  /\ pos > Len(descs)
  /\ seg' = seg + 1
  /\ off' = FileHeaderSize
  /\ descs' = <<>>
  /\ pos' = 1
  /\ UNCHANGED <<image, mode, ordered, result, opened>>

----------------------------------------------------------------------------
(* The reader.                                                             *)

MissingVolume == Fail("finish") /\ chunk_size = 0

TableLen == IF mode = "eager" THEN Len(chunks) ELSE LazyLen(index)

\* logical::media_size_for, with the kind of the source passed first.
MediaSize(declared, count) ==
  LET from_chunks == SmallerOf(count * chunk_size, U64Max)
  IN  IF image[1].kind = "logical" \/ declared = 0 THEN from_chunks ELSE declared

Finish ==
  /\ Goto("finish", "closed")
  /\ chunk_size # 0
  /\ opened' = [opened EXCEPT ![mode] =
       [ok |-> TRUE, done |-> TRUE, len |-> TableLen, chunk_size |-> chunk_size,
        total_size |-> MediaSize(total_size, TableLen), chunks |-> chunks,
        index |-> index, hashes |-> hashes, metadata |-> metadata, errors |-> errors]]
  /\ UNCHANGED <<image, mode, position, result>>

\* The same sources are opened again with the lazy table.
OpenLazy ==
  /\ Goto("closed", "headers")
  /\ mode = "eager"
  /\ mode' = "lazy"
  /\ ordered' = <<>> /\ seg' = 1 /\ off' = FileHeaderSize /\ descs' = <<>> /\ pos' = 1
  /\ chunk_size' = 0 /\ total_size' = 0
  /\ chunks' = <<>> /\ index' = <<>> /\ next_chunk_id' = 0
  /\ hashes' = NoHashes /\ metadata' = 0 /\ errors' = 0
  /\ UNCHANGED <<image, opened>>

Next ==
  \/ RejectSources \/ OrderSegments
  \/ WalkTruncated \/ WalkDescriptor
  \/ SectionFails \/ VolumeSection \/ EagerTable \/ LazyTable \/ HashSection
  \/ DigestSection \/ HeaderSection \/ Error2Section \/ OtherSection \/ NextSegment
  \/ MissingVolume \/ Finish \/ OpenLazy

SafetySpec == Init /\ [][Next]_vars

\* open_v1 runs on its caller's thread and waits for nobody.
Spec == SafetySpec /\ WF_vars(Next)

----------------------------------------------------------------------------
(* Properties.                                                             *)

TypeOK ==
  /\ mode \in Modes
  /\ pc \in {"headers", "walk", "sections", "finish", "closed"}
  /\ seg \in Nat /\ off \in Nat /\ pos \in Nat \ {0}
  /\ descs \in Seq([offset : Nat, sec : Section])
  /\ index \in Seq([first_chunk_id : Nat, entry_count : Nat, segment_idx : Nat,
                    base_offset : Nat, sectors_data_end : Nat \union {None},
                    entries : Seq([comp : BOOLEAN, off : Nat])])
  /\ chunks \in Seq(Chunk)
  /\ chunk_size \in Nat /\ total_size \in 0..U64Max /\ next_chunk_id \in Nat
  /\ hashes \in [md5 : Nat \union {None}, sha1 : Nat \union {None}]
  /\ metadata \in Nat /\ errors \in Nat

\* Whatever a segment's `next` links say, the walk of its chain only goes forward
\* and stays inside the segment: no descriptor is read twice.
ChainAscends ==
  \A i \in DOMAIN descs :
    /\ descs[i].offset + DescriptorSize <= ordered[seg].len
    /\ \A j \in DOMAIN descs : i < j => descs[i].offset < descs[j].offset

\* The chunk table is in media order however the caller ordered the sources: the
\* segments are parsed by segment number, and neither table ever goes back to an
\* earlier segment.
SegmentsInOrder ==
  /\ \A i \in DOMAIN ordered : ordered[i].number = i
  /\ \A i, j \in DOMAIN chunks : i < j => chunks[i].seg <= chunks[j].seg
  /\ \A i, j \in DOMAIN index : i < j => index[i].segment_idx <= index[j].segment_idx

\* The lazy index numbers its chunks without gap or overlap, which is what its
\* binary search relies on ("ordered by `first_chunk_id` (ascending)").
IndexConsecutive ==
  /\ next_chunk_id = LazyLen(index)
  /\ index # <<>> => index[1].first_chunk_id = 0
  /\ \A i \in DOMAIN index :
       i + 1 \in DOMAIN index =>
         index[i + 1].first_chunk_id = index[i].first_chunk_id + index[i].entry_count
  /\ \A i, j \in DOMAIN index : i <= j => index[i].first_chunk_id <= index[j].first_chunk_id

\* What holds between any two steps: the segments are in order, the next descriptor
\* lies behind those read, and the next chunk id behind those of every section; no
\* chunk is of a segment that is still to come.
IInv ==
  /\ TypeOK
  /\ pc \in {"walk", "sections", "finish"} => ~Rejected(image) /\ ordered = Reordered(image)
  /\ pc \in {"walk", "sections"} => seg \in 1..Len(image)
  /\ pc \in {"headers", "finish"} => descs = <<>>
  /\ pc = "headers" => seg = 1
  /\ pc = "walk" => \A i \in DOMAIN descs : descs[i].offset < off
  /\ \A i \in DOMAIN descs : MaxChunkSize * descs[i].sec.chunk_count <= U64Max
  /\ \A i \in DOMAIN index : index[i].first_chunk_id + index[i].entry_count <= next_chunk_id
  /\ \A i \in DOMAIN chunks : chunks[i].seg <= seg
  /\ \A i \in DOMAIN index : index[i].segment_idx <= seg
  /\ \A i \in DOMAIN descs :
       descs[i].offset \in DOMAIN ordered[seg].at /\ descs[i].sec = ordered[seg].at[descs[i].offset]
  /\ ChainAscends
  /\ IndexConsecutive
  /\ SegmentsInOrder

BothOpen == opened["eager"].ok /\ opened["lazy"].ok

\* LazyChunkTable::get after a successful open.
LazyLookup(r, id) ==
  LET m == r.index[SectionFor(r.index, id)]
      parsed == ParseTableSection(m.entries, m.entry_count, m.base_offset, m.segment_idx,
                                  r.chunk_size, m.sectors_data_end)
      local == id - m.first_chunk_id + 1
  IN  IF local \in DOMAIN parsed THEN parsed[local] ELSE "panic"

SectionsOf(img) ==
  UNION {{[number |-> img[i].number, offset |-> o, sec |-> img[i].at[o]] :
            o \in DOMAIN img[i].at} : i \in DOMAIN img}

\* One volume, in front of every table, and no table entry beyond u64.
Regular(img) ==
  /\ \A s \in SectionsOf(img) : \A i \in DOMAIN s.sec.entries :
       s.sec.base_offset + s.sec.entries[i].off <= U64Max
  /\ \A s, v \in SectionsOf(img) :
       v.sec.type \in {"volume", "disk"} /\ s.sec.type \in {"volume", "disk", "table", "table2"} =>
         v.number < s.number \/ (v.number = s.number /\ v.offset <= s.offset)

\* What the eager and the lazy table say of every chunk id.
SameTables ==
  LET e == opened["eager"]
      l == opened["lazy"]
  IN  /\ l.len = e.len /\ l.total_size = e.total_size
      /\ \A id \in 0..e.len - 1 : LazyLookup(l, id) = e.chunks[id + 1]

\* Eager and lazy lookups agree on every regular image, sections split over
\* several tables and segments, short segments and table2-only segments included.
TablesAgree == BothOpen /\ Regular(image) => SameTables

\* What opens with the eager table opens with the lazy one, with the same
\* geometry, hashes, metadata and acquisition errors.
LazyOpensToo ==
  opened["lazy"].done /\ opened["eager"].ok =>
    /\ opened["lazy"].ok
    /\ \A f \in {"chunk_size", "hashes", "metadata", "errors"} :
         opened["lazy"][f] = opened["eager"][f]

\* Every open returns, also on circular and dangling chains.
OpenReturns == <>(mode = "lazy" /\ pc = "closed")

----------------------------------------------------------------------------
(* Statements of the sources that the code does not keep on every image.   *)

\* "An all-zero digest is therefore an ABSENCE, not a value" (open_v1): an MD5
\* that a hash section recorded survives a digest section without one.
StoredMd5Kept ==
  pc = "finish" /\ (\E s \in SectionsOf(image) : s.sec.type = "hash")
    => hashes.md5 # None
=============================================================================
