------------------------------- MODULE OpenV2 -------------------------------
(***************************************************************************)
(* Opening an EWF v2 image (core/src/reader.rs open_segments_v2): the      *)
(* segments are put in order, each one's descriptor list is collected from *)
(* its end backward, and its sections are then taken in file order.        *)
(***************************************************************************)
EXTENDS Ewf2Format, SegmentOrder

CONSTANTS MaxTableEntries, MaxSectionData, DefaultChunkSize

ASSUME OpenAssumption == {MaxTableEntries, MaxSectionData, DefaultChunkSize} \subseteq Nat

VARIABLES
  pc,
  ordered,   \* the segments in segment-number order
  seg,       \* the segment being parsed
  off,       \* desc_offset
  descs,     \* its descriptors, in file order
  pos,       \* the descriptor whose section comes next
  chunk_size, total_size, chunks,
  stored,    \* stored_md5 and stored_sha1, sets of at most one digest
  case_number,
  opened     \* what the open returned

position == <<ordered, seg, off, descs, pos>>
result == <<chunk_size, total_size, chunks, stored, case_number>>
openVars == <<pc, position, result, opened>>

OpenInit ==
  /\ image \in Images
  /\ pc = "headers"
  /\ ordered = <<>> /\ seg = 1 /\ off = 0 /\ descs = <<>> /\ pos = 1
  /\ chunk_size = 0 /\ total_size = 0 /\ chunks = <<>>
  /\ stored = [md5 |-> {}, sha1 |-> {}]
  /\ case_number = None
  /\ opened = [ok |-> FALSE]

Goto(from, to) == pc = from /\ pc' = to

Fail(from) ==
  /\ Goto(from, "closed")
  /\ UNCHANGED <<position, result, opened>>

FileLen == Len(ordered[seg].bytes)

\* Ewf2FileHeader::parse: signature and compression method.
BadHeader(s) == Len(s.bytes) < HeaderSize \/ s.kind = "other" \/ s.method > 2

Rejected(sources) ==
  \/ sources = <<>>
  \/ \E i \in DOMAIN sources : BadHeader(sources[i])
  \/ ~Sequential(sources)

RejectSources == Fail("headers") /\ Rejected(image)

OrderSegments ==
  /\ Goto("headers", "segment")
  /\ ~Rejected(image)
  /\ ordered' = Reordered(image)
  /\ UNCHANGED <<seg, off, descs, pos, result, opened>>

----------------------------------------------------------------------------
(* collect_ewf2_descriptors.                                               *)

NoDescriptors ==
  /\ Goto("segment", "sections")
  /\ FileLen < DescriptorSize
  /\ UNCHANGED <<position, result, opened>>

StartWalk ==
  /\ Goto("segment", "walk")
  /\ FileLen >= DescriptorSize
  /\ off' = FileLen - DescriptorSize
  /\ UNCHANGED <<ordered, seg, descs, pos, result, opened>>

Visited == {descs[i].offset : i \in DOMAIN descs}

\* A cycle, or a descriptor that the file does not hold.
WalkFails ==
  /\ Fail("walk")
  /\ off \in Visited \/ off + DescriptorSize > FileLen

\* The link is followed; 0 ends the list, and one past the file is an error.
WalkDescriptor ==
  LET d == ordered[seg].at[off]
  IN  /\ pc = "walk"
      /\ off \notin Visited
      /\ off + DescriptorSize <= FileLen
      /\ descs' = <<[offset |-> off, sec |-> d]>> \o descs
      /\ pc' = CASE d.prev = 0        -> "sections"
                 [] d.prev >= FileLen -> "closed"
                 [] OTHER             -> "walk"
      /\ off' = d.prev
      /\ UNCHANGED <<ordered, seg, pos, result, opened>>

----------------------------------------------------------------------------
(* The sections of one segment, in file order.                             *)

Current == descs[pos].sec
DataOffset == descs[pos].offset - Current.size
SizeOk == Current.size > 0 /\ Current.size < MaxSectionData

IsCase == Current.type = CaseData /\ SizeOk /\ case_number = None
IsDevice == Current.type = DeviceInfo /\ SizeOk /\ chunk_size = 0
IsTable == Current.type = SectorTable
IsMd5 == Current.type = Md5Hash /\ Current.size >= Md5Size
IsSha1 == Current.type = Sha1Hash /\ Current.size >= Sha1Size

\* A body that starts before the file, a damaged stream, a table that is too long
\* or that the file does not hold.
HandlerFails ==
  \/ Current.encrypted
  \/ (IsCase \/ IsDevice \/ IsTable \/ IsMd5 \/ IsSha1) /\ DataOffset < 0
  \/ (IsCase \/ IsDevice) /\ Current.text = "corrupt"
  \/ IsTable /\ \/ DataOffset + TableHeaderSize > FileLen
                \/ Current.count > MaxTableEntries
                \/ Current.count > EntriesBetween(DataOffset, FileLen)

SectionFails == Fail("sections") /\ pos <= Len(descs) /\ HandlerFails

Handle(is) ==
  /\ pc = "sections"
  /\ pos <= Len(descs)
  /\ ~HandlerFails
  /\ is
  /\ pos' = pos + 1
  /\ UNCHANGED <<pc, ordered, seg, off, descs, opened>>

CaseSection ==
  /\ Handle(IsCase)
  /\ case_number' = IF Current.lines THEN Current.case ELSE case_number
  /\ UNCHANGED <<chunk_size, total_size, chunks, stored>>

Default(value, otherwise) == IF value = None THEN otherwise ELSE value
Wrapped(n) == n % (U64Max + 1)

\* parse_ewf2_device_info, with its defaults of 512 bytes and 64 sectors; what
\* comes out 0 is not taken over.
DeviceSection ==
  LET b == Default(Current.b, 512)
      size == Wrapped(b * Default(Current.sc, 64))
      ts == Default(Current.ts, 0)
  IN  /\ Handle(IsDevice)
      /\ chunk_size' = IF Current.lines /\ size > 0 THEN size ELSE chunk_size
      /\ total_size' = IF Current.lines /\ ts > 0 /\ b > 0 THEN Wrapped(b * ts) ELSE total_size
      /\ UNCHANGED <<chunks, stored, case_number>>

\* Mutant: a table's chunks replace those of the tables before it.
TableSectionAlone ==
  /\ Handle(IsTable)
  /\ chunks' = [i \in 1..Current.count |->
                 NewChunk(seg, Current.entries[i].comp, Current.entries[i].off,
                          Current.entries[i].size)]
  /\ UNCHANGED <<chunk_size, total_size, stored, case_number>>

\* Every entry becomes a chunk, behind those of the tables before; first_chunk is
\* not used.
TableSection ==
  /\ Handle(IsTable)
  /\ chunks' = chunks \o [i \in 1..Current.count |->
                 NewChunk(seg, Current.entries[i].comp, Current.entries[i].off,
                          Current.entries[i].size)]
  /\ UNCHANGED <<chunk_size, total_size, stored, case_number>>

\* A later hash section replaces an earlier one.
HashSection ==
  /\ Handle(IsMd5 \/ IsSha1)
  /\ stored' = IF IsMd5 THEN [stored EXCEPT !.md5 = {Current.digest}]
                        ELSE [stored EXCEPT !.sha1 = {Current.digest}]
  /\ UNCHANGED <<chunk_size, total_size, chunks, case_number>>

OtherSection ==
  /\ Handle(~IsCase /\ ~IsDevice /\ ~IsTable /\ ~IsMd5 /\ ~IsSha1)
  /\ UNCHANGED result

NextSegment ==
  /\ Goto("sections", IF seg = Len(ordered) THEN "finish" ELSE "segment")
  /\ pos > Len(descs)
  /\ seg' = seg + 1
  /\ off' = 0 /\ descs' = <<>> /\ pos' = 1
  /\ UNCHANGED <<ordered, result, opened>>

\* The reader; a chunk size that no section gave has a default.
Finish ==
  LET size == IF chunk_size = 0 THEN DefaultChunkSize ELSE chunk_size
  IN  /\ Goto("finish", "closed")
      /\ opened' = [ok |-> TRUE, chunk_size |-> size, chunks |-> chunks, stored |-> stored,
                    total_size |-> IF total_size = 0 THEN Len(chunks) * size ELSE total_size]
      /\ UNCHANGED <<position, result>>

OpenNext ==
  \/ RejectSources \/ OrderSegments
  \/ NoDescriptors \/ StartWalk \/ WalkFails \/ WalkDescriptor
  \/ SectionFails \/ CaseSection \/ DeviceSection \/ TableSection \/ HashSection
  \/ OtherSection \/ NextSegment \/ Finish

----------------------------------------------------------------------------
(* Reading through the reader.                                             *)

Padded(bytes, n) == [i \in 1..n |-> IF i <= Len(bytes) THEN bytes[i] ELSE 0]

\* decompress_chunk: a chunk's page, or an error.  The size covers the checksum,
\* so a short chunk that is not compressed brings its checksum along.  Nothing is
\* asked of a stream any more once the page is full.
Page(c) ==
  LET data == ordered[c.seg].bytes
      size == IF c.comp THEN c.size ELSE SmallerOf(c.size, opened.chunk_size)
      raw  == SubSeq(data, c.off + 1, SmallerOf(c.off + size, Len(data)))
      out  == IF c.comp THEN Inflate(raw) ELSE [ok |-> Len(raw) = size, bytes |-> raw]
  IN  [ok |-> out.ok \/ (c.comp /\ Len(out.bytes) >= opened.chunk_size),
       bytes |-> Padded(out.bytes, opened.chunk_size)]

\* What a read of the whole image, or verify, is given.
MediaRead ==
  LET pages[i \in 0..Len(opened.chunks)] ==
        IF i = 0 THEN <<>> ELSE pages[i - 1] \o Page(opened.chunks[i]).bytes
      all == pages[Len(opened.chunks)]
  IN  SubSeq(all, 1, SmallerOf(opened.total_size, Len(all)))
=============================================================================
