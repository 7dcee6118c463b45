----------------------------- MODULE ChunkTable -----------------------------
(***************************************************************************)
(* core/src/chunk_table.rs and the packed `Chunk` of core/src/sections.rs: *)
(* how one table section's entries become chunk metadata, and how a global *)
(* chunk id finds its section.  No state of its own: OpenV1 builds tables  *)
(* with these operators and EwfReader looks chunks up with them.           *)
(*                                                                         *)
(* A table entry is [comp, off] (bit 31 and bits 0..30 of the 4 bytes), a  *)
(* chunk [seg, comp, off, size].  None stands for Rust's None.             *)
(***************************************************************************)
EXTENDS Integers, Sequences, FiniteSets

CONSTANTS OffsetBit,   \* weight of bit 63 of an offset; u64::MAX is 2*OffsetBit - 1
          SizeModulus  \* 2^32 in the code: `size as u32` keeps size % SizeModulus

ASSUME WidthAssumption ==
  /\ OffsetBit \in Nat \ {0}
  /\ SizeModulus \in Nat \ {0}

None == -1

U64Max == 2 * OffsetBit - 1

Chunk == [seg : Nat, comp : BOOLEAN, off : Nat, size : Nat]

SatSub(a, b) == IF a > b THEN a - b ELSE 0
SatAdd(a, b) == IF a + b > U64Max THEN U64Max ELSE a + b
SmallerOf(a, b) == IF a < b THEN a ELSE b

\* Chunk::new: the compressed flag takes the offset's top bit, the size is
\* truncated to 32 bits.
NewChunk(seg, comp, off, size) ==
  [seg |-> seg, comp |-> comp, off |-> off % OffsetBit, size |-> size % SizeModulus]

SetSize(c, size) == [c EXCEPT !.size = size % SizeModulus]

\* One iteration of the entry loop.  acc carries the chunks pushed so far and
\* prev_offset; an entry whose absolute offset overflows u64 is skipped.
PushEntry(acc, entry, base_offset, seg, chunk_size) ==
  LET abs_offset == entry.off + base_offset
      n          == Len(acc.chunks)
      delta      == SatSub(abs_offset, acc.prev)
      sized      == IF acc.prev # None /\ n > 0 /\ acc.chunks[n].comp /\ delta > 0
                    THEN [acc.chunks EXCEPT ![n] = SetSize(@, delta)]
                    ELSE acc.chunks
  IN  IF abs_offset > U64Max
      THEN acc
      ELSE [chunks |-> Append(sized, NewChunk(seg, entry.comp, abs_offset, chunk_size)),
            prev   |-> abs_offset]

\* The last chunk of a section ends where the segment's first `sectors` section
\* ends.
BackFillLast(chunks, chunk_size, sectors_data_end) ==
  LET n      == Len(chunks)
      actual == SatSub(sectors_data_end, chunks[n].off)
  IN  IF /\ sectors_data_end # None
         /\ n > 0
         /\ chunks[n].comp
         /\ chunks[n].size = chunk_size
         /\ actual > 0
         /\ actual < chunk_size
      THEN [chunks EXCEPT ![n] = SetSize(@, actual)]
      ELSE chunks

\* parse_table_section, called by the eager open and by the lazy cache miss.
\* `entries` is what the buffer backs, `entry_count` what the header declares.
ParseTableSection(entries, entry_count, base_offset, seg, chunk_size, sectors_data_end) ==
  LET n == SmallerOf(entry_count, Len(entries))
      scan[i \in 0..n] ==
        IF i = 0 THEN [chunks |-> <<>>, prev |-> None]
                 ELSE PushEntry(scan[i - 1], entries[i], base_offset, seg, chunk_size)
  IN  BackFillLast(scan[n].chunks, chunk_size, sectors_data_end)

\* LazyChunkTable::len.
LazyLen(index) ==
  IF index = <<>> THEN 0
  ELSE index[Len(index)].first_chunk_id + index[Len(index)].entry_count

\* LazyChunkTable::section_for: partition_point counts the sections whose
\* first_chunk_id is at most chunk_id; the last of them is the candidate, if
\* chunk_id lies inside it.
SectionFor(index, chunk_id) ==
  LET after == Cardinality({p \in DOMAIN index : index[p].first_chunk_id <= chunk_id})
  IN  IF after > 0 /\ chunk_id < index[after].first_chunk_id + index[after].entry_count
      THEN after
      ELSE None
=============================================================================
