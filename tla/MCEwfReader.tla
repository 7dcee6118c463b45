---------------------------- MODULE MCEwfReader ----------------------------
(***************************************************************************)
(* Two-segment images of two-byte chunks for EwfReader.                    *)
(* A stream <<9, v>> inflates to the page <<v, 6>>, <<8, v>> to one byte    *)
(* only (a short stream), a stream cut after its first byte                *)
(* produces nothing without an error, anything else is corrupt.            *)
(***************************************************************************)
EXTENDS EwfReader

MCInflate(s) ==
  IF s = <<>> THEN [ok |-> TRUE, bytes |-> <<>>]
  ELSE IF s[1] \notin {8, 9} THEN [ok |-> FALSE, bytes |-> <<>>]
  ELSE [ok |-> TRUE,
        bytes |-> IF Len(s) = 1 THEN <<>> ELSE IF s[1] = 9 THEN <<s[2], 6>> ELSE <<s[2]>>]

MCByte == 0..9

\* Chunks 0 and 1; then a short stream and a corrupt one.
MCSegments == << <<9, 1, 2, 3>>, <<8, 5, 7, 7>> >>

Entry(c, o) == [comp |-> c, off |-> o]

Meta(first, count, seg, base, entries, end) ==
  [first_chunk_id |-> first, entry_count |-> count, segment_idx |-> seg,
   base_offset |-> base, entries |-> entries, sectors_data_end |-> end]

HealthySections ==
  << Meta(0, 2, 1, 0, <<Entry(TRUE, 0), Entry(FALSE, 2)>>, 4),
     Meta(2, 2, 2, 0, <<Entry(TRUE, 0), Entry(TRUE, 2)>>, 4) >>

\* Section 3: its first entry addresses past the segment, its second overflows
\* and is skipped.  Section 4 declares an entry its segment does not hold.
DamagedSections ==
  HealthySections \o
  << Meta(4, 2, 2, 2 * OffsetBit - 4, <<Entry(FALSE, 0), Entry(FALSE, 4)>>, 4),
     Meta(6, 1, 2, 0, <<>>, None) >>

\* The eager table of the two healthy sections.
MCChunks ==
  ParseTableSection(HealthySections[1].entries, 2, 0, 1, ChunkSize, 4) \o
  ParseTableSection(HealthySections[2].entries, 2, 0, 2, ChunkSize, 4)

Req(o, n) == [off |-> o, len |-> n]

\* Across three chunks, from the short one into the corrupt one and on, past the
\* table, and nothing at all.
EagerRequests == {Req(1, 4), Req(5, 9), Req(8, 1), Req(0, 0)}

\* Across three chunks, into the corrupt one, one request for each kind of damage,
\* and one at the end of the image.
DamagedRequests == {Req(1, 4), Req(4, 3), Req(9, 1), Req(10, 1), Req(12, 1), Req(15, 1)}
=============================================================================
