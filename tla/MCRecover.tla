----------------------------- MODULE MCRecover -----------------------------
(***************************************************************************)
(* Damaged images for Recover.  A segment is one unit of file header, one  *)
(* unit per section, and then the chunk data in pieces of three units.     *)
(* Chunks have two bytes and a checksum of one.                            *)
(***************************************************************************)
EXTENDS Recover

\* A stream starts with 9 and yields what follows it; one that starts with 8 fails
\* at its end; anything else is not a stream.
MCInflate(raw) ==
  LET rest == SubSeq(raw, 2, Len(raw))
  IN  IF raw = <<>> THEN [ok |-> TRUE, bytes |-> <<>>]
      ELSE IF raw[1] = 9 THEN [ok |-> TRUE, bytes |-> rest]
      ELSE [ok |-> FALSE, bytes |-> IF raw[1] = 8 THEN rest ELSE <<>>]
MCAdler(chunk) == <<(chunk[1] + 2 * chunk[2]) % 8>>

Blank ==
  [type |-> "other", next |-> 0, size |-> 1, whole |-> TRUE,
   sectors_per_chunk |-> 0, bytes_per_sector |-> 0, sector_count |-> 0, chunk_count |-> 0,
   entry_count |-> 0, base_offset |-> 0, entries |-> <<>>]

Volume2(sectors, count) ==
  [Blank EXCEPT !.type = "volume", !.sectors_per_chunk = 2, !.bytes_per_sector = 1,
                !.sector_count = sectors, !.chunk_count = count]

Table(type, base, entries) ==
  [Blank EXCEPT !.type = type, !.entry_count = Len(entries), !.base_offset = base,
                !.entries = entries]
Sectors(size) == [Blank EXCEPT !.type = "sectors", !.size = size]
Entry(comp, off) == [comp |-> comp, off |-> off]

Segment(secs, links, data, cut) ==
  LET len   == 1 + Len(secs) + Len(data) - cut
      At(o) == IF o \in DOMAIN secs
               THEN [secs[o] EXCEPT !.next = IF o \in DOMAIN links THEN links[o] ELSE o + 1]
               ELSE Blank
  IN  [signature |-> TRUE, at |-> [o \in 0..SatSub(len, 1) |-> At(o)],
       bytes |-> SubSeq([i \in 1..1 + Len(secs) |-> 7] \o data, 1, len)]

\* Stored with a good and with a wrong checksum; a stream; a stream cut short (its
\* second unit is the next piece's); no stream.
Pieces == {[comp |-> FALSE, bytes |-> <<1, 2, 5>>], [comp |-> FALSE, bytes |-> <<1, 2, 6>>],
           [comp |-> TRUE, bytes |-> <<9, 3, 4>>], [comp |-> TRUE, bytes |-> <<8, 3, 4>>]}

\* What a table says of two pieces that start at offset d.
Tables(type, d, p, q) ==
  LET good == <<Entry(p.comp, 0), Entry(q.comp, 3)>>
  IN  {Table(type, d, good),
       Table(type, d, <<Entry(~p.comp, 0), Entry(q.comp, 3)>>),
       Table(type, d, <<Entry(p.comp, 3), Entry(q.comp, 0)>>),
       [Table(type, d, good) EXCEPT !.entries = SubSeq(good, 1, 1)],
       [Table(type, d, good) EXCEPT !.whole = FALSE],
       [Table(type, d, good) EXCEPT !.type = "other"]}

Geometries == {Volume2(5, 3), Volume2(6, 1), Volume2(3, 4)}

FirstSegments ==
  UNION {UNION {{Segment(<<g, t, t2, Sectors(7), [Blank EXCEPT !.type = "done"]>>, <<>>,
                         p.bytes \o q.bytes, 0) :
                   t \in Tables("table", 6, p, q), t2 \in Tables("table2", 6, p, q),
                   g \in Geometries} : q \in Pieces} : p \in Pieces}

SecondSegment == Segment(<<Table("table", 3, <<Entry(FALSE, 0)>>), Sectors(4)>>, <<>>, <<1, 2, 5>>, 0)

Whole == Segment(<<Volume2(5, 3), Table("table", 4, <<Entry(FALSE, 0), Entry(TRUE, 3)>>), Sectors(7)>>,
                 <<>>, <<1, 2, 5, 9, 3, 4>>, 0)

\* Chains cut, dangling, circular and backward; no geometry; not an image.
Broken ==
  {<<Segment(<<Volume2(5, 3), Table("table", 4, <<Entry(FALSE, 0), Entry(TRUE, 3)>>), Sectors(7)>>,
             l, <<1, 2, 5, 9, 3, 4>>, c)>> :
     l \in {<<>>, <<2, 0>>, <<2, 1>>, <<2, 2>>, <<2, 20>>, <<2, 10>>, <<0>>}, c \in {0, 2, 7, 8, 10}}
  \union
  {<<>>, <<[Whole EXCEPT !.signature = FALSE]>>, <<Whole, SecondSegment, SecondSegment>>,
   <<Segment(<<Volume2(5, 3)>>, <<>>, <<>>, 2)>>,
   <<Segment(<<[Volume2(5, 3) EXCEPT !.whole = FALSE]>>, <<>>, <<>>, 0)>>,
   <<Segment(<<[Volume2(5, 3) EXCEPT !.sectors_per_chunk = 0]>>, <<>>, <<>>, 0)>>,
   <<Segment(<<[Volume2(5, 3) EXCEPT !.sectors_per_chunk = 9]>>, <<>>, <<>>, 0)>>}

AllImages ==
  {<<s>> : s \in FirstSegments} \union {<<s, SecondSegment>> : s \in FirstSegments} \union Broken

\* The table is split in two sections, as acquisition tools do.
SplitTable ==
  {<<Segment(<<Volume2(4, 2), Sectors(9), Table("table", 5, <<Entry(FALSE, 0)>>),
               Table("table", 5, <<Entry(FALSE, 3)>>)>>,
             <<>>, <<1, 2, 5, 1, 2, 5>>, 0)>>}
=============================================================================
