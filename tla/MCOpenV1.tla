------------------------------ MODULE MCOpenV1 ------------------------------
(***************************************************************************)
(* Images for OpenV1.  A section takes four units: its descriptor and      *)
(* three of data, so the sections of a segment start at 4, 8, 12, ...      *)
(***************************************************************************)
EXTENDS OpenV1

Blank ==
  [type |-> "other", next |-> 0, size |-> 4, whole |-> TRUE,
   sectors_per_chunk |-> 0, bytes_per_sector |-> 0, sector_count |-> 0, chunk_count |-> 0,
   entry_count |-> 0, base_offset |-> 0, entries |-> <<>>,
   md5 |-> 0, sha1 |-> 0, case |-> 0, errors |-> 0]

Volume(spc, sectors, count) ==
  [Blank EXCEPT !.type = "volume", !.sectors_per_chunk = spc, !.bytes_per_sector = 1,
                !.sector_count = sectors, !.chunk_count = count]

Table(type, count, base, offs) ==
  [Blank EXCEPT !.type = type, !.entry_count = count, !.base_offset = base,
                !.entries = [i \in DOMAIN offs |-> [comp |-> offs[i] % 2 = 1, off |-> offs[i]]]]

Sectors == [Blank EXCEPT !.type = "sectors"]
Hash(m) == [Blank EXCEPT !.type = "hash", !.md5 = m]
Digest(m, s) == [Blank EXCEPT !.type = "digest", !.md5 = m, !.sha1 = s]
Header(c) == [Blank EXCEPT !.type = "header", !.case = c]
Error2(n) == [Blank EXCEPT !.type = "error2", !.errors = n]
Cut(s) == [s EXCEPT !.whole = FALSE]

\* A segment of the given sections, linked one after the other but for the links
\* given; `cut` units are missing at its end.
LinkedSegment(number, kind, secs, links, cut) ==
  LET len == 4 * (Len(secs) + 1) - cut
      At(o) == IF o % 4 = 0 /\ o \div 4 \in DOMAIN secs
               THEN [secs[o \div 4] EXCEPT !.next =
                       IF o \div 4 \in DOMAIN links THEN links[o \div 4] ELSE o + 4]
               ELSE Blank
  IN  [number |-> number, kind |-> kind, len |-> len, at |-> [o \in 0..len - 1 |-> At(o)]]

Segment(number, kind, secs) == LinkedSegment(number, kind, secs, <<>>, 0)

Geometry == Volume(3, 14, 5)

\* Chunk 0 compressed up to chunk 1; chunk 2 compressed up to the sectors' end.
FirstTable == Table("table", 2, 0, <<9, 10>>)
SecondTable == Table("table", 1, 4, <<7>>)
ShortTable == Table("table", 2, 0, <<9>>)

Alphabet ==
  {Geometry, Volume(9, 1, 1), Sectors, FirstTable, SecondTable, ShortTable,
   Table("table2", 2, 0, <<9, 10>>), Table("table", 9, 0, <<>>),
   Hash(1), Digest(2, 3), Header(1), Header(0), Error2(2), Cut(Hash(1)), Cut(FirstTable)}

Second == Segment(2, "physical", <<Sectors, Table("table", 2, 4, <<1, 2>>)>>)

\* Every segment of three sections that starts with a volume, with a second one
\* found first.
Sequences == {<<Geometry, a, b>> : a, b \in Alphabet} \union {<<a, b>> : a, b \in Alphabet}
Ordinary == {<<Second, Segment(1, "physical", s)>> : s \in Sequences}

\* Chains with a null, a backward, a circular and a dangling link, and a cut one.
Chained ==
  {<<LinkedSegment(1, "physical", <<Geometry, Sectors, FirstTable>>, l, c)>> :
     l \in {<<8, 0>>, <<8, 4>>, <<8, 8>>, <<8, 40>>, <<12>>}, c \in {0, 4}}

Odd ==
  {<<>>, <<Second>>, <<Segment(1, "ewf2", <<Geometry>>)>>,
   <<Segment(1, "invalid", <<Geometry>>)>>,
   <<Segment(1, "logical", <<Geometry, Header(1), FirstTable>>)>>,
   <<Segment(1, "physical", <<Volume(3, 0, 5), [Header(1) EXCEPT !.size = 1],
                              [Error2(1) EXCEPT !.size = 90], FirstTable>>)>>,
   <<Segment(1, "physical", <<Volume(3, 70, 5), FirstTable>>)>>}

AllImages == Ordinary \union Chained \union Odd

HashThenDigest == {<<Segment(1, "physical", <<Geometry, Hash(1), Digest(0, 3)>>)>>}
=============================================================================
