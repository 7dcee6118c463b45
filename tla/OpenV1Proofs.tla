---------------------------- MODULE OpenV1Proofs ----------------------------
(***************************************************************************)
(* open_v1 for every image: the walk, the lazy index, and the eager and    *)
(* the lazy open of the same image side by side.                           *)
(***************************************************************************)
EXTENDS OpenV1, FiniteSetTheorems, WellFoundedInduction, TLAPS

Desc == [offset : Nat, sec : Section]
Meta == [first_chunk_id : Nat, entry_count : Nat, segment_idx : Nat, base_offset : Nat,
         sectors_data_end : Nat \union {None}, entries : Seq([comp : BOOLEAN, off : Nat])]

----------------------------------------------------------------------------
(* A table section's entries.                                             *)

\* A set of offsets or positions that is not empty has a least member: `find` and
\* `position` in the sources yield the first match.
LEMMA Least ==
  ASSUME NEW T, T \subseteq Nat, T # {}
  PROVE  \E i \in T : \A j \in T : i <= j
<1> DEFINE R == OpToRel(<, Nat)
<1>1. \E x \in T : \A y \in T : ~(<<y, x>> \in R)
  <2>1. IsWellFoundedOn(R, Nat)
    BY NatLessThanWellFounded
  <2> HIDE DEF R
  <2> QED BY <2>1, WFMin
<1>2. ASSUME NEW x \in Nat, NEW y \in Nat, y < x PROVE <<y, x>> \in R
  BY <1>2 DEF OpToRel
<1> HIDE DEF R
<1>3. PICK x \in T : \A y \in T : ~(<<y, x>> \in R)
  BY <1>1
<1>4. ASSUME NEW y \in T PROVE x <= y
  <2>1. ~(y < x)
    BY <1>2, <1>3
  <2> QED BY <2>1
<1> QED BY <1>4

TableEntry == [comp : BOOLEAN, off : Nat]



\* f is the entry loop's state after each of the first n entries.
IsScan(f, n, entries, base_offset, s, cs) ==
  f = [i \in 0..n |-> IF i = 0 THEN [chunks |-> <<>>, prev |-> None]
                      ELSE PushEntry(f[i - 1], entries[i], base_offset, s, cs)]

\* The entry loop of parse_table_section runs over any number of entries.
LEMMA ScanDefined ==
  ASSUME NEW entries, NEW base_offset, NEW s, NEW cs, NEW n \in Nat
  PROVE  \E f : IsScan(f, n, entries, base_offset, s, cs)
<1> DEFINE start == [chunks |-> <<>>, prev |-> None]
           P(acc, i) == PushEntry(acc, entries[i], base_offset, s, cs)
           Scans(f, m) == f = [i \in 0..m |-> IF i = 0 THEN start ELSE P(f[i - 1], i)]
           Bad == {m \in Nat : ~ \E f : Scans(f, m)}
<1> HIDE DEF P, start
<1>1. SUFFICES Bad = {}
  <2>1. \E f : Scans(f, n)
    BY <1>1
  <2> QED BY <2>1 DEF P, start, IsScan
<1>2. SUFFICES ASSUME Bad # {} PROVE FALSE
  OBVIOUS
<1>3. PICK m \in Bad : \A j \in Bad : m <= j
  <2> HIDE DEF Bad
  <2>1. Bad \subseteq Nat
    BY DEF Bad
  <2> QED BY <1>2, <2>1, Least
<1>4. m \in Nat /\ m # 0
  <2>1. Scans([i \in 0..0 |-> start], 0)
    OBVIOUS
  <2> QED BY <1>3, <2>1
<1>5. PICK f : Scans(f, m - 1)
  <2>1. m - 1 \in Nat /\ m - 1 \notin Bad
    BY <1>3, <1>4
  <2> QED BY <2>1
<1> DEFINE g == [i \in 0..m |-> IF i = m THEN P(f[m - 1], m) ELSE f[i]]
<1>6. Scans(g, m)
  <2>1. \A i \in 0..m : g[i] = IF i = 0 THEN start ELSE P(g[i - 1], i)
    BY <1>4, <1>5
  <2> QED BY <2>1
<1> QED BY <1>3, <1>4, <1>6

\* One entry adds at most one chunk, of the section's segment; it may size the one
\* before it.
LEMMA PushFacts ==
  ASSUME NEW s \in Nat, NEW cs \in Nat, NEW base_offset \in Nat, NEW e \in TableEntry,
         NEW acc, acc = [chunks |-> acc.chunks, prev |-> acc.prev],
         acc.chunks \in Seq(Chunk), acc.prev \in Nat \union {None},
         \A i \in DOMAIN acc.chunks : acc.chunks[i].seg = s
  PROVE  LET r == PushEntry(acc, e, base_offset, s, cs)
         IN  /\ r = [chunks |-> r.chunks, prev |-> r.prev]
             /\ r.chunks \in Seq(Chunk) /\ r.prev \in Nat \union {None}
             /\ \A i \in DOMAIN r.chunks : r.chunks[i].seg = s
             /\ Len(r.chunks) = IF base_offset + e.off <= U64Max
                                THEN Len(acc.chunks) + 1 ELSE Len(acc.chunks)
<1> DEFINE abs_offset == e.off + base_offset
           n == Len(acc.chunks)
           delta == SatSub(abs_offset, acc.prev)
           new == NewChunk(s, e.comp, abs_offset, cs)
           r == PushEntry(acc, e, base_offset, s, cs)
<1>1. abs_offset \in Nat /\ e.comp \in BOOLEAN /\ delta \in Nat /\ n \in Nat
  BY DEF TableEntry, SatSub, None
<1>2. OffsetBit \in Nat \ {0} /\ SizeModulus \in Nat \ {0} /\ U64Max \in Nat
  BY WidthAssumption DEF U64Max
<1>3. \A x \in Nat : x % OffsetBit \in Nat /\ x % SizeModulus \in Nat
  BY <1>2
<1>4. new \in Chunk /\ new.seg = s
  BY <1>1, <1>3 DEF NewChunk, Chunk
<1>5. PICK sized : /\ r = IF abs_offset > U64Max THEN acc
                          ELSE [chunks |-> Append(sized, new), prev |-> abs_offset]
                   /\ \/ sized = acc.chunks
                      \/ n > 0 /\ sized = [acc.chunks EXCEPT ![n] = SetSize(@, delta)]
  <2> DEFINE sz == IF acc.prev # None /\ n > 0 /\ acc.chunks[n].comp /\ delta > 0
                   THEN [acc.chunks EXCEPT ![n] = SetSize(@, delta)]
                   ELSE acc.chunks
  <2>1. r = IF abs_offset > U64Max THEN acc
            ELSE [chunks |-> Append(sz, new), prev |-> abs_offset]
    BY DEF PushEntry
  <2> HIDE DEF r, new, delta, abs_offset
  <2>2. \/ sz = acc.chunks
        \/ n > 0 /\ sz = [acc.chunks EXCEPT ![n] = SetSize(@, delta)]
    OBVIOUS
  <2> HIDE DEF sz
  <2> QED BY <2>1, <2>2
<1>6. /\ sized \in Seq(Chunk) /\ Len(sized) = n
      /\ \A i \in DOMAIN sized : sized[i].seg = s
  <2>1. CASE sized = acc.chunks
    BY <2>1
  <2>2. CASE n > 0 /\ sized = [acc.chunks EXCEPT ![n] = SetSize(@, delta)]
    <3> DEFINE old == acc.chunks[n]
               x == SetSize(old, delta)
    <3>1. n \in DOMAIN acc.chunks /\ old \in Chunk /\ old.seg = s
      BY <1>1, <2>2
    <3>2. x = [old EXCEPT !.size = delta % SizeModulus] /\ delta % SizeModulus \in Nat
      BY <1>1, <1>3 DEF SetSize
    <3> HIDE DEF delta, old, x
    <3>3. x \in Chunk /\ x.seg = s
      BY <3>1, <3>2 DEF Chunk
    <3>4. sized = [acc.chunks EXCEPT ![n] = x]
      BY <2>2 DEF x, old
    <3> HIDE DEF n
    <3> QED BY <3>1, <3>3, <3>4 DEF n
  <2> QED BY <1>5, <2>1, <2>2
<1> HIDE DEF new, abs_offset, r, n
<1>7. CASE abs_offset > U64Max
  <2>1. r = acc /\ ~(base_offset + e.off <= U64Max)
    BY <1>1, <1>2, <1>5, <1>7 DEF abs_offset, TableEntry
  <2> QED BY <2>1 DEF r, n
<1>8. CASE ~(abs_offset > U64Max)
  <2>1. r = [chunks |-> Append(sized, new), prev |-> abs_offset] /\ base_offset + e.off <= U64Max
    BY <1>1, <1>2, <1>5, <1>8 DEF abs_offset, TableEntry
  <2>2. /\ Append(sized, new) \in Seq(Chunk) /\ Len(Append(sized, new)) = n + 1
        /\ \A i \in DOMAIN Append(sized, new) : Append(sized, new)[i].seg = s
    BY <1>1, <1>4, <1>6
  <2>3. r.chunks = Append(sized, new) /\ r.prev = abs_offset
    BY <2>1
  <2>4. r = [chunks |-> r.chunks, prev |-> r.prev]
    BY <2>1, <2>3
  <2> QED BY <1>1, <2>1, <2>2, <2>3, <2>4 DEF r, n
<1> QED BY <1>7, <1>8

\* Closing the last chunk changes nothing but its size.
LEMMA BackFillFacts ==
  ASSUME NEW s \in Nat, NEW cs \in Nat, NEW e \in Nat \union {None}, NEW c \in Seq(Chunk),
         \A i \in DOMAIN c : c[i].seg = s
  PROVE  /\ BackFillLast(c, cs, e) \in Seq(Chunk)
         /\ Len(BackFillLast(c, cs, e)) = Len(c)
         /\ \A i \in DOMAIN BackFillLast(c, cs, e) : BackFillLast(c, cs, e)[i].seg = s
<1> DEFINE n == Len(c)
           old == c[n]
           actual == SatSub(e, old.off)
           x == SetSize(old, actual)
           r == BackFillLast(c, cs, e)
<1>1. \/ r = c
      \/ e # None /\ n > 0 /\ r = [c EXCEPT ![n] = x]
  BY DEF BackFillLast
<1>2. CASE r = c
  BY <1>2
<1>3. CASE e # None /\ n > 0 /\ r = [c EXCEPT ![n] = x]
  <2>1. n \in DOMAIN c /\ old \in Chunk /\ old.seg = s
    BY <1>3
  <2>2. actual \in Nat
    <3> HIDE DEF old
    <3>1. old.off \in Nat /\ e \in Nat
      BY <1>3, <2>1 DEF Chunk
    <3> QED BY <3>1 DEF SatSub
  <2> HIDE DEF actual, old
  <2>3. x = [old EXCEPT !.size = actual % SizeModulus] /\ actual % SizeModulus \in Nat
    BY <2>2, WidthAssumption DEF SetSize
  <2> HIDE DEF x
  <2>4. x \in Chunk /\ x.seg = s
    BY <2>1, <2>3 DEF Chunk
  <2> HIDE DEF n, r
  <2> QED BY <1>3, <2>1, <2>4 DEF r, n
<1> QED BY <1>1, <1>2, <1>3

\* Chunks of segment s, one for each entry that the buffer backs and the header
\* declares if no offset overflows u64.
ParsedFrom(r, entries, entry_count, base_offset, s) ==
  /\ r \in Seq(Chunk)
  /\ \A i \in DOMAIN r : r[i].seg = s
  /\ (\A i \in DOMAIN entries : base_offset + entries[i].off <= U64Max) =>
       Len(r) = SmallerOf(entry_count, Len(entries))

\* That is what parse_table_section yields, for every section.
LEMMA ParseFacts ==
  ASSUME NEW entries \in Seq(TableEntry), NEW entry_count \in Nat, NEW base_offset \in Nat,
         NEW s \in Nat, NEW cs \in Nat, NEW e \in Nat \union {None}
  PROVE  ParsedFrom(ParseTableSection(entries, entry_count, base_offset, s, cs, e),
                    entries, entry_count, base_offset, s)
<1> DEFINE n == SmallerOf(entry_count, Len(entries))
           start == [chunks |-> <<>>, prev |-> None]
           scan == CHOOSE f : IsScan(f, n, entries, base_offset, s, cs)
           Good == \A i \in DOMAIN entries : base_offset + entries[i].off <= U64Max
<1>1. n \in Nat /\ n <= Len(entries)
  BY DEF SmallerOf
<1> DEFINE r == ParseTableSection(entries, entry_count, base_offset, s, cs, e)
<1>2. r = BackFillLast(scan[n].chunks, cs, e)
  BY DEF ParseTableSection, IsScan
<1>3. scan = [i \in 0..n |-> IF i = 0 THEN start
                ELSE PushEntry(scan[i - 1], entries[i], base_offset, s, cs)]
  <2>1. \E f : IsScan(f, n, entries, base_offset, s, cs)
    BY <1>1, ScanDefined
  <2>2. IsScan(scan, n, entries, base_offset, s, cs)
    BY <2>1
  <2> QED BY <2>2 DEF IsScan
<1> HIDE DEF scan, n
<1> DEFINE Fine(i) == /\ scan[i] = [chunks |-> scan[i].chunks, prev |-> scan[i].prev]
                      /\ scan[i].chunks \in Seq(Chunk) /\ scan[i].prev \in Nat \union {None}
                      /\ \A j \in DOMAIN scan[i].chunks : scan[i].chunks[j].seg = s
                      /\ Good => Len(scan[i].chunks) = i
           Bad == {i \in 0..n : ~Fine(i)}
<1>4. Fine(0)
  <2>1. scan[0] = start
    BY <1>1, <1>3
  <2> QED BY <2>1 DEF None
<1>5. ASSUME NEW i \in 0..n, i # 0, Fine(i - 1) PROVE Fine(i)
  <2> DEFINE acc == scan[i - 1]
             en == entries[i]
  <2>1. scan[i] = PushEntry(acc, en, base_offset, s, cs)
    BY <1>1, <1>3, <1>5
  <2>2. i \in DOMAIN entries /\ en \in TableEntry
    BY <1>1, <1>5
  <2>3. /\ acc = [chunks |-> acc.chunks, prev |-> acc.prev]
        /\ acc.chunks \in Seq(Chunk) /\ acc.prev \in Nat \union {None}
        /\ \A j \in DOMAIN acc.chunks : acc.chunks[j].seg = s
        /\ Good => Len(acc.chunks) = i - 1
    BY <1>5
  <2>4. Good => base_offset + en.off <= U64Max
    BY <2>2
  <2> HIDE DEF acc, en, Good
  <2>5. /\ scan[i] = [chunks |-> scan[i].chunks, prev |-> scan[i].prev]
        /\ scan[i].chunks \in Seq(Chunk) /\ scan[i].prev \in Nat \union {None}
        /\ \A j \in DOMAIN scan[i].chunks : scan[i].chunks[j].seg = s
        /\ Len(scan[i].chunks) = IF base_offset + en.off <= U64Max
                                 THEN Len(acc.chunks) + 1 ELSE Len(acc.chunks)
    BY <2>1, <2>2, <2>3, PushFacts
  <2>6. Good => Len(scan[i].chunks) = i
    BY <1>5, <2>3, <2>4, <2>5
  <2> QED BY <2>5, <2>6
<1>6. Fine(n)
  <2>1. SUFFICES ASSUME Bad # {} PROVE FALSE
    BY <1>1
  <2> HIDE DEF Fine
  <2>2. PICK m \in Bad : \A j \in Bad : m <= j
    <3>1. Bad \subseteq Nat
      BY <1>1
    <3> HIDE DEF Bad
    <3> QED BY <2>1, <3>1, Least
  <2>3. m \in 0..n /\ m # 0 /\ ~Fine(m)
    BY <1>4, <2>2
  <2>4. m - 1 \in 0..n /\ m - 1 \notin Bad
    BY <1>1, <2>2, <2>3
  <2> QED BY <1>5, <2>3, <2>4
<1> HIDE DEF r, Good
<1>7. /\ r \in Seq(Chunk) /\ Len(r) = Len(scan[n].chunks)
      /\ \A i \in DOMAIN r : r[i].seg = s
  <2> DEFINE c == scan[n].chunks
  <2>1. c \in Seq(Chunk) /\ (\A j \in DOMAIN c : c[j].seg = s) /\ r = BackFillLast(c, cs, e)
    BY <1>2, <1>6
  <2> HIDE DEF c
  <2>2. s \in Nat /\ cs \in Nat /\ e \in Nat \union {None}
    OBVIOUS
  <2>3. r \in Seq(Chunk) /\ Len(r) = Len(c) /\ \A i \in DOMAIN r : r[i].seg = s
    BY ONLY <2>1, <2>2, BackFillFacts
  <2> QED BY <2>3 DEF c
<1>8. Good => Len(r) = n
  BY <1>6, <1>7
<1> QED BY <1>7, <1>8 DEF r, Good, n, ParsedFrom

----------------------------------------------------------------------------
(* The invariant of the open.                                              *)

Inv == IInv /\ image \in Images

\* What the walk finds at an offset inside the segment is a section.
LEMMA SegmentFacts ==
  ASSUME Inv, pc \in {"walk", "sections"}
  PROVE  /\ ordered[seg].len \in Nat
         /\ \A o \in 0..(ordered[seg].len - DescriptorSize) :
              /\ o \in DOMAIN ordered[seg].at /\ ordered[seg].at[o] \in Section
              /\ MaxChunkSize * ordered[seg].at[o].chunk_count <= U64Max
<1>1. /\ image \in Images /\ seg \in 1..Len(image)
      /\ Sequential(image) /\ ordered = Reordered(image)
  BY DEF Inv, IInv, Rejected
<1>2. DOMAIN image = 1..Len(image)
  <2>1. image = [i \in 1..Len(image) |-> image[i]]
    BY <1>1, OpenAssumption
  <2> QED BY <2>1
<1> DEFINE k == CHOOSE i \in DOMAIN image : image[i].number = seg
<1>3. k \in DOMAIN image
  <2>1. seg \in {image[i].number : i \in DOMAIN image}
    BY <1>1 DEF Sequential
  <2>2. \E i \in DOMAIN image : image[i].number = seg
    BY <2>1
  <2> QED BY <2>2
<1>4. ordered[seg] = image[k]
  BY <1>1 DEF Reordered
<1> HIDE DEF k
<1> QED BY <1>1, <1>2, <1>3, <1>4, OpenAssumption

\* Everything that IInv says of the walk and the index.
LEMMA SameIndex ==
  ASSUME IInv, UNCHANGED <<index, next_chunk_id>>
  PROVE  /\ IndexConsecutive'
         /\ \A i \in DOMAIN index' : index'[i].first_chunk_id + index'[i].entry_count <= next_chunk_id'
BY DEF IInv, IndexConsecutive, LazyLen

LEMMA SameChain ==
  ASSUME IInv, UNCHANGED <<descs, ordered, seg>>
  PROVE  /\ ChainAscends'
         /\ \A i \in DOMAIN descs' : MaxChunkSize * descs'[i].sec.chunk_count <= U64Max
         /\ \A i \in DOMAIN descs' :
              /\ descs'[i].offset \in DOMAIN ordered'[seg'].at
              /\ descs'[i].sec = ordered'[seg'].at[descs'[i].offset]
BY DEF IInv, ChainAscends

\* The tables stay in order when they stay as they are and the segment does not go back.
LEMMA SameOrder ==
  ASSUME IInv, UNCHANGED <<ordered, chunks, index>>, seg' \in Nat, seg <= seg'
  PROVE  /\ SegmentsInOrder'
         /\ \A i \in DOMAIN chunks' : chunks'[i].seg <= seg'
         /\ \A i \in DOMAIN index' : index'[i].segment_idx <= seg'
<1>1. /\ seg \in Nat /\ chunks \in Seq(Chunk) /\ index \in Seq(Meta) /\ SegmentsInOrder
      /\ \A i \in DOMAIN chunks : chunks[i].seg <= seg
      /\ \A i \in DOMAIN index : index[i].segment_idx <= seg
  BY DEF IInv, TypeOK, Meta
<1>2. SegmentsInOrder'
  BY <1>1 DEF SegmentsInOrder
<1>3. (\A i \in DOMAIN chunks : chunks[i] \in Chunk) /\ \A i \in DOMAIN index : index[i] \in Meta
  BY <1>1
<1>4. (\A i \in DOMAIN chunks : chunks[i].seg \in Nat) /\ \A i \in DOMAIN index : index[i].segment_idx \in Nat
  BY <1>3 DEF Chunk, Meta
<1> QED BY <1>1, <1>2, <1>4

\* Segment n of the reordered set carries the number n.
LEMMA ReorderedNumbers ==
  ASSUME image \in Images, Sequential(image)
  PROVE  \A n \in DOMAIN Reordered(image) : Reordered(image)[n].number = n
<1> TAKE n \in DOMAIN Reordered(image)
<1> DEFINE k == CHOOSE i \in DOMAIN image : image[i].number = n
<1>1. n \in 1..Len(image) /\ Reordered(image)[n] = image[k]
  BY DEF Reordered
<1>2. \E i \in DOMAIN image : image[i].number = n
  BY <1>1 DEF Sequential
<1> QED BY <1>1, <1>2

LEMMA InitInv == Init => Inv
<1> SUFFICES ASSUME Init PROVE Inv
  OBVIOUS
<1>1. TypeOK
  BY OpenAssumption, WidthAssumption DEF Init, TypeOK, Modes, NoHashes, U64Max
<1>2. ChainAscends /\ IndexConsecutive /\ SegmentsInOrder
  BY DEF Init, ChainAscends, IndexConsecutive, SegmentsInOrder, LazyLen
<1>3. descs = <<>> /\ index = <<>> /\ chunks = <<>> /\ pc = "headers" /\ seg = 1 /\ image \in Images
  BY DEF Init
<1> QED BY <1>1, <1>2, <1>3 DEF Inv, IInv

LEMMA FailInv == ASSUME Inv, NEW from, Fail(from) PROVE Inv'
<1>1. pc' = "closed" /\ UNCHANGED <<image, mode, position, result>>
  BY DEF Fail, Goto
<1>2. TypeOK'
  BY <1>1 DEF Inv, IInv, TypeOK, position, result
<1>3. seg' \in Nat /\ seg <= seg'
  BY <1>1 DEF Inv, IInv, TypeOK, position
<1> QED BY <1>1, <1>2, <1>3, SameIndex, SameChain, SameOrder DEF Inv, IInv, position, result

LEMMA OrderSegmentsInv == ASSUME Inv, OrderSegments PROVE Inv'
<1>1. /\ pc = "headers" /\ pc' = "walk" /\ ~Rejected(image) /\ ordered' = Reordered(image)
      /\ UNCHANGED <<image, mode, seg, off, descs, pos, result, opened>>
  BY DEF OrderSegments, Goto
<1>2. descs = <<>>
  BY <1>1 DEF Inv, IInv
<1>3. TypeOK'
  BY <1>1 DEF Inv, IInv, TypeOK, result
<1>4. ChainAscends'
  BY <1>1, <1>2 DEF ChainAscends
<1>5. seg \in 1..Len(image)
  <2>1. seg = 1 /\ image \in Images /\ image # <<>>
    BY <1>1 DEF Inv, IInv, Rejected
  <2>2. Len(image) \in Nat /\ image = [i \in 1..Len(image) |-> image[i]]
    BY <2>1, OpenAssumption
  <2>3. Len(image) # 0
    <3> SUFFICES ASSUME Len(image) = 0 PROVE FALSE
      OBVIOUS
    <3>1. image = [i \in {} |-> image[i]]
      BY <2>2
    <3> QED BY <2>1, <3>1
  <2> QED BY <2>1, <2>2, <2>3
<1>6. SegmentsInOrder'
  <2>1. \A i \in DOMAIN ordered' : ordered'[i].number = i
    BY <1>1, ReorderedNumbers DEF Inv, Rejected
  <2> QED BY <1>1, <2>1 DEF Inv, IInv, SegmentsInOrder, result
<1> QED BY <1>1, <1>2, <1>3, <1>4, <1>5, <1>6, SameIndex DEF Inv, IInv, result

LEMMA WalkTruncatedInv == ASSUME Inv, WalkTruncated PROVE Inv'
<1>1. pc = "walk" /\ pc' = "sections" /\ UNCHANGED <<image, mode, position, result, opened>>
  BY DEF WalkTruncated, Goto
<1>2. TypeOK'
  BY <1>1 DEF Inv, IInv, TypeOK, position, result
<1>3. seg' \in Nat /\ seg <= seg'
  BY <1>1 DEF Inv, IInv, TypeOK, position
<1> QED BY <1>1, <1>2, <1>3, SameIndex, SameChain, SameOrder DEF Inv, IInv, position, result

LEMMA WalkDescriptorInv == ASSUME Inv, WalkDescriptor PROVE Inv'
<1> DEFINE d == ordered[seg].at[off]
           new == [offset |-> off, sec |-> d]
<1>0. off \in Nat /\ ordered[seg].len \in Nat /\ DescriptorSize \in Nat
      /\ off + DescriptorSize <= ordered[seg].len
  <2> DEFINE len == ordered[seg].len
  <2>1. pc = "walk" /\ ~ChainEnds(off, ordered[seg])
    BY DEF WalkDescriptor
  <2>2. len \in Nat
    BY <2>1, SegmentFacts
  <2>3. off \in Nat /\ DescriptorSize \in Nat /\ U64Max \in Nat
    <3>1. off \in Nat
      BY DEF Inv, IInv, TypeOK
    <3>2. U64Max \in Nat
      BY WidthAssumption DEF U64Max
    <3> QED BY <3>1, <3>2, OpenAssumption
  <2> DEFINE m == SmallerOf(len, U64Max)
  <2>4. ~(off + DescriptorSize > m)
    BY <2>1 DEF ChainEnds
  <2>5. m \in Nat /\ m <= len
    <3> HIDE DEF len
    <3> QED BY <2>2, <2>3 DEF SmallerOf
  <2> HIDE DEF len, m
  <2>6. off + DescriptorSize <= len
    BY <2>2, <2>3, <2>4, <2>5
  <2> QED BY <2>2, <2>3, <2>6 DEF len
<1>1. /\ pc = "walk" /\ ~ChainEnds(off, ordered[seg])
      /\ descs' = Append(descs, new)
      /\ \/ pc' = "sections" /\ off' = off
         \/ d.next > off /\ off' = d.next /\ pc' = "walk"
      /\ UNCHANGED <<image, mode, ordered, seg, pos, result, opened>>
  <2>1. /\ pc = "walk" /\ ~ChainEnds(off, ordered[seg])
        /\ descs' = Append(descs, new)
        /\ IF d.next = 0 \/ d.next <= off
           THEN pc' = "sections" /\ UNCHANGED off
           ELSE off' = d.next /\ UNCHANGED pc
        /\ UNCHANGED <<image, mode, ordered, seg, pos, result, opened>>
    BY DEF WalkDescriptor
  <2>2. off \in Nat /\ d.next \in Nat
    <3>1. off \in 0..(ordered[seg].len - DescriptorSize)
      BY <1>0
    <3> QED BY <2>1, <3>1, SegmentFacts DEF Section
  <2> HIDE DEF d, new
  <2> QED BY <2>1, <2>2
<1>3. d \in Section /\ MaxChunkSize * d.chunk_count <= U64Max
  <2>1. off \in 0..(ordered[seg].len - DescriptorSize)
    BY <1>0
  <2> QED BY <1>1, <2>1, SegmentFacts
<1>4. new \in Desc /\ new.offset = off /\ new.sec = d /\ d.next \in Nat
  BY <1>0, <1>3 DEF Desc, Section
<1>5. descs \in Seq(Desc)
  BY DEF Inv, IInv, TypeOK, Desc
<1> HIDE DEF new, d
<1>6. /\ descs' \in Seq(Desc) /\ Len(descs') = Len(descs) + 1
      /\ \A i \in DOMAIN descs' :
           IF i \in DOMAIN descs THEN descs'[i] = descs[i] ELSE i = Len(descs) + 1 /\ descs'[i] = new
  BY <1>1, <1>4, <1>5
<1>7. \A i \in DOMAIN descs : descs[i].offset < off /\ descs[i].offset \in Nat
  <2>1. \A i \in DOMAIN descs : descs[i] \in Desc
    BY <1>5
  <2> QED BY <1>1, <2>1 DEF Inv, IInv, Desc
<1>8. ChainAscends'
  <2>1. ASSUME NEW i \in DOMAIN descs' PROVE descs'[i].offset + DescriptorSize <= ordered[seg].len
    BY <1>0, <1>4, <1>6 DEF Inv, IInv, ChainAscends
  <2>2. ASSUME NEW i \in DOMAIN descs', NEW j \in DOMAIN descs', i < j
        PROVE  descs'[i].offset < descs'[j].offset
    <3>1. i \in DOMAIN descs
      BY <1>5, <1>6, <2>2
    <3>2. CASE j \in DOMAIN descs
      BY <1>6, <2>2, <3>1, <3>2 DEF Inv, IInv, ChainAscends
    <3>3. CASE j \notin DOMAIN descs
      BY <1>4, <1>6, <1>7, <3>1, <3>3
    <3> QED BY <3>2, <3>3
  <2> QED BY <1>1, <2>1, <2>2 DEF ChainAscends
<1>9. TypeOK'
  BY <1>1, <1>0, <1>4, <1>6 DEF Inv, IInv, TypeOK, Desc, result
<1>10. \A i \in DOMAIN descs' : MaxChunkSize * descs'[i].sec.chunk_count <= U64Max
  BY <1>3, <1>4, <1>6 DEF Inv, IInv
<1>11. pc' = "walk" => \A i \in DOMAIN descs' : descs'[i].offset < off'
  <2> SUFFICES ASSUME pc' = "walk", NEW i \in DOMAIN descs' PROVE descs'[i].offset < off'
    OBVIOUS
  <2>1. off < off' /\ off' \in Nat
    BY <1>1, <1>0, <1>4
  <2> QED BY <1>0, <1>4, <1>6, <1>7, <2>1
<1>12. \A i \in DOMAIN descs' :
         descs'[i].offset \in DOMAIN ordered[seg].at /\ descs'[i].sec = ordered[seg].at[descs'[i].offset]
  <2>1. off \in DOMAIN ordered[seg].at
    <3>1. off \in 0..(ordered[seg].len - DescriptorSize)
      BY <1>0
    <3> QED BY <1>1, <3>1, SegmentFacts
  <2> QED BY <1>4, <1>6, <2>1 DEF Inv, IInv, d
<1>13. seg' \in Nat /\ seg <= seg'
  BY <1>1 DEF Inv, IInv, TypeOK
<1> QED BY <1>1, <1>8, <1>9, <1>10, <1>11, <1>12, <1>13, SameIndex, SameOrder DEF Inv, IInv, result

LEMMA NextSegmentInv == ASSUME Inv, NextSegment PROVE Inv'
<1>1. /\ pc = "sections" /\ pc' = (IF seg = Len(ordered) THEN "finish" ELSE "walk")
      /\ seg' = seg + 1 /\ off' = FileHeaderSize /\ descs' = <<>> /\ pos' = 1
      /\ UNCHANGED <<image, mode, ordered, result, opened>>
  BY DEF NextSegment, Goto
<1>2. TypeOK'
  BY <1>1, OpenAssumption DEF Inv, IInv, TypeOK, result
<1>3. ChainAscends'
  BY <1>1 DEF ChainAscends
<1>4. Len(ordered) = Len(image) /\ Len(image) \in Nat
  BY <1>1, OpenAssumption DEF Inv, IInv, Reordered
<1>5. pc' = "walk" => seg' \in 1..Len(image')
  BY <1>1, <1>4 DEF Inv, IInv
<1>6. seg' \in Nat /\ seg <= seg'
  BY <1>1 DEF Inv, IInv, TypeOK
<1> QED BY <1>1, <1>2, <1>3, <1>5, <1>6, SameIndex, SameOrder DEF Inv, IInv, result

LEMMA FinishInv == ASSUME Inv, Finish PROVE Inv'
<1>1. pc' = "closed" /\ UNCHANGED <<image, mode, position, result>>
  BY DEF Finish, Goto
<1>2. TypeOK'
  BY <1>1 DEF Inv, IInv, TypeOK, position, result
<1>3. seg' \in Nat /\ seg <= seg'
  BY <1>1 DEF Inv, IInv, TypeOK, position
<1> QED BY <1>1, <1>2, <1>3, SameIndex, SameChain, SameOrder DEF Inv, IInv, position, result

LEMMA OpenLazyInv == ASSUME Inv, OpenLazy PROVE Inv'
<1>1. /\ pc' = "headers" /\ mode' = "lazy" /\ seg' = 1 /\ off' = FileHeaderSize
      /\ descs' = <<>> /\ pos' = 1 /\ chunk_size' = 0 /\ total_size' = 0
      /\ ordered' = <<>> /\ chunks' = <<>> /\ index' = <<>> /\ next_chunk_id' = 0
      /\ hashes' = NoHashes /\ metadata' = 0 /\ errors' = 0 /\ image' = image
  BY DEF OpenLazy, Goto
<1>2. TypeOK'
  BY <1>1, OpenAssumption, WidthAssumption DEF TypeOK, Modes, NoHashes, U64Max
<1>3. ChainAscends' /\ IndexConsecutive' /\ SegmentsInOrder'
  BY <1>1 DEF ChainAscends, IndexConsecutive, SegmentsInOrder, LazyLen
<1> QED BY <1>1, <1>2, <1>3 DEF Inv, IInv

----------------------------------------------------------------------------
(* The section handlers.                                                   *)

\* A handler sees a section of the walk.
LEMMA CurrentType ==
  ASSUME Inv, pos <= Len(descs)
  PROVE  Current \in Section /\ MaxChunkSize * Current.chunk_count <= U64Max
<1>1. pos \in DOMAIN descs /\ descs \in Seq(Desc)
  BY DEF Inv, IInv, TypeOK, Desc
<1>2. descs[pos] \in Desc
  BY <1>1
<1> QED BY <1>1, <1>2 DEF Desc, Current, Inv, IInv

LEMMA HandleFrame ==
  ASSUME Inv, pc = "sections", pos' = pos + 1,
         UNCHANGED <<image, mode, pc, ordered, seg, off, descs, opened>>,
         chunk_size' \in Nat, total_size' \in 0..U64Max,
         hashes' \in [md5 : Nat \union {None}, sha1 : Nat \union {None}],
         metadata' \in Nat, errors' \in Nat,
         index' \in Seq(Meta), next_chunk_id' \in Nat, IndexConsecutive', chunks' \in Seq(Chunk),
         \A i \in DOMAIN index' : index'[i].first_chunk_id + index'[i].entry_count <= next_chunk_id',
         SegmentsInOrder', \A i \in DOMAIN chunks' : chunks'[i].seg <= seg,
         \A i \in DOMAIN index' : index'[i].segment_idx <= seg
  PROVE  Inv'
<1>1. TypeOK'
  BY DEF Inv, IInv, TypeOK, Meta
<1> QED BY <1>1, SameChain DEF Inv, IInv

\* A handler that leaves the table alone.
LEMMA PlainHandle ==
  ASSUME Inv, pc = "sections", pos' = pos + 1,
         UNCHANGED <<image, mode, pc, ordered, seg, off, descs, opened, chunks, index, next_chunk_id>>,
         chunk_size' \in Nat, total_size' \in 0..U64Max,
         hashes' \in [md5 : Nat \union {None}, sha1 : Nat \union {None}],
         metadata' \in Nat, errors' \in Nat
  PROVE  Inv'
<1>1. index' \in Seq(Meta) /\ next_chunk_id' \in Nat
  BY DEF Inv, IInv, TypeOK, Meta
<1>2. /\ IndexConsecutive'
      /\ \A i \in DOMAIN index' : index'[i].first_chunk_id + index'[i].entry_count <= next_chunk_id'
  BY SameIndex DEF Inv
<1>3. seg' \in Nat /\ seg <= seg' /\ chunks' \in Seq(Chunk)
  BY DEF Inv, IInv, TypeOK
<1>4. /\ SegmentsInOrder' /\ \A i \in DOMAIN chunks' : chunks'[i].seg <= seg
      /\ \A i \in DOMAIN index' : index'[i].segment_idx <= seg
  BY <1>3, SameOrder DEF Inv
<1> QED BY <1>1, <1>2, <1>3, <1>4, HandleFrame

LEMMA OldTypes ==
  ASSUME Inv
  PROVE  /\ chunk_size \in Nat /\ total_size \in 0..U64Max /\ next_chunk_id \in Nat
         /\ hashes \in [md5 : Nat \union {None}, sha1 : Nat \union {None}]
         /\ metadata \in Nat /\ errors \in Nat /\ index \in Seq(Meta)
         /\ chunks \in Seq(Chunk) /\ seg \in Nat /\ SegmentsInOrder
         /\ \A i \in DOMAIN chunks : chunks[i].seg <= seg
         /\ \A i \in DOMAIN index : index[i].segment_idx <= seg
BY DEF Inv, IInv, TypeOK, Meta

\* The declared size saturates, and the product of chunks stays below 2^64.
LEMMA VolumeTypes ==
  ASSUME NEW d \in Section, VolumeChunkSize(d) <= MaxChunkSize,
         MaxChunkSize * d.chunk_count <= U64Max
  PROVE  VolumeChunkSize(d) \in Nat /\ VolumeTotalSize(d) \in 0..U64Max
<1>1. /\ d.sectors_per_chunk \in Nat /\ d.bytes_per_sector \in Nat
      /\ d.sector_count \in Nat /\ d.chunk_count \in Nat
  BY DEF Section
<1>2. U64Max \in Nat /\ MaxChunkSize \in Nat
  BY WidthAssumption, OpenAssumption DEF U64Max
<1> DEFINE c == VolumeChunkSize(d)
           x == d.bytes_per_sector * d.sector_count
           all == c * d.chunk_count
<1>3. c \in Nat /\ x \in Nat
  BY <1>1 DEF VolumeChunkSize
<1>4. ASSUME NEW a \in Nat, NEW b \in Nat, NEW k \in Nat, a <= b
      PROVE  a * k \in Nat /\ a * k <= b * k /\ b * k \in Nat
  BY <1>4, SMT
<1>5. all \in Nat /\ all <= U64Max
  <2> DEFINE top == MaxChunkSize * d.chunk_count
  <2>1. all \in Nat /\ all <= top /\ top \in Nat
    <3> HIDE DEF c
    <3>1. c <= MaxChunkSize
      BY DEF c
    <3> QED BY <1>1, <1>2, <1>3, <1>4, <3>1
  <2>2. top <= U64Max
    OBVIOUS
  <2> HIDE DEF top, all
  <2> QED BY <1>2, <2>1, <2>2
<1>6. VolumeTotalSize(d) = IF SmallerOf(x, U64Max) = 0 THEN all ELSE SmallerOf(x, U64Max)
  BY DEF VolumeTotalSize
<1> HIDE DEF x, all
<1>7. VolumeTotalSize(d) \in 0..U64Max
  BY <1>2, <1>3, <1>5, <1>6 DEF SmallerOf
<1> QED BY <1>3, <1>7

LEMMA HandleStep ==
  ASSUME NEW is, Handle(is)
  PROVE  /\ pc = "sections" /\ pos <= Len(descs) /\ pos' = pos + 1 /\ ~HandlerFails /\ is
         /\ UNCHANGED <<image, mode, pc, ordered, seg, off, descs, opened>>
BY DEF Handle

LEMMA VolumeSectionInv == ASSUME Inv, VolumeSection PROVE Inv'
<1>1. /\ Handle(IsVolume)
      /\ chunk_size' = VolumeChunkSize(Current) /\ total_size' = VolumeTotalSize(Current)
      /\ UNCHANGED <<chunks, index, next_chunk_id, hashes, metadata, errors>>
  BY DEF VolumeSection
<1>2. Current \in Section /\ MaxChunkSize * Current.chunk_count <= U64Max
  BY <1>1, HandleStep, CurrentType
<1>3. VolumeChunkSize(Current) \in Nat
  BY <1>2 DEF Section, VolumeChunkSize
<1>4. ~(VolumeChunkSize(Current) > MaxChunkSize)
  BY <1>1, HandleStep DEF HandlerFails
<1>5. VolumeChunkSize(Current) <= MaxChunkSize
  BY <1>3, <1>4, OpenAssumption
<1>6. chunk_size' \in Nat /\ total_size' \in 0..U64Max
  BY <1>1, <1>2, <1>5, VolumeTypes
<1> QED BY <1>1, <1>6, HandleStep, OldTypes, PlainHandle

LEMMA PlainSectionInv ==
  ASSUME Inv, HashSection \/ DigestSection \/ HeaderSection \/ Error2Section \/ OtherSection
  PROVE  Inv'
<1> USE OldTypes, HandleStep
<1>2. CASE HashSection
  <2>1. /\ Handle(Current.type = "hash")
        /\ hashes' = (IF hashes.md5 = None THEN [hashes EXCEPT !.md5 = Current.md5] ELSE hashes)
        /\ UNCHANGED <<chunk_size, total_size, chunks, index, next_chunk_id, metadata, errors>>
    BY <1>2 DEF HashSection
  <2>2. Current.md5 \in Nat
    BY <2>1, CurrentType DEF Section
  <2>3. hashes' \in [md5 : Nat \union {None}, sha1 : Nat \union {None}]
    BY <2>1, <2>2
  <2> QED BY <2>1, <2>3, PlainHandle
<1>3. CASE DigestSection
  <2>1. /\ Handle(Current.type = "digest")
        /\ hashes' = [md5 |-> NonZero(Current.md5), sha1 |-> NonZero(Current.sha1)]
        /\ UNCHANGED <<chunk_size, total_size, chunks, index, next_chunk_id, metadata, errors>>
    BY <1>3 DEF DigestSection
  <2>2. Current.md5 \in Nat /\ Current.sha1 \in Nat
    BY <2>1, CurrentType DEF Section
  <2>3. hashes' \in [md5 : Nat \union {None}, sha1 : Nat \union {None}]
    BY <2>1, <2>2 DEF NonZero
  <2> QED BY <2>1, <2>3, PlainHandle
<1>4. CASE HeaderSection
  <2>1. /\ Handle(IsHeader) /\ metadata' = (IF DataSizeOk THEN Current.case ELSE metadata)
        /\ UNCHANGED <<chunk_size, total_size, chunks, index, next_chunk_id, hashes, errors>>
    BY <1>4 DEF HeaderSection
  <2>2. Current.case \in Nat
    BY <2>1, CurrentType DEF Section
  <2>3. metadata' \in Nat
    BY <2>1, <2>2
  <2> QED BY <2>1, <2>3, PlainHandle
<1>5. CASE Error2Section
  <2>1. /\ Handle(Current.type = "error2") /\ errors' = (IF DataSizeOk THEN Current.errors ELSE errors)
        /\ UNCHANGED <<chunk_size, total_size, chunks, index, next_chunk_id, hashes, metadata>>
    BY <1>5 DEF Error2Section
  <2>2. Current.errors \in Nat
    BY <2>1, CurrentType DEF Section
  <2>3. errors' \in Nat
    BY <2>1, <2>2
  <2> QED BY <2>1, <2>3, PlainHandle
<1>6. CASE OtherSection
  <2>1. PICK is : Handle(is) /\ UNCHANGED result
    BY <1>6 DEF OtherSection
  <2> QED BY <2>1, PlainHandle DEF result
<1> QED BY <1>2, <1>3, <1>4, <1>5, <1>6

LEMMA SectorsDataEndType ==
  ASSUME Inv PROVE SectorsDataEnd \in Nat \union {None}
<1> DEFINE is == {i \in DOMAIN descs : descs[i].sec.type = "sectors"}
           first == CHOOSE i \in is : \A j \in is : i <= j
<1>1. descs \in Seq(Desc)
  BY DEF Inv, IInv, TypeOK, Desc
<1>2. CASE is = {}
  BY <1>2 DEF SectorsDataEnd
<1>3. CASE is # {}
  <2>1. first \in is
    <3>1. is \subseteq Nat
      BY <1>1
    <3> HIDE DEF is
    <3>2. \E k \in is : \A j \in is : k <= j
      BY <1>3, <3>1, Least
    <3> QED BY <3>2
  <2>2. first \in DOMAIN descs
    BY <2>1
  <2>3. SectorsDataEnd = SatAdd(descs[first].offset, descs[first].sec.size)
    BY <1>3 DEF SectorsDataEnd
  <2> HIDE DEF first
  <2>4. descs[first].offset \in Nat /\ descs[first].sec.size \in Nat
    <3>1. descs[first] \in Desc
      BY <1>1, <2>2
    <3> QED BY <3>1 DEF Desc, Section
  <2> QED BY <2>3, <2>4, WidthAssumption DEF SatAdd, U64Max
<1> QED BY <1>2, <1>3

\* Chunks of the current segment behind chunks of it and of earlier ones.
LEMMA EagerTableInv == ASSUME Inv, EagerTable PROVE Inv'
<1> DEFINE new == ParseTableSection(Current.entries, Current.entry_count, Current.base_offset,
                                    seg, chunk_size, SectorsDataEnd)
<1>1. /\ Handle(IsTable) /\ chunks' = chunks \o new
      /\ UNCHANGED <<chunk_size, total_size, index, next_chunk_id, hashes, metadata, errors>>
  BY DEF EagerTable
<1>2. Current \in Section
  BY <1>1, HandleStep, CurrentType
<1>3. new \in Seq(Chunk) /\ \A i \in DOMAIN new : new[i].seg = seg
  <2>1. /\ Current.entry_count \in Nat /\ Current.base_offset \in Nat
        /\ Current.entries \in Seq(TableEntry)
    BY <1>2 DEF Section, TableEntry
  <2>2. seg \in Nat /\ chunk_size \in Nat /\ SectorsDataEnd \in Nat \union {None}
    BY OldTypes, SectorsDataEndType
  <2>3. ParsedFrom(new, Current.entries, Current.entry_count, Current.base_offset, seg)
    BY <2>1, <2>2, ParseFacts
  <2> QED BY <2>3 DEF ParsedFrom
<1> HIDE DEF new
<1>4. chunks \in Seq(Chunk) /\ seg \in Nat /\ \A i \in DOMAIN chunks : chunks[i].seg <= seg
  BY OldTypes
<1>5. /\ chunks' \in Seq(Chunk) /\ DOMAIN chunks' = 1..Len(chunks) + Len(new)
      /\ \A i \in DOMAIN chunks' : IF i <= Len(chunks) THEN i \in DOMAIN chunks /\ chunks'[i] = chunks[i]
                                    ELSE chunks'[i].seg = seg
  <2>1. chunks' \in Seq(Chunk) /\ Len(chunks') = Len(chunks) + Len(new)
    BY <1>1, <1>3, <1>4
  <2>2. ASSUME NEW i \in DOMAIN chunks', ~(i <= Len(chunks))
        PROVE  i - Len(chunks) \in DOMAIN new /\ chunks'[i] = new[i - Len(chunks)]
    BY <1>1, <1>3, <1>4, <2>1, <2>2
  <2> QED BY <1>1, <1>3, <1>4, <2>1, <2>2
<1>6. \A i \in DOMAIN chunks' : chunks'[i].seg <= seg
  BY <1>4, <1>5
<1>7. \A i, j \in DOMAIN chunks' : i < j => chunks'[i].seg <= chunks'[j].seg
  <2> SUFFICES ASSUME NEW i \in DOMAIN chunks', NEW j \in DOMAIN chunks', i < j
               PROVE  chunks'[i].seg <= chunks'[j].seg
    OBVIOUS
  <2>1. CASE j <= Len(chunks)
    <3>1. i <= Len(chunks)
      BY <1>4, <1>5, <2>1
    <3> QED BY <1>5, <2>1, <3>1, OldTypes DEF SegmentsInOrder
  <2>2. CASE ~(j <= Len(chunks))
    BY <1>5, <1>6, <2>2
  <2> QED BY <2>1, <2>2
<1>8. SegmentsInOrder'
  BY <1>1, <1>7, HandleStep, OldTypes DEF SegmentsInOrder
<1>9. index' \in Seq(Meta) /\ \A i \in DOMAIN index' : index'[i].segment_idx <= seg
  BY <1>1, OldTypes
<1>10. /\ IndexConsecutive'
       /\ \A i \in DOMAIN index' : index'[i].first_chunk_id + index'[i].entry_count <= next_chunk_id'
  BY <1>1, SameIndex DEF Inv
<1> QED BY <1>1, <1>5, <1>6, <1>8, <1>9, <1>10, HandleStep, OldTypes, HandleFrame

LEMMA LazyTableInv == ASSUME Inv, LazyTable PROVE Inv'
<1> DEFINE m == SectionMeta(Current)
<1>1. /\ Handle(IsTable) /\ index' = Append(index, m)
      /\ next_chunk_id' = next_chunk_id + Current.entry_count
      /\ UNCHANGED <<chunk_size, total_size, chunks, hashes, metadata, errors>>
  BY DEF LazyTable
<1>2. /\ index \in Seq(Meta) /\ next_chunk_id \in Nat /\ IndexConsecutive
      /\ \A i \in DOMAIN index : index[i].first_chunk_id + index[i].entry_count <= next_chunk_id
  BY OldTypes DEF Inv, IInv
<1>3. Current \in Section
  BY <1>1, HandleStep, CurrentType
<1>4. /\ m \in Meta /\ m.first_chunk_id = next_chunk_id /\ m.entry_count = Current.entry_count
      /\ m.segment_idx = seg
      /\ Current.entry_count \in Nat
  <2>1. /\ Current.entry_count \in Nat /\ Current.base_offset \in Nat
        /\ Current.entries \in Seq([comp : BOOLEAN, off : Nat])
    BY <1>3 DEF Section
  <2>2. seg \in Nat
    BY DEF Inv, IInv, TypeOK
  <2> QED BY <1>2, <2>1, <2>2, SectorsDataEndType DEF SectionMeta, Meta
<1> HIDE DEF m
<1> DEFINE n == Len(index)
<1>5. /\ index' \in Seq(Meta) /\ Len(index') = n + 1 /\ n \in Nat /\ index'[n + 1] = m
      /\ DOMAIN index' = 1..n + 1 /\ DOMAIN index = 1..n
      /\ \A i \in 1..n : index'[i] = index[i]
  BY <1>1, <1>2, <1>4
<1>6. \A i \in 1..n : index[i].first_chunk_id \in Nat /\ index[i].entry_count \in Nat
                      /\ index[i].first_chunk_id + index[i].entry_count <= next_chunk_id
  <2>1. \A i \in 1..n : index[i] \in Meta
    BY <1>2, <1>5
  <2>2. \A i \in 1..n : index[i].first_chunk_id \in Nat /\ index[i].entry_count \in Nat
    BY <2>1 DEF Meta
  <2> QED BY <1>2, <1>5, <2>2
<1>7. next_chunk_id' \in Nat
      /\ \A i \in DOMAIN index' : index'[i].first_chunk_id + index'[i].entry_count <= next_chunk_id'
  <2>1. ASSUME NEW i \in 1..n + 1
        PROVE  index'[i].first_chunk_id + index'[i].entry_count <= next_chunk_id'
    BY <1>1, <1>2, <1>4, <1>5, <1>6
  <2> QED BY <1>1, <1>2, <1>4, <1>5, <2>1
<1>8. IndexConsecutive'
  <2>1. next_chunk_id' = LazyLen(index')
    <3>1. index' # <<>>
      BY <1>5
    <3> QED BY <1>1, <1>4, <1>5, <3>1 DEF LazyLen
  <2>2. index'[1].first_chunk_id = 0
    <3>1. CASE n = 0
      <4>1. index = <<>>
        BY <1>2, <3>1
      <4>2. next_chunk_id = 0
        BY <1>2, <4>1 DEF IndexConsecutive, LazyLen
      <4> QED BY <1>4, <1>5, <3>1, <4>2
    <3>2. CASE n > 0
      <4>1. index # <<>> /\ 1 \in 1..n
        BY <1>2, <1>5, <3>2
      <4> QED BY <1>2, <1>5, <4>1 DEF IndexConsecutive
    <3> QED BY <1>5, <3>1, <3>2
  <2>3. ASSUME NEW i \in DOMAIN index', i + 1 \in DOMAIN index'
        PROVE  index'[i + 1].first_chunk_id = index'[i].first_chunk_id + index'[i].entry_count
    <3>1. i \in 1..n /\ index'[i] = index[i]
      BY <1>5, <2>3
    <3>2. CASE i + 1 \in 1..n
      BY <1>2, <1>5, <3>1, <3>2 DEF IndexConsecutive
    <3>3. CASE i = n
      <4>1. index # <<>>
        BY <1>5, <3>1
      <4>2. next_chunk_id = index[n].first_chunk_id + index[n].entry_count
        BY <1>2, <4>1 DEF IndexConsecutive, LazyLen
      <4> QED BY <1>4, <1>5, <3>1, <3>3, <4>2
    <3> QED BY <1>5, <3>1, <3>2, <3>3
  <2>4. ASSUME NEW i \in DOMAIN index', NEW j \in DOMAIN index', i <= j
        PROVE  index'[i].first_chunk_id <= index'[j].first_chunk_id
    <3>1. CASE j \in 1..n
      <4>1. i \in 1..n
        BY <1>5, <2>4, <3>1
      <4> QED BY <1>2, <1>5, <2>4, <3>1, <4>1 DEF IndexConsecutive
    <3>2. CASE j = n + 1 /\ i \in 1..n
      BY <1>2, <1>4, <1>5, <1>6, <3>2
    <3>3. CASE j = n + 1 /\ i = n + 1
      BY <1>2, <1>4, <1>5, <3>3
    <3> QED BY <1>5, <2>4, <3>1, <3>2, <3>3
  <2> QED BY <2>1, <2>2, <2>3, <2>4 DEF IndexConsecutive
<1>9. \A i \in DOMAIN index' : index'[i].segment_idx <= seg
  BY <1>4, <1>5, OldTypes
<1>10. SegmentsInOrder'
  <2> SUFFICES ASSUME NEW i \in DOMAIN index', NEW j \in DOMAIN index', i < j
               PROVE  index'[i].segment_idx <= index'[j].segment_idx
    BY <1>1, HandleStep, OldTypes DEF SegmentsInOrder
  <2>1. CASE j \in 1..n
    <3>1. i \in 1..n
      BY <1>5, <2>1
    <3> QED BY <1>5, <2>1, <3>1, OldTypes DEF SegmentsInOrder
  <2>2. CASE j = n + 1
    BY <1>4, <1>5, <1>9, <2>2
  <2> QED BY <1>5, <2>1, <2>2
<1> QED BY <1>1, <1>5, <1>7, <1>8, <1>9, <1>10, HandleStep, OldTypes, HandleFrame

LEMMA StutterInv == ASSUME Inv, UNCHANGED vars PROVE Inv'
<1>1. TypeOK'
  BY DEF Inv, IInv, TypeOK, vars, position, result
<1>2. seg' \in Nat /\ seg <= seg'
  BY DEF Inv, IInv, TypeOK, vars, position
<1> QED BY <1>1, <1>2, SameIndex, SameChain, SameOrder DEF Inv, IInv, vars, position, result

LEMMA StepInv == ASSUME Inv, [Next]_vars PROVE Inv'
<1>1. CASE RejectSources \/ SectionFails \/ MissingVolume
  BY <1>1, FailInv DEF RejectSources, SectionFails, MissingVolume
<1>2. CASE OrderSegments \/ WalkTruncated \/ WalkDescriptor \/ NextSegment \/ Finish \/ OpenLazy
  BY <1>2, OrderSegmentsInv, WalkTruncatedInv, WalkDescriptorInv, NextSegmentInv, FinishInv, OpenLazyInv
<1>3. CASE VolumeSection \/ EagerTable \/ LazyTable
  BY <1>3, VolumeSectionInv, EagerTableInv, LazyTableInv
<1>4. CASE HashSection \/ DigestSection \/ HeaderSection \/ Error2Section \/ OtherSection
  BY <1>4, PlainSectionInv
<1>5. CASE UNCHANGED vars
  BY <1>5, StutterInv
<1> QED BY <1>1, <1>2, <1>3, <1>4, <1>5 DEF Next

\* The invariant of the open, on every image: the walk only goes forward, and the
\* index only grows behind the chunks it has numbered.
THEOREM Inductive == SafetySpec => []IInv
<1>1. Inv => IInv
  BY DEF Inv
<1> QED BY InitInv, StepInv, <1>1, PTL DEF SafetySpec

\* Type correctness; the media size never leaves u64.
THEOREM TypeCorrect == SafetySpec => []TypeOK
<1>1. IInv => TypeOK
  BY DEF IInv
<1> QED BY <1>1, Inductive, PTL

\* No descriptor of a segment is read twice, whatever its links say.
THEOREM ChainsAscend == SafetySpec => []ChainAscends
<1>1. IInv => ChainAscends
  BY DEF IInv
<1> QED BY <1>1, Inductive, PTL

\* The lazy index is numbered without gap or overlap and is sorted, which
\* EwfReader assumes of its Index.
THEOREM IndexIsConsecutive == SafetySpec => []IndexConsecutive
<1>1. IInv => IndexConsecutive
  BY DEF IInv
<1> QED BY <1>1, Inductive, PTL

\* The segments are parsed by number and neither table goes back to an earlier one.
THEOREM SegmentsOrdered == SafetySpec => []SegmentsInOrder
<1>1. IInv => SegmentsInOrder
  BY DEF IInv
<1> QED BY <1>1, Inductive, PTL

----------------------------------------------------------------------------
(* The two opens side by side.  A lazy open is a run of a deterministic    *)
(* machine over records; the states of an eager open are those of such a   *)
(* run with the chunks of the sections in place of the index.              *)

SecAt(s) == s.descs[s.pos].sec
TableTypeIn(ds) == IF "table" \in {ds[i].sec.type : i \in DOMAIN ds} THEN "table" ELSE "table2"
EndIn(ds) ==
  LET is == {i \in DOMAIN ds : ds[i].sec.type = "sectors"}
      first == CHOOSE i \in is : \A j \in is : i <= j
  IN  IF is = {} THEN None ELSE SatAdd(ds[first].offset, ds[first].sec.size)
SizeOk(d) == SatSub(d.size, DescriptorSize) > 0 /\ SatSub(d.size, DescriptorSize) < MaxSectionData
VolumeAt(s) == SecAt(s).type \in {"volume", "disk"}
TableAt(s) == SecAt(s).type = TableTypeIn(s.descs)
HeaderAt(s) == SecAt(s).type = "header" /\ s.res.metadata = 0
MetaAt(s) ==
  [first_chunk_id |-> s.res.next, entry_count |-> SecAt(s).entry_count, segment_idx |-> s.seg,
   base_offset |-> SecAt(s).base_offset, sectors_data_end |-> EndIn(s.descs),
   entries |-> SecAt(s).entries]

\* What fails the eager open.
StuckAt(s) ==
  LET d == SecAt(s)
  IN  \/ VolumeAt(s) /\ (~d.whole \/ VolumeChunkSize(d) > MaxChunkSize)
      \/ TableAt(s) /\ (~d.whole \/ d.entry_count > MaxTableEntries \/ Len(d.entries) < d.entry_count)
      \/ d.type \in {"hash", "digest"} /\ ~d.whole
      \/ (HeaderAt(s) \/ d.type = "error2") /\ SizeOk(d) /\ ~d.whole

HashesAfter(h, d) ==
  IF d.type = "hash" THEN (IF h.md5 = None THEN [h EXCEPT !.md5 = d.md5] ELSE h)
  ELSE IF d.type = "digest" THEN [md5 |-> NonZero(d.md5), sha1 |-> NonZero(d.sha1)]
  ELSE h

ResultAfter(s) ==
  LET d == SecAt(s)
  IN  [chunk_size |-> IF VolumeAt(s) THEN VolumeChunkSize(d) ELSE s.res.chunk_size,
       total_size |-> IF VolumeAt(s) THEN VolumeTotalSize(d) ELSE s.res.total_size,
       index      |-> IF TableAt(s) THEN Append(s.res.index, MetaAt(s)) ELSE s.res.index,
       next       |-> IF TableAt(s) THEN s.res.next + d.entry_count ELSE s.res.next,
       hashes     |-> HashesAfter(s.res.hashes, d),
       metadata   |-> IF HeaderAt(s) /\ SizeOk(d) THEN d.case ELSE s.res.metadata,
       errors     |-> IF d.type = "error2" /\ SizeOk(d) THEN d.errors ELSE s.res.errors]

State(p, g, o, ds, i, r) == [pc |-> p, seg |-> g, off |-> o, descs |-> ds, pos |-> i, res |-> r]

\* The state after s, in the segments os.
After(os, s) ==
  LET d == os[s.seg].at[s.off]
      ends == d.next = 0 \/ d.next <= s.off
  IN  IF s.pc = "walk"
      THEN IF ChainEnds(s.off, os[s.seg])
           THEN State("sections", s.seg, s.off, s.descs, s.pos, s.res)
           ELSE State(IF ends THEN "sections" ELSE "walk", s.seg, IF ends THEN s.off ELSE d.next,
                      Append(s.descs, [offset |-> s.off, sec |-> d]), s.pos, s.res)
      ELSE IF s.pos <= Len(s.descs)
           THEN State(s.pc, s.seg, s.off, s.descs, s.pos + 1, ResultAfter(s))
           ELSE State(IF s.seg = Len(os) THEN "finish" ELSE "walk", s.seg + 1, FileHeaderSize,
                      <<>>, 1, s.res)

GoesOn(s) ==
  /\ s.pc \in {"walk", "sections"}
  /\ s.pc = "sections" /\ s.pos <= Len(s.descs) => ~StuckAt(s)

Result(cs, ts, ix, nx, h, m, e) ==
  [chunk_size |-> cs, total_size |-> ts, index |-> ix, next |-> nx,
   hashes |-> h, metadata |-> m, errors |-> e]

\* The state of the open, and the next one, with the index ix and the next chunk id nx.
At(ix, nx) ==
  State(pc, seg, off, descs, pos, Result(chunk_size, total_size, ix, nx, hashes, metadata, errors))
AtNext(ix, nx) ==
  State(pc', seg', off', descs', pos',
        Result(chunk_size', total_size', ix, nx, hashes', metadata', errors'))

\* What the definitions over records say of the current state.
LEMMA RecordView ==
  ASSUME NEW ix, NEW nx
  PROVE  /\ SecAt(At(ix, nx)) = Current /\ (VolumeAt(At(ix, nx)) <=> IsVolume)
         /\ (TableAt(At(ix, nx)) <=> IsTable) /\ (HeaderAt(At(ix, nx)) <=> IsHeader)
         /\ (SizeOk(Current) <=> DataSizeOk) /\ EndIn(descs) = SectorsDataEnd
<1>1. /\ At(ix, nx).descs = descs /\ At(ix, nx).pos = pos /\ At(ix, nx).res.metadata = metadata
  BY DEF At, State, Result
<1>2. SecAt(At(ix, nx)) = Current
  BY <1>1 DEF SecAt, Current
<1>3. TableTypeIn(descs) = TableType
  BY DEF TableTypeIn, TableType, Types
<1>4. EndIn(descs) = SectorsDataEnd
  BY DEF EndIn, SectorsDataEnd
<1>5. SizeOk(Current) <=> DataSizeOk
  BY DEF SizeOk, DataSizeOk, DataSize
<1> QED BY <1>1, <1>2, <1>3, <1>4, <1>5 DEF VolumeAt, TableAt, HeaderAt, IsVolume, IsTable, IsHeader

LEMMA StuckView ==
  ASSUME NEW ix, NEW nx
  PROVE  /\ HandlerFails => StuckAt(At(ix, nx))
         /\ mode = "eager" => (StuckAt(At(ix, nx)) => HandlerFails)
BY RecordView DEF StuckAt, HandlerFails

OnTable == pc = "sections" /\ pos <= Len(descs) /\ IsTable

Plain == HashSection \/ DigestSection \/ HeaderSection \/ Error2Section \/ OtherSection
Going == WalkTruncated \/ WalkDescriptor \/ VolumeSection \/ EagerTable \/ LazyTable \/ Plain \/ NextSegment

LEMMA AtFields ==
  ASSUME NEW ix, NEW nx
  PROVE  LET s == At(ix, nx)
         IN  /\ s.pc = pc /\ s.seg = seg /\ s.off = off /\ s.descs = descs /\ s.pos = pos
             /\ s.res = Result(chunk_size, total_size, ix, nx, hashes, metadata, errors)
             /\ s.res.chunk_size = chunk_size /\ s.res.total_size = total_size
             /\ s.res.index = ix /\ s.res.next = nx /\ s.res.hashes = hashes
             /\ s.res.metadata = metadata /\ s.res.errors = errors
BY DEF At, State, Result

LEMMA WalkMatches ==
  ASSUME NEW ix, NEW nx, WalkTruncated \/ WalkDescriptor
  PROVE  AtNext(ix, nx) = After(ordered, At(ix, nx)) /\ GoesOn(At(ix, nx)) /\ ~OnTable
<1> DEFINE d == ordered[seg].at[off]
           r == Result(chunk_size, total_size, ix, nx, hashes, metadata, errors)
<1>1. CASE WalkTruncated
  <2>1. /\ pc = "walk" /\ pc' = "sections" /\ ChainEnds(off, ordered[seg])
        /\ UNCHANGED <<seg, off, descs, pos, chunk_size, total_size, hashes, metadata, errors>>
    BY <1>1 DEF WalkTruncated, Goto, position, result
  <2>2. After(ordered, At(ix, nx)) = State("sections", seg, off, descs, pos, r)
    BY <2>1, AtFields DEF After
  <2> QED BY <2>1, <2>2, AtFields DEF AtNext, GoesOn, OnTable
<1>2. CASE WalkDescriptor
  <2> DEFINE ends == d.next = 0 \/ d.next <= off
  <2>1. /\ pc = "walk" /\ pc' = (IF ends THEN "sections" ELSE "walk") /\ ~ChainEnds(off, ordered[seg])
        /\ off' = (IF ends THEN off ELSE d.next)
        /\ descs' = Append(descs, [offset |-> off, sec |-> d])
        /\ UNCHANGED <<seg, pos, chunk_size, total_size, hashes, metadata, errors>>
    BY <1>2 DEF WalkDescriptor, result
  <2>2. After(ordered, At(ix, nx)) =
          State(IF ends THEN "sections" ELSE "walk", seg, IF ends THEN off ELSE d.next,
                Append(descs, [offset |-> off, sec |-> d]), pos, r)
    BY <2>1, AtFields DEF After
  <2> QED BY <2>1, <2>2, AtFields DEF AtNext, GoesOn, OnTable
<1> QED BY <1>1, <1>2

LEMMA NextSegmentMatches ==
  ASSUME NEW ix, NEW nx, Inv, NextSegment
  PROVE  AtNext(ix, nx) = After(ordered, At(ix, nx)) /\ GoesOn(At(ix, nx)) /\ ~OnTable
<1> DEFINE r == Result(chunk_size, total_size, ix, nx, hashes, metadata, errors)
<1>1. /\ pc = "sections" /\ pc' = (IF seg = Len(ordered) THEN "finish" ELSE "walk") /\ pos > Len(descs)
      /\ seg' = seg + 1 /\ off' = FileHeaderSize /\ descs' = <<>> /\ pos' = 1
      /\ UNCHANGED <<chunk_size, total_size, hashes, metadata, errors>>
  BY DEF NextSegment, Goto, result
<1>2. ~(pos <= Len(descs))
  <2>1. pos \in Nat /\ descs \in Seq(Desc)
    BY DEF Inv, IInv, TypeOK, Desc
  <2> QED BY <1>1, <2>1
<1>3. After(ordered, At(ix, nx)) =
        State(IF seg = Len(ordered) THEN "finish" ELSE "walk", seg + 1, FileHeaderSize, <<>>, 1, r)
  BY <1>1, <1>2, AtFields DEF After
<1> QED BY <1>1, <1>2, <1>3, AtFields DEF AtNext, GoesOn, OnTable

\* A handler changes the result as ResultAfter says.
LEMMA HandlerMatches ==
  ASSUME NEW ix, NEW nx, NEW ix2, NEW nx2,
         VolumeSection \/ EagerTable \/ LazyTable \/ Plain,
         IF OnTable THEN /\ ix2 = Append(ix, [SectionMeta(Current) EXCEPT !.first_chunk_id = nx])
                         /\ nx2 = nx + Current.entry_count
         ELSE ix2 = ix /\ nx2 = nx
  PROVE  /\ AtNext(ix2, nx2) = After(ordered, At(ix, nx))
         /\ mode = "eager" => GoesOn(At(ix, nx))
<1> DEFINE s == At(ix, nx)
           r == ResultAfter(s)
<1>1. PICK is : Handle(is)
  BY DEF VolumeSection, EagerTable, LazyTable, Plain, HashSection, DigestSection, HeaderSection,
         Error2Section, OtherSection
<1>2. /\ pc = "sections" /\ pos <= Len(descs) /\ pos' = pos + 1 /\ ~HandlerFails
      /\ UNCHANGED <<mode, pc, ordered, seg, off, descs>>
  BY <1>1, HandleStep
<1>3. After(ordered, s) = State(pc, seg, off, descs, pos + 1, r)
  BY <1>2, AtFields DEF After
<1>4. mode = "eager" => GoesOn(s)
  BY <1>2, StuckView, AtFields DEF GoesOn
<1>5. r = Result(IF IsVolume THEN VolumeChunkSize(Current) ELSE chunk_size,
                 IF IsVolume THEN VolumeTotalSize(Current) ELSE total_size,
                 IF IsTable THEN Append(ix, MetaAt(s)) ELSE ix,
                 IF IsTable THEN nx + Current.entry_count ELSE nx,
                 HashesAfter(hashes, Current),
                 IF IsHeader /\ DataSizeOk THEN Current.case ELSE metadata,
                 IF Current.type = "error2" /\ DataSizeOk THEN Current.errors ELSE errors)
  <2>1. /\ s.res.chunk_size = chunk_size /\ s.res.total_size = total_size /\ s.res.index = ix
        /\ s.res.next = nx /\ s.res.hashes = hashes /\ s.res.metadata = metadata /\ s.res.errors = errors
    BY AtFields
  <2> HIDE DEF s
  <2> QED BY <2>1, RecordView DEF ResultAfter, Result, s
<1>6. IsTable => MetaAt(s) = [SectionMeta(Current) EXCEPT !.first_chunk_id = nx]
  <2>1. s.res.next = nx /\ s.seg = seg /\ SecAt(s) = Current /\ EndIn(s.descs) = SectorsDataEnd
    BY AtFields, RecordView
  <2> QED BY <2>1 DEF MetaAt, SectionMeta
<1>7. ix2 = (IF IsTable THEN Append(ix, MetaAt(s)) ELSE ix) /\ nx2 = (IF IsTable THEN nx + Current.entry_count ELSE nx)
  BY <1>2, <1>6 DEF OnTable
<1>8. /\ chunk_size' = (IF IsVolume THEN VolumeChunkSize(Current) ELSE chunk_size)
      /\ total_size' = (IF IsVolume THEN VolumeTotalSize(Current) ELSE total_size)
      /\ hashes' = HashesAfter(hashes, Current)
      /\ metadata' = (IF IsHeader /\ DataSizeOk THEN Current.case ELSE metadata)
      /\ errors' = (IF Current.type = "error2" /\ DataSizeOk THEN Current.errors ELSE errors)
  <2>1. IsTable => Current.type \in {"table", "table2"}
    BY DEF IsTable, TableType
  <2>2. CASE VolumeSection
    <3>1. IsVolume
      BY <2>2 DEF VolumeSection, Handle
    <3> QED BY <2>2, <3>1 DEF VolumeSection, IsVolume, IsHeader, HashesAfter
  <2>3. CASE EagerTable \/ LazyTable
    BY <2>1, <2>3, HandleStep DEF EagerTable, LazyTable, IsVolume, IsHeader, HashesAfter
  <2>4. CASE HashSection
    BY <2>4, HandleStep DEF HashSection, IsVolume, IsHeader, HashesAfter
  <2>5. CASE DigestSection
    BY <2>5, HandleStep DEF DigestSection, IsVolume, IsHeader, HashesAfter
  <2>6. CASE HeaderSection
    BY <2>6, HandleStep DEF HeaderSection, IsVolume, IsHeader, HashesAfter
  <2>7. CASE Error2Section
    BY <2>7, HandleStep DEF Error2Section, IsVolume, IsHeader, HashesAfter
  <2>8. CASE OtherSection
    BY <2>8, HandleStep DEF OtherSection, IsVolume, IsHeader, HashesAfter, result
  <2> QED BY <2>2, <2>3, <2>4, <2>5, <2>6, <2>7, <2>8 DEF Plain
<1>9. AtNext(ix2, nx2) = State(pc, seg, off, descs, pos + 1, r)
  BY <1>2, <1>5, <1>7, <1>8 DEF AtNext
<1> QED BY <1>3, <1>4, <1>9

----------------------------------------------------------------------------
(* What the tables hold.                                                   *)

ParsedMeta(m, cs) ==
  ParseTableSection(m.entries, m.entry_count, m.base_offset, m.segment_idx, cs, m.sectors_data_end)

\* The chunks c are those of the sections of the index ix, one section after another.
Holds(c, ix, nx, cs) ==
  /\ nx \in Nat /\ Len(c) = nx
  /\ ix \in Seq(Meta)
  /\ \A p \in DOMAIN ix :
       /\ ix[p].first_chunk_id + ix[p].entry_count <= nx
       /\ ParsedMeta(ix[p], cs) \in Seq(Chunk)
       /\ Len(ParsedMeta(ix[p], cs)) = ix[p].entry_count
       /\ \A j \in 1..ix[p].entry_count : c[ix[p].first_chunk_id + j] = ParsedMeta(ix[p], cs)[j]

\* A table that is in the index lies before the section that comes next.
TableSeen(ix) ==
  ix # <<>> =>
    \E x \in SectionsOf(image) :
      /\ x.sec.type \in {"table", "table2"}
      /\ \/ x.number < seg
         \/ x.number = seg /\ \E i \in DOMAIN descs : i < pos /\ x.offset = descs[i].offset

LEMMA DescPlace ==
  ASSUME Inv, pc \in {"walk", "sections"}, NEW i \in DOMAIN descs
  PROVE  [number |-> seg, offset |-> descs[i].offset, sec |-> descs[i].sec] \in SectionsOf(image)
<1>1. /\ image \in Images /\ seg \in 1..Len(image)
      /\ Sequential(image) /\ ordered = Reordered(image)
  BY DEF Inv, IInv, Rejected
<1> DEFINE k == CHOOSE j \in DOMAIN image : image[j].number = seg
<1>2. k \in DOMAIN image /\ image[k].number = seg
  <2>1. \E j \in DOMAIN image : image[j].number = seg
    BY <1>1 DEF Sequential
  <2> QED BY <2>1
<1>3. ordered[seg] = image[k]
  BY <1>1 DEF Reordered
<1> HIDE DEF k
<1>4. descs[i].offset \in DOMAIN image[k].at /\ descs[i].sec = image[k].at[descs[i].offset]
  BY <1>3 DEF Inv, IInv
<1> QED BY <1>2, <1>4 DEF SectionsOf

\* On a regular image no volume comes behind a table.
LEMMA VolumeFirst ==
  ASSUME Inv, pc = "sections", pos <= Len(descs), IsVolume, Regular(image), NEW ix, TableSeen(ix)
  PROVE  ix = <<>>
<1> SUFFICES ASSUME ix # <<>> PROVE FALSE
  OBVIOUS
<1>1. pos \in DOMAIN descs /\ descs \in Seq(Desc) /\ seg \in Nat
  BY DEF Inv, IInv, TypeOK, Desc
<1> DEFINE v == [number |-> seg, offset |-> descs[pos].offset, sec |-> descs[pos].sec]
<1>2. v \in SectionsOf(image) /\ v.sec.type \in {"volume", "disk"}
  BY <1>1, DescPlace DEF IsVolume, Current
<1>3. PICK x \in SectionsOf(image) :
        /\ x.sec.type \in {"table", "table2"}
        /\ \/ x.number < seg
           \/ x.number = seg /\ \E i \in DOMAIN descs : i < pos /\ x.offset = descs[i].offset
  BY DEF TableSeen
<1>4. v.number < x.number \/ (v.number = x.number /\ v.offset <= x.offset)
  BY <1>2, <1>3 DEF Regular
<1>5. x.number \in Nat
  <2>1. PICK k \in DOMAIN image : x.number = image[k].number
    BY <1>3 DEF SectionsOf
  <2>2. image \in Images
    BY DEF Inv
  <2>3. DOMAIN image = 1..Len(image)
    BY <2>2, OpenAssumption
  <2> QED BY <2>1, <2>2, <2>3, OpenAssumption
<1>6. x.number = seg
  BY <1>1, <1>3, <1>4, <1>5
<1>7. PICK i \in DOMAIN descs : i < pos /\ x.offset = descs[i].offset
  BY <1>1, <1>3, <1>6
<1>8. descs[i].offset < descs[pos].offset
  BY <1>1, <1>7 DEF Inv, IInv, ChainAscends
<1>9. descs[pos].offset <= descs[i].offset
  BY <1>1, <1>4, <1>6, <1>7
<1>10. descs[i] \in Desc /\ descs[pos] \in Desc
  BY <1>1, <1>7
<1> QED BY <1>8, <1>9, <1>10 DEF Desc

\* A section of a regular image that the eager open takes is parsed to as many
\* chunks as it declares.
LEMMA TableParsed ==
  ASSUME Inv, pc = "sections", pos <= Len(descs), IsTable, ~HandlerFails, mode = "eager",
         Regular(image), NEW nx \in Nat
  PROVE  LET m == [SectionMeta(Current) EXCEPT !.first_chunk_id = nx]
         IN  /\ m \in Meta /\ m.first_chunk_id = nx /\ m.entry_count = Current.entry_count
             /\ ParsedMeta(m, chunk_size) =
                  ParseTableSection(Current.entries, Current.entry_count, Current.base_offset,
                                    seg, chunk_size, SectorsDataEnd)
             /\ ParsedMeta(m, chunk_size) \in Seq(Chunk)
             /\ Len(ParsedMeta(m, chunk_size)) = Current.entry_count
<1> DEFINE m == [SectionMeta(Current) EXCEPT !.first_chunk_id = nx]
           new == ParseTableSection(Current.entries, Current.entry_count, Current.base_offset,
                                    seg, chunk_size, SectorsDataEnd)
<1>1. Current \in Section
  BY CurrentType
<1>2. /\ Current.entry_count \in Nat /\ Current.base_offset \in Nat
      /\ Current.entries \in Seq(TableEntry)
  BY <1>1 DEF Section, TableEntry
<1>3. seg \in Nat /\ chunk_size \in Nat /\ SectorsDataEnd \in Nat \union {None}
  BY OldTypes, SectorsDataEndType
<1>4. /\ m = [first_chunk_id |-> nx, entry_count |-> Current.entry_count, segment_idx |-> seg,
              base_offset |-> Current.base_offset, sectors_data_end |-> SectorsDataEnd,
              entries |-> Current.entries]
  BY DEF SectionMeta
<1>5. m \in Meta /\ m.first_chunk_id = nx /\ m.entry_count = Current.entry_count
  BY <1>2, <1>3, <1>4 DEF Meta, TableEntry
<1>6. ParsedMeta(m, chunk_size) = new
  BY <1>4 DEF ParsedMeta
<1>7. ParsedFrom(new, Current.entries, Current.entry_count, Current.base_offset, seg)
  BY <1>2, <1>3, ParseFacts
<1>8. ~(Len(Current.entries) < Current.entry_count)
  BY DEF HandlerFails
<1>9. \A i \in DOMAIN Current.entries : Current.base_offset + Current.entries[i].off <= U64Max
  <2>1. pos \in DOMAIN descs
    BY DEF Inv, IInv, TypeOK
  <2> DEFINE x == [number |-> seg, offset |-> descs[pos].offset, sec |-> descs[pos].sec]
  <2>2. x \in SectionsOf(image)
    BY <2>1, DescPlace
  <2>3. x.sec = Current
    BY DEF Current
  <2> HIDE DEF x
  <2> QED BY <2>2, <2>3 DEF Regular
<1>10. Len(new) = Current.entry_count
  <2>1. Len(Current.entries) \in Nat
    BY <1>2
  <2>2. SmallerOf(Current.entry_count, Len(Current.entries)) = Current.entry_count
    BY <1>2, <1>8, <2>1 DEF SmallerOf
  <2> QED BY <1>7, <1>9, <2>2 DEF ParsedFrom
<1>11. new \in Seq(Chunk)
  BY <1>7 DEF ParsedFrom
<1> HIDE DEF new, m
<1> QED BY <1>5, <1>6, <1>10, <1>11 DEF new, m

\* The eager open appends the chunks of a section as the lazy one appends the section.
LEMMA HoldsAppended ==
  ASSUME NEW c \in Seq(Chunk), NEW ix, NEW nx, NEW cs, Holds(c, ix, nx, cs), NEW m \in Meta,
         m.first_chunk_id = nx, NEW new, new = ParsedMeta(m, cs), new \in Seq(Chunk),
         Len(new) = m.entry_count
  PROVE  Holds(c \o new, Append(ix, m), nx + m.entry_count, cs)
<1> DEFINE d == c \o new
           iy == Append(ix, m)
           k == Len(ix)
<1>1. nx \in Nat /\ Len(c) = nx /\ ix \in Seq(Meta) /\ m.entry_count \in Nat
  BY DEF Holds, Meta
<1>2. d \in Seq(Chunk) /\ Len(d) = nx + m.entry_count
  BY <1>1
<1>3. /\ iy \in Seq(Meta) /\ DOMAIN iy = 1..k + 1 /\ DOMAIN ix = 1..k /\ k \in Nat
      /\ iy[k + 1] = m /\ \A p \in 1..k : iy[p] = ix[p]
  BY <1>1
<1>4. /\ \A j \in 1..nx : d[j] = c[j]
      /\ \A j \in 1..m.entry_count : d[nx + j] = new[j]
  BY <1>1, <1>2
<1> HIDE DEF d, iy, k
<1>5. ASSUME NEW p \in DOMAIN iy
      PROVE  /\ iy[p].first_chunk_id + iy[p].entry_count <= nx + m.entry_count
             /\ ParsedMeta(iy[p], cs) \in Seq(Chunk)
             /\ Len(ParsedMeta(iy[p], cs)) = iy[p].entry_count
             /\ \A j \in 1..iy[p].entry_count : d[iy[p].first_chunk_id + j] = ParsedMeta(iy[p], cs)[j]
  <2>1. CASE p = k + 1
    BY <1>1, <1>3, <1>4, <2>1
  <2>2. CASE p \in 1..k
    <3> DEFINE q == ix[p]
    <3>1. /\ iy[p] = q /\ q.first_chunk_id + q.entry_count <= nx
          /\ ParsedMeta(q, cs) \in Seq(Chunk) /\ Len(ParsedMeta(q, cs)) = q.entry_count
          /\ \A j \in 1..q.entry_count : c[q.first_chunk_id + j] = ParsedMeta(q, cs)[j]
      BY <1>3, <2>2 DEF Holds
    <3>2. q.first_chunk_id \in Nat /\ q.entry_count \in Nat
      <4>1. q \in Meta
        BY <1>1, <1>3, <2>2
      <4> QED BY <4>1 DEF Meta
    <3> HIDE DEF q
    <3>3. ASSUME NEW j \in 1..q.entry_count PROVE d[q.first_chunk_id + j] = ParsedMeta(q, cs)[j]
      <4>1. q.first_chunk_id + j \in 1..nx
        BY <1>1, <3>1, <3>2
      <4> QED BY <1>4, <3>1, <4>1
    <3> QED BY <1>1, <3>1, <3>2, <3>3
  <2> QED BY <1>3, <2>1, <2>2
<1>6. nx + m.entry_count \in Nat
  BY <1>1
<1>7. Holds(d, iy, nx + m.entry_count, cs)
  BY <1>2, <1>3, <1>5, <1>6 DEF Holds
<1> QED BY <1>7 DEF d, iy

Tables(ix, nx) == Regular(image) => Holds(chunks, ix, nx, chunk_size) /\ TableSeen(ix)

\* The place that a table was seen at stays behind.
LEMMA SeenStays ==
  ASSUME NEW ix, TableSeen(ix), Inv, Going
  PROVE  TableSeen(ix)'
<1> SUFFICES ASSUME ix # <<>> PROVE TableSeen(ix)'
  BY DEF TableSeen
<1>1. PICK x \in SectionsOf(image) :
        /\ x.sec.type \in {"table", "table2"}
        /\ \/ x.number < seg
           \/ x.number = seg /\ \E i \in DOMAIN descs : i < pos /\ x.offset = descs[i].offset
  BY DEF TableSeen
<1>2. SectionsOf(image)' = SectionsOf(image) /\ image' = image
  <2>1. image' = image
    BY HandleStep DEF Going, WalkTruncated, WalkDescriptor, VolumeSection, EagerTable, LazyTable, Plain,
       HashSection, DigestSection, HeaderSection, Error2Section, OtherSection, NextSegment
  <2> QED BY <2>1 DEF SectionsOf
<1>3. seg \in Nat /\ pos \in Nat /\ descs \in Seq(Desc)
  BY DEF Inv, IInv, TypeOK, Desc
<1>4. x.number \in Nat
  <2>1. PICK k \in DOMAIN image : x.number = image[k].number
    BY <1>1 DEF SectionsOf
  <2>2. image \in Images
    BY DEF Inv
  <2>3. DOMAIN image = 1..Len(image)
    BY <2>2, OpenAssumption
  <2> QED BY <2>1, <2>2, <2>3, OpenAssumption
<1>5. \/ x.number < seg'
      \/ x.number = seg' /\ \E i \in DOMAIN descs' : i < pos' /\ x.offset = descs'[i].offset
  <2>1. CASE NextSegment
    BY <1>1, <1>3, <1>4, <2>1 DEF NextSegment
  <2>2. CASE WalkTruncated
    BY <1>1, <2>2 DEF WalkTruncated, position
  <2>3. CASE WalkDescriptor
    <3>1. /\ seg' = seg /\ pos' = pos
          /\ \E y : descs' = Append(descs, y)
      BY <2>3 DEF WalkDescriptor
    <3>2. \A i \in DOMAIN descs : i \in DOMAIN descs' /\ descs'[i] = descs[i]
      BY <1>3, <3>1
    <3> QED BY <1>1, <3>1, <3>2
  <2>4. CASE VolumeSection \/ EagerTable \/ LazyTable \/ Plain
    <3>1. seg' = seg /\ descs' = descs /\ pos' = pos + 1
      BY <2>4, HandleStep DEF VolumeSection, EagerTable, LazyTable, Plain, HashSection, DigestSection,
         HeaderSection, Error2Section, OtherSection
    <3> QED BY <1>1, <1>3, <3>1
  <2> QED BY <2>1, <2>2, <2>3, <2>4 DEF Going
<1> QED BY <1>1, <1>2, <1>5 DEF TableSeen

\* What a step of the eager open does to its chunks is what the step of the machine
\* does to the index.
LEMMA TablesStep ==
  ASSUME Inv, mode = "eager", Going, NEW ix, NEW nx, Tables(ix, nx), NEW ix2, NEW nx2,
         IF OnTable THEN /\ ix2 = Append(ix, [SectionMeta(Current) EXCEPT !.first_chunk_id = nx])
                         /\ nx2 = nx + Current.entry_count
         ELSE ix2 = ix /\ nx2 = nx
  PROVE  Tables(ix2, nx2)'
<1>0. image' = image
  BY HandleStep DEF Going, WalkTruncated, WalkDescriptor, VolumeSection, EagerTable, LazyTable, Plain,
     HashSection, DigestSection, HeaderSection, Error2Section, OtherSection, NextSegment
<1> SUFFICES ASSUME Regular(image)
             PROVE  Holds(chunks', ix2, nx2, chunk_size') /\ TableSeen(ix2)'
  BY <1>0 DEF Tables, Regular, SectionsOf
<1>1. Holds(chunks, ix, nx, chunk_size) /\ TableSeen(ix)
  BY DEF Tables
<1>2. CASE EagerTable
  <2>1. OnTable /\ ~HandlerFails
    BY <1>2 DEF EagerTable, Handle, OnTable
  <2> DEFINE m == [SectionMeta(Current) EXCEPT !.first_chunk_id = nx]
             new == ParseTableSection(Current.entries, Current.entry_count, Current.base_offset,
                                      seg, chunk_size, SectorsDataEnd)
  <2>2. /\ m \in Meta /\ m.first_chunk_id = nx /\ m.entry_count = Current.entry_count
        /\ new = ParsedMeta(m, chunk_size) /\ new \in Seq(Chunk) /\ Len(new) = m.entry_count
    BY <1>1, <2>1, TableParsed DEF OnTable, Holds
  <2>3. chunks' = chunks \o new /\ chunk_size' = chunk_size
    BY <1>2 DEF EagerTable
  <2>4. ix2 = Append(ix, m) /\ nx2 = nx + m.entry_count
    BY <2>1, <2>2
  <2> HIDE DEF m, new
  <2>5. Holds(chunks', ix2, nx2, chunk_size')
    BY <1>1, <2>2, <2>3, <2>4, HoldsAppended, OldTypes
  <2>6. TableSeen(ix2)'
    <3>1. pos \in DOMAIN descs /\ pos \in Nat /\ pc = "sections"
      BY <2>1 DEF OnTable, Inv, IInv, TypeOK
    <3> DEFINE x == [number |-> seg, offset |-> descs[pos].offset, sec |-> descs[pos].sec]
    <3>2. x \in SectionsOf(image)
      BY <3>1, DescPlace
    <3>3. x.sec.type \in {"table", "table2"}
      BY <2>1 DEF OnTable, IsTable, TableType, Current
    <3>4. seg' = seg /\ descs' = descs /\ pos' = pos + 1
      BY <1>2, HandleStep DEF EagerTable
    <3>5. x.number = seg' /\ pos \in DOMAIN descs' /\ pos < pos' /\ x.offset = descs'[pos].offset
      BY <3>1, <3>4
    <3>6. SectionsOf(image)' = SectionsOf(image)
      BY <1>0 DEF SectionsOf
    <3> HIDE DEF x
    <3> QED BY <3>2, <3>3, <3>5, <3>6 DEF TableSeen
  <2> QED BY <2>5, <2>6
<1>3. CASE VolumeSection
  <2>1. IsVolume /\ pc = "sections" /\ pos <= Len(descs) /\ chunks' = chunks
    BY <1>3 DEF VolumeSection, Handle
  <2>2. ix = <<>>
    BY <1>1, <2>1, VolumeFirst
  <2>3. ~OnTable
    BY <2>1 DEF OnTable, IsVolume, IsTable, TableType
  <2> QED BY <1>1, <2>1, <2>2, <2>3 DEF Holds, TableSeen
<1>4. CASE WalkTruncated \/ WalkDescriptor \/ Plain \/ NextSegment
  <2>1. chunks' = chunks /\ chunk_size' = chunk_size /\ ~OnTable
    <3>1. CASE WalkTruncated \/ WalkDescriptor
      BY <3>1 DEF WalkTruncated, WalkDescriptor, Goto, OnTable, result
    <3>2. CASE NextSegment
      BY <3>2, NextSegmentMatches DEF NextSegment, result
    <3>3. CASE Plain
      BY <3>3 DEF Plain, HashSection, DigestSection, HeaderSection, Error2Section, OtherSection,
         Handle, OnTable, IsTable, TableType, IsHeader, result
    <3> QED BY <1>4, <3>1, <3>2, <3>3
  <2>2. TableSeen(ix)'
    BY <1>1, <1>4, SeenStays DEF Going
  <2> QED BY <1>1, <2>1, <2>2
<1>5. ~LazyTable
  BY DEF LazyTable
<1> QED BY <1>2, <1>3, <1>4, <1>5 DEF Going

----------------------------------------------------------------------------
(* The run of the machine that both opens follow.                          *)

Start == State("walk", 1, FileHeaderSize, <<>>, 1, Result(0, 0, <<>>, 0, NoHashes, 0, 0))

\* The first n states of the run on the image img, none of which fails an eager open.
Trace(img, T, n) ==
  /\ n \in Nat
  /\ T[0] = Start
  /\ \A i \in 0..n - 1 : GoesOn(T[i]) /\ T[i + 1] = After(Reordered(img), T[i])

LEMMA Extended ==
  ASSUME NEW img, NEW T, NEW n, Trace(img, T, n), GoesOn(T[n])
  PROVE  \E U : Trace(img, U, n + 1) /\ U[n + 1] = After(Reordered(img), T[n])
<1> DEFINE t == After(Reordered(img), T[n])
           U == [i \in 0..n + 1 |-> IF i = n + 1 THEN t ELSE T[i]]
<1>1. n \in Nat /\ T[0] = Start
  BY DEF Trace
<1> HIDE DEF t
<1>2. U[0] = Start /\ U[n + 1] = t
  BY <1>1
<1>3. ASSUME NEW i \in 0..n PROVE GoesOn(U[i]) /\ U[i + 1] = After(Reordered(img), U[i])
  <2>1. U[i] = T[i]
    BY <1>1
  <2>2. CASE i = n
    BY <1>1, <2>1, <2>2 DEF t
  <2>3. CASE i # n
    <3>1. i \in 0..n - 1 /\ U[i + 1] = T[i + 1]
      BY <1>1, <2>3
    <3> QED BY <2>1, <3>1 DEF Trace
  <2> QED BY <2>2, <2>3
<1> HIDE DEF U
<1>4. Trace(img, U, n + 1)
  BY <1>1, <1>2, <1>3 DEF Trace
<1> QED BY <1>2, <1>4 DEF t

MediaOf(img, cs, declared, count) ==
  IF img[1].kind = "logical" \/ declared = 0 THEN SmallerOf(count * cs, U64Max) ELSE declared

\* The eager open of img returned e at the end of the run.
EagerEnd(img, e, T, n) ==
  LET r == T[n].res
  IN  /\ Trace(img, T, n) /\ ~Rejected(img) /\ T[n].pc = "finish" /\ r.chunk_size # 0
      /\ e.chunk_size = r.chunk_size /\ e.hashes = r.hashes
      /\ e.metadata = r.metadata /\ e.errors = r.errors
      /\ e.len = Len(e.chunks) /\ e.total_size = MediaOf(img, r.chunk_size, r.total_size, e.len)
      /\ Regular(img) => Holds(e.chunks, r.index, r.next, r.chunk_size)

\* The lazy open returned l in the same state.
LazyEnd(img, l, T, n) ==
  LET r == T[n].res
  IN  /\ l.ok
      /\ l.chunk_size = r.chunk_size /\ l.hashes = r.hashes
      /\ l.metadata = r.metadata /\ l.errors = r.errors
      /\ l.index = r.index /\ l.len = LazyLen(r.index) /\ l.len = r.next
      /\ l.total_size = MediaOf(img, r.chunk_size, r.total_size, l.len)

Working == pc \in {"walk", "sections", "finish"}

Fresh ==
  /\ seg = 1 /\ off = FileHeaderSize /\ descs = <<>> /\ pos = 1
  /\ chunk_size = 0 /\ total_size = 0 /\ chunks = <<>> /\ index = <<>> /\ next_chunk_id = 0
  /\ hashes = NoHashes /\ metadata = 0 /\ errors = 0

\* The eager open is at the end of a run.
EagerAt == \E T, n, ix, nx : Trace(image, T, n) /\ T[n] = At(ix, nx) /\ Tables(ix, nx)

\* Once it has returned, the lazy open is on the run that it left.
LazyAt ==
  \E T, n :
    /\ EagerEnd(image, opened["eager"], T, n)
    /\ mode = "lazy" /\ Working => \E k \in 0..n : T[k] = At(index, next_chunk_id)
    /\ mode = "lazy" /\ pc = "closed" => LazyEnd(image, opened["lazy"], T, n) /\ opened["lazy"].index = index

Unreturned(r) == ~r.ok /\ ~r.done

TwoOpens ==
  /\ opened = [m \in Modes |-> opened[m]]
  /\ pc = "headers" => Fresh
  /\ mode = "eager" => Unreturned(opened["lazy"]) /\ (pc # "closed" => Unreturned(opened["eager"]))
  /\ mode = "lazy" /\ pc # "closed" => Unreturned(opened["lazy"])
  /\ mode = "eager" /\ Working => EagerAt
  /\ opened["eager"].ok => LazyAt

LEMMA TwoInit == ASSUME Init PROVE TwoOpens
<1>1. mode = "eager" /\ pc = "headers" /\ opened = [m \in Modes |-> NotOpened]
  BY DEF Init
<1>2. Fresh
  BY DEF Init, Fresh
<1>3. opened["eager"] = NotOpened /\ opened["lazy"] = NotOpened
  BY <1>1 DEF Modes
<1> QED BY <1>1, <1>2, <1>3 DEF TwoOpens, NotOpened, Unreturned, Working

\* A step that leaves the sources and what was opened alone.
LEMMA EndStays ==
  ASSUME image' = image, opened' = opened, NEW T, NEW n
  PROVE  /\ EagerEnd(image, opened["eager"], T, n)' <=> EagerEnd(image, opened["eager"], T, n)
         /\ LazyEnd(image, opened["lazy"], T, n)' <=> LazyEnd(image, opened["lazy"], T, n)
         /\ Trace(image, T, n)' <=> Trace(image, T, n)
<1>1. EagerEnd(image, opened["eager"], T, n)' <=> EagerEnd(image', opened'["eager"], T, n)
  BY DEF EagerEnd, Trace, GoesOn, StuckAt, VolumeAt, SecAt, TableAt, HeaderAt
<1>2. LazyEnd(image, opened["lazy"], T, n)' <=> LazyEnd(image', opened'["lazy"], T, n)
  BY DEF LazyEnd
<1>3. Trace(image, T, n)' <=> Trace(image', T, n)
  BY DEF Trace
<1> QED BY <1>1, <1>2, <1>3

LEMMA GoingFrame ==
  ASSUME Inv, Going
  PROVE  /\ pc \in {"walk", "sections"} /\ Working /\ Working' /\ pc' # "headers" /\ pc' # "closed"
         /\ UNCHANGED <<image, mode, ordered, opened>>
<1>1. CASE WalkTruncated \/ WalkDescriptor \/ NextSegment
  BY <1>1 DEF WalkTruncated, WalkDescriptor, NextSegment, Goto, Working, position, result
<1>2. CASE VolumeSection \/ EagerTable \/ LazyTable \/ Plain
  <2>1. pc = "sections" /\ UNCHANGED <<pc, image, mode, ordered, opened>>
    BY <1>2, HandleStep DEF VolumeSection, EagerTable, LazyTable, Plain, HashSection, DigestSection,
       HeaderSection, Error2Section, OtherSection
  <2> QED BY <2>1 DEF Working
<1> QED BY <1>1, <1>2 DEF Going

\* Whatever the index, a step of an open is the step of the machine.
LEMMA GoingMatches ==
  ASSUME Inv, Going, NEW ix, NEW nx, NEW ix2, NEW nx2,
         IF OnTable THEN /\ ix2 = Append(ix, [SectionMeta(Current) EXCEPT !.first_chunk_id = nx])
                         /\ nx2 = nx + Current.entry_count
         ELSE ix2 = ix /\ nx2 = nx
  PROVE  /\ AtNext(ix2, nx2) = After(Reordered(image), At(ix, nx))
         /\ mode = "eager" => GoesOn(At(ix, nx))
<1>1. ordered = Reordered(image)
  BY GoingFrame DEF Inv, IInv, Working
<1>2. CASE WalkTruncated \/ WalkDescriptor
  BY <1>1, <1>2, WalkMatches
<1>3. CASE NextSegment
  BY <1>1, <1>3, NextSegmentMatches
<1>4. CASE VolumeSection \/ EagerTable \/ LazyTable \/ Plain
  BY <1>1, <1>4, HandlerMatches
<1> QED BY <1>2, <1>3, <1>4 DEF Going

LEMMA EagerGoes ==
  ASSUME Inv, TwoOpens, Going, mode = "eager"
  PROVE  TwoOpens'
<1>1. /\ Working /\ Working' /\ pc # "closed" /\ pc' # "headers" /\ pc' # "closed"
      /\ UNCHANGED <<image, mode, ordered, opened>>
  BY GoingFrame DEF Working
<1>2. PICK T, n, ix, nx : Trace(image, T, n) /\ T[n] = At(ix, nx) /\ Tables(ix, nx)
  BY <1>1 DEF TwoOpens, EagerAt
<1>3. PICK ix2, nx2 :
        IF OnTable THEN /\ ix2 = Append(ix, [SectionMeta(Current) EXCEPT !.first_chunk_id = nx])
                        /\ nx2 = nx + Current.entry_count
        ELSE ix2 = ix /\ nx2 = nx
  <2>1. CASE OnTable
    BY <2>1
  <2>2. CASE ~OnTable
    BY <2>2
  <2> QED BY <2>1, <2>2
<1>4. AtNext(ix2, nx2) = After(Reordered(image), T[n]) /\ GoesOn(T[n])
  BY <1>2, <1>3, GoingMatches
<1>5. Tables(ix2, nx2)'
  BY <1>2, <1>3, TablesStep
<1>6. PICK U : Trace(image, U, n + 1) /\ U[n + 1] = AtNext(ix2, nx2)
  BY <1>2, <1>4, Extended
<1>7. EagerAt'
  <2>1. At(ix2, nx2)' = AtNext(ix2, nx2)
    BY DEF At, AtNext
  <2>2. Trace(image, U, n + 1)'
    BY <1>1, <1>6, EndStays
  <2>3. (Trace(image, U, n + 1) /\ U[n + 1] = At(ix2, nx2) /\ Tables(ix2, nx2))'
    BY <1>5, <1>6, <2>1, <2>2
  <2> QED BY <2>3 DEF EagerAt
<1>8. Unreturned(opened["eager"]) /\ Unreturned(opened["lazy"])
  BY <1>1 DEF TwoOpens
<1> QED BY <1>1, <1>7, <1>8 DEF TwoOpens, Unreturned

LEMMA LazyGoes ==
  ASSUME Inv, TwoOpens, Going, mode = "lazy"
  PROVE  TwoOpens'
<1>1. /\ Working /\ Working' /\ pc # "closed" /\ pc' # "headers" /\ pc' # "closed"
      /\ pc \in {"walk", "sections"} /\ UNCHANGED <<image, mode, ordered, opened>>
  BY GoingFrame DEF Working
<1>2. Unreturned(opened["lazy"])
  BY <1>1 DEF TwoOpens
<1>3. ASSUME opened["eager"].ok PROVE LazyAt'
  <2>1. PICK T, n : /\ EagerEnd(image, opened["eager"], T, n)
                    /\ \E k \in 0..n : T[k] = At(index, next_chunk_id)
    BY <1>1, <1>3 DEF TwoOpens, LazyAt
  <2>2. PICK k \in 0..n : T[k] = At(index, next_chunk_id)
    BY <2>1
  <2>3. Trace(image, T, n) /\ T[n].pc = "finish" /\ n \in Nat
    BY <2>1 DEF EagerEnd, Trace
  <2>4. k \in 0..n - 1
    <3>1. T[k].pc = pc
      BY <2>2, AtFields
    <3>2. k # n
      BY <1>1, <2>3, <3>1
    <3> QED BY <2>3, <3>2
  <2>5. T[k + 1] = After(Reordered(image), At(index, next_chunk_id))
    BY <2>2, <2>3, <2>4 DEF Trace
  <2>6. PICK ix, nx, ix2, nx2 : ix = index /\ nx = next_chunk_id /\ ix2 = index' /\ nx2 = next_chunk_id'
    OBVIOUS
  <2>7. IF OnTable THEN /\ ix2 = Append(ix, [SectionMeta(Current) EXCEPT !.first_chunk_id = nx])
                        /\ nx2 = nx + Current.entry_count
        ELSE ix2 = ix /\ nx2 = nx
    <3>1. CASE LazyTable
      <4>1. OnTable
        BY <3>1 DEF LazyTable, Handle, OnTable
      <4>2. [SectionMeta(Current) EXCEPT !.first_chunk_id = nx] = SectionMeta(Current)
        BY <2>6 DEF SectionMeta
      <4> QED BY <2>6, <3>1, <4>1, <4>2 DEF LazyTable
    <3>2. CASE WalkTruncated \/ WalkDescriptor
      BY <2>6, <3>2 DEF WalkTruncated, WalkDescriptor, Goto, OnTable, result
    <3>3. CASE NextSegment
      BY <2>6, <3>3, NextSegmentMatches DEF NextSegment, result
    <3>4. CASE Plain
      BY <2>6, <3>4 DEF Plain, HashSection, DigestSection, HeaderSection, Error2Section, OtherSection,
         Handle, OnTable, IsTable, TableType, IsHeader, result
    <3>5. CASE VolumeSection
      BY <2>6, <3>5 DEF VolumeSection, Handle, OnTable, IsTable, TableType, IsVolume
    <3>6. ~EagerTable
      BY DEF EagerTable
    <3> QED BY <3>1, <3>2, <3>3, <3>4, <3>5, <3>6 DEF Going
  <2>8. T[k + 1] = AtNext(index', next_chunk_id')
    BY <2>5, <2>6, <2>7, GoingMatches
  <2>9. At(index, next_chunk_id)' = AtNext(index', next_chunk_id')
    BY DEF At, AtNext
  <2>10. k + 1 \in 0..n
    BY <2>3, <2>4
  <2>11. EagerEnd(image, opened["eager"], T, n)'
    BY <1>1, <2>1, EndStays
  <2> QED BY <1>1, <2>8, <2>9, <2>10, <2>11 DEF LazyAt
<1> QED BY <1>1, <1>2, <1>3 DEF TwoOpens, Unreturned

LEMMA OrderSegmentsTwo == ASSUME Inv, TwoOpens, OrderSegments PROVE TwoOpens'
<1>1. /\ pc = "headers" /\ pc' = "walk" /\ ~Rejected(image)
      /\ UNCHANGED <<image, mode, seg, off, descs, pos, result, opened>>
  BY DEF OrderSegments, Goto
<1>2. Fresh /\ UNCHANGED <<chunk_size, total_size, chunks, index, next_chunk_id, hashes, metadata, errors>>
  BY <1>1 DEF TwoOpens, result
<1>3. AtNext(<<>>, 0) = Start
  BY <1>1, <1>2 DEF Fresh, AtNext, Start
<1>4. CASE mode = "eager"
  <2> DEFINE T == [i \in 0..0 |-> Start]
  <2>1. T[0] = Start
    OBVIOUS
  <2> HIDE DEF T
  <2>2. Trace(image, T, 0)'
    BY <2>1 DEF Trace
  <2>3. At(<<>>, 0)' = AtNext(<<>>, 0)
    BY DEF At, AtNext
  <2>4. Tables(<<>>, 0)'
    BY <1>2 DEF Tables, Holds, TableSeen, Fresh
  <2>5. EagerAt'
    BY <1>3, <2>1, <2>2, <2>3, <2>4 DEF EagerAt
  <2> QED BY <1>1, <1>4, <2>5 DEF TwoOpens, Unreturned
<1>5. CASE mode = "lazy"
  <2>1. ASSUME opened["eager"].ok PROVE LazyAt'
    <3>1. PICK T, n : EagerEnd(image, opened["eager"], T, n)
      BY <2>1 DEF TwoOpens, LazyAt
    <3>2. T[0] = Start /\ n \in Nat
      BY <3>1 DEF EagerEnd, Trace
    <3>3. At(index, next_chunk_id)' = AtNext(index', next_chunk_id')
      BY DEF At, AtNext
    <3>4. index' = <<>> /\ next_chunk_id' = 0
      BY <1>2 DEF Fresh
    <3>5. 0 \in 0..n /\ T[0] = At(index, next_chunk_id)'
      BY <1>3, <3>2, <3>3, <3>4
    <3>6. EagerEnd(image, opened["eager"], T, n)'
      BY <1>1, <3>1, EndStays
    <3> QED BY <1>1, <3>5, <3>6 DEF LazyAt
  <2> QED BY <1>1, <1>5, <2>1 DEF TwoOpens, Unreturned, Working
<1> QED BY <1>4, <1>5 DEF Inv, IInv, TypeOK, Modes

\* An eager open that fails leaves nothing to follow; a lazy one cannot fail where
\* the eager open went on.
LEMMA FailTwo ==
  ASSUME Inv, TwoOpens, RejectSources \/ SectionFails \/ MissingVolume
  PROVE  TwoOpens'
<1>1. /\ pc \in {"headers", "sections", "finish"} /\ pc' = "closed"
      /\ opened' = [opened EXCEPT ![mode] = Failed] /\ UNCHANGED <<image, mode>>
  BY DEF RejectSources, SectionFails, MissingVolume, Fail, Goto
<1>2. CASE mode = "eager"
  <2>1. /\ opened' = [m \in Modes |-> opened'[m]] /\ opened'["eager"] = Failed
        /\ opened'["lazy"] = opened["lazy"]
    BY <1>1, <1>2 DEF TwoOpens, Modes
  <2> QED BY <1>1, <1>2, <2>1 DEF TwoOpens, Failed, Working, Unreturned
<1>3. CASE mode = "lazy"
  <2>1. /\ opened' = [m \in Modes |-> opened'[m]] /\ opened'["eager"] = opened["eager"]
    BY <1>1, <1>3 DEF TwoOpens, Modes
  <2>2. ~opened["eager"].ok
    <3> SUFFICES ASSUME opened["eager"].ok PROVE FALSE
      OBVIOUS
    <3>1. PICK T, n : /\ EagerEnd(image, opened["eager"], T, n)
                      /\ Working => \E k \in 0..n : T[k] = At(index, next_chunk_id)
      BY <1>3 DEF TwoOpens, LazyAt
    <3>2. ~RejectSources
      BY <3>1 DEF EagerEnd, RejectSources
    <3>3. PICK k \in 0..n : T[k] = At(index, next_chunk_id)
      BY <3>1, <3>2 DEF SectionFails, MissingVolume, Fail, Goto, Working
    <3>4. n \in Nat /\ T[n].pc = "finish" /\ T[n].res.chunk_size # 0 /\ Trace(image, T, n)
      BY <3>1 DEF EagerEnd, Trace
    <3>5. CASE k = n
      <4>1. T[n].pc = pc /\ T[n].res.chunk_size = chunk_size
        BY <3>3, <3>5, AtFields
      <4> QED BY <3>2, <3>4, <4>1 DEF SectionFails, MissingVolume, Fail, Goto
    <3>6. CASE k # n
      <4>1. k \in 0..n - 1
        BY <3>4, <3>6
      <4>2. GoesOn(At(index, next_chunk_id))
        BY <3>3, <3>4, <4>1 DEF Trace
      <4>3. pc \in {"walk", "sections"}
        BY <4>2, AtFields DEF GoesOn
      <4>4. SectionFails
        BY <3>2, <4>3 DEF MissingVolume, Fail, Goto
      <4>5. pc = "sections" /\ pos <= Len(descs) /\ HandlerFails
        BY <4>4 DEF SectionFails, Fail, Goto
      <4>6. StuckAt(At(index, next_chunk_id))
        BY <4>5, StuckView
      <4> QED BY <4>2, <4>5, <4>6, AtFields DEF GoesOn
    <3> QED BY <3>5, <3>6
  <2> QED BY <1>1, <1>3, <2>1, <2>2 DEF TwoOpens, Working
<1> QED BY <1>2, <1>3 DEF Inv, IInv, TypeOK, Modes

LEMMA FinishTwo == ASSUME Inv, TwoOpens, Finish PROVE TwoOpens'
<1> DEFINE e == [ok |-> TRUE, done |-> TRUE, len |-> TableLen, chunk_size |-> chunk_size,
                 total_size |-> MediaSize(total_size, TableLen), chunks |-> chunks,
                 index |-> index, hashes |-> hashes, metadata |-> metadata, errors |-> errors]
<1>1. /\ pc = "finish" /\ pc' = "closed" /\ chunk_size # 0
      /\ opened' = [opened EXCEPT ![mode] = e] /\ UNCHANGED <<image, mode, position, result>>
  BY DEF Finish, Goto
<1>2. MediaSize(total_size, TableLen) = MediaOf(image, chunk_size, total_size, TableLen)
  BY DEF MediaSize, MediaOf
<1>3. ~Rejected(image)
  BY <1>1 DEF Inv, IInv
<1>4. CASE mode = "eager"
  <2>1. /\ opened' = [m \in Modes |-> opened'[m]] /\ opened'["eager"] = e
        /\ opened'["lazy"] = opened["lazy"]
    BY <1>1, <1>4 DEF TwoOpens, Modes
  <2>2. TableLen = Len(chunks)
    BY <1>4 DEF TableLen
  <2>3. PICK T, n, ix, nx : Trace(image, T, n) /\ T[n] = At(ix, nx) /\ Tables(ix, nx)
    BY <1>1, <1>4 DEF TwoOpens, EagerAt, Working
  <2>4. /\ T[n].pc = "finish" /\ T[n].res.chunk_size = chunk_size /\ T[n].res.total_size = total_size
        /\ T[n].res.index = ix /\ T[n].res.next = nx /\ T[n].res.hashes = hashes
        /\ T[n].res.metadata = metadata /\ T[n].res.errors = errors
    BY <1>1, <2>3, AtFields
  <2>5. EagerEnd(image, e, T, n)
    BY <1>1, <1>2, <1>3, <2>2, <2>3, <2>4 DEF EagerEnd, Tables
  <2>6. EagerEnd(image, opened["eager"], T, n)'
    <3>1. EagerEnd(image', opened'["eager"], T, n)
      BY <1>1, <2>1, <2>5
    <3> QED BY <3>1 DEF EagerEnd
  <2>7. LazyAt'
    BY <1>1, <1>4, <2>6 DEF LazyAt
  <2> QED BY <1>1, <1>4, <2>1, <2>7 DEF TwoOpens, Unreturned, Working
<1>5. CASE mode = "lazy"
  <2>1. /\ opened' = [m \in Modes |-> opened'[m]] /\ opened'["lazy"] = e
        /\ opened'["eager"] = opened["eager"]
    BY <1>1, <1>5 DEF TwoOpens, Modes
  <2>2. ASSUME opened["eager"].ok PROVE LazyAt'
    <3>1. PICK T, n : /\ EagerEnd(image, opened["eager"], T, n)
                      /\ \E k \in 0..n : T[k] = At(index, next_chunk_id)
      BY <1>1, <1>5, <2>2 DEF TwoOpens, LazyAt, Working
    <3>2. PICK k \in 0..n : T[k] = At(index, next_chunk_id)
      BY <3>1
    <3>3. k = n
      <4> SUFFICES ASSUME k # n PROVE FALSE
        OBVIOUS
      <4>1. n \in Nat /\ Trace(image, T, n)
        BY <3>1 DEF EagerEnd, Trace
      <4>2. GoesOn(T[k])
        BY <4>1 DEF Trace
      <4> QED BY <1>1, <3>2, <4>2, AtFields DEF GoesOn
    <3>4. /\ T[n].res.chunk_size = chunk_size /\ T[n].res.total_size = total_size
          /\ T[n].res.index = index /\ T[n].res.next = next_chunk_id /\ T[n].res.hashes = hashes
          /\ T[n].res.metadata = metadata /\ T[n].res.errors = errors
      BY <3>2, <3>3, AtFields
    <3>5. TableLen = LazyLen(index) /\ next_chunk_id = LazyLen(index)
      BY <1>5 DEF TableLen, Inv, IInv, IndexConsecutive
    <3>6. LazyEnd(image, e, T, n) /\ e.index = index
      BY <1>2, <3>4, <3>5 DEF LazyEnd
    <3>7. LazyEnd(image, opened["lazy"], T, n)' /\ opened'["lazy"].index = index'
      <4>1. LazyEnd(image', opened'["lazy"], T, n) /\ index' = index
        BY <1>1, <2>1, <3>6 DEF result
      <4> QED BY <2>1, <3>6, <4>1 DEF LazyEnd
    <3>8. EagerEnd(image, opened["eager"], T, n)'
      <4>1. EagerEnd(image', opened'["eager"], T, n)
        BY <1>1, <2>1, <3>1
      <4> QED BY <4>1 DEF EagerEnd
    <3> QED BY <1>1, <3>7, <3>8 DEF LazyAt, Working
  <2> QED BY <1>1, <1>5, <2>1, <2>2 DEF TwoOpens, Working
<1> QED BY <1>4, <1>5 DEF Inv, IInv, TypeOK, Modes

LEMMA OpenLazyTwo == ASSUME Inv, TwoOpens, OpenLazy PROVE TwoOpens'
<1>1. /\ pc = "closed" /\ pc' = "headers" /\ mode = "eager" /\ mode' = "lazy" /\ UNCHANGED <<image, opened>>
  BY DEF OpenLazy, Goto
<1>2. Fresh'
  BY DEF OpenLazy, Fresh
<1>3. ASSUME opened["eager"].ok PROVE LazyAt'
  <2>1. PICK T, n : EagerEnd(image, opened["eager"], T, n)
    BY <1>3 DEF TwoOpens, LazyAt
  <2>2. EagerEnd(image, opened["eager"], T, n)'
    BY <1>1, <2>1, EndStays
  <2> QED BY <1>1, <2>2 DEF LazyAt, Working
<1> QED BY <1>1, <1>2, <1>3 DEF TwoOpens, Working, Unreturned

LEMMA StutterTwo == ASSUME Inv, TwoOpens, UNCHANGED vars PROVE TwoOpens'
<1>1. UNCHANGED <<image, mode, pc, ordered, seg, off, descs, pos, chunk_size, total_size, chunks, index,
                  next_chunk_id, hashes, metadata, errors, opened>>
  BY DEF vars, position, result
<1>2. EagerAt => EagerAt'
  <2> SUFFICES ASSUME NEW T, NEW n, NEW ix, NEW nx,
                      Trace(image, T, n) /\ T[n] = At(ix, nx) /\ Tables(ix, nx)
               PROVE  EagerAt'
    BY DEF EagerAt
  <2>1. Trace(image, T, n)' /\ At(ix, nx)' = At(ix, nx)
    BY <1>1, EndStays DEF At
  <2>2. Tables(ix, nx)'
    BY <1>1 DEF Tables, TableSeen, Regular, SectionsOf
  <2> QED BY <2>1, <2>2 DEF EagerAt
<1>3. LazyAt => LazyAt'
  <2> SUFFICES ASSUME NEW T, NEW n,
          /\ EagerEnd(image, opened["eager"], T, n)
          /\ mode = "lazy" /\ Working => \E k \in 0..n : T[k] = At(index, next_chunk_id)
          /\ mode = "lazy" /\ pc = "closed" =>
               LazyEnd(image, opened["lazy"], T, n) /\ opened["lazy"].index = index
               PROVE  LazyAt'
    BY DEF LazyAt
  <2>1. EagerEnd(image, opened["eager"], T, n)'
    BY <1>1, EndStays
  <2>2. LazyEnd(image, opened["lazy"], T, n)' <=> LazyEnd(image, opened["lazy"], T, n)
    BY <1>1, EndStays
  <2>3. At(index, next_chunk_id)' = At(index, next_chunk_id) /\ (Working' <=> Working)
    BY <1>1 DEF At, Working
  <2> QED BY <1>1, <2>1, <2>2, <2>3 DEF LazyAt
<1>4. (Fresh <=> Fresh') /\ (Working <=> Working')
  BY <1>1 DEF Fresh, Working
<1> QED BY <1>1, <1>2, <1>3, <1>4 DEF TwoOpens, Unreturned

LEMMA TwoStep == ASSUME Inv, TwoOpens, [Next]_vars PROVE TwoOpens'
<1>1. CASE RejectSources \/ SectionFails \/ MissingVolume
  BY <1>1, FailTwo
<1>2. CASE OrderSegments \/ Finish \/ OpenLazy
  BY <1>2, OrderSegmentsTwo, FinishTwo, OpenLazyTwo
<1>3. CASE Going
  BY <1>3, EagerGoes, LazyGoes DEF Inv, IInv, TypeOK, Modes
<1>4. CASE UNCHANGED vars
  BY <1>4, StutterTwo
<1> QED BY <1>1, <1>2, <1>3, <1>4 DEF Next, Going, Plain

LEMMA TwoOpensAlways == SafetySpec => [](Inv /\ TwoOpens)
<1>1. Init => Inv /\ TwoOpens
  BY InitInv, TwoInit
<1>2. Inv /\ TwoOpens /\ [Next]_vars => (Inv /\ TwoOpens)'
  BY StepInv, TwoStep
<1> QED BY <1>1, <1>2, PTL DEF SafetySpec

\* What opens with the eager table opens with the lazy one, and to the same image.
THEOREM LazyOpens == SafetySpec => []LazyOpensToo
<1>1. Inv /\ TwoOpens => LazyOpensToo
  <2> SUFFICES ASSUME Inv, TwoOpens, opened["lazy"].done, opened["eager"].ok
               PROVE  /\ opened["lazy"].ok
                      /\ \A f \in {"chunk_size", "hashes", "metadata", "errors"} :
                           opened["lazy"][f] = opened["eager"][f]
    BY DEF LazyOpensToo
  <2>1. mode = "lazy" /\ pc = "closed"
    BY DEF TwoOpens, Unreturned, Inv, IInv, TypeOK, Modes
  <2>2. PICK T, n : EagerEnd(image, opened["eager"], T, n) /\ LazyEnd(image, opened["lazy"], T, n)
    BY <2>1 DEF TwoOpens, LazyAt
  <2> QED BY <2>2 DEF EagerEnd, LazyEnd
<1> QED BY <1>1, TwoOpensAlways, PTL

\* section_for finds the section that holds a chunk id of the table, whatever
\* sections without entries lie around it.
LEMMA SectionFound ==
  ASSUME NEW ix \in Seq(Meta), NEW id \in Nat, id < LazyLen(ix),
         ix # <<>> => ix[1].first_chunk_id = 0,
         \A i \in DOMAIN ix : i + 1 \in DOMAIN ix =>
           ix[i + 1].first_chunk_id = ix[i].first_chunk_id + ix[i].entry_count,
         \A i, j \in DOMAIN ix : i <= j => ix[i].first_chunk_id <= ix[j].first_chunk_id
  PROVE  /\ SectionFor(ix, id) \in DOMAIN ix
         /\ ix[SectionFor(ix, id)].first_chunk_id <= id
         /\ id < ix[SectionFor(ix, id)].first_chunk_id + ix[SectionFor(ix, id)].entry_count
<1> DEFINE n == Len(ix)
           S == {p \in DOMAIN ix : ix[p].first_chunk_id <= id}
           k == Cardinality(S)
<1>1. n \in Nat /\ DOMAIN ix = 1..n
  OBVIOUS
<1>2. \A i \in 1..n : ix[i].first_chunk_id \in Nat /\ ix[i].entry_count \in Nat
  <2>1. \A i \in 1..n : ix[i] \in Meta
    BY <1>1
  <2> QED BY <2>1 DEF Meta
<1>3. ix # <<>> /\ n > 0
  BY DEF LazyLen
<1>4. id < ix[n].first_chunk_id + ix[n].entry_count
  BY <1>3 DEF LazyLen
<1>5. 1 \in S
  BY <1>1, <1>3
<1>6. ASSUME NEW m \in Nat PROVE IsFiniteSet(1..m) /\ Cardinality(1..m) = m
  <2>1. 1 \in Int /\ m \in Int
    OBVIOUS
  <2>2. IsFiniteSet(1..m) /\ Cardinality(1..m) = IF 1 > m THEN 0 ELSE m - 1 + 1
    BY <2>1, FS_Interval
  <2> QED BY <2>2
<1>7. \E j \in 1..n : S = 1..j
  <2> DEFINE Out == {p \in 1..n : id < ix[p].first_chunk_id}
  <2>1. CASE Out = {}
    <3>1. S = 1..n
      BY <1>1, <1>2, <2>1
    <3> QED BY <1>1, <1>3, <3>1
  <2>2. CASE Out # {}
    <3>1. PICK l \in Out : \A q \in Out : l <= q
      <4>1. Out \subseteq Nat
        OBVIOUS
      <4> HIDE DEF Out
      <4> QED BY <2>2, <4>1, Least
    <3>2. l \in 1..n /\ l # 1 /\ id < ix[l].first_chunk_id
      BY <1>2, <1>3, <3>1
    <3>3. ASSUME NEW p \in 1..n PROVE ix[p].first_chunk_id <= id <=> p < l
      <4>1. l <= p => ix[l].first_chunk_id <= ix[p].first_chunk_id
        BY <1>1, <3>2
      <4>2. p \in Out <=> ~(ix[p].first_chunk_id <= id)
        BY <1>2
      <4>3. ix[l].first_chunk_id \in Nat /\ ix[p].first_chunk_id \in Nat
        BY <1>2, <3>2
      <4> HIDE DEF Out
      <4> QED BY <1>1, <3>1, <3>2, <4>1, <4>2, <4>3
    <3>4. S = 1..l - 1
      BY <1>1, <3>2, <3>3
    <3> QED BY <3>2, <3>4
  <2> QED BY <2>1, <2>2
<1>8. PICK j \in 1..n : S = 1..j
  BY <1>7
<1>9. k = j
  <2> HIDE DEF S
  <2>1. j \in Nat /\ Cardinality(1..j) = j
    BY <1>1, <1>6, <1>8
  <2> QED BY <1>8, <2>1
<1>10. j \in S
  BY <1>8
<1>11. id < ix[j].first_chunk_id + ix[j].entry_count
  <2>1. CASE j = n
    BY <1>4, <2>1
  <2>2. CASE j # n
    <3>1. j + 1 \in 1..n /\ j + 1 \notin S
      <4> HIDE DEF S, n
      <4> QED BY <1>1, <1>8, <2>2
    <3>2. ~(ix[j + 1].first_chunk_id <= id)
      BY <1>1, <3>1
    <3>3. ix[j + 1].first_chunk_id = ix[j].first_chunk_id + ix[j].entry_count
      BY <1>1, <1>8, <3>1
    <3>4. ix[j + 1].first_chunk_id \in Nat
      BY <1>2, <3>1
    <3> QED BY <3>2, <3>3, <3>4
  <2> QED BY <2>1, <2>2
<1>12. SectionFor(ix, id) = j
  <2> HIDE DEF S
  <2>1. Cardinality({p \in DOMAIN ix : ix[p].first_chunk_id <= id}) = j
    BY <1>9 DEF S
  <2> QED BY <1>8, <1>11, <2>1 DEF SectionFor
<1> QED BY <1>1, <1>8, <1>10, <1>11, <1>12

\* On a regular image the two tables have the same number of chunks and answer
\* every chunk id alike.
THEOREM TablesSame == SafetySpec => []TablesAgree
<1>1. Inv /\ TwoOpens => TablesAgree
  <2> SUFFICES ASSUME Inv, TwoOpens, BothOpen, Regular(image) PROVE SameTables
    BY DEF TablesAgree
  <2> DEFINE e == opened["eager"]
             l == opened["lazy"]
  <2>1. mode = "lazy" /\ pc = "closed" /\ e.ok
    BY DEF BothOpen, TwoOpens, Unreturned, Inv, IInv, TypeOK, Modes
  <2>2. PICK T, n : EagerEnd(image, e, T, n) /\ LazyEnd(image, l, T, n) /\ l.index = index
    BY <2>1 DEF TwoOpens, LazyAt
  <2> DEFINE r == T[n].res
  <2>3. /\ Holds(e.chunks, index, r.next, l.chunk_size) /\ e.len = Len(e.chunks)
        /\ l.len = LazyLen(index) /\ l.len = r.next
        /\ e.total_size = MediaOf(image, r.chunk_size, r.total_size, e.len)
        /\ l.total_size = MediaOf(image, r.chunk_size, r.total_size, l.len)
    BY <2>2 DEF EagerEnd, LazyEnd
  <2> HIDE DEF e, l, r
  <2>4. r.next \in Nat /\ e.len = r.next
    BY <2>3 DEF Holds
  <2>5. l.len = e.len /\ l.total_size = e.total_size
    BY <2>3, <2>4
  <2>6. ASSUME NEW id \in 0..e.len - 1 PROVE LazyLookup(l, id) = e.chunks[id + 1]
    <3>1. index \in Seq(Meta) /\ IndexConsecutive
      BY DEF Inv, IInv, TypeOK, Meta
    <3>2. id \in Nat /\ id < LazyLen(index)
      BY <2>3, <2>4, <2>5
    <3> DEFINE p == SectionFor(index, id)
    <3>3. p \in DOMAIN index /\ index[p].first_chunk_id <= id
          /\ id < index[p].first_chunk_id + index[p].entry_count
      BY <3>1, <3>2, SectionFound DEF IndexConsecutive
    <3> DEFINE m == index[p]
               parsed == ParsedMeta(m, l.chunk_size)
               local == id - m.first_chunk_id + 1
    <3>4. LazyLookup(l, id) = IF local \in DOMAIN parsed THEN parsed[local] ELSE "panic"
      BY <2>2 DEF LazyLookup, ParsedMeta
    <3>5. m.first_chunk_id \in Nat /\ m.entry_count \in Nat
      <4>1. m \in Meta
        BY <3>1, <3>3
      <4> QED BY <4>1 DEF Meta
    <3>6. /\ parsed \in Seq(Chunk) /\ Len(parsed) = m.entry_count
          /\ \A j \in 1..m.entry_count : e.chunks[m.first_chunk_id + j] = parsed[j]
      BY <2>3, <3>3 DEF Holds
    <3> HIDE DEF parsed, m, p
    <3>7. local \in 1..m.entry_count /\ m.first_chunk_id + local = id + 1
      BY <3>2, <3>3, <3>5 DEF m
    <3>8. DOMAIN parsed = 1..m.entry_count
      BY <3>5, <3>6
    <3> QED BY <3>4, <3>6, <3>7, <3>8
  <2> QED BY <2>5, <2>6 DEF SameTables, e, l
<1> QED BY <1>1, TwoOpensAlways, PTL
=============================================================================
