--------------------------- MODULE RecoverProofs ---------------------------
(***************************************************************************)
(* Recover's accounting for every damaged image.                           *)
(***************************************************************************)
EXTENDS Recover, WellFoundedInduction, TLAPS

\* A set of offsets or positions that is not empty has a least member: `find` and
\* `position` in the sources yield the first match.
LEMMA Least ==
  ASSUME NEW T, T \subseteq Nat, T # {}
  PROVE  \E i \in T : \A j \in T : i <= j
<1> DEFINE R == OpToRel(<, Nat)
<1>1. \E x \in T : \A y \in T : ~(<<y, x>> \in R)
  <2>1. IsWellFoundedOn(R, Nat)
    BY NatLessThanWellFounded
  <2> HIDE DEF R
  <2> QED BY <2>1, WFMin
<1>2. ASSUME NEW x \in Nat, NEW y \in Nat, y < x PROVE <<y, x>> \in R
  BY <1>2 DEF OpToRel
<1> HIDE DEF R
<1>3. PICK x \in T : \A y \in T : ~(<<y, x>> \in R)
  BY <1>1
<1>4. ASSUME NEW y \in T PROVE x <= y
  <2>1. ~(y < x)
    BY <1>2, <1>3
  <2> QED BY <2>1
<1> QED BY <1>4

\* Writing to the end of an output adds its length.
LEMMA AppendedLen ==
  ASSUME NEW S, NEW p \in Seq(S), NEW q \in Seq(S)
  PROVE  p \o q \in Seq(S) /\ Len(p \o q) = Len(p) + Len(q)
OBVIOUS

Found == [offset : Nat, sec : Section]

\* FirstOf yields a section of the segment.
LEMMA FirstOfType ==
  ASSUME sections \in Seq(Seq(Found)), NEW s \in DOMAIN sections, NEW types,
         Having(s, types) # {}
  PROVE  FirstOf(s, types) \in Found
<1> DEFINE H == Having(s, types)
<1>1. sections[s] \in Seq(Found)
  OBVIOUS
<1>2. H \subseteq DOMAIN sections[s] /\ H \subseteq Nat
  BY <1>1 DEF Having
<1> DEFINE i == CHOOSE i \in H : \A j \in H : i <= j
<1>3. i \in H
  <2> HIDE DEF H
  <2>1. H # {}
    BY DEF H
  <2>2. \E k \in H : \A j \in H : k <= j
    BY <1>2, <2>1, Least
  <2> QED BY <2>2
<1>4. i \in DOMAIN sections[s]
  BY <1>2, <1>3
<1>5. FirstOf(s, types) = sections[s][i]
  BY DEF FirstOf
<1> HIDE DEF i
<1> QED BY <1>1, <1>4, <1>5

LEMMA SatTypes ==
  ASSUME NEW a \in Nat, NEW b \in Nat
  PROVE  /\ SatAdd(a, b) \in Nat /\ SmallerOf(a, b) \in Nat
         /\ SmallerOf(a, b) <= a /\ SmallerOf(a, b) <= b
         /\ U64Max \in Nat
BY WidthAssumption DEF SatAdd, SmallerOf, U64Max

LEMMA SizedType ==
  ASSUME NEW b \in Seq(Byte), NEW n \in Nat
  PROVE  Sized(b, n) \in Seq(Byte) /\ Len(Sized(b, n)) = n
<1>1. Sized(b, n) \in [1..n -> Byte]
  BY RecoverAssumption DEF Sized
<1> QED BY <1>1

\* A copy's bytes are bytes, wherever the table entry points.
LEMMA CopyType ==
  ASSUME image \in Images, geom.chunk_size \in Nat, NEW s \in DOMAIN image,
         tables[s].sectors_end \in Nat, NEW t \in TableRefs, NEW i
  PROVE  Copy(s, t, i).bytes \in Seq(Byte)
<1>1. CASE ~t.found \/ ~InRange(s, t, i)
  BY <1>1 DEF Copy, NoCopy
<1>2. CASE t.found /\ InRange(s, t, i)
  <2> DEFINE a == EntryAt(t, i)
             b == RangeEnd(s, t, i)
             raw == SubSeq(image[s].bytes, a + 1, b)
  <2>1. image[s].bytes \in Seq(Byte)
    BY RecoverAssumption
  <2>2. t.base_offset \in Nat /\ t.entries \in Seq(TableEntry)
    BY DEF TableRefs
  <2>3. ASSUME NEW j, EntryAt(t, j) # None PROVE EntryAt(t, j) \in Nat
    <3>1. j + 1 \in DOMAIN t.entries /\ EntryAt(t, j) = SatAdd(t.base_offset, t.entries[j + 1].off)
      BY <2>3 DEF EntryAt
    <3>2. t.entries[j + 1] \in TableEntry
      BY <3>1, <2>2
    <3>3. t.entries[j + 1].off \in Nat
      BY <3>2 DEF TableEntry
    <3> QED BY <3>1, <3>3, <2>2, SatTypes
  <2>4. a \in Nat
    BY <1>2, <2>3 DEF InRange
  <2>5. b \in Nat /\ b <= Len(image[s].bytes)
    BY <1>2, <2>3 DEF InRange, RangeEnd, DataLen
  <2>6. a < b
    BY <1>2 DEF InRange
  <2> HIDE DEF a, b
  <2>7. a \in 0..Len(image[s].bytes) /\ b \in 0..Len(image[s].bytes)
    BY <2>1, <2>4, <2>5, <2>6
  <2>8. raw \in Seq(Byte) /\ Inflate(raw).bytes \in Seq(Byte)
    BY <2>1, <2>4, <2>5, <2>6, <2>7, RecoverAssumption
  <2> HIDE DEF raw
  <2>9. ASSUME NEW x \in Seq(Byte) PROVE Prefix(x, ChunkSize) \in Seq(Byte)
    BY DEF Prefix, SmallerOf, ChunkSize
  <2>10. DecodeChunk(raw, t.entries[i + 1].comp).bytes \in Seq(Byte)
    BY <2>8, <2>9 DEF DecodeChunk, NoCopy
  <2> QED BY <1>2, <2>10 DEF Copy, a, b, raw
<1> QED BY <1>1, <1>2

LEMMA ChosenType ==
  ASSUME TypeOK, Writing, image \in Images, NEW i
  PROVE  Chosen(i).copy.bytes \in Seq(Byte)
<1> DEFINE s == CHOOSE s \in Holding(i) : TRUE
           local == i - ChunksThrough[s - 1]
           primary == Copy(s, tables[s].table, local)
           table2 == Copy(s, tables[s].table2, local)
<1>1. CASE Holding(i) = {}
  <2>1. Chosen(i) = [copy |-> NoCopy, table2 |-> FALSE]
    BY <1>1, Zenon DEF Chosen
  <2>2. NoCopy.bytes \in Seq(Byte)
    BY DEF NoCopy
  <2> QED BY <2>1, <2>2
<1>2. CASE Holding(i) # {}
  <2>1. s \in DOMAIN image
    BY <1>2 DEF Holding
  <2> HIDE DEF s
  <2>2. tables[s] \in [table : TableRefs, table2 : TableRefs, sectors_end : Nat, count : Nat]
    BY <2>1 DEF TypeOK
  <2>3. geom.chunk_size \in Nat
    BY DEF TypeOK
  <2> HIDE DEF local
  <2>4. primary.bytes \in Seq(Byte) /\ table2.bytes \in Seq(Byte)
    BY <2>1, <2>2, <2>3, CopyType
  <2> HIDE DEF primary, table2
  <2>5. Chosen(i) = IF ~primary.clean /\ (table2.clean \/ ~primary.found)
                    THEN [copy |-> table2, table2 |-> TRUE]
                    ELSE [copy |-> primary, table2 |-> FALSE]
    BY <1>2 DEF Chosen, primary, table2, local, s
  <2> QED BY <2>4, <2>5
<1> QED BY <1>1, <1>2

----------------------------------------------------------------------------
(* The invariant, action by action.                                        *)

Inv == IInv /\ image \in Images

\* What the walk adds to `sections`.
LEMMA SectionsGrow ==
  ASSUME sections \in Seq(Seq(Found)), NEW k \in Nat \ {0},
         Len(sections) \in {k - 1, k}, NEW f \in Seq(Found)
  PROVE  LET S == [s \in 1..k |-> IF s = k THEN f ELSE sections[s]]
         IN  S \in Seq(Seq(Found)) /\ Len(S) = k
<1> DEFINE S == [s \in 1..k |-> IF s = k THEN f ELSE sections[s]]
<1>1. ASSUME NEW s \in 1..k PROVE (IF s = k THEN f ELSE sections[s]) \in Seq(Found)
  <2>1. CASE s = k
    BY <2>1
  <2>2. CASE s # k
    <3>1. s \in 1..Len(sections)
      BY <2>2
    <3> QED BY <2>2, <3>1
  <2> QED BY <2>1, <2>2
<1>2. S \in [1..k -> Seq(Found)]
  BY <1>1
<1>3. S \in Seq(Seq(Found)) /\ Len(S) = k
  <2> HIDE DEF S
  <2> QED BY <1>2
<1> QED BY <1>3

\* The counters and the output stay put.
LEMMA SameCounts ==
  ASSUME IInv, UNCHANGED <<geom, remaining, out, idx, counts>>,
         Writing' => Writing
  PROVE  BytesAccounted' /\ ChunksAccounted'
<1>1. BytesAccounted'
  BY DEF IInv, BytesAccounted, counts
<1>2. ChunksAccounted'
  BY DEF IInv, ChunksAccounted, counts
<1> QED BY <1>1, <1>2

LEMMA InitInv == Init => Inv
<1> SUFFICES ASSUME Init PROVE Inv
  OBVIOUS
<1> USE RecoverAssumption
<1>1. TypeOK
  BY DEF Init, TypeOK, Writing, None
<1>2. BytesAccounted
  BY DEF Init, BytesAccounted, Writing
<1>3. ChunksAccounted
  BY DEF Init, ChunksAccounted
<1>4. seg = 1 /\ Len(sections) = 0 /\ pc = "walk" /\ out = <<>> /\ image \in Images
  BY DEF Init
<1> QED BY <1>1, <1>2, <1>3, <1>4 DEF Inv, IInv

LEMMA FailInv ==
  ASSUME Inv, NEW from, Fail(from)
  PROVE  Inv'
<1>1. pc' = "failed" /\ UNCHANGED <<image, walk, geom, tables, idx, remaining, out, counts>>
  BY DEF Fail
<1>2. ~Writing'
  BY <1>1 DEF Writing
<1>3. TypeOK'
  BY <1>1, <1>2 DEF Inv, IInv, TypeOK, walk, counts
<1>4. BytesAccounted' /\ ChunksAccounted'
  BY <1>1, <1>2, SameCounts DEF Inv
<1> QED BY <1>1, <1>3, <1>4 DEF Inv, IInv, walk, Unrecognised, DataLen

LEMMA InSegment ==
  ASSUME Inv, pc = "walk", ~Unrecognised
  PROVE  /\ image # <<>> /\ Len(image) \in Nat \ {0} /\ DOMAIN image = 1..Len(image)
         /\ seg \in 1..Len(image)
         /\ DataLen(seg) \in Nat
<1>1. image \in Images /\ image # <<>> /\ seg \in Nat \ {0}
  BY DEF Inv, IInv, TypeOK, Unrecognised
<1>2. Len(image) \in Nat /\ image = [s \in 1..Len(image) |-> image[s]]
  BY <1>1, RecoverAssumption
<1>3. DOMAIN image = 1..Len(image)
  BY <1>2
<1>4. Len(image) # 0
  <2> SUFFICES ASSUME Len(image) = 0 PROVE FALSE
    OBVIOUS
  <2>1. image = [s \in {} |-> image[s]]
    BY <1>2
  <2> QED BY <1>1, <2>1
<1>5. seg \in 1..Len(image)
  BY <1>1, <1>2, <1>4 DEF Inv, IInv
<1>6. image[seg].bytes \in Seq(Byte)
  BY <1>1, <1>3, <1>5, RecoverAssumption
<1> QED BY <1>1, <1>2, <1>3, <1>4, <1>5, <1>6 DEF DataLen

LEMMA WalkedType ==
  ASSUME Inv, pc = "walk", ~Unrecognised
  PROVE  Walked \in Seq(Found)
<1>1. sections \in Seq(Seq(Found))
  BY DEF Inv, IInv, TypeOK, Found
<1> QED BY <1>1 DEF Walked

LEMMA EndWalkInv ==
  ASSUME Inv, pc = "walk", ~Unrecognised,
         NEW found \in Seq(Found), NEW at \in Nat \union {None}, EndWalk(found, at),
         UNCHANGED <<image, geom, tables, idx, remaining, out, counts>>
  PROVE  Inv'
<1>1. sections \in Seq(Seq(Found)) /\ seg \in Nat \ {0} /\ Len(sections) \in {seg - 1, seg}
  BY DEF Inv, IInv, TypeOK, Found
<1>2. sections' \in Seq(Seq(Found)) /\ Len(sections') = seg
  BY <1>1, SectionsGrow DEF EndWalk
<1>3. pc' \in {"geometry", "walk"} /\ ~Writing' /\ seg' = seg + 1
  BY DEF EndWalk, Writing
<1>4. TypeOK'
  <2>1. truncation' \in Nat \union {None} /\ pos' \in Nat
    BY RecoverAssumption DEF Inv, IInv, TypeOK, EndWalk
  <2>2. sections' \in Seq(Seq([offset : Nat, sec : Section]))
    BY <1>2 DEF Found
  <2> QED BY <1>1, <1>3, <2>1, <2>2 DEF Inv, IInv, TypeOK, counts
<1>5. BytesAccounted' /\ ChunksAccounted'
  BY <1>3, SameCounts DEF Inv
<1>6. /\ pc' = "walk" => seg' <= Len(image')
      /\ pc' = "geometry" => image' # <<>> /\ Len(sections') = Len(image')
  <2>1. Len(image) \in Nat /\ seg \in 1..Len(image) /\ image # <<>>
    BY InSegment
  <2>2. pc' = (IF seg = Len(image) THEN "geometry" ELSE "walk") /\ image' = image
    BY DEF EndWalk
  <2> QED BY <1>2, <1>3, <2>1, <2>2
<1>7. ~Unrecognised'
  BY DEF Unrecognised, DataLen
<1>8. Len(sections') \in {seg' - 1, seg'}
  BY <1>1, <1>2, <1>3
<1>9. out' = <<>> /\ pc' # "done" /\ image' \in Images
  BY <1>3 DEF Inv, IInv
<1> QED BY <1>3, <1>4, <1>5, <1>6, <1>7, <1>8, <1>9 DEF Inv, IInv

LEMMA WalkShortInv == ASSUME Inv, WalkShort PROVE Inv'
<1>1. pc = "walk" /\ ~Unrecognised /\ EndWalk(Walked, IF pos < DataLen(seg) THEN pos ELSE None)
      /\ UNCHANGED <<image, geom, tables, idx, remaining, out, counts>>
  BY DEF WalkShort
<1>2. (IF pos < DataLen(seg) THEN pos ELSE None) \in Nat \union {None}
  BY DEF Inv, IInv, TypeOK
<1>3. Walked \in Seq(Found)
  BY <1>1, WalkedType
<1> QED BY <1>1, <1>2, <1>3, EndWalkInv

LEMMA WalkDescriptorInv == ASSUME Inv, WalkDescriptor PROVE Inv'
<1> DEFINE sec == image[seg].at[pos]
           found == Append(Walked, [offset |-> pos, sec |-> sec])
<1>1. /\ pc = "walk" /\ ~Unrecognised /\ pos + DescriptorSize <= DataLen(seg)
      /\ UNCHANGED <<image, geom, tables, idx, remaining, out, counts>>
  BY DEF WalkDescriptor
<1>2. sec \in Section
  <2>1. pos \in 0..Len(image[seg].bytes) - DescriptorSize
    <3>1. pos \in Nat
      BY DEF Inv, IInv, TypeOK
    <3>2. Len(image[seg].bytes) \in Nat
      BY <1>1, InSegment DEF DataLen
    <3>3. DescriptorSize \in Nat /\ pos + DescriptorSize <= Len(image[seg].bytes)
      BY <1>1, RecoverAssumption DEF DataLen
    <3> QED BY <3>1, <3>2, <3>3
  <2>2. seg \in DOMAIN image /\ image \in Images
    BY <1>1, InSegment DEF Inv
  <2> QED BY <2>1, <2>2, RecoverAssumption
<1>3. sec.next \in Nat
  BY <1>2 DEF Section
<1>4. found \in Seq(Found)
  <2>1. [offset |-> pos, sec |-> sec] \in Found
    BY <1>2 DEF Found, Inv, IInv, TypeOK
  <2> HIDE DEF sec
  <2> QED BY <1>1, <2>1, WalkedType
<1>5. \/ EndWalk(found, None)
      \/ EndWalk(found, sec.next)
      \/ /\ sections' = [s \in 1..seg |-> IF s = seg THEN found ELSE sections[s]]
         /\ pos' = sec.next
         /\ UNCHANGED <<seg, truncation, pc>>
  BY DEF WalkDescriptor
<1> HIDE DEF found, sec
<1>6. CASE EndWalk(found, None)
  BY <1>1, <1>4, <1>6, EndWalkInv
<1>7. CASE EndWalk(found, sec.next)
  BY <1>1, <1>3, <1>4, <1>7, EndWalkInv
<1>8. CASE /\ sections' = [s \in 1..seg |-> IF s = seg THEN found ELSE sections[s]]
           /\ pos' = sec.next
           /\ UNCHANGED <<seg, truncation, pc>>
  <2>1. sections \in Seq(Seq(Found)) /\ seg \in Nat \ {0} /\ Len(sections) \in {seg - 1, seg}
    BY DEF Inv, IInv, TypeOK, Found
  <2>2. sections' \in Seq(Seq(Found)) /\ Len(sections') = seg
    BY <2>1, <1>4, <1>8, SectionsGrow
  <2>3. ~Writing' /\ pc' = "walk"
    BY <1>1, <1>8 DEF Writing
  <2>4. TypeOK'
    BY <1>1, <1>3, <1>8, <2>2, <2>3 DEF Inv, IInv, TypeOK, Found, counts
  <2>5. BytesAccounted' /\ ChunksAccounted'
    BY <1>1, <2>3, SameCounts DEF Inv
  <2> QED BY <1>1, <1>8, <2>2, <2>3, <2>4, <2>5 DEF Inv, IInv, Unrecognised, DataLen
<1> QED BY <1>5, <1>6, <1>7, <1>8

LEMMA TableRefType ==
  ASSUME sections \in Seq(Seq(Found)), NEW s \in DOMAIN sections, NEW name
  PROVE  TableRef(s, name) \in TableRefs
<1>1. CASE Having(s, {name}) = {} \/ ~FirstOf(s, {name}).sec.whole
  <2>1. NoTable \in TableRefs
    BY DEF NoTable, TableRefs
  <2> QED BY <1>1, <2>1 DEF TableRef
<1>2. CASE Having(s, {name}) # {} /\ FirstOf(s, {name}).sec.whole
  <2>1. FirstOf(s, {name}).sec \in Section
    BY <1>2, FirstOfType DEF Found
  <2> DEFINE sec == FirstOf(s, {name}).sec
  <2>2. sec.entry_count \in Nat /\ sec.base_offset \in Nat /\ sec.entries \in Seq(TableEntry)
    BY <2>1 DEF Section
  <2>3. TableRef(s, name) = [found |-> TRUE, entry_count |-> sec.entry_count,
                             base_offset |-> sec.base_offset, entries |-> sec.entries]
    BY <1>2 DEF TableRef
  <2> HIDE DEF sec
  <2> QED BY <2>2, <2>3 DEF TableRefs
<1> QED BY <1>1, <1>2

LEMMA SectorsEndType ==
  ASSUME sections \in Seq(Seq(Found)), NEW s \in DOMAIN sections, DataLen(s) \in Nat
  PROVE  SectorsEnd(s) \in Nat
<1>1. CASE Having(s, {"sectors"}) = {}
  BY <1>1 DEF SectorsEnd
<1>2. CASE Having(s, {"sectors"}) # {}
  <2> DEFINE f == FirstOf(s, {"sectors"})
  <2>1. f.offset \in Nat /\ f.sec.size \in Nat
    BY <1>2, FirstOfType DEF Found, Section
  <2>2. SectorsEnd(s) = SmallerOf(SatAdd(f.offset, f.sec.size), DataLen(s))
    BY <1>2 DEF SectorsEnd
  <2> HIDE DEF f
  <2>3. SatAdd(f.offset, f.sec.size) \in Nat
    BY <2>1, SatTypes
  <2> QED BY <2>2, <2>3, SatTypes
<1> QED BY <1>1, <1>2

LEMMA CreateOutputInv == ASSUME Inv, CreateOutput PROVE Inv'
<1>1. /\ pc = "geometry" /\ pc' = "chunks" /\ Writing'
      /\ geom' = DeclaredGeometry /\ tables' = SegmentTables
      /\ remaining' = DeclaredGeometry.image_size
      /\ UNCHANGED <<image, walk, idx, out, counts>>
  BY DEF CreateOutput, Writing
<1>2. /\ image \in Images /\ image # <<>> /\ out = <<>>
      /\ sections \in Seq(Seq(Found)) /\ Len(sections) = Len(image)
  BY <1>1 DEF Inv, IInv, TypeOK, Found
<1>3. DOMAIN image = 1..Len(image) /\ Len(image) \in Nat \ {0}
  <2>1. Len(image) \in Nat /\ image = [s \in 1..Len(image) |-> image[s]]
    BY <1>2, RecoverAssumption
  <2>2. Len(image) # 0
    <3> SUFFICES ASSUME Len(image) = 0 PROVE FALSE
      OBVIOUS
    <3>1. image = [s \in {} |-> image[s]]
      BY <2>1
    <3> QED BY <1>2, <3>1
  <2> QED BY <2>1, <2>2
<1>4. DOMAIN sections = DOMAIN image
  BY <1>2, <1>3
<1>5. DeclaredGeometry \in [chunk_size : Nat, image_size : Nat, total_chunks : Nat]
  <2> DEFINE v == FirstOf(1, {"volume", "disk"}).sec
  <2>1. v \in Section
    <3>1. Having(1, {"volume", "disk"}) # {}
      BY DEF CreateOutput, GoodGeometry, HasGeometry
    <3>2. 1 \in DOMAIN sections
      BY <1>3, <1>4
    <3> QED BY <1>2, <3>1, <3>2, FirstOfType DEF Found
  <2>2. /\ v.sectors_per_chunk \in Nat /\ v.bytes_per_sector \in Nat
        /\ v.sector_count \in Nat /\ v.chunk_count \in Nat
    BY <2>1 DEF Section
  <2>3. DeclaredGeometry = [chunk_size   |-> SmallerOf(v.sectors_per_chunk * v.bytes_per_sector, U64Max),
                            image_size   |-> SmallerOf(v.sector_count * v.bytes_per_sector, U64Max),
                            total_chunks |-> v.chunk_count]
    BY DEF DeclaredGeometry
  <2> HIDE DEF v
  <2>4. v.sectors_per_chunk * v.bytes_per_sector \in Nat /\ v.sector_count * v.bytes_per_sector \in Nat
    BY <2>2
  <2>5. U64Max \in Nat
    BY WidthAssumption DEF U64Max
  <2>6. /\ SmallerOf(v.sectors_per_chunk * v.bytes_per_sector, U64Max) \in Nat
        /\ SmallerOf(v.sector_count * v.bytes_per_sector, U64Max) \in Nat
    BY <2>4, <2>5, SatTypes
  <2> QED BY <2>2, <2>3, <2>6
<1>6. tables' \in [DOMAIN image -> [table : TableRefs, table2 : TableRefs,
                                    sectors_end : Nat, count : Nat]]
  <2>1. ASSUME NEW s \in DOMAIN image
        PROVE  /\ TableRef(s, "table") \in TableRefs /\ TableRef(s, "table2") \in TableRefs
               /\ SectorsEnd(s) \in Nat
    <3>1. DataLen(s) \in Nat
      BY <1>2, RecoverAssumption DEF DataLen
    <3> QED BY <1>2, <1>4, <3>1, TableRefType, SectorsEndType
  <2>2. ASSUME NEW s \in DOMAIN image
        PROVE  TableRef(s, "table").entry_count \in Nat /\ TableRef(s, "table2").entry_count \in Nat
    BY <2>1 DEF TableRefs
  <2> QED BY <1>1, <2>1, <2>2 DEF SegmentTables
<1>7. TypeOK'
  BY <1>1, <1>2, <1>5, <1>6 DEF Inv, IInv, TypeOK, walk, counts
<1>8. BytesAccounted'
  BY <1>1, <1>2, <1>5 DEF Inv, IInv, BytesAccounted, counts
<1>9. ChunksAccounted'
  BY <1>1 DEF Inv, IInv, ChunksAccounted, counts
<1> QED BY <1>1, <1>7, <1>8, <1>9 DEF Inv, IInv, walk, Unrecognised, DataLen

----------------------------------------------------------------------------
(* The chunk loop.                                                         *)

LEMMA Written ==
  ASSUME IInv, Writing, NEW b \in Seq(Byte), Write(b)
  PROVE  /\ out' \in Seq(Byte) /\ Len(out') = Len(out) + Logical
         /\ remaining' \in Nat /\ Len(out') + remaining' = Len(out) + remaining
         /\ Logical \in Nat
<1>1. remaining \in Nat /\ ChunkSize \in Nat /\ out \in Seq(Byte)
  BY DEF IInv, TypeOK, ChunkSize
<1>2. Logical \in Nat /\ Logical <= remaining
  BY <1>1, SatTypes DEF Logical
<1> DEFINE w == Sized(b, Logical)
<1>3. w \in Seq(Byte) /\ Len(w) = Logical
  BY <1>2, SizedType
<1>4. out' = out \o w /\ remaining' = remaining - Logical
  BY DEF Write
<1> HIDE DEF w
<1>5. out' \in Seq(Byte) /\ Len(out') = Len(out) + Logical
  <2>1. out \o w \in Seq(Byte) /\ Len(out \o w) = Len(out) + Len(w)
    BY <1>1, <1>3, AppendedLen
  <2> QED BY <1>3, <1>4, <2>1
<1> QED BY <1>1, <1>2, <1>4, <1>5

Ascending(l, n) ==
  /\ \A i \in DOMAIN l : l[i] < n
  /\ \A i, j \in DOMAIN l : i < j => l[i] < l[j]

LEMMA AppendAscends ==
  ASSUME NEW n \in Nat, NEW l \in Seq(Nat), Ascending(l, n)
  PROVE  /\ Append(l, n) \in Seq(Nat) /\ Len(Append(l, n)) = Len(l) + 1
         /\ Ascending(Append(l, n), n + 1) /\ Ascending(l, n + 1)
         /\ \A i \in DOMAIN Append(l, n) : Append(l, n)[i] = n \/ (i \in DOMAIN l /\ Append(l, n)[i] = l[i])
BY DEF Ascending

\* ChunksAccounted, list by list.
LEMMA Accounted ==
  ChunksAccounted <=>
    /\ recovered_primary + recovered_table2 + zero_filled = idx
    /\ Len(lost_chunks) = zero_filled
    /\ Len(crc_flagged_chunks) = crc_flagged
    /\ crc_flagged <= recovered_primary + recovered_table2
    /\ Ascending(lost_chunks, idx) /\ Ascending(crc_flagged_chunks, idx)
    /\ \A i \in DOMAIN lost_chunks, j \in DOMAIN crc_flagged_chunks :
         lost_chunks[i] # crc_flagged_chunks[j]
BY DEF ChunksAccounted, Ascending

\* What a step of the loop or the tail leaves alone.
LEMMA LoopFrame ==
  ASSUME Inv, Writing, pc \in {"chunks", "tail"}, UNCHANGED <<image, pc, walk, geom, tables>>,
         NEW b \in Seq(Byte), Write(b),
         idx' \in Nat, recovered_primary' \in Nat, recovered_table2' \in Nat,
         zero_filled' \in Nat, crc_flagged' \in Nat,
         lost_chunks' \in Seq(Nat), crc_flagged_chunks' \in Seq(Nat),
         bytes_recovered' \in Nat, bytes_zero_filled' \in Nat,
         bytes_recovered' + bytes_zero_filled' = bytes_recovered + bytes_zero_filled + Logical,
         ChunksAccounted'
  PROVE  Inv'
<1>1. /\ out' \in Seq(Byte) /\ Len(out') = Len(out) + Logical
      /\ remaining' \in Nat /\ Len(out') + remaining' = Len(out) + remaining
      /\ Logical \in Nat
  BY Written DEF Inv
<1>2. Writing' = Writing
  BY DEF Writing
<1>3. TypeOK'
  BY <1>1, <1>2 DEF Inv, IInv, TypeOK, walk
<1>4. BytesAccounted'
  BY <1>1, <1>2 DEF Inv, IInv, BytesAccounted
<1> QED BY <1>3, <1>4 DEF Inv, IInv, walk, Unrecognised, DataLen

LEMMA RecoverChunkInv == ASSUME Inv, RecoverChunk PROVE Inv'
<1> DEFINE c == Chosen(idx)
<1>1. /\ Writing /\ pc = "chunks" /\ UNCHANGED <<image, pc, walk, geom, tables>>
      /\ Write(c.copy.bytes) /\ idx' = idx + 1
      /\ bytes_recovered' = bytes_recovered + Logical
      /\ recovered_primary' = recovered_primary + (IF c.table2 THEN 0 ELSE 1)
      /\ recovered_table2' = recovered_table2 + (IF c.table2 THEN 1 ELSE 0)
      /\ crc_flagged' = crc_flagged + (IF c.copy.clean THEN 0 ELSE 1)
      /\ crc_flagged_chunks' =
           (IF c.copy.clean THEN crc_flagged_chunks ELSE Append(crc_flagged_chunks, idx))
      /\ UNCHANGED <<zero_filled, bytes_zero_filled, lost_chunks>>
  BY DEF RecoverChunk, InLoop, Writing
<1>2. c.copy.bytes \in Seq(Byte)
  BY <1>1, ChosenType DEF Inv, IInv
<1> HIDE DEF c
<1>3. Logical \in Nat
  BY <1>1, <1>2, Written DEF Inv
<1>4. /\ idx \in Nat /\ recovered_primary \in Nat /\ recovered_table2 \in Nat
      /\ zero_filled \in Nat /\ crc_flagged \in Nat
      /\ bytes_recovered \in Nat /\ bytes_zero_filled \in Nat
      /\ lost_chunks \in Seq(Nat) /\ crc_flagged_chunks \in Seq(Nat)
  BY DEF Inv, IInv, TypeOK
<1>5. /\ recovered_primary + recovered_table2 + zero_filled = idx
      /\ Len(lost_chunks) = zero_filled /\ Len(crc_flagged_chunks) = crc_flagged
      /\ crc_flagged <= recovered_primary + recovered_table2
      /\ Ascending(lost_chunks, idx) /\ Ascending(crc_flagged_chunks, idx)
      /\ \A i \in DOMAIN lost_chunks, j \in DOMAIN crc_flagged_chunks :
           lost_chunks[i] # crc_flagged_chunks[j]
  BY Accounted DEF Inv, IInv
<1>6. /\ crc_flagged_chunks' \in Seq(Nat)
      /\ Len(crc_flagged_chunks') = crc_flagged'
      /\ Ascending(crc_flagged_chunks', idx')
      /\ Ascending(lost_chunks', idx')
      /\ \A i \in DOMAIN crc_flagged_chunks' :
           crc_flagged_chunks'[i] = idx
             \/ (i \in DOMAIN crc_flagged_chunks /\ crc_flagged_chunks'[i] = crc_flagged_chunks[i])
  BY <1>1, <1>4, <1>5, AppendAscends
<1>7. \A i \in DOMAIN lost_chunks', j \in DOMAIN crc_flagged_chunks' :
        lost_chunks'[i] # crc_flagged_chunks'[j]
  <2>1. \A i \in DOMAIN lost_chunks : lost_chunks[i] < idx /\ lost_chunks[i] \in Nat
    BY <1>4, <1>5 DEF Ascending
  <2> QED BY <1>1, <1>4, <1>5, <1>6, <2>1
<1>8. /\ recovered_primary' \in Nat /\ recovered_table2' \in Nat /\ crc_flagged' \in Nat
      /\ recovered_primary' + recovered_table2' + zero_filled' = idx'
      /\ crc_flagged' <= recovered_primary' + recovered_table2'
      /\ idx' \in Nat /\ bytes_recovered' \in Nat
      /\ bytes_recovered' + bytes_zero_filled' = bytes_recovered + bytes_zero_filled + Logical
  BY <1>1, <1>3, <1>4, <1>5
<1>9. ChunksAccounted'
  <2>1. Len(lost_chunks') = zero_filled'
    BY <1>1, <1>5
  <2> QED BY <1>6, <1>7, <1>8, <2>1 DEF ChunksAccounted, Ascending
<1> QED BY <1>1, <1>2, <1>4, <1>6, <1>8, <1>9, LoopFrame

LEMMA LoseChunkInv == ASSUME Inv, LoseChunk PROVE Inv'
<1>1. /\ Writing /\ pc = "chunks" /\ UNCHANGED <<image, pc, walk, geom, tables>>
      /\ Write(<<>>) /\ idx' = idx + 1
      /\ zero_filled' = zero_filled + 1
      /\ bytes_zero_filled' = bytes_zero_filled + Logical
      /\ lost_chunks' = Append(lost_chunks, idx)
      /\ UNCHANGED <<recovered_primary, recovered_table2, crc_flagged, bytes_recovered,
                     crc_flagged_chunks>>
  BY DEF LoseChunk, InLoop, Writing
<1>2. <<>> \in Seq(Byte)
  OBVIOUS
<1>3. Logical \in Nat
  BY <1>1, <1>2, Written DEF Inv
<1>4. /\ idx \in Nat /\ recovered_primary \in Nat /\ recovered_table2 \in Nat
      /\ zero_filled \in Nat /\ crc_flagged \in Nat
      /\ bytes_recovered \in Nat /\ bytes_zero_filled \in Nat
      /\ lost_chunks \in Seq(Nat) /\ crc_flagged_chunks \in Seq(Nat)
  BY DEF Inv, IInv, TypeOK
<1>5. /\ recovered_primary + recovered_table2 + zero_filled = idx
      /\ Len(lost_chunks) = zero_filled /\ Len(crc_flagged_chunks) = crc_flagged
      /\ crc_flagged <= recovered_primary + recovered_table2
      /\ Ascending(lost_chunks, idx) /\ Ascending(crc_flagged_chunks, idx)
      /\ \A i \in DOMAIN lost_chunks, j \in DOMAIN crc_flagged_chunks :
           lost_chunks[i] # crc_flagged_chunks[j]
  BY Accounted DEF Inv, IInv
<1>6. /\ lost_chunks' \in Seq(Nat)
      /\ Len(lost_chunks') = zero_filled'
      /\ Ascending(lost_chunks', idx')
      /\ Ascending(crc_flagged_chunks', idx')
      /\ \A i \in DOMAIN lost_chunks' :
           lost_chunks'[i] = idx
             \/ (i \in DOMAIN lost_chunks /\ lost_chunks'[i] = lost_chunks[i])
  BY <1>1, <1>4, <1>5, AppendAscends
<1>7. \A i \in DOMAIN lost_chunks', j \in DOMAIN crc_flagged_chunks' :
        lost_chunks'[i] # crc_flagged_chunks'[j]
  <2>1. \A j \in DOMAIN crc_flagged_chunks : crc_flagged_chunks[j] < idx /\ crc_flagged_chunks[j] \in Nat
    BY <1>4, <1>5 DEF Ascending
  <2> QED BY <1>1, <1>4, <1>5, <1>6, <2>1
<1>8. /\ zero_filled' \in Nat /\ idx' \in Nat /\ bytes_zero_filled' \in Nat
      /\ recovered_primary' + recovered_table2' + zero_filled' = idx'
      /\ bytes_recovered' + bytes_zero_filled' = bytes_recovered + bytes_zero_filled + Logical
  BY <1>1, <1>3, <1>4, <1>5
<1>9. ChunksAccounted'
  <2>1. /\ Len(crc_flagged_chunks') = crc_flagged'
        /\ crc_flagged' <= recovered_primary' + recovered_table2'
    BY <1>1, <1>5
  <2> QED BY <1>6, <1>7, <1>8, <2>1 DEF ChunksAccounted, Ascending
<1>10. Inv'
  BY <1>1, <1>2, <1>4, <1>6, <1>8, <1>9, LoopFrame
<1> QED BY <1>10

LEMMA FillTailInv == ASSUME Inv, FillTail PROVE Inv'
<1>1. /\ Writing /\ pc = "tail" /\ UNCHANGED <<image, pc, walk, geom, tables>>
      /\ Write(<<>>)
      /\ bytes_zero_filled' = bytes_zero_filled + Logical
      /\ UNCHANGED <<idx, recovered_primary, recovered_table2, zero_filled, crc_flagged,
                     bytes_recovered, lost_chunks, crc_flagged_chunks>>
  BY DEF FillTail, Writing
<1>2. <<>> \in Seq(Byte)
  OBVIOUS
<1>3. Logical \in Nat
  BY <1>1, <1>2, Written DEF Inv
<1>4. /\ idx \in Nat /\ recovered_primary \in Nat /\ recovered_table2 \in Nat
      /\ zero_filled \in Nat /\ crc_flagged \in Nat
      /\ bytes_recovered \in Nat /\ bytes_zero_filled \in Nat
      /\ lost_chunks \in Seq(Nat) /\ crc_flagged_chunks \in Seq(Nat)
  BY DEF Inv, IInv, TypeOK
<1>5. ChunksAccounted'
  BY <1>1 DEF Inv, IInv, ChunksAccounted
<1>6. /\ bytes_zero_filled' \in Nat
      /\ bytes_recovered' + bytes_zero_filled' = bytes_recovered + bytes_zero_filled + Logical
  BY <1>1, <1>3, <1>4
<1> QED BY <1>1, <1>2, <1>4, <1>5, <1>6, LoopFrame

\* EndChunks and Finish only move on.
LEMMA MoveOnInv ==
  ASSUME Inv, Writing, pc' \in {"tail", "done"}, pc' = "done" => remaining = 0,
         UNCHANGED <<image, walk, geom, tables, idx, remaining, out, counts>>
  PROVE  Inv'
<1>1. Writing'
  BY DEF Writing
<1>2. TypeOK'
  BY <1>1 DEF Inv, IInv, TypeOK, walk, counts
<1>3. BytesAccounted' /\ ChunksAccounted'
  BY SameCounts DEF Inv
<1> QED BY <1>2, <1>3 DEF Inv, IInv, walk, Unrecognised, DataLen

LEMMA StutterInv == ASSUME Inv, UNCHANGED vars PROVE Inv'
<1>1. Writing' = Writing
  BY DEF vars, Writing
<1>2. TypeOK'
  BY <1>1 DEF Inv, IInv, TypeOK, vars, walk, counts
<1>3. BytesAccounted' /\ ChunksAccounted'
  BY <1>1, SameCounts DEF Inv, vars
<1> QED BY <1>2, <1>3 DEF Inv, IInv, vars, walk, Unrecognised, DataLen

----------------------------------------------------------------------------
(* Which copy is emitted, and where it is written.                         *)

\* The running totals of locate_chunk, as the loop builds them.
IsTotals(f, n, T) ==
  f = [s \in 0..n |-> IF s = 0 THEN 0 ELSE f[s - 1] + T[s].count]

LEMMA TotalsDefined ==
  ASSUME NEW T, NEW n \in Nat
  PROVE  \E f : IsTotals(f, n, T)
<1> DEFINE Bad == {m \in Nat : ~ \E f : IsTotals(f, m, T)}
<1>1. SUFFICES ASSUME Bad # {} PROVE FALSE
  OBVIOUS
<1>2. PICK m \in Bad : \A j \in Bad : m <= j
  <2> HIDE DEF Bad
  <2>1. Bad \subseteq Nat
    BY DEF Bad
  <2> QED BY <1>1, <2>1, Least
<1>3. m \in Nat /\ m # 0
  <2>1. IsTotals([s \in 0..0 |-> 0], 0, T)
    BY DEF IsTotals
  <2> QED BY <1>2, <2>1
<1>4. PICK f : IsTotals(f, m - 1, T)
  <2>1. m - 1 \in Nat
    BY <1>3
  <2>2. m - 1 \notin Bad
    <3> HIDE DEF Bad
    <3> QED BY <1>2, <1>3
  <2> QED BY <2>1, <2>2
<1> DEFINE g == [s \in 0..m |-> IF s = m THEN f[m - 1] + T[m].count ELSE f[s]]
<1>5. IsTotals(g, m, T)
  <2>1. \A s \in 0..m : g[s] = IF s = 0 THEN 0 ELSE g[s - 1] + T[s].count
    BY <1>3, <1>4 DEF IsTotals
  <2> QED BY <2>1 DEF IsTotals
<1> QED BY <1>2, <1>3, <1>5

\* The totals never fall.
LEMMA TotalsAscend ==
  ASSUME NEW n \in Nat, NEW T, \A s \in 1..n : T[s].count \in Nat,
         NEW f, IsTotals(f, n, T)
  PROVE  \A s, t \in 0..n : f[s] \in Nat /\ (s <= t => f[s] <= f[t])
<1> DEFINE Fine(t) == f[t] \in Nat /\ \A s \in 0..t : f[s] \in Nat /\ f[s] <= f[t]
           Bad == {t \in 0..n : ~Fine(t)}
<1>1. SUFFICES ASSUME Bad # {} PROVE FALSE
  OBVIOUS
<1>2. PICK t \in Bad : \A j \in Bad : t <= j
  <2> HIDE DEF Bad
  <2>1. Bad \subseteq Nat
    BY DEF Bad
  <2> QED BY <1>1, <2>1, Least
<1>3. f[0] = 0 /\ \A s \in 1..n : f[s] = f[s - 1] + T[s].count
  BY DEF IsTotals
<1>4. t # 0
  <2>1. Fine(0)
    BY <1>3
  <2> QED BY <1>2, <2>1
<1>5. t \in 1..n /\ t - 1 \in 0..n
  BY <1>2, <1>4
<1>6. Fine(t - 1)
  <2>1. t - 1 \notin Bad
    <3> HIDE DEF Bad
    <3> QED BY <1>2, <1>5
  <2> QED BY <1>5, <2>1
<1>7. f[t] = f[t - 1] + T[t].count /\ T[t].count \in Nat
  BY <1>3, <1>5
<1>8. Fine(t)
  <2>1. f[t] \in Nat /\ f[t - 1] <= f[t]
    BY <1>6, <1>7
  <2>2. ASSUME NEW s \in 0..t PROVE f[s] \in Nat /\ f[s] <= f[t]
    <3>1. CASE s = t
      BY <2>1, <3>1
    <3>2. CASE s # t
      <4>1. s \in 0..t - 1
        BY <1>5, <3>2
      <4>2. f[s] \in Nat /\ f[s] <= f[t - 1] /\ f[t - 1] \in Nat
        BY <1>6, <4>1
      <4> QED BY <2>1, <4>2
    <3> QED BY <3>1, <3>2
  <2> QED BY <2>1, <2>2
<1> QED BY <1>2, <1>8

\* At most one segment holds a chunk.
LEMMA OneHolder ==
  ASSUME Inv, Writing, NEW i \in Nat, NEW s \in Holding(i), NEW t \in Holding(i)
  PROVE  s = t
<1>1. image \in Images /\ Len(image) \in Nat /\ DOMAIN image = 1..Len(image)
  <2>1. image \in Images
    BY DEF Inv
  <2>2. Len(image) \in Nat /\ image = [x \in 1..Len(image) |-> image[x]]
    BY <2>1, RecoverAssumption
  <2> QED BY <2>1, <2>2
<1>2. \A x \in 1..Len(image) : tables[x].count \in Nat
  BY <1>1 DEF Inv, IInv, TypeOK
<1>3. IsTotals(ChunksThrough, Len(image), tables)
  <2>1. PICK n \in Nat : n = Len(image)
    BY <1>1
  <2>2. \E f : IsTotals(f, n, tables)
    BY TotalsDefined
  <2>3. ChunksThrough = CHOOSE f : IsTotals(f, n, tables)
    BY <2>1, Zenon DEF ChunksThrough, IsTotals
  <2> QED BY <2>1, <2>2, <2>3, Zenon
<1>4. \A x, y \in 0..Len(image) :
        ChunksThrough[x] \in Nat /\ (x <= y => ChunksThrough[x] <= ChunksThrough[y])
  BY <1>1, <1>2, <1>3, TotalsAscend
<1>5. /\ s \in 1..Len(image) /\ ChunksThrough[s - 1] <= i /\ i < ChunksThrough[s]
      /\ t \in 1..Len(image) /\ ChunksThrough[t - 1] <= i /\ i < ChunksThrough[t]
  BY <1>1 DEF Holding
<1>6. ASSUME NEW x \in 1..Len(image), NEW y \in 1..Len(image), x < y,
             i < ChunksThrough[x], ChunksThrough[y - 1] <= i
      PROVE  FALSE
  <2>1. y - 1 \in 0..Len(image) /\ x \in 0..Len(image) /\ x <= y - 1
    BY <1>1, <1>6
  <2>2. ChunksThrough[x] <= ChunksThrough[y - 1] /\ ChunksThrough[x] \in Nat /\ ChunksThrough[y - 1] \in Nat
    BY <1>4, <2>1
  <2> QED BY <1>6, <2>2
<1>7. ~(s < t) /\ ~(t < s)
  BY <1>5, <1>6
<1> QED BY <1>1, <1>5, <1>7

\* A copy is nothing at all, or found with a verdict.
LEMMA CopyShape ==
  ASSUME NEW s, NEW t, NEW i
  PROVE  \/ Copy(s, t, i) = NoCopy
         \/ Copy(s, t, i).found = TRUE /\ Copy(s, t, i).clean \in BOOLEAN
<1>1. ASSUME NEW raw, NEW comp
      PROVE  \/ DecodeChunk(raw, comp) = NoCopy
             \/ DecodeChunk(raw, comp).found = TRUE /\ DecodeChunk(raw, comp).clean \in BOOLEAN
  <2> DEFINE good == [found |-> TRUE, clean |-> TRUE, bytes |-> Prefix(Inflate(raw).bytes, ChunkSize)]
             same == Len(raw) < ChunkSize + CrcSize
                       \/ Adler(Prefix(raw, ChunkSize)) = SubSeq(raw, ChunkSize + 1, ChunkSize + CrcSize)
             kept == [found |-> TRUE, clean |-> same, bytes |-> Prefix(raw, ChunkSize)]
  <2>1. DecodeChunk(raw, comp) \in {NoCopy, good, kept}
    <3>1. DecodeChunk(raw, comp) =
            IF comp THEN IF ~Inflate(raw).ok \/ Inflate(raw).bytes = <<>> THEN NoCopy ELSE good
                    ELSE kept
      BY Zenon DEF DecodeChunk
    <3> HIDE DEF good, kept
    <3> QED BY <3>1, Zenon
  <2>2. same \in BOOLEAN
    OBVIOUS
  <2> HIDE DEF same
  <2>3. good.found = TRUE /\ good.clean = TRUE /\ kept.found = TRUE /\ kept.clean = same
    OBVIOUS
  <2> HIDE DEF good, kept
  <2> QED BY <2>1, <2>2, <2>3
<1> QED BY <1>1 DEF Copy

\* The choice between two copies of a chunk: the emitted one is among the best.
LEMMA ChosenBest ==
  ASSUME Inv, Writing, NEW i \in Nat
  PROVE  LET c == Chosen(i).copy
         IN  /\ c.found \in BOOLEAN /\ c.clean \in BOOLEAN
             /\ c.found <=> FoundCopies(i) # {}
             /\ c.found /\ c.clean <=> CleanCopies(i) # {}
             /\ c \in BestCopies(i)
<1> DEFINE Shaped(c) == c = NoCopy \/ (c.found = TRUE /\ c.clean \in BOOLEAN)
<1>1. NoCopy.found = FALSE /\ NoCopy.clean = FALSE
  BY DEF NoCopy
<1>2. CASE Holding(i) = {}
  <2>1. Chosen(i) = [copy |-> NoCopy, table2 |-> FALSE]
    BY <1>2, Zenon DEF Chosen
  <2>2. Copies(i) = {}
    BY <1>2, Zenon DEF Copies
  <2>3. FoundCopies(i) = {} /\ CleanCopies(i) = {} /\ BestCopies(i) = {NoCopy}
    BY <2>2 DEF FoundCopies, CleanCopies, BestCopies
  <2>4. Chosen(i).copy = NoCopy
    BY <2>1
  <2> QED BY <1>1, <2>3, <2>4
<1>3. CASE Holding(i) # {}
  <2> DEFINE s == CHOOSE s \in Holding(i) : TRUE
             local == i - ChunksThrough[s - 1]
             p == Copy(s, tables[s].table, local)
             q == Copy(s, tables[s].table2, local)
  <2>1. s \in Holding(i)
    BY <1>3
  <2>2. Chosen(i) = IF ~p.clean /\ (q.clean \/ ~p.found)
                    THEN [copy |-> q, table2 |-> TRUE]
                    ELSE [copy |-> p, table2 |-> FALSE]
    BY <1>3, Zenon DEF Chosen
  <2> HIDE DEF s
  <2>3. Holding(i) = {s}
    BY <2>1, OneHolder
  <2>4. Copies(i) = {p, q}
    <3>1. Copies(i) = UNION {{Copy(x, t, i - ChunksThrough[x - 1]) : t \in {tables[x].table, tables[x].table2}} :
                               x \in {s}}
      BY <2>3, Zenon DEF Copies
    <3>2. Copies(i) = {Copy(s, t, local) : t \in {tables[s].table, tables[s].table2}}
      BY <3>1, Zenon
    <3> HIDE DEF local
    <3> QED BY <3>2, Zenon
  <2>5. Shaped(p) /\ Shaped(q)
    BY CopyShape
  <2> HIDE DEF p, q
  <2>6. Chosen(i).copy = IF ~p.clean /\ (q.clean \/ ~p.found) THEN q ELSE p
    BY <2>2
  <2>7. FoundCopies(i) = {c \in {p, q} : c.found} /\ CleanCopies(i) = {c \in FoundCopies(i) : c.clean}
    BY <2>4 DEF FoundCopies, CleanCopies
  <2>8. /\ p.found \in BOOLEAN /\ p.clean \in BOOLEAN /\ (p.clean => p.found) /\ (~p.found => p = NoCopy)
        /\ q.found \in BOOLEAN /\ q.clean \in BOOLEAN /\ (q.clean => q.found) /\ (~q.found => q = NoCopy)
    BY <1>1, <2>5, Zenon
  <2> DEFINE c == Chosen(i).copy
  <2> HIDE DEF c
  <2>9. c = IF ~p.clean /\ (q.clean \/ ~p.found) THEN q ELSE p
    BY <2>6 DEF c
  <2>10. \/ c = p /\ p.clean
         \/ c = q /\ ~p.clean /\ q.clean
         \/ c = p /\ ~p.clean /\ ~q.clean /\ p.found
         \/ c = q /\ ~p.clean /\ ~q.clean /\ ~p.found
    BY <2>8, <2>9, Zenon
  <2>11. c.found \in BOOLEAN /\ c.clean \in BOOLEAN
    BY <2>8, <2>10, Zenon
  <2>12. c.found <=> FoundCopies(i) # {}
    <3>1. FoundCopies(i) # {} <=> p.found \/ q.found
      BY <2>7, Zenon
    <3> QED BY <2>8, <2>10, <3>1, Zenon
  <2>13. c.found /\ c.clean <=> CleanCopies(i) # {}
    <3>1. CleanCopies(i) # {} <=> (p.found /\ p.clean) \/ (q.found /\ q.clean)
      BY <2>7, Zenon
    <3> QED BY <2>8, <2>10, <3>1, Zenon
  <2>14. c \in BestCopies(i)
    <3>1. CASE c.found /\ c.clean
      <4>1. c \in CleanCopies(i)
        BY <2>7, <2>10, <3>1, Zenon
      <4> QED BY <4>1 DEF BestCopies
    <3>2. CASE c.found /\ ~c.clean
      <4>1. c \in FoundCopies(i) /\ CleanCopies(i) = {}
        BY <2>7, <2>10, <2>13, <3>2, Zenon
      <4> QED BY <4>1 DEF BestCopies
    <3>3. CASE ~c.found
      <4>1. CleanCopies(i) = {} /\ FoundCopies(i) = {} /\ c = NoCopy
        BY <2>8, <2>10, <2>12, <2>13, <3>3, Zenon
      <4> QED BY <4>1 DEF BestCopies
    <3> QED BY <3>1, <3>2, <3>3
  <2> QED BY <2>11, <2>12, <2>13, <2>14 DEF c
<1> QED BY <1>2, <1>3

\* The copies depend on the image and its tables alone.
LEMMA SameCopies ==
  ASSUME UNCHANGED <<image, geom, tables>>, NEW i
  PROVE  /\ FoundCopies(i)' = FoundCopies(i) /\ CleanCopies(i)' = CleanCopies(i)
         /\ BestCopies(i)' = BestCopies(i)
<1>1. image' = image /\ geom' = geom /\ tables' = tables
  OBVIOUS
<1>2. ChunksThrough' = ChunksThrough
  BY <1>1, Zenon DEF ChunksThrough
<1>3. Holding(i)' = Holding(i)
  BY <1>1, <1>2, Zenon DEF Holding
<1>4. ASSUME NEW s, NEW t, NEW j PROVE Copy(s, t, j)' = Copy(s, t, j)
  <2>1. RangeEnd(s, t, j)' = RangeEnd(s, t, j)
    BY <1>1, Zenon DEF RangeEnd
  <2>2. InRange(s, t, j)' = InRange(s, t, j)
    BY <1>1, <2>1, Zenon DEF InRange, DataLen
  <2>3. ChunkSize' = ChunkSize
    BY <1>1 DEF ChunkSize
  <2>4. ASSUME NEW raw, NEW comp PROVE DecodeChunk(raw, comp)' = DecodeChunk(raw, comp)
    BY <2>3, Zenon DEF DecodeChunk
  <2> QED BY <1>1, <2>1, <2>2, <2>4, Zenon DEF Copy
<1>5. Copies(i)' = Copies(i)
  <2> DEFINE Of(s) == {Copy(s, t, i - ChunksThrough[s - 1]) : t \in {tables[s].table, tables[s].table2}}
  <2>1. ASSUME NEW s PROVE Of(s)' = Of(s)
    BY <1>1, <1>2, <1>4, Zenon
  <2>2. Copies(i) = UNION {Of(s) : s \in Holding(i)}
    BY Zenon DEF Copies
  <2>3. Copies(i)' = UNION {Of(s)' : s \in Holding(i)'}
    BY Zenon DEF Copies
  <2> HIDE DEF Of
  <2> QED BY <1>3, <2>1, <2>2, <2>3, Zenon
<1>6. FoundCopies(i)' = FoundCopies(i)
  BY <1>5, Zenon DEF FoundCopies
<1>7. CleanCopies(i)' = CleanCopies(i)
  BY <1>6, Zenon DEF CleanCopies
<1> QED BY <1>6, <1>7, Zenon DEF BestCopies

LEMMA SliceKept ==
  ASSUME NEW S, NEW u \in Seq(S), NEW w \in Seq(S), NEW a \in Nat, NEW e \in Nat, e <= Len(u)
  PROVE  SubSeq(u \o w, a + 1, e) = SubSeq(u, a + 1, e)
OBVIOUS

LEMMA SliceNew ==
  ASSUME NEW S, NEW u \in Seq(S), NEW w \in Seq(S)
  PROVE  SubSeq(u \o w, Len(u) + 1, Len(u) + Len(w)) = w
OBVIOUS

LEMMA Products ==
  ASSUME NEW i \in Nat, NEW j \in Nat, NEW c \in Nat, i < j
  PROVE  /\ i * c \in Nat /\ (i + 1) * c \in Nat /\ j * c \in Nat
         /\ (i + 1) * c = i * c + c
         /\ (i + 1) * c <= j * c
<1>1. PICK d \in Nat : j = i + 1 + d
  <2>1. j - i - 1 \in Nat /\ j = i + 1 + (j - i - 1)
    OBVIOUS
  <2> QED BY <2>1
<1>2. i * c \in Nat /\ d * c \in Nat
  OBVIOUS
<1>3. (i + 1) * c = i * c + c
  OBVIOUS
<1>4. (i + 1 + d) * c = (i + 1) * c + d * c
  OBVIOUS
<1> QED BY <1>1, <1>2, <1>3, <1>4

LEMMA Numbers ==
  ASSUME Inv
  PROVE  /\ ChunkSize \in Nat /\ geom.image_size \in Nat /\ idx \in Nat
         /\ out \in Seq(Byte) /\ Len(out) \in Nat /\ remaining \in Nat
         /\ lost_chunks \in Seq(Nat) /\ crc_flagged_chunks \in Seq(Nat)
BY DEF Inv, IInv, TypeOK, ChunkSize

\* What is written of a chunk stays when more is appended.
LEMMA WrittenKept ==
  ASSUME Inv, OutputPlaced, Writing, NEW i \in 0..idx - 1,
         NEW w \in Seq(Byte), out' = out \o w, geom' = geom
  PROVE  WrittenAt(i)' = WrittenAt(i)
<1>1. /\ ChunkSize \in Nat /\ geom.image_size \in Nat /\ idx \in Nat /\ out \in Seq(Byte)
      /\ i \in Nat /\ i < idx /\ Len(out) \in Nat
  BY Numbers
<1> DEFINE a == i * ChunkSize
           e == SmallerOf((i + 1) * ChunkSize, geom.image_size)
<1>2. a \in Nat /\ (i + 1) * ChunkSize \in Nat /\ (i + 1) * ChunkSize <= idx * ChunkSize /\ idx * ChunkSize \in Nat
  BY <1>1, Products
<1>3. e \in Nat /\ e <= Len(out)
  <2>1. SmallerOf(idx * ChunkSize, geom.image_size) <= Len(out)
    BY DEF OutputPlaced
  <2>2. PICK x \in Nat, y \in Nat, z \in Nat, n \in Nat :
          x = (i + 1) * ChunkSize /\ y = idx * ChunkSize /\ z = geom.image_size /\ n = Len(out)
    BY <1>1, <1>2
  <2>3. x <= y /\ SmallerOf(y, z) <= n /\ e = SmallerOf(x, z)
    BY <1>2, <2>1, <2>2
  <2>4. SmallerOf(x, z) \in Nat /\ SmallerOf(x, z) <= n
    BY <2>3 DEF SmallerOf
  <2> QED BY <2>2, <2>3, <2>4
<1>4. ChunkSize' = ChunkSize
  BY DEF ChunkSize
<1>5. WrittenAt(i) = SubSeq(out, a + 1, e) /\ WrittenAt(i)' = SubSeq(out \o w, a + 1, e)
  BY <1>4, Zenon DEF WrittenAt
<1> HIDE DEF a, e
<1> QED BY <1>1, <1>2, <1>3, <1>5, SliceKept

\* A chunk that was passed stays well recovered.
LEMMA StaysRecovered ==
  ASSUME Inv, OutputPlaced, BestCopyWritten, Writing, NEW i \in 0..idx - 1,
         NEW w \in Seq(Byte), out' = out \o w, UNCHANGED <<image, geom, tables>>,
         i \in Ids(lost_chunks)' <=> i \in Ids(lost_chunks),
         i \in Ids(crc_flagged_chunks)' <=> i \in Ids(crc_flagged_chunks)
  PROVE  WellRecovered(i)'
<1>1. WellRecovered(i)
  BY DEF BestCopyWritten
<1>2. WrittenAt(i)' = WrittenAt(i)
  BY WrittenKept
<1>3. /\ FoundCopies(i)' = FoundCopies(i) /\ CleanCopies(i)' = CleanCopies(i)
      /\ BestCopies(i)' = BestCopies(i)
  BY SameCopies
<1>4. \A c : Sized(c.bytes, Len(WrittenAt(i)))' = Sized(c.bytes, Len(WrittenAt(i)))
  BY <1>2, Zenon DEF Sized
<1> QED BY <1>1, <1>2, <1>3, <1>4, Zenon DEF WellRecovered

\* Where a step of the chunk loop writes: at idx * ChunkSize, the whole chunk.
LEMMA WrittenNow ==
  ASSUME Inv, OutputPlaced, InLoop, NEW b \in Seq(Byte), Write(b), UNCHANGED <<geom, pc>>,
         idx' = idx + 1, NEW k \in Nat, k = idx
  PROVE  /\ OutputPlaced'
         /\ Sized(b, Logical) \in Seq(Byte) /\ out' = out \o Sized(b, Logical)
         /\ WrittenAt(k)' = Sized(b, Logical) /\ Len(Sized(b, Logical)) = Logical
<1>1. /\ ChunkSize \in Nat /\ geom.image_size \in Nat /\ out \in Seq(Byte)
      /\ Len(out) \in Nat /\ remaining \in Nat
  BY Numbers
<1>2. PICK n \in Nat, size \in Nat, c \in Nat : n = Len(out) /\ size = geom.image_size /\ c = ChunkSize
  BY <1>1
<1>3. k * c \in Nat /\ (k + 1) * c \in Nat /\ (k + 1) * c = k * c + c
  BY Products
<1>4. pc = "chunks" /\ Writing /\ remaining # 0 /\ n + remaining = size /\ n = SmallerOf(k * c, size)
  BY <1>2 DEF InLoop, Writing, Inv, IInv, BytesAccounted, OutputPlaced
<1>5. n = k * c
  BY <1>1, <1>2, <1>3, <1>4 DEF SmallerOf
<1> DEFINE L == Logical
           w == Sized(b, L)
<1>6. L = SmallerOf(remaining, c)
  BY <1>2 DEF Logical
<1>7. L \in Nat /\ n + L = SmallerOf((k + 1) * c, size)
  BY <1>1, <1>2, <1>3, <1>4, <1>5, <1>6 DEF SmallerOf
<1> HIDE DEF L
<1>8. w \in Seq(Byte) /\ Len(w) = L
  BY <1>7, SizedType
<1>9. out' = out \o w
  BY DEF Write, L
<1> HIDE DEF w
<1>10. Len(out') = n + L
  BY <1>1, <1>2, <1>8, <1>9, AppendedLen
<1>11. ChunkSize' = c /\ geom'.image_size = size
  BY <1>2 DEF ChunkSize
<1>12. OutputPlaced'
  <2>1. pc' = "chunks"
    BY <1>4
  <2>2. SmallerOf(idx' * c, size) = n + L
    BY <1>7
  <2>3. SmallerOf(idx * ChunkSize, geom.image_size)' = n + L
    BY <1>11, <2>2 DEF SmallerOf
  <2>4. n + L \in Nat
    BY <1>7
  <2> QED BY <1>10, <2>1, <2>3, <2>4 DEF OutputPlaced, Writing
<1>13. WrittenAt(k)' = w
  <2>1. WrittenAt(k)' = SubSeq(out', k * c + 1, SmallerOf((k + 1) * c, size))
    BY <1>11, Zenon DEF WrittenAt, SmallerOf
  <2>2. SubSeq(out \o w, Len(out) + 1, Len(out) + Len(w)) = w
    BY <1>1, <1>8, SliceNew
  <2>3. WrittenAt(k)' = SubSeq(out \o w, Len(out) + 1, Len(out) + Len(w))
    BY <1>2, <1>5, <1>7, <1>8, <1>9, <2>1
  <2> QED BY <2>2, <2>3
<1> QED BY <1>8, <1>9, <1>12, <1>13 DEF w, L

\* Appending a chunk's number to a list adds that number alone.
LEMMA IdsAppended ==
  ASSUME NEW l \in Seq(Nat), NEW n \in Nat
  PROVE  Ids(Append(l, n)) = Ids(l) \union {n}
<1> DEFINE m == Append(l, n)
<1>1. DOMAIN m = DOMAIN l \union {Len(l) + 1} /\ m[Len(l) + 1] = n /\ \A i \in DOMAIN l : m[i] = l[i]
  OBVIOUS
<1> HIDE DEF m
<1>2. {m[i] : i \in DOMAIN m} = {l[i] : i \in DOMAIN l} \union {n}
  BY <1>1
<1> QED BY <1>2 DEF Ids, m

\* The numbers listed so far are those of chunks passed.
LEMMA NotYetListed ==
  ASSUME Inv
  PROVE  idx \notin Ids(lost_chunks) /\ idx \notin Ids(crc_flagged_chunks)
<1>1. Ascending(lost_chunks, idx) /\ Ascending(crc_flagged_chunks, idx)
  BY Accounted DEF Inv, IInv
<1> QED BY <1>1, Numbers DEF Ids, Ascending

\* A step of the chunk loop that lists idx as it should is a chunk well recovered,
\* and so are the ones before it.
LEMMA ChunkStep ==
  ASSUME Inv, OutputPlaced, BestCopyWritten, InLoop,
         NEW b \in Seq(Byte), Write(b), UNCHANGED <<image, pc, geom, tables>>, idx' = idx + 1,
         NEW k \in Nat, k = idx, NEW c \in BestCopies(k), c.bytes = b,
         NEW lost, NEW flagged, lost = lost_chunks', flagged = crc_flagged_chunks',
         Ids(lost) = Ids(lost_chunks) \union (IF FoundCopies(k) = {} THEN {k} ELSE {}),
         Ids(flagged) = Ids(crc_flagged_chunks)
                          \union (IF FoundCopies(k) # {} /\ CleanCopies(k) = {} THEN {k} ELSE {})
  PROVE  OutputPlaced' /\ BestCopyWritten'
<1> DEFINE w == Sized(b, Logical)
<1>1. /\ OutputPlaced' /\ w \in Seq(Byte) /\ out' = out \o w /\ WrittenAt(k)' = w
      /\ Len(w) = Logical
  BY WrittenNow
<1>2. Writing
  BY DEF InLoop, Writing
<1>3. k \notin Ids(lost_chunks) /\ k \notin Ids(crc_flagged_chunks) /\ idx \in Nat
  BY NotYetListed, Numbers
<1>4. Ids(lost_chunks)' = Ids(lost) /\ Ids(crc_flagged_chunks)' = Ids(flagged)
  BY Zenon DEF Ids
<1>5. ASSUME NEW i \in 0..idx - 1 PROVE WellRecovered(i)'
  <2>1. i # k
    BY <1>3, <1>5
  <2>2. /\ i \in Ids(lost_chunks)' <=> i \in Ids(lost_chunks)
        /\ i \in Ids(crc_flagged_chunks)' <=> i \in Ids(crc_flagged_chunks)
    BY <1>4, <2>1
  <2> HIDE DEF w
  <2> QED BY <1>1, <1>2, <2>2, StaysRecovered
<1>6. WellRecovered(k)'
  <2>1. /\ FoundCopies(k)' = FoundCopies(k) /\ CleanCopies(k)' = CleanCopies(k)
        /\ BestCopies(k)' = BestCopies(k)
    BY SameCopies
  <2>2. k \in Ids(lost_chunks)' <=> FoundCopies(k)' = {}
    BY <1>3, <1>4, <2>1
  <2>3. k \in Ids(crc_flagged_chunks)' <=> FoundCopies(k)' # {} /\ CleanCopies(k)' = {}
    BY <1>3, <1>4, <2>1
  <2>4. PICK x : x = WrittenAt(k)'
    OBVIOUS
  <2>5. x = w /\ x = Sized(c.bytes, Len(x))
    BY <1>1, <2>4, Zenon
  <2>6. \E d \in BestCopies(k) : x = Sized(d.bytes, Len(x))
    BY <2>5
  <2>7. \E d \in BestCopies(k)' : WrittenAt(k)' = Sized(d.bytes, Len(WrittenAt(k)))'
    <3>1. ASSUME NEW d PROVE Sized(d.bytes, Len(WrittenAt(k)))' = Sized(d.bytes, Len(x))
      BY <2>4, Zenon DEF Sized
    <3> QED BY <2>1, <2>4, <2>6, <3>1, Zenon
  <2> QED BY <2>2, <2>3, <2>7 DEF WellRecovered
<1>7. BestCopyWritten'
  <2>1. ASSUME NEW i \in 0..idx' - 1 PROVE WellRecovered(i)'
    <3>1. i = k \/ i \in 0..idx - 1
      BY <1>3
    <3> QED BY <1>5, <1>6, <3>1
  <2> QED BY <2>1 DEF BestCopyWritten
<1> QED BY <1>1, <1>7

LEMMA RecoverChunkBest ==
  ASSUME Inv, OutputPlaced, BestCopyWritten, RecoverChunk
  PROVE  OutputPlaced' /\ BestCopyWritten'
<1>1. PICK k \in Nat : k = idx
  BY Numbers
<1> DEFINE c == Chosen(k).copy
<1>2. /\ InLoop /\ c.found /\ Write(c.bytes) /\ idx' = idx + 1
      /\ crc_flagged_chunks' =
           IF c.clean THEN crc_flagged_chunks ELSE Append(crc_flagged_chunks, k)
      /\ UNCHANGED <<image, pc, geom, tables, lost_chunks>>
  BY <1>1 DEF RecoverChunk
<1>3. Writing
  BY <1>2 DEF InLoop, Writing
<1>4. /\ c.found <=> FoundCopies(k) # {}
      /\ c.found /\ c.clean <=> CleanCopies(k) # {}
      /\ c \in BestCopies(k) /\ c.bytes \in Seq(Byte)
  BY <1>3, ChosenBest, ChosenType DEF Inv, IInv
<1> HIDE DEF c
<1>5. crc_flagged_chunks \in Seq(Nat)
  BY Numbers
<1>6. PICK lost, flagged : lost = lost_chunks' /\ flagged = crc_flagged_chunks'
  OBVIOUS
<1>7. Ids(lost) = Ids(lost_chunks) \union (IF FoundCopies(k) = {} THEN {k} ELSE {})
  BY <1>2, <1>4, <1>6
<1>8. Ids(flagged) = Ids(crc_flagged_chunks)
                       \union (IF FoundCopies(k) # {} /\ CleanCopies(k) = {} THEN {k} ELSE {})
  <2>1. CASE c.clean
    BY <1>2, <1>4, <1>6, <2>1
  <2>2. CASE ~c.clean
    <3>1. Ids(flagged) = Ids(crc_flagged_chunks) \union {k}
      BY <1>2, <1>5, <1>6, <2>2, IdsAppended
    <3> QED BY <1>2, <1>4, <2>2, <3>1
  <2> QED BY <2>1, <2>2
<1> QED BY <1>1, <1>2, <1>4, <1>6, <1>7, <1>8, ChunkStep

LEMMA LoseChunkBest ==
  ASSUME Inv, OutputPlaced, BestCopyWritten, LoseChunk
  PROVE  OutputPlaced' /\ BestCopyWritten'
<1>1. PICK k \in Nat : k = idx
  BY Numbers
<1> DEFINE c == Chosen(k).copy
<1>2. /\ InLoop /\ ~c.found /\ Write(<<>>) /\ idx' = idx + 1
      /\ lost_chunks' = Append(lost_chunks, k)
      /\ UNCHANGED <<image, pc, geom, tables, crc_flagged_chunks>>
  BY <1>1 DEF LoseChunk
<1>3. Writing
  BY <1>2 DEF InLoop, Writing
<1>4. /\ c.found <=> FoundCopies(k) # {}
      /\ c.found /\ c.clean <=> CleanCopies(k) # {}
  BY <1>3, ChosenBest
<1> HIDE DEF c
<1>5. FoundCopies(k) = {} /\ CleanCopies(k) = {}
  BY <1>2, <1>4
<1>6. NoCopy \in BestCopies(k) /\ NoCopy.bytes = <<>> /\ <<>> \in Seq(Byte)
  BY <1>5 DEF BestCopies, NoCopy
<1>7. PICK lost, flagged : lost = lost_chunks' /\ flagged = crc_flagged_chunks'
  OBVIOUS
<1>8. Ids(lost) = Ids(lost_chunks) \union (IF FoundCopies(k) = {} THEN {k} ELSE {})
  <2>1. lost_chunks \in Seq(Nat)
    BY Numbers
  <2>2. Ids(lost) = Ids(lost_chunks) \union {k}
    BY <1>2, <1>7, <2>1, IdsAppended
  <2> QED BY <1>5, <2>2
<1>9. Ids(flagged) = Ids(crc_flagged_chunks)
                       \union (IF FoundCopies(k) # {} /\ CleanCopies(k) = {} THEN {k} ELSE {})
  BY <1>2, <1>5, <1>7
<1> QED BY <1>1, <1>2, <1>6, <1>7, <1>8, <1>9, ChunkStep

\* A step that passes no chunk, and at most appends to the output.
LEMMA NoChunkStep ==
  ASSUME Inv, OutputPlaced, BestCopyWritten, Writing, pc' # "chunks" \/ out' = out,
         pc' \notin {"walk", "geometry"}, pc' = "chunks" => pc = "chunks",
         NEW w \in Seq(Byte), out' = out \o w,
         UNCHANGED <<image, geom, tables, idx, lost_chunks, crc_flagged_chunks>>
  PROVE  OutputPlaced' /\ BestCopyWritten'
<1>1. /\ ChunkSize \in Nat /\ geom.image_size \in Nat /\ idx \in Nat /\ out \in Seq(Byte) /\ Len(out) \in Nat
  BY Numbers
<1>2. Len(out') = Len(out) + Len(w) /\ Len(w) \in Nat
  BY <1>1, AppendedLen
<1>3. PICK e : e = SmallerOf(idx * ChunkSize, geom.image_size)
  OBVIOUS
<1>4. e \in Nat
  <2>1. idx * ChunkSize \in Nat
    BY <1>1
  <2> QED BY <1>1, <1>3, <2>1, SatTypes
<1>5. SmallerOf(idx * ChunkSize, geom.image_size)' = e
  BY <1>3, Zenon DEF SmallerOf, ChunkSize
<1>6. OutputPlaced'
  BY <1>1, <1>2, <1>3, <1>4, <1>5 DEF OutputPlaced
<1>7. ASSUME NEW i \in 0..idx - 1 PROVE WellRecovered(i)'
  <2>1. Ids(lost_chunks)' = Ids(lost_chunks) /\ Ids(crc_flagged_chunks)' = Ids(crc_flagged_chunks)
    BY Zenon DEF Ids
  <2> QED BY <2>1, StaysRecovered
<1>8. BestCopyWritten'
  BY <1>7 DEF BestCopyWritten
<1> QED BY <1>6, <1>8

LEMMA StepBest ==
  ASSUME Inv, OutputPlaced, BestCopyWritten, [Next]_vars
  PROVE  OutputPlaced' /\ BestCopyWritten'
<1>1. CASE RecoverChunk \/ LoseChunk
  BY <1>1, RecoverChunkBest, LoseChunkBest
<1>2. CASE FillTail
  <2> DEFINE w == Sized(<<>>, Logical)
  <2>1. /\ pc = "tail" /\ pc' = pc /\ Writing /\ out' = out \o w
        /\ UNCHANGED <<image, geom, tables, idx, lost_chunks, crc_flagged_chunks>>
    BY <1>2 DEF FillTail, Write, Writing
  <2>2. w \in Seq(Byte)
    <3>1. remaining \in Nat /\ ChunkSize \in Nat
      BY Numbers
    <3>2. Logical \in Nat
      BY <3>1, SatTypes DEF Logical
    <3>3. <<>> \in Seq(Byte)
      OBVIOUS
    <3> QED BY <3>2, <3>3, SizedType
  <2> HIDE DEF w
  <2> QED BY <2>1, <2>2, NoChunkStep
<1>3. CASE EndChunks \/ Finish
  <2>1. /\ Writing /\ pc' \in {"tail", "done"}
        /\ UNCHANGED <<image, geom, tables, idx, out, lost_chunks, crc_flagged_chunks>>
    BY <1>3 DEF EndChunks, Finish, Writing, counts
  <2>2. out' = out \o <<>> /\ <<>> \in Seq(Byte)
    BY <2>1, Numbers
  <2> QED BY <2>1, <2>2, NoChunkStep
<1>4. CASE Reject \/ BadGeometry \/ CreateFails \/ WriteFails
  <2>1. pc' = "failed"
    BY <1>4 DEF Reject, BadGeometry, CreateFails, WriteFails, Fail
  <2> QED BY <2>1 DEF OutputPlaced, BestCopyWritten, Writing
<1>5. CASE WalkShort \/ WalkDescriptor
  <2>1. pc = "walk" /\ pc' \in {"walk", "geometry"} /\ idx' = idx
    BY <1>5 DEF WalkShort, WalkDescriptor, EndWalk
  <2> QED BY <2>1 DEF OutputPlaced, BestCopyWritten, Writing
<1>6. CASE CreateOutput
  <2>1. pc = "geometry" /\ pc' = "chunks" /\ idx = 0 /\ idx' = 0 /\ out = <<>> /\ out' = <<>>
    BY <1>6 DEF CreateOutput, OutputPlaced, Inv, IInv
  <2>2. Inv'
    BY <1>6, CreateOutputInv
  <2>3. ChunkSize' \in Nat /\ geom'.image_size \in Nat
    BY <2>2 DEF Inv, IInv, TypeOK, ChunkSize
  <2>4. SmallerOf(idx * ChunkSize, geom.image_size)' = 0
    <3>1. PICK x \in Nat, y \in Nat : x = ChunkSize' /\ y = geom'.image_size
      BY <2>3
    <3>2. 0 * x = 0 /\ SmallerOf(0, y) = 0
      BY DEF SmallerOf
    <3>3. SmallerOf(idx * ChunkSize, geom.image_size)' = SmallerOf(idx' * x, y)
      BY <3>1, Zenon DEF SmallerOf
    <3> QED BY <2>1, <3>2, <3>3
  <2> QED BY <2>1, <2>4 DEF OutputPlaced, BestCopyWritten
<1>7. CASE UNCHANGED vars
  <2>1. /\ pc' = pc
        /\ UNCHANGED <<image, geom, tables, idx, out, lost_chunks, crc_flagged_chunks>>
    BY <1>7 DEF vars, counts
  <2>2. CASE Writing
    <3>1. out' = out \o <<>> /\ <<>> \in Seq(Byte) /\ pc \notin {"walk", "geometry"}
      BY <2>1, <2>2, Numbers DEF Writing
    <3> QED BY <2>1, <2>2, <3>1, NoChunkStep
  <2>3. CASE ~Writing
    BY <2>1, <2>3 DEF OutputPlaced, BestCopyWritten, Writing
  <2> QED BY <2>2, <2>3
<1> QED BY <1>1, <1>2, <1>3, <1>4, <1>5, <1>6, <1>7 DEF Next

----------------------------------------------------------------------------

LEMMA StepInv == ASSUME Inv, [Next]_vars PROVE Inv'
<1>1. CASE Reject \/ BadGeometry \/ CreateFails \/ WriteFails
  BY <1>1, FailInv DEF Reject, BadGeometry, CreateFails, WriteFails
<1>2. CASE WalkShort \/ WalkDescriptor \/ CreateOutput
  BY <1>2, WalkShortInv, WalkDescriptorInv, CreateOutputInv
<1>3. CASE RecoverChunk \/ LoseChunk \/ FillTail
  BY <1>3, RecoverChunkInv, LoseChunkInv, FillTailInv
<1>4. CASE EndChunks
  BY <1>4, MoveOnInv DEF EndChunks, Writing
<1>5. CASE Finish
  BY <1>5, MoveOnInv DEF Finish, Writing
<1>6. CASE UNCHANGED vars
  BY <1>6, StutterInv
<1> QED BY <1>1, <1>2, <1>3, <1>4, <1>5, <1>6 DEF Next

\* The invariant of recovery: whatever the image holds and whenever the output
\* fails, the counters account for every byte and chunk written so far.
THEOREM Inductive == SafetySpec => []IInv
<1>1. Inv => IInv
  BY DEF Inv
<1> QED BY InitInv, StepInv, <1>1, PTL DEF SafetySpec

\* Type correctness; no counter ever underflows.
THEOREM TypeCorrect == SafetySpec => []TypeOK
<1>1. IInv => TypeOK
  BY DEF IInv
<1> QED BY <1>1, Inductive, PTL

\* bytes_recovered and bytes_zero_filled account for every byte of the output.
THEOREM AccountsForBytes == SafetySpec => []BytesAccounted
<1>1. IInv => BytesAccounted
  BY DEF IInv
<1> QED BY <1>1, Inductive, PTL

\* Every chunk passed is counted once, and the lists name the lost and the flagged
\* ones.
THEOREM AccountsForChunks == SafetySpec => []ChunksAccounted
<1>1. IInv => ChunksAccounted
  BY DEF IInv
<1> QED BY <1>1, Inductive, PTL

\* A report is only returned with an output of exactly the image's length.
THEOREM OutputIsExact == SafetySpec => []OutputExact
<1>1. IInv => OutputExact
  BY DEF IInv, OutputExact, BytesAccounted, TypeOK, Writing
<1> QED BY <1>1, Inductive, PTL

\* No good copy is passed over, on any damaged image: a chunk is lost only when
\* neither table yields bytes, flagged only when neither yields clean ones, and its
\* place in the output holds one of the best copies.
THEOREM WritesBestCopies == SafetySpec => []BestCopyWritten
<1> DEFINE J == Inv /\ OutputPlaced /\ BestCopyWritten
<1>1. Init => J
  <2> SUFFICES ASSUME Init PROVE J
    OBVIOUS
  <2>1. OutputPlaced /\ BestCopyWritten
    BY DEF Init, OutputPlaced, BestCopyWritten, Writing
  <2> QED BY <2>1, InitInv
<1>2. J /\ [Next]_vars => J'
  BY StepInv, StepBest
<1>3. J => BestCopyWritten
  OBVIOUS
<1> HIDE DEF J
<1> QED BY <1>1, <1>2, <1>3, PTL DEF SafetySpec
=============================================================================
