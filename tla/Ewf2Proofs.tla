----------------------------- MODULE Ewf2Proofs -----------------------------
(***************************************************************************)
(* Ewf2's safety properties for every image: the lists of descriptors may  *)
(* be of any length, and the sizes and counts in them anything.            *)
(***************************************************************************)
EXTENDS Ewf2, WellFoundedInduction, TLAPS

\* A non-empty set of naturals has a least member.
LEMMA Least ==
  ASSUME NEW T, T \subseteq Nat, T # {}
  PROVE  \E i \in T : \A j \in T : i <= j
<1> DEFINE R == OpToRel(<, Nat)
<1>1. PICK x \in T : \A y \in T : ~(<<y, x>> \in R)
  <2>1. IsWellFoundedOn(R, Nat)
    BY NatLessThanWellFounded
  <2> HIDE DEF R
  <2> QED BY <2>1, WFMin
<1>2. \A a, b \in Nat : a < b => <<a, b>> \in R
  BY DEF OpToRel
<1> HIDE DEF R
<1>3. \A y \in T : ~(y < x)
  BY <1>1, <1>2
<1> QED BY <1>3

----------------------------------------------------------------------------
(* The list of a segment.                                                  *)

End(s) == Len(s.bytes) - DescriptorSize

\* A descriptor links to a lower offset.
Lower(s, z) == s.at[z].prev # 0 /\ s.at[z].prev < z

\* S holds the last descriptor, and what a descriptor in it links to.
Follows(s, S) ==
  /\ End(s) \in S
  /\ \A z \in S \cap (0..End(s)) : Lower(s, z) => s.at[z].prev \in S

\* o is the end of the list, or some higher offset of C links to it.
MetFrom(s, C, o) ==
  o = End(s) \/ (o # 0 /\ \E z \in o + 1..End(s) : s.at[z].prev = o /\ z \in C)

LEMMA SegmentFacts ==
  ASSUME NEW s, IsSegment(s)
  PROVE  /\ Len(s.bytes) \in Nat /\ End(s) \in Int
         /\ s.bytes \in Seq(Byte) /\ Len(s.bytes) < OffsetBit
         /\ s.number \in Nat /\ s.method \in Nat
         /\ \A o \in 0..End(s) : s.at[o] \in Descriptor
         /\ \A o \in 0..End(s) :
              Len(s.at[o].entries) = EntriesBetween(BodyStart(o, s.at[o]), Len(s.bytes))
BY SizesAssumption DEF IsSegment, End

LEMMA DescriptorFacts ==
  ASSUME NEW d \in Descriptor
  PROVE  /\ d.type \in Nat /\ d.encrypted \in BOOLEAN /\ d.prev \in Nat /\ d.size \in Nat
         /\ d.count \in Nat /\ d.high \in Nat /\ d.entries \in Seq(TableEntry)
         /\ d.digest \in Seq(Byte)
         /\ {d.b, d.sc, d.ts} \subseteq Nat \union {None}
BY DEF Descriptor

\* What is in every set that follows the links satisfies the equation of Listed.
LEMMA LeastMet ==
  ASSUME NEW s, IsSegment(s), End(s) \in 0..End(s),
         NEW C, C = {o \in 0..End(s) : \A S : Follows(s, S) => o \in S}
  PROVE  \A o \in 0..End(s) : o \in C <=> MetFrom(s, C, o)
<1>0. \A z \in 0..End(s) : s.at[z].prev \in Nat
  BY SegmentFacts, DescriptorFacts
<1>1. Follows(s, C)
  BY <1>0, SegmentFacts DEF Follows, Lower
<1>2. ASSUME NEW o \in 0..End(s), MetFrom(s, C, o)
      PROVE  o \in C
  BY <1>1, <1>2, SegmentFacts DEF Follows, MetFrom, Lower
<1>3. ASSUME NEW o \in 0..End(s), o \in C, ~MetFrom(s, C, o)
      PROVE  FALSE
  <2>1. Follows(s, C \ {o})
    BY <1>0, <1>1, <1>3, SegmentFacts DEF Follows, MetFrom, Lower
  <2> QED BY <2>1, <1>3
<1> QED BY <1>2, <1>3

LEMMA ListedIs ==
  ASSUME NEW s, IsSegment(s)
  PROVE  /\ Listed(s) \subseteq 0..End(s)
         /\ \A o \in 0..End(s) : o \in Listed(s) <=> MetFrom(s, Listed(s), o)
<1> DEFINE end == End(s)
           Eqn(f) == f = [o \in 0..end |->
                      o = end \/ (o # 0 /\ \E z \in o + 1..end : s.at[z].prev = o /\ f[z])]
           met == CHOOSE f : Eqn(f)
<1>1. Listed(s) = {o \in 0..end : met[o]}
  BY DEF Listed, End
<1>2. CASE End(s) \notin 0..End(s)
  BY <1>1, <1>2, SegmentFacts
<1>3. CASE End(s) \in 0..End(s)
  <2> DEFINE C == {o \in 0..End(s) : \A S : Follows(s, S) => o \in S}
             f == [o \in 0..end |-> o \in C]
  <2>1. \A o \in 0..End(s) : o \in C <=> MetFrom(s, C, o)
    BY <1>3, LeastMet
  <2>2. Eqn(f)
    <3> HIDE DEF C
    <3>1. ASSUME NEW o \in 0..end
          PROVE  f[o] = (o = end \/ (o # 0 /\ \E z \in o + 1..end : s.at[z].prev = o /\ f[z]))
      <4>1. \A z \in o + 1..end : z \in 0..end
        BY SegmentFacts
      <4>2. f[o] = (o \in C) /\ (o \in C <=> MetFrom(s, C, o))
        BY <2>1
      <4>3. \A z \in o + 1..end : f[z] <=> z \in C
        BY <4>1
      <4>4. MetFrom(s, C, o) <=> (o = end \/ (o # 0 /\ \E z \in o + 1..end : s.at[z].prev = o /\ f[z]))
        <5> HIDE DEF f
        <5> QED BY <4>3 DEF MetFrom
      <4> HIDE DEF f
      <4> QED BY <4>2, <4>4
    <3> QED BY <3>1, Zenon
  <2>3. Eqn(met)
    <3> HIDE DEF f
    <3> QED BY <2>2, Zenon
  <2> HIDE DEF met
  <2>4. ASSUME NEW o \in 0..end
        PROVE  met[o] = (o = end \/ (o # 0 /\ \E z \in o + 1..end : s.at[z].prev = o /\ met[z]))
    BY <2>3, Zenon
  <2>5. ASSUME NEW o \in 0..end
        PROVE  o \in Listed(s) <=> MetFrom(s, Listed(s), o)
    <3>1. \A z \in o + 1..end : z \in 0..end
      BY SegmentFacts
    <3>2. o \in Listed(s) <=> met[o]
      BY <1>1
    <3>3. \A z \in o + 1..end : z \in Listed(s) <=> met[z]
      BY <1>1, <3>1
    <3>4. MetFrom(s, Listed(s), o) <=>
            (o = end \/ (o # 0 /\ \E z \in o + 1..end : s.at[z].prev = o /\ met[z]))
      BY <3>3 DEF MetFrom
    <3> QED BY <2>4, <3>2, <3>4
  <2> QED BY <2>5, <1>1
<1> QED BY <1>2, <1>3

\* The list starts at the end of the file and goes on where a link goes down.
LEMMA ListedFollows ==
  ASSUME NEW s, IsSegment(s)
  PROVE  /\ End(s) >= 0 => End(s) \in Listed(s)
         /\ \A z \in Listed(s) : /\ z \in 0..End(s) /\ s.at[z] \in Descriptor
                                 /\ Lower(s, z) => s.at[z].prev \in Listed(s)
<1>1. End(s) >= 0 => End(s) \in Listed(s)
  BY ListedIs, SegmentFacts DEF MetFrom
<1>2. ASSUME NEW z \in Listed(s)
      PROVE  z \in 0..End(s) /\ s.at[z] \in Descriptor
  BY ListedIs, SegmentFacts
<1>3. ASSUME NEW z \in Listed(s), Lower(s, z)
      PROVE  s.at[z].prev \in Listed(s)
  <2>1. s.at[z].prev \in 0..End(s) /\ z \in s.at[z].prev + 1..End(s)
    BY <1>2, <1>3, DescriptorFacts, SegmentFacts DEF Lower
  <2> QED BY <2>1, <1>3, ListedIs DEF MetFrom, Lower
<1> QED BY <1>1, <1>2, <1>3

\* ... and nowhere else.
LEMMA ListedLeast ==
  ASSUME NEW s, IsSegment(s), NEW S, End(s) >= 0 => End(s) \in S,
         \A z \in S \cap Listed(s) : Lower(s, z) => s.at[z].prev \in S
  PROVE  Listed(s) \subseteq S
<1> SUFFICES ASSUME NEW o \in Listed(s), o \notin S
             PROVE  FALSE
  OBVIOUS
<1>0. Listed(s) \subseteq 0..End(s) /\ End(s) \in Int
  BY ListedIs, SegmentFacts
<1> DEFINE Bad == {n \in Nat : End(s) - n \in Listed(s) \ S}
<1>1. End(s) - o \in Bad
  BY <1>0
<1>2. PICK n \in Bad : \A k \in Bad : n <= k
  <2>1. Bad \subseteq Nat /\ Bad # {}
    BY <1>1
  <2> HIDE DEF Bad
  <2> QED BY <2>1, Least
<1> DEFINE q == End(s) - n
<1>3. q \in Listed(s) /\ q \notin S /\ q \in 0..End(s)
  BY <1>2, <1>0
<1>4. q # End(s)
  BY <1>3, <1>0
<1>5. PICK z \in q + 1..End(s) : s.at[z].prev = q /\ z \in Listed(s) /\ q # 0
  BY <1>3, <1>4, ListedIs DEF MetFrom
<1>6. z \in S
  <2>1. CASE z \notin S
    <3>1. End(s) - z \in Bad
      BY <1>0, <1>5, <2>1
    <3> QED BY <3>1, <1>2, <1>0, <1>5
  <2> QED BY <2>1
<1>7. Lower(s, z)
  BY <1>5, <1>0, <1>3 DEF Lower
<1> QED BY <1>5, <1>6, <1>7, <1>3

----------------------------------------------------------------------------
(* Arithmetic of the tables.                                               *)

LEMMA Quotients ==
  ASSUME NEW a \in Nat, NEW b \in Nat, NEW c \in Nat \ {0}
  PROVE  a \div c \in Nat /\ (a <= b => a \div c <= b \div c)
BY SMTT(30)

\* A longer stretch holds at least as many entries.
LEMMA EntriesGrow ==
  ASSUME NEW start \in Nat, NEW a \in Nat, NEW b \in Nat, a <= b
  PROVE  /\ EntriesBetween(start, a) \in Nat /\ EntriesBetween(start, b) \in Nat
         /\ EntriesBetween(start, a) <= EntriesBetween(start, b)
<1>1. SatSub(a, start + TableHeaderSize) \in Nat /\ SatSub(b, start + TableHeaderSize) \in Nat
  BY SizesAssumption DEF SatSub
<1>2. SatSub(a, start + TableHeaderSize) <= SatSub(b, start + TableHeaderSize)
  BY SizesAssumption DEF SatSub
<1>3. EntrySize \in Nat \ {0}
  BY SizesAssumption
<1> QED BY <1>1, <1>2, <1>3, Quotients DEF EntriesBetween

LEMMA BodyStartFacts ==
  ASSUME NEW o \in Nat, NEW d \in Descriptor
  PROVE  BodyStart(o, d) \in Nat /\ BodyStart(o, d) <= o /\ (d.size <= o => BodyStart(o, d) = o - d.size)
BY DescriptorFacts DEF BodyStart, SatSub

\* The entries that lie in a table's body are entries the file holds.
LEMMA EntriesHeld ==
  ASSUME NEW s, IsSegment(s), NEW o \in 0..End(s),
         NEW i \in Nat \ {0}, i <= EntriesBetween(BodyStart(o, s.at[o]), o)
  PROVE  /\ i \in DOMAIN s.at[o].entries /\ s.at[o].entries[i] \in TableEntry
<1>1. s.at[o] \in Descriptor /\ o <= Len(s.bytes) /\ o \in Nat /\ Len(s.bytes) \in Nat
  BY SegmentFacts, SizesAssumption DEF End
<1>2. i <= EntriesBetween(BodyStart(o, s.at[o]), Len(s.bytes))
  <2>1. PICK b \in Nat : b = BodyStart(o, s.at[o])
    BY <1>1, BodyStartFacts
  <2>2. /\ EntriesBetween(b, o) \in Nat /\ EntriesBetween(b, Len(s.bytes)) \in Nat
        /\ EntriesBetween(b, o) <= EntriesBetween(b, Len(s.bytes))
    BY <1>1, EntriesGrow
  <2> QED BY <2>1, <2>2
<1>3. i <= Len(s.at[o].entries)
  BY <1>2, SegmentFacts
<1> QED BY <1>1, <1>3, DescriptorFacts

LEMMA EntryFacts ==
  ASSUME NEW e \in TableEntry
  PROVE  /\ e.comp \in BOOLEAN /\ e.off \in Nat /\ e.size \in Nat /\ e.size < SizeModulus
         /\ SatSub(e.size, CrcSize) \in Nat /\ SatSub(e.size, CrcSize) <= e.size
BY SizesAssumption, WidthAssumption DEF TableEntry, SatSub

----------------------------------------------------------------------------
(* The analysis, on any image.                                             *)

Digests == SUBSET Seq(Byte)
Hashes == [md5 : Digests, sha1 : Digests, sha256 : Digests]
FoundType == [hash : BOOLEAN, media : BOOLEAN, table : Nat \union {None}, stored : Hashes]

InSegment == step \in {"walk", "walked", "chunks"}

\* The walk stays on the list of its segment, and the table it has found is on it.
CheckSound ==
  /\ image \in Images
  /\ step \in {"segment", "walk", "walked", "chunks", "done"} /\ pass \in {"analyse", "compute"}
  /\ cur \in 1..Len(image) + 1
  /\ InSegment => cur \in DOMAIN image
  /\ step = "walk" => desc_offset \in Listed(image[cur])
  /\ found \in FoundType /\ final \in Hashes
  /\ InSegment => found.table = None \/ found.table \in TablesOf(cur)
  /\ step = "chunks" => HasTable
  /\ entry \in Nat \ {0}

LEMMA ImageFacts ==
  ASSUME NEW img \in Images
  PROVE  /\ Len(img) \in Nat /\ DOMAIN img = 1..Len(img) /\ \A s \in DOMAIN img : IsSegment(img[s])
         /\ img # <<>> => Len(img) # 0
<1>1. Len(img) \in Nat /\ img = [s \in 1..Len(img) |-> img[s]] /\ \A s \in DOMAIN img : IsSegment(img[s])
  BY ImagesAssumption
<1>2. DOMAIN img = 1..Len(img)
  BY <1>1, Zenon
<1>3. ASSUME Len(img) = 0 PROVE img = <<>>
  <2>1. img \in [1..0 -> {}]
    BY <1>1, <1>3
  <2> QED BY <2>1
<1> QED BY <1>1, <1>2, <1>3

LEMMA CheckSoundInit ==
  ASSUME Init
  PROVE  CheckSound
BY ImageFacts DEF Init, OpenInit, CheckInit, CheckSound, InSegment, FoundType, Hashes, Digests, Nothing, NoHashes

\* What the walk is at.
LEMMA WalkFacts ==
  ASSUME CheckSound, step = "walk"
  PROVE  /\ IsSegment(image[cur]) /\ desc_offset \in 0..End(image[cur]) /\ desc_offset \in Nat
         /\ image[cur].at[desc_offset] \in Descriptor
<1>1. IsSegment(image[cur]) /\ desc_offset \in Listed(image[cur])
  BY ImageFacts DEF CheckSound, InSegment
<1> QED BY <1>1, ListedFollows, SegmentFacts

LEMMA NotedType ==
  ASSUME CheckSound, step = "walk", NEW d, d = image[cur].at[desc_offset]
  PROVE  /\ Noted(d) \in FoundType
         /\ Noted(d).table = found.table \/ (Noted(d).table = desc_offset /\ d.type = SectorTable)
<1>1. d.digest \in Seq(Byte) /\ desc_offset \in Nat
  BY WalkFacts, DescriptorFacts
<1>2. found \in FoundType
  BY DEF CheckSound
<1>3. CASE d.encrypted
  BY <1>3, <1>2 DEF Noted
<1>4. CASE ~d.encrypted /\ d.type = CaseData
  <2>1. Noted(d) = [found EXCEPT !.media = TRUE]
    BY <1>4 DEF Noted, SectorTable, CaseData, HashTypes, Md5Hash, Sha1Hash, Sha256Hash
  <2> QED BY <2>1, <1>2 DEF FoundType
<1>5. CASE ~d.encrypted /\ d.type = SectorTable
  <2>1. d.type # CaseData
    BY <1>5 DEF SectorTable, CaseData
  <2>2. Noted(d) = [found EXCEPT !.table = desc_offset]
    BY <1>5, <2>1 DEF Noted, SectorTable, CaseData, HashTypes, Md5Hash, Sha1Hash, Sha256Hash
  <2> QED BY <2>2, <1>1, <1>2, <1>5 DEF FoundType
<1>6. CASE ~d.encrypted /\ d.type \in HashTypes
  <2> DEFINE f == HashField(d.type)
             new == IF d.size >= f.size THEN {d.digest} ELSE found.stored[f.name]
  <2>1. f.name \in {"md5", "sha1", "sha256"}
    BY DEF HashField
  <2>2. Noted(d) = [found EXCEPT !.hash = TRUE, !.stored[f.name] = new]
    BY <1>6 DEF Noted, HashTypes, SectorTable, CaseData, Md5Hash, Sha1Hash, Sha256Hash
  <2>3. found.stored \in Hashes
    BY <1>2 DEF FoundType
  <2>4. new \in Digests
    BY <1>1, <2>1, <2>3 DEF Hashes, Digests
  <2> HIDE DEF new, f
  <2>5. [found.stored EXCEPT ![f.name] = new] \in Hashes
    BY <2>1, <2>3, <2>4 DEF Hashes
  <2>6. Noted(d) = [found EXCEPT !.hash = TRUE, !.stored = [found.stored EXCEPT ![f.name] = new]]
    BY <2>2, <1>2, Zenon DEF FoundType
  <2> QED BY <2>6, <2>5, <1>2 DEF FoundType
<1>7. CASE ~d.encrypted /\ d.type \notin HashTypes \union {CaseData, SectorTable}
  BY <1>7, <1>2 DEF Noted
<1> QED BY <1>3, <1>4, <1>5, <1>6, <1>7

LEMMA CheckSoundWalk ==
  ASSUME CheckSound, WalkDescriptor2, UNCHANGED image
  PROVE  CheckSound'
<1> DEFINE d == image[cur].at[desc_offset]
<1>1. /\ step = "walk" /\ found' = Noted(d)
      /\ UNCHANGED <<image, pass, cur, final, entry>>
      /\ \/ StrictlyDescends(d.prev) /\ desc_offset' = d.prev /\ step' = step
         \/ step' = "walked" /\ desc_offset' = desc_offset
  BY DEF WalkDescriptor2
<1>2. /\ IsSegment(image[cur]) /\ desc_offset \in Listed(image[cur])
      /\ d \in Descriptor
  BY <1>1, WalkFacts DEF CheckSound
<1>3. Noted(d) \in FoundType /\ (Noted(d).table = found.table \/ (Noted(d).table = desc_offset /\ d.type = SectorTable))
  <2> HIDE DEF d
  <2>1. d = image[cur].at[desc_offset]
    BY DEF d
  <2> QED BY <1>1, <2>1, NotedType
<1>4. StrictlyDescends(d.prev) => d.prev \in Listed(image[cur])
  BY <1>2, ListedFollows DEF StrictlyDescends, Lower
<1>5. TablesOf(cur)' = TablesOf(cur)
  BY <1>1 DEF TablesOf
<1>6. found'.table = None \/ found'.table \in TablesOf(cur)
  BY <1>1, <1>2, <1>3 DEF CheckSound, InSegment, TablesOf
<1>7. step' = "walk" => desc_offset' \in Listed(image[cur])
  BY <1>1, <1>4
<1> HIDE DEF d
<1> QED BY <1>1, <1>3, <1>5, <1>6, <1>7 DEF CheckSound, InSegment

LEMMA CheckSoundStep ==
  ASSUME CheckSound, Next
  PROVE  CheckSound'
<1> DEFINE Kept == UNCHANGED <<image, final>>
<1>0. CASE Open
  BY <1>0 DEF Open, checkVars, CheckSound, InSegment, HasTable, TableLen, TableStart, Table, TablesOf
<1> SUFFICES ASSUME CheckNext, UNCHANGED image
             PROVE  CheckSound'
  BY <1>0 DEF Next, Check
<1>g. Len(image) \in Nat /\ DOMAIN image = 1..Len(image) /\ \A s \in DOMAIN image : IsSegment(image[s])
  BY ImageFacts DEF CheckSound
<1>1. CASE ShortSegment
  BY <1>1, <1>g DEF ShortSegment, NextUp, CheckSound, InSegment
<1>2. CASE OpenSegment
  <2>1. /\ cur \in DOMAIN image /\ step' = "walk" /\ desc_offset' = End(image[cur]) /\ found' = Nothing
        /\ ~TooShort /\ UNCHANGED <<pass, cur, final, entry>>
    BY <1>2, <1>g DEF OpenSegment, CheckSound, End, DataLen, Data
  <2>2. End(image[cur]) \in Listed(image[cur])
    BY <2>1, <1>g, ListedFollows, SegmentFacts, SizesAssumption DEF End, TooShort, DataLen, Data
  <2>3. Nothing \in FoundType /\ Nothing.table = None
    BY DEF Nothing, FoundType, Hashes, Digests, NoHashes
  <2> QED BY <2>1, <2>2, <2>3 DEF CheckSound, InSegment
<1>3. CASE WalkDescriptor2
  BY <1>3, CheckSoundWalk
<1>4. CASE WalkEnds
  BY <1>4 DEF WalkEnds, CheckSound, InSegment, TablesOf
<1>5. CASE CloseSegment
  <2>1. final' \in Hashes
    BY <1>5 DEF CloseSegment, CheckSound, FoundType
  <2>2. cur \in DOMAIN image /\ (found.table = None \/ found.table \in TablesOf(cur))
    BY <1>5 DEF CloseSegment, CheckSound, InSegment
  <2>3. CASE HasTable
    <3>1. /\ step' = "chunks" /\ entry' = 1 /\ UNCHANGED <<pass, cur, desc_offset, found>>
      BY <1>5, <2>3 DEF CloseSegment
    <3>2. HasTable' /\ TablesOf(cur)' = TablesOf(cur)
      BY <2>3, <3>1 DEF HasTable, TableLen, TableStart, Table, TablesOf
    <3> QED BY <2>1, <2>2, <3>1, <3>2 DEF CheckSound, InSegment
  <2>4. CASE ~HasTable
    <3>1. /\ step' = "segment" /\ cur' = cur + 1 /\ entry' = 1 /\ UNCHANGED <<pass, desc_offset, found>>
      BY <1>5, <2>4 DEF CloseSegment, NextUp
    <3> QED BY <2>1, <2>2, <3>1, <1>g DEF CheckSound, InSegment
  <2> QED BY <2>3, <2>4
<1>6. CASE CheckChunk
  <2>1. /\ step = "chunks" /\ entry' = entry + 1
        /\ UNCHANGED <<step, pass, cur, desc_offset, found, final>>
    BY <1>6 DEF CheckChunk
  <2>2. HasTable' = HasTable /\ TablesOf(cur)' = TablesOf(cur)
    BY <2>1 DEF HasTable, TableLen, TableStart, Table, TablesOf
  <2> QED BY <2>1, <2>2 DEF CheckSound, InSegment
<1>7. CASE ChunksEnd
  BY <1>7, <1>g DEF ChunksEnd, NextUp, CheckSound, InSegment
<1>8. CASE StartHashing
  BY <1>8, <1>g DEF StartHashing, CheckSound, InSegment
<1>9. CASE CompareHashes
  BY <1>9 DEF CompareHashes, CheckSound, InSegment
<1> QED BY <1>1, <1>2, <1>3, <1>4, <1>5, <1>6, <1>7, <1>8, <1>9 DEF CheckNext

LEMMA CheckSoundStutters ==
  ASSUME CheckSound, UNCHANGED vars
  PROVE  CheckSound'
BY DEF vars, checkVars, CheckSound, InSegment, HasTable, TableLen, TableStart, Table, TablesOf

LEMMA SlicesFit ==
  ASSUME CheckSound
  PROVE  SlicesInBounds
<1> SUFFICES ASSUME step = "walk", ~Outside(desc_offset)
             PROVE  LET d == image[cur].at[desc_offset]
                    IN  d.type \in HashTypes /\ ~d.encrypted /\ d.size >= HashField(d.type).size =>
                          desc_offset - BodyStart(desc_offset, d) >= HashField(d.type).size
  BY DEF SlicesInBounds
<1> DEFINE d == image[cur].at[desc_offset]
<1>1. d \in Descriptor /\ desc_offset \in Nat
  BY WalkFacts
<1>2. HashField(d.type).size \in Nat /\ HashField(d.type).size <= HeaderSize
  BY SizesAssumption DEF HashField
<1>3. desc_offset >= HeaderSize /\ HeaderSize \in Nat /\ d.size \in Nat
  BY <1>1, WalkFacts, DescriptorFacts, SizesAssumption DEF Outside, DataLen, Data, End, IsSegment
<1> HIDE DEF d
<1>4. d.size >= HashField(d.type).size => desc_offset - BodyStart(desc_offset, d) >= HashField(d.type).size
  BY <1>1, <1>2, <1>3 DEF BodyStart, SatSub
<1> QED BY <1>4 DEF d

\* No image makes compute or analysis slice a hash section's body past its end: the
\* walk's lower bound is enough for every data_size a file can hold.
THEOREM HashSlicesFit == Spec => []SlicesInBounds
<1>1. Init => CheckSound
  BY CheckSoundInit
<1>2. CheckSound /\ [Next]_vars => CheckSound'
  BY CheckSoundStep, CheckSoundStutters
<1>3. CheckSound => SlicesInBounds
  BY SlicesFit
<1> QED BY <1>1, <1>2, <1>3, PTL DEF Spec

----------------------------------------------------------------------------
(* Progress.                                                               *)

AllIntact == \A s \in DOMAIN image : Intact(s)

\* Between two chunks the last call was about the chunk before; at any other time
\* the calls of the last segment that made some have come to its total.
ProgressSound ==
  issues = {} /\ AllIntact =>
    \/ progress.chunks_done = progress.chunks_total /\ (step = "chunks" /\ Analysing => entry = 1)
    \/ /\ step = "chunks" /\ Analysing
       /\ progress.chunks_done = entry - 1 /\ progress.chunks_total = ChunkCount
       /\ entry <= ChunkCount + 1

\* The table of an intact segment: as many entries as its count says lie in its
\* body, and the data of each in the file.
LEMMA TableFacts ==
  ASSUME NEW s, s \in DOMAIN image, IsSegment(image[s]), Intact(s),
         NEW o \in TablesOf(s), NEW d, d = image[s].at[o]
  PROVE  /\ d \in Descriptor /\ o \in 0..End(image[s]) /\ o \in Nat /\ d.type = SectorTable
         /\ BodyStart(o, d) = o - d.size /\ d.high = 0 /\ d.size <= o
         /\ d.count <= EntriesBetween(BodyStart(o, d), o)
         /\ EntriesBetween(BodyStart(o, d), o) \in Nat
         /\ \A i \in 1..d.count : /\ i \in DOMAIN d.entries /\ d.entries[i] \in TableEntry
                                  /\ d.entries[i].off + d.entries[i].size <= Len(image[s].bytes)
<1>1. /\ o \in Listed(image[s]) /\ d.type = SectorTable
      /\ d.size <= o /\ d.high = 0 /\ d.count <= EntriesBetween(o - d.size, o)
      /\ \A i \in 1..d.count : d.entries[i].off + d.entries[i].size <= Len(image[s].bytes)
  BY DEF Intact, TablesOf
<1>2. d \in Descriptor /\ o \in 0..End(image[s]) /\ o \in Nat
  BY <1>1, ListedFollows, SegmentFacts
<1>3. BodyStart(o, d) = o - d.size /\ BodyStart(o, d) \in Nat /\ d.count \in Nat
  BY <1>1, <1>2, BodyStartFacts, DescriptorFacts
<1>4. EntriesBetween(BodyStart(o, d), o) \in Nat /\ d.count <= EntriesBetween(BodyStart(o, d), o)
  BY <1>1, <1>2, <1>3, EntriesGrow
<1>5. ASSUME NEW i \in 1..d.count
      PROVE  i \in DOMAIN d.entries /\ d.entries[i] \in TableEntry
  BY <1>2, <1>3, <1>4, EntriesHeld
<1> QED BY <1>1, <1>2, <1>3, <1>4, <1>5

\* In an intact segment every entry that the count covers can be read.
LEMMA IntactReadable ==
  ASSUME CheckSound, step = "chunks", Intact(cur)
  PROVE  /\ ChunkCount = Table.count /\ ChunkCount \in Nat
         /\ EntryReadable <=> entry <= ChunkCount
         /\ entry <= ChunkCount => Entry \in TableEntry /\ Entry.off + Entry.size <= DataLen
<1>1. cur \in DOMAIN image /\ IsSegment(image[cur]) /\ entry \in Nat \ {0} /\ found.table \in TablesOf(cur)
  BY ImageFacts DEF CheckSound, InSegment, HasTable
<1> DEFINE d == Table
           o == found.table
<1>2. d = image[cur].at[o]
  BY DEF Table
<1> HIDE DEF d, o
<1>3. /\ d \in Descriptor /\ o \in Nat /\ d.high = 0
      /\ d.count <= EntriesBetween(BodyStart(o, d), o) /\ EntriesBetween(BodyStart(o, d), o) \in Nat
      /\ \A i \in 1..d.count : /\ i \in DOMAIN d.entries /\ d.entries[i] \in TableEntry
                               /\ d.entries[i].off + d.entries[i].size <= Len(image[cur].bytes)
  BY <1>1, <1>2, TableFacts DEF o
<1>4. d.count \in Nat /\ Len(image[cur].bytes) \in Nat
  BY <1>1, <1>3, DescriptorFacts, SegmentFacts
<1>5. ChunkCount = d.count
  BY <1>3, <1>4, SizesAssumption DEF ChunkCount, d
<1>6. ASSUME entry <= d.count
      PROVE  /\ Entry \in TableEntry /\ Entry.off + Entry.size <= DataLen
             /\ Entry.off + RawSize <= DataLen
  <2>1. Entry = d.entries[entry] /\ entry \in 1..d.count
    BY <1>1, <1>4, <1>6 DEF Entry, d
  <2>2. Entry \in TableEntry /\ Entry.off + Entry.size <= DataLen
    BY <2>1, <1>3 DEF DataLen, Data
  <2> QED BY <2>2, <1>4, EntryFacts DEF RawSize, DataLen, Data
<1>7. EntryReadable <=> entry <= d.count
  BY <1>1, <1>3, <1>4, <1>5, <1>6 DEF EntryReadable, TableStart, d, o
<1> QED BY <1>4, <1>5, <1>6, <1>7 DEF d

LEMMA ProgressSoundStep ==
  ASSUME CheckSound, ProgressSound, Next
  PROVE  ProgressSound'
<1>0. CASE Open
  BY <1>0 DEF Open, checkVars, ProgressSound, AllIntact, Intact, TablesOf, Analysing, ChunkCount, Table
<1> SUFFICES ASSUME CheckNext, UNCHANGED image, (issues = {})', AllIntact
             PROVE  \/ /\ progress'.chunks_done = progress'.chunks_total
                       /\ (step = "chunks" /\ Analysing)' => entry' = 1
                    \/ /\ (step = "chunks" /\ Analysing)'
                       /\ progress'.chunks_done = entry' - 1 /\ progress'.chunks_total = ChunkCount'
                       /\ entry' <= ChunkCount' + 1
  <2>1. UNCHANGED image => AllIntact' = AllIntact
    BY DEF AllIntact, Intact, TablesOf
  <2> QED BY <1>0, <2>1 DEF Next, Check, ProgressSound
<1>1. issues = {}
  BY DEF CheckNext, ShortSegment, OpenSegment, WalkDescriptor2, WalkEnds, CloseSegment, CheckChunk,
         ChunksEnd, StartHashing, CompareHashes
<1>2. \/ progress.chunks_done = progress.chunks_total /\ (step = "chunks" /\ Analysing => entry = 1)
      \/ /\ step = "chunks" /\ Analysing
         /\ progress.chunks_done = entry - 1 /\ progress.chunks_total = ChunkCount
         /\ entry <= ChunkCount + 1
  BY <1>1 DEF ProgressSound
<1>3. CASE ShortSegment \/ OpenSegment \/ WalkDescriptor2 \/ WalkEnds \/ StartHashing \/ CompareHashes
  BY <1>2, <1>3 DEF ShortSegment, OpenSegment, WalkDescriptor2, WalkEnds, StartHashing, CompareHashes,
                    NextUp
<1>4. CASE CloseSegment
  BY <1>2, <1>4 DEF CloseSegment, NextUp
<1>5. CASE CheckChunk
  <2>0. step = "chunks" /\ Intact(cur) /\ entry \in Nat \ {0}
    BY <1>5 DEF CheckChunk, CheckSound, InSegment, AllIntact
  <2>1. EntryReadable /\ entry' = entry + 1 /\ UNCHANGED <<step, pass, cur, found>>
    BY <1>5 DEF CheckChunk
  <2>2. ChunkCount' = ChunkCount /\ Analysing' = Analysing
    BY <2>1 DEF ChunkCount, Table, Analysing
  <2>3. CASE Analysing
    <3>1. Unpacked.ok
      BY <1>5, <2>3 DEF CheckChunk, Report
    <3>2. progress' = [chunks_done |-> entry, chunks_total |-> ChunkCount, bytes_done |-> entry * RawSize]
      BY <1>5, <2>3, <3>1 DEF CheckChunk, Delivered
    <3>3. entry <= ChunkCount /\ ChunkCount \in Nat
      BY <2>0, <2>1, IntactReadable
    <3> QED BY <2>0, <2>1, <2>2, <2>3, <3>2, <3>3
  <2>4. CASE ~Analysing
    <3>1. progress' = progress
      BY <1>5, <2>4 DEF CheckChunk, Delivered
    <3> QED BY <1>2, <2>2, <2>4, <3>1
  <2> QED BY <2>3, <2>4
<1>6. CASE ChunksEnd
  <2>0. step = "chunks" /\ Intact(cur) /\ entry \in Nat \ {0}
    BY <1>6 DEF ChunksEnd, CheckSound, InSegment, AllIntact
  <2>1. ~(entry <= ChunkCount) /\ ChunkCount \in Nat
    BY <1>6, <2>0, IntactReadable DEF ChunksEnd
  <2>2. progress.chunks_done = progress.chunks_total
    BY <1>2, <2>0, <2>1
  <2> QED BY <1>6, <2>2 DEF ChunksEnd, NextUp
<1> QED BY <1>3, <1>4, <1>5, <1>6 DEF CheckNext

LEMMA ProgressSoundStutters ==
  ASSUME ProgressSound, UNCHANGED vars
  PROVE  ProgressSound'
BY DEF vars, checkVars, ProgressSound, AllIntact, Intact, TablesOf, Analysing, ChunkCount, Table

\* A progress bar that follows the calls ends full on every image without findings
\* whose tables lie where they should, whatever the number of segments and chunks.
THEOREM ProgressIsComplete == Spec => []ProgressCompletes
<1>1. Init => CheckSound /\ ProgressSound
  <2>1. CheckInit => ProgressSound
    BY DEF CheckInit, ProgressSound, NoProgress
  <2> QED BY <2>1, CheckSoundInit DEF Init
<1>2. CheckSound /\ ProgressSound /\ [Next]_vars => CheckSound' /\ ProgressSound'
  BY CheckSoundStep, CheckSoundStutters, ProgressSoundStep, ProgressSoundStutters
<1>3. ProgressSound => ProgressCompletes
  BY DEF ProgressSound, ProgressCompletes, AllIntact
<1> QED BY <1>1, <1>2, <1>3, PTL DEF Spec

----------------------------------------------------------------------------
(* The analysis, on a regular image without findings.                      *)

\* The walk has taken note of the descriptor at z.
NotedAt(z) ==
  LET d == image[cur].at[z]
      f == HashField(d.type)
  IN  /\ ~d.encrypted
      /\ d.type = SectorTable => found.table = z
      /\ d.type \in HashTypes /\ d.size >= f.size => found.stored[f.name] = {d.digest}

Long(k) == Len(image[k].bytes) >= HeaderSize + DescriptorSize
Unpacks(k, e) == e.comp => Inflate(DataOf(k, e)).ok

\* Nothing in segment k that the analysis would report.
Clean(k) ==
  /\ image[k].number = k /\ Long(k)
  /\ \A z \in Listed(image[k]) : ~image[k].at[z].encrypted
  /\ \A o \in TablesOf(k) : \A i \in 1..image[k].at[o].count : Unpacks(k, image[k].at[o].entries[i])

\* The stored hashes of the last segment are kept.
Kept(z) ==
  LET d == image[Len(image)].at[z]
      f == HashField(d.type)
  IN  d.type \in HashTypes /\ d.size >= f.size => final[f.name] = {d.digest}

Reached(k) == pass = "compute" \/ k < cur
Concluded == pass = "compute" \/ cur > Len(image) \/ (cur = Len(image) /\ step = "chunks")

CleanBehind == \A k \in DOMAIN image : Reached(k) => Clean(k)
SegmentGood == InSegment => image[cur].number = cur /\ Long(cur)

\* Above the walk's offset nothing on the list is missed.
NotedAbove ==
  step = "walk" =>
    \A z \in Listed(image[cur]) :
      z > desc_offset => image[cur].at[z].prev >= desc_offset /\ NotedAt(z)
AllNoted == step \in {"walked", "chunks"} => \A z \in Listed(image[cur]) : NotedAt(z)
EntryBound == step = "chunks" => entry <= Table.count + 1
UnpackedBefore ==
  step = "chunks" /\ Analysing =>
    \A i \in 1..Table.count : i < entry => Unpacks(cur, Table.entries[i])
HashesKept == Len(image) # 0 /\ Concluded => \A z \in Listed(image[Len(image)]) : Kept(z)

Seen ==
  /\ CleanBehind /\ SegmentGood /\ NotedAbove /\ AllNoted /\ EntryBound /\ UnpackedBefore
  /\ HashesKept

AnalysisSound == Regular /\ issues = {} => Seen

\* What Regular says of one segment's list.
Links(s) ==
  \A o \in Listed(s) : s.at[o].prev = 0 \/ (s.at[o].prev >= HeaderSize /\ s.at[o].prev < o)

LEMMA RegularFacts ==
  ASSUME Regular, NEW k \in DOMAIN image
  PROVE  /\ Links(image[k]) /\ Intact(k)
         /\ \A o, q \in TablesOf(k) : o = q
         /\ k # Len(image) => HashSectionsOf(k) = {}
         /\ \A o, q \in HashSectionsOf(k) : image[k].at[o].type = image[k].at[q].type => o = q
BY DEF Regular, Links

\* No descriptor on such a list lies in the file's header.
LEMMA ListedHigh ==
  ASSUME NEW s, IsSegment(s), Links(s), Len(s.bytes) >= HeaderSize + DescriptorSize, NEW o \in Listed(s)
  PROVE  o >= HeaderSize /\ o + DescriptorSize <= Len(s.bytes)
<1>1. /\ o \in 0..End(s) /\ MetFrom(s, Listed(s), o)
      /\ Len(s.bytes) \in Nat /\ HeaderSize \in Nat /\ DescriptorSize \in Nat
  BY ListedIs, SegmentFacts, SizesAssumption
<1>2. CASE o = End(s)
  BY <1>1, <1>2 DEF End
<1>3. CASE o # End(s)
  <2>1. PICK z \in Listed(s) : s.at[z].prev = o /\ o # 0
    BY <1>1, <1>3 DEF MetFrom
  <2>2. o >= HeaderSize
    BY <2>1 DEF Links
  <2>3. o + DescriptorSize <= Len(s.bytes)
    BY <1>1 DEF End
  <2> QED BY <2>2, <2>3
<1> QED BY <1>2, <1>3

\* Between a descriptor and the one it links to the list has nothing.
LEMMA NothingBetween ==
  ASSUME NEW s, IsSegment(s), Links(s), NEW o \in Listed(s),
         \A z \in Listed(s) : z > o => s.at[z].prev >= o
  PROVE  /\ s.at[o].prev = 0 => \A z \in Listed(s) : z >= o
         /\ s.at[o].prev # 0 => \A z \in Listed(s) : z >= o \/ z <= s.at[o].prev
<1> DEFINE p == s.at[o].prev
           S == {z \in Listed(s) : z >= o \/ (p # 0 /\ z <= p)}
<1>0. \A z \in Listed(s) : z \in Nat /\ s.at[z].prev \in Nat /\ z <= End(s) /\ End(s) \in Int
  BY ListedFollows, DescriptorFacts, SegmentFacts
<1>1. End(s) >= 0 => End(s) \in S
  BY <1>0, ListedFollows
<1>2. ASSUME NEW z \in S, Lower(s, z)
      PROVE  s.at[z].prev \in S
  <2>1. z \in Listed(s) /\ s.at[z].prev \in Listed(s)
    BY <1>2, ListedFollows
  <2>2. CASE z > o
    BY <2>1, <2>2
  <2>3. CASE z = o
    BY <2>1, <2>3, <1>0, <1>2 DEF Lower
  <2>4. CASE z < o
    BY <2>1, <2>4, <1>0, <1>2 DEF Lower
  <2> QED BY <2>1, <2>2, <2>3, <2>4, <1>0
<1>3. Listed(s) \subseteq S
  <2> HIDE DEF S
  <2> QED BY <1>1, <1>2, ListedLeast
<1> QED BY <1>3, <1>0

\* A table whose body has no room for an entry counts none.
LEMMA NoRoom ==
  ASSUME NEW o \in Nat, NEW n \in Nat, n <= o, n < TableHeaderSize + EntrySize
  PROVE  EntriesBetween(o - n, o) = 0
<1>1. SatSub(o, o - n + TableHeaderSize) \in Nat /\ SatSub(o, o - n + TableHeaderSize) < EntrySize
  BY SizesAssumption DEF SatSub
<1>2. \A a \in Nat, c \in Nat \ {0} : a < c => a \div c = 0
  BY SMTT(30)
<1> QED BY <1>1, <1>2, SizesAssumption DEF EntriesBetween

LEMMA SameImage ==
  ASSUME UNCHANGED image
  PROVE  /\ Regular' = Regular
         /\ \A k : Clean(k)' = Clean(k) /\ TablesOf(k)' = TablesOf(k) /\ Long(k)' = Long(k)
         /\ \A k, e : Unpacks(k, e)' = Unpacks(k, e)
BY DEF Regular, Clean, TablesOf, Long, Unpacks, DataOf, Intact, HashSectionsOf

\* What holds while the analysis is in a segment.
LEMMA CurrentFacts ==
  ASSUME CheckSound, Regular, cur \in DOMAIN image
  PROVE  /\ IsSegment(image[cur]) /\ Links(image[cur]) /\ Intact(cur)
         /\ \A z \in Listed(image[cur]) : /\ z \in Nat /\ image[cur].at[z] \in Descriptor
                                         /\ image[cur].at[z].prev \in Nat
<1>1. IsSegment(image[cur])
  BY ImageFacts DEF CheckSound
<1>2. \A z \in Listed(image[cur]) : z \in Nat /\ image[cur].at[z] \in Descriptor
  BY <1>1, ListedFollows, SegmentFacts
<1> QED BY <1>1, <1>2, RegularFacts, DescriptorFacts

\* After a step the note of z is still there: nothing of the same kind is on the list.
LEMMA NotedStays ==
  ASSUME CheckSound, Regular, step = "walk", NEW d, d = image[cur].at[desc_offset],
         NEW z \in Listed(image[cur]), z # desc_offset, NotedAt(z),
         found' = Noted(d), UNCHANGED <<image, cur>>
  PROVE  NotedAt(z)'
<1> DEFINE e == image[cur].at[z]
           f == HashField(e.type)
<1>1. /\ ~e.encrypted
      /\ e.type = SectorTable => found.table = z
      /\ e.type \in HashTypes /\ e.size >= f.size => found.stored[f.name] = {e.digest}
  BY DEF NotedAt
<1>2. cur \in DOMAIN image /\ desc_offset \in Listed(image[cur])
  BY DEF CheckSound, InSegment
<1>3. ~(d.type = SectorTable /\ e.type = SectorTable)
  BY <1>2, RegularFacts DEF TablesOf
<1>4. ~(d.type \in HashTypes /\ e.type = d.type)
  BY <1>2, RegularFacts DEF HashSectionsOf
<1>5. found \in FoundType
  BY DEF CheckSound
<1>6. ASSUME e.type = SectorTable
      PROVE  Noted(d).table = found.table
  <2>1. Noted(d).table = found.table \/ d.type = SectorTable
    BY NotedType
  <2> QED BY <2>1, <1>3, <1>6
<1>7. ASSUME e.type \in HashTypes
      PROVE  Noted(d).stored[f.name] = found.stored[f.name]
  <2>1. CASE d.encrypted
    BY <2>1, Zenon DEF Noted
  <2>2. CASE ~d.encrypted /\ d.type \in HashTypes
    <3> DEFINE g == HashField(d.type)
               new == IF d.size >= g.size THEN {d.digest} ELSE found.stored[g.name]
    <3>1. Noted(d) = [found EXCEPT !.hash = TRUE, !.stored[g.name] = new]
      BY <2>2 DEF Noted, HashTypes, SectorTable, CaseData, Md5Hash, Sha1Hash, Sha256Hash
    <3>2. g.name # f.name /\ g.name \in {"md5", "sha1", "sha256"} /\ f.name \in {"md5", "sha1", "sha256"}
      BY <2>2, <1>4, <1>7 DEF HashTypes, HashField, Md5Hash, Sha1Hash, Sha256Hash
    <3> HIDE DEF new, f, g
    <3>3. found.stored \in Hashes
      BY <1>5 DEF FoundType
    <3>4. Noted(d) = [found EXCEPT !.hash = TRUE, !.stored = [found.stored EXCEPT ![g.name] = new]]
      BY <3>1, <1>5, Zenon DEF FoundType
    <3>5. Noted(d).stored = [found.stored EXCEPT ![g.name] = new]
      BY <3>4, <1>5 DEF FoundType
    <3> QED BY <3>5, <3>2, <3>3 DEF Hashes
  <2>3. CASE ~d.encrypted /\ d.type = CaseData
    <3>1. Noted(d) = [found EXCEPT !.media = TRUE]
      BY <2>3 DEF Noted, SectorTable, CaseData, HashTypes, Md5Hash, Sha1Hash, Sha256Hash
    <3> QED BY <3>1, <1>5 DEF FoundType
  <2>4. CASE ~d.encrypted /\ d.type = SectorTable
    <3>1. Noted(d) = [found EXCEPT !.table = desc_offset]
      BY <2>4 DEF Noted, SectorTable, CaseData, HashTypes, Md5Hash, Sha1Hash, Sha256Hash
    <3> QED BY <3>1, <1>5 DEF FoundType
  <2>5. CASE ~d.encrypted /\ d.type \notin HashTypes \union {CaseData, SectorTable}
    BY <2>5 DEF Noted
  <2> QED BY <2>1, <2>2, <2>3, <2>4, <2>5
<1>8. /\ ~e.encrypted
      /\ e.type = SectorTable => found'.table = z
      /\ e.type \in HashTypes /\ e.size >= f.size => found'.stored[f.name] = {e.digest}
  BY <1>1, <1>6, <1>7
<1> HIDE DEF f
<1> QED BY <1>8 DEF NotedAt, e, f

\* The descriptor that the walk is at is noted, unless it is encrypted.
LEMMA NotedNow ==
  ASSUME CheckSound, step = "walk", NEW z, z = desc_offset, NEW d, d = image[cur].at[z], ~d.encrypted,
         found' = Noted(d), UNCHANGED <<image, cur>>
  PROVE  NotedAt(z)'
<1> DEFINE f == HashField(d.type)
<1>1. found \in FoundType
  BY DEF CheckSound
<1>2. ASSUME d.type = SectorTable
      PROVE  Noted(d).table = z
  <2>1. Noted(d) = [found EXCEPT !.table = desc_offset]
    BY <1>2 DEF Noted, SectorTable, CaseData, HashTypes, Md5Hash, Sha1Hash, Sha256Hash
  <2> QED BY <2>1, <1>1 DEF FoundType
<1>3. ASSUME d.type \in HashTypes, d.size >= f.size
      PROVE  Noted(d).stored[f.name] = {d.digest}
  <2> DEFINE new == {d.digest}
  <2>1. Noted(d) = [found EXCEPT !.hash = TRUE, !.stored[f.name] = new]
    BY <1>3 DEF Noted, HashTypes, SectorTable, CaseData, Md5Hash, Sha1Hash, Sha256Hash
  <2>2. f.name \in {"md5", "sha1", "sha256"}
    BY DEF HashField
  <2> HIDE DEF new, f
  <2>3. found.stored \in Hashes
    BY <1>1 DEF FoundType
  <2>4. Noted(d) = [found EXCEPT !.hash = TRUE, !.stored = [found.stored EXCEPT ![f.name] = new]]
    BY <2>1, <1>1, Zenon DEF FoundType
  <2>5. Noted(d).stored = [found.stored EXCEPT ![f.name] = new]
    BY <2>4, <1>1 DEF FoundType
  <2>6. Noted(d).stored[f.name] = new
    BY <2>5, <2>2, <2>3 DEF Hashes
  <2> QED BY <2>6 DEF new
<1>4. /\ ~d.encrypted
      /\ d.type = SectorTable => found'.table = z
      /\ d.type \in HashTypes /\ d.size >= f.size => found'.stored[f.name] = {d.digest}
  BY <1>2, <1>3
<1> HIDE DEF f
<1>5. d = image'[cur'].at[z]
  OBVIOUS
<1> QED BY <1>4, <1>5 DEF NotedAt, f

LEMMA SeenWalk ==
  ASSUME CheckSound, Regular, Seen, WalkDescriptor2, UNCHANGED image, issues' = {}
  PROVE  Seen'
<1> DEFINE d == image[cur].at[desc_offset]
           L == Listed(image[cur])
<1>1. /\ step = "walk" /\ found' = Noted(d)
      /\ UNCHANGED <<image, pass, cur, final, entry>>
      /\ \/ StrictlyDescends(d.prev) /\ desc_offset' = d.prev /\ step' = step
         \/ ~StrictlyDescends(d.prev) /\ step' = "walked" /\ desc_offset' = desc_offset
  BY DEF WalkDescriptor2
<1>2. cur \in DOMAIN image /\ desc_offset \in L
  BY <1>1 DEF CheckSound, InSegment
<1>3. ~d.encrypted
  <2>1. CASE Analysing
    BY <2>1 DEF WalkDescriptor2, SectionIssues, Report
  <2>2. CASE ~Analysing
    <3>1. Clean(cur)
      BY <1>2, <2>2 DEF Seen, CleanBehind, Reached, Analysing, CheckSound
    <3> QED BY <3>1, <1>2 DEF Clean
  <2> QED BY <2>1, <2>2
<1>4. /\ Links(image[cur]) /\ IsSegment(image[cur])
      /\ \A z \in L : z \in Nat /\ image[cur].at[z].prev \in Nat
  BY <1>2, CurrentFacts
<1>5. \A z \in L : z > desc_offset => image[cur].at[z].prev >= desc_offset /\ NotedAt(z)
  BY <1>1 DEF Seen, NotedAbove
<1>6. ASSUME NEW z \in L, z >= desc_offset
      PROVE  NotedAt(z)'
  <2>1. CASE z = desc_offset
    <3> HIDE DEF d
    <3>1. d = image[cur].at[z]
      BY <2>1 DEF d
    <3> QED BY <1>1, <1>3, <2>1, <3>1, NotedNow
  <2>2. CASE z # desc_offset
    <3>1. NotedAt(z)
      BY <1>4, <1>5, <1>2, <1>6, <2>2
    <3> HIDE DEF d
    <3>2. d = image[cur].at[desc_offset]
      BY DEF d
    <3> QED BY <1>1, <2>2, <3>1, <3>2, NotedStays
  <2> QED BY <2>1, <2>2
<1>7. /\ d.prev = 0 => \A z \in L : z >= desc_offset
      /\ d.prev # 0 => \A z \in L : z >= desc_offset \/ z <= d.prev
  BY <1>2, <1>4, <1>5, NothingBetween
<1>8. d.prev # 0 => d.prev < desc_offset
  BY <1>2, <1>4 DEF Links
<1>9. NotedAbove'
  <2>1. ASSUME step' = "walk", NEW z \in L, z > d.prev
        PROVE  image[cur].at[z].prev >= d.prev /\ NotedAt(z)'
    <3>1. d.prev # 0 /\ d.prev < desc_offset /\ d.prev \in Nat /\ desc_offset \in Nat /\ z \in Nat
      BY <1>1, <1>2, <1>4, <2>1 DEF StrictlyDescends
    <3>2. z >= desc_offset
      BY <1>7, <3>1, <2>1
    <3>3. image[cur].at[z].prev >= d.prev
      <4>1. CASE z = desc_offset
        BY <4>1, <3>1
      <4>2. CASE z # desc_offset
        BY <4>2, <3>1, <3>2, <1>4, <1>5
      <4> QED BY <4>1, <4>2
    <3> QED BY <3>2, <3>3, <1>6
  <2>2. step' = "walk" => desc_offset' = d.prev
    BY <1>1
  <2> HIDE DEF d
  <2> QED BY <1>1, <2>1, <2>2 DEF NotedAbove
<1>10. AllNoted'
  <2>1. ASSUME step' = "walked"
        PROVE  \A z \in L : NotedAt(z)'
    <3>1. d.prev = 0
      BY <1>1, <1>8, <2>1 DEF StrictlyDescends
    <3> QED BY <3>1, <1>6, <1>7
  <2> QED BY <1>1, <2>1 DEF AllNoted
<1>11. CleanBehind' /\ SegmentGood'
  BY <1>1, SameImage DEF Seen, CleanBehind, SegmentGood, Reached, InSegment
<1>12. EntryBound' /\ UnpackedBefore'
  BY <1>1 DEF EntryBound, UnpackedBefore
<1>13. HashesKept'
  BY <1>1 DEF Seen, HashesKept, Concluded, Kept
<1> QED BY <1>9, <1>10, <1>11, <1>12, <1>13 DEF Seen

\* The table that the walk has found is the segment's table.
LEMMA OwnTable ==
  ASSUME CheckSound, Regular, Seen, step \in {"walked", "chunks"}
  PROVE  /\ cur \in DOMAIN image
         /\ \A o \in TablesOf(cur) : found.table = o /\ Table = image[cur].at[o]
<1>1. cur \in DOMAIN image
  BY DEF CheckSound, InSegment
<1>2. ASSUME NEW o \in TablesOf(cur)
      PROVE  found.table = o
  BY DEF Seen, AllNoted, NotedAt, TablesOf
<1> QED BY <1>1, <1>2 DEF Table

\* A segment that the analysis leaves has nothing it would report.
LEMMA CleanWhenLeft ==
  ASSUME CheckSound, Regular, Seen, Analysing,
         \/ step = "walked" /\ ~HasTable
         \/ step = "chunks" /\ ~EntryReadable
  PROVE  Clean(cur)
<1>1. cur \in DOMAIN image /\ Intact(cur) /\ IsSegment(image[cur])
  BY OwnTable, CurrentFacts
<1>2. image[cur].number = cur /\ Long(cur)
  BY DEF Seen, SegmentGood, InSegment
<1>3. \A z \in Listed(image[cur]) : ~image[cur].at[z].encrypted
  BY DEF Seen, AllNoted, NotedAt
<1>4. ASSUME NEW o \in TablesOf(cur), NEW i \in 1..image[cur].at[o].count
      PROVE  Unpacks(cur, image[cur].at[o].entries[i])
  <2> DEFINE d == image[cur].at[o]
  <2>0. found.table = o /\ Table = d
    BY OwnTable
  <2>1. d = image[cur].at[o]
    OBVIOUS
  <2> HIDE DEF d
  <2>2. /\ d \in Descriptor /\ o \in Nat /\ d.size <= o /\ BodyStart(o, d) = o - d.size
        /\ d.count <= EntriesBetween(BodyStart(o, d), o)
    BY <1>1, <2>1, TableFacts
  <2>3. d.count \in Nat /\ d.size \in Nat
    BY <2>2, DescriptorFacts
  <2>4. CASE step = "walked" /\ ~HasTable
    <3>1. TableLen = d.size
      BY <2>0, <2>2, <2>3 DEF TableLen, TableStart
    <3>2. d.size < TableHeaderSize + EntrySize
      BY <2>0, <2>2, <2>3, <2>4, <3>1, SizesAssumption DEF HasTable, None
    <3>3. d.count = 0
      BY <2>2, <2>3, <3>2, NoRoom
    <3> QED BY <3>3, <2>1
  <2>5. CASE step = "chunks" /\ ~EntryReadable
    <3>1. ~(entry <= d.count)
      BY <1>1, <2>0, <2>5, IntactReadable
    <3>2. i \in 1..d.count /\ i < entry
      BY <2>1, <2>3, <3>1 DEF CheckSound
    <3> QED BY <3>2, <2>0, <2>1, <2>5 DEF Seen, UnpackedBefore
  <2> QED BY <2>4, <2>5
<1> QED BY <1>2, <1>3, <1>4 DEF Clean

LEMMA SeenClose ==
  ASSUME CheckSound, Regular, Seen, CloseSegment, UNCHANGED image
  PROVE  Seen'
<1>0. Len(image) \in Nat /\ DOMAIN image = 1..Len(image) /\ cur \in DOMAIN image /\ step = "walked"
  BY ImageFacts DEF CheckSound, InSegment, CloseSegment
<1>1. /\ UNCHANGED <<image, pass, found>> /\ entry' = 1
      /\ final' = IF Last /\ Analysing THEN found.stored ELSE final
      /\ \/ HasTable /\ step' = "chunks" /\ cur' = cur
         \/ ~HasTable /\ step' = "segment" /\ cur' = cur + 1
  BY DEF CloseSegment, NextUp
<1>2. CleanBehind'
  <2> SUFFICES ASSUME NEW k \in DOMAIN image, Reached(k)'
               PROVE  Clean(k)
    BY SameImage DEF CleanBehind
  <2>1. CASE Reached(k)
    BY <2>1 DEF Seen, CleanBehind
  <2>2. CASE ~Reached(k)
    <3>1. k = cur /\ ~HasTable /\ Analysing
      BY <1>0, <1>1, <2>2 DEF Reached, CheckSound, Analysing
    <3> QED BY <3>1, <1>0, CleanWhenLeft
  <2> QED BY <2>1, <2>2
<1>3. SegmentGood'
  BY <1>0, <1>1, SameImage DEF Seen, SegmentGood, InSegment
<1>4. NotedAbove'
  BY <1>1 DEF NotedAbove
<1>5. AllNoted'
  <2>1. ASSUME step' = "chunks", NEW z \in Listed(image[cur])
        PROVE  NotedAt(z)'
    BY <1>0, <1>1, <2>1 DEF Seen, AllNoted, NotedAt
  <2> QED BY <1>1, <2>1 DEF AllNoted
<1>6. EntryBound' /\ UnpackedBefore'
  <2>1. ASSUME step' = "chunks"
        PROVE  Table' = Table /\ Table.count \in Nat
    <3>1. HasTable
      BY <1>1, <2>1
    <3>2. found.table \in TablesOf(cur)
      BY <1>0, <3>1 DEF CheckSound, InSegment, HasTable
    <3>3. Table \in Descriptor
      BY <3>2, <1>0, ImageFacts, ListedFollows DEF Table, TablesOf, CheckSound
    <3>4. Table' = Table
      BY <1>1, <2>1 DEF Table
    <3> QED BY <3>3, <3>4, DescriptorFacts
  <2> QED BY <1>1, <2>1 DEF EntryBound, UnpackedBefore
<1>7. HashesKept'
  <2> SUFFICES ASSUME Len(image) # 0, Concluded', NEW z \in Listed(image[Len(image)])
               PROVE  Kept(z)'
    BY <1>1 DEF HashesKept
  <2>1. CASE Last /\ Analysing
    BY <1>0, <1>1, <2>1 DEF Seen, AllNoted, NotedAt, Kept, Last
  <2>2. CASE ~(Last /\ Analysing)
    <3>1. pass = "compute"
      BY <1>0, <1>1, <2>2 DEF Concluded, Last, Analysing, CheckSound
    <3>2. Kept(z)
      BY <3>1 DEF Seen, HashesKept, Concluded
    <3> QED BY <1>1, <2>2, <3>2 DEF Kept
  <2> QED BY <2>1, <2>2
<1> QED BY <1>2, <1>3, <1>4, <1>5, <1>6, <1>7 DEF Seen

LEMMA SeenChunk ==
  ASSUME CheckSound, Regular, Seen, CheckChunk, UNCHANGED image, issues' = {}
  PROVE  Seen'
<1>1. /\ step = "chunks" /\ EntryReadable /\ entry' = entry + 1
      /\ UNCHANGED <<image, step, pass, cur, desc_offset, found, final>>
  BY DEF CheckChunk
<1>2. cur \in DOMAIN image /\ Intact(cur) /\ entry \in Nat \ {0}
  BY <1>1, CurrentFacts DEF CheckSound, InSegment
<1>3. entry <= Table.count /\ Table.count \in Nat /\ Entry \in TableEntry
  BY <1>1, <1>2, IntactReadable
<1>4. Table' = Table
  BY <1>1 DEF Table
<1>5. ASSUME Analysing
      PROVE  Unpacks(cur, Table.entries[entry])
  <2>1. Unpacked.ok
    BY <1>5 DEF CheckChunk, Report
  <2>2. Raw = DataOf(cur, Entry)
    BY DEF Raw, DataOf, RawSize, Data
  <2> QED BY <2>1, <2>2 DEF Unpacks, Unpacked, Entry
<1>6. EntryBound'
  BY <1>1, <1>2, <1>3, <1>4 DEF EntryBound
<1>7. UnpackedBefore'
  <2> SUFFICES ASSUME Analysing, NEW i \in 1..Table.count, i < entry + 1
               PROVE  Unpacks(cur, Table.entries[i])
    BY <1>1, <1>4, SameImage DEF UnpackedBefore, Analysing
  <2>1. i < entry \/ i = entry
    BY <1>2, <1>3
  <2>2. i < entry => Unpacks(cur, Table.entries[i])
    BY <1>1 DEF Seen, UnpackedBefore
  <2> QED BY <1>5, <2>1, <2>2
<1>8. CleanBehind' /\ SegmentGood'
  BY <1>1, SameImage DEF Seen, CleanBehind, SegmentGood, Reached, InSegment
<1>9. NotedAbove' /\ AllNoted' /\ HashesKept'
  <2>1. NotedAbove'
    BY <1>1 DEF NotedAbove
  <2>2. AllNoted'
    BY <1>1 DEF Seen, AllNoted, NotedAt
  <2>3. HashesKept'
    BY <1>1 DEF Seen, HashesKept, Concluded, Kept
  <2> QED BY <2>1, <2>2, <2>3
<1> QED BY <1>6, <1>7, <1>8, <1>9 DEF Seen

LEMMA SeenOpen ==
  ASSUME CheckSound, Regular, Seen, OpenSegment, UNCHANGED image, issues' = {}
  PROVE  Seen'
<1>1. /\ step = "segment" /\ step' = "walk" /\ ~TooShort /\ desc_offset' = End(image[cur])
      /\ UNCHANGED <<image, pass, cur, final, entry>> /\ cur \in DOMAIN image
  BY ImageFacts DEF OpenSegment, CheckSound, End, DataLen, Data
<1>2. image[cur].number = cur
  <2>1. CASE Analysing
    <3>1. HeaderIssues = {}
      BY DEF OpenSegment
    <3> QED BY <3>1, <2>1 DEF HeaderIssues, Report
  <2>2. CASE ~Analysing
    BY <1>1, <2>2 DEF Seen, CleanBehind, Reached, Clean, Analysing, CheckSound
  <2> QED BY <2>1, <2>2
<1>3. Long(cur)
  BY <1>1, CurrentFacts, SegmentFacts, SizesAssumption DEF TooShort, DataLen, Data, Long
<1>4. NotedAbove'
  <2>1. \A z \in Listed(image[cur]) : ~(z > End(image[cur]))
    BY <1>1, CurrentFacts, ListedFollows, SegmentFacts
  <2> QED BY <1>1, <2>1 DEF NotedAbove
<1>5. CleanBehind' /\ SegmentGood'
  BY <1>1, <1>2, <1>3, SameImage DEF Seen, CleanBehind, SegmentGood, Reached
<1>6. AllNoted' /\ EntryBound' /\ UnpackedBefore'
  BY <1>1 DEF AllNoted, EntryBound, UnpackedBefore
<1>7. HashesKept'
  BY <1>1 DEF Seen, HashesKept, Concluded, Kept
<1> QED BY <1>4, <1>5, <1>6, <1>7 DEF Seen

LEMMA SeenEnd ==
  ASSUME CheckSound, Regular, Seen, ChunksEnd, UNCHANGED image
  PROVE  Seen'
<1>0. Len(image) \in Nat /\ DOMAIN image = 1..Len(image) /\ cur \in DOMAIN image
  BY ImageFacts DEF CheckSound, InSegment, ChunksEnd
<1>1. /\ step = "chunks" /\ ~EntryReadable /\ step' = "segment" /\ cur' = cur + 1
      /\ UNCHANGED <<image, pass, final>>
  BY DEF ChunksEnd, NextUp
<1>2. CleanBehind'
  <2> SUFFICES ASSUME NEW k \in DOMAIN image, Reached(k)'
               PROVE  Clean(k)
    BY SameImage DEF CleanBehind
  <2>1. CASE Reached(k)
    BY <2>1 DEF Seen, CleanBehind
  <2>2. CASE ~Reached(k)
    <3>1. k = cur /\ Analysing
      BY <1>0, <1>1, <2>2 DEF Reached, CheckSound, Analysing
    <3> QED BY <3>1, <1>1, CleanWhenLeft
  <2> QED BY <2>1, <2>2
<1>3. HashesKept'
  <2>1. Concluded' => Concluded
    BY <1>0, <1>1 DEF Concluded
  <2> QED BY <1>1, <2>1 DEF Seen, HashesKept, Kept
<1>4. SegmentGood' /\ NotedAbove' /\ AllNoted' /\ EntryBound' /\ UnpackedBefore'
  BY <1>1 DEF SegmentGood, NotedAbove, AllNoted, EntryBound, UnpackedBefore, InSegment
<1> QED BY <1>2, <1>3, <1>4 DEF Seen

LEMMA SeenKept ==
  ASSUME AnalysisSound, UNCHANGED <<image, checkVars>>
  PROVE  AnalysisSound'
<1>1. UNCHANGED <<image, step, pass, cur, desc_offset, found, final, entry, issues>>
  BY DEF checkVars
<1> SUFFICES ASSUME Seen PROVE Seen'
  BY <1>1, SameImage DEF AnalysisSound
<1>2. CleanBehind' /\ SegmentGood'
  BY <1>1, SameImage DEF Seen, CleanBehind, SegmentGood, Reached, InSegment
<1>3. NotedAbove'
  BY <1>1 DEF Seen, NotedAbove, NotedAt
<1>4. AllNoted'
  BY <1>1 DEF Seen, AllNoted, NotedAt
<1>5. EntryBound' /\ UnpackedBefore'
  <2>1. Table' = Table /\ Analysing' = Analysing
    BY <1>1 DEF Table, Analysing
  <2> QED BY <1>1, <2>1, SameImage DEF Seen, EntryBound, UnpackedBefore
<1>6. HashesKept'
  BY <1>1 DEF Seen, HashesKept, Concluded, Kept
<1> QED BY <1>2, <1>3, <1>4, <1>5, <1>6 DEF Seen

LEMMA AnalysisSoundStep ==
  ASSUME CheckSound, AnalysisSound, Next
  PROVE  AnalysisSound'
<1>0. CASE Open
  BY <1>0, SeenKept DEF Open
<1> SUFFICES ASSUME CheckNext, UNCHANGED image, Regular, issues' = {}
             PROVE  Seen'
  BY <1>0, SameImage DEF Next, Check, AnalysisSound
<1>1. issues = {}
  BY DEF CheckNext, ShortSegment, OpenSegment, WalkDescriptor2, WalkEnds, CloseSegment, CheckChunk,
         ChunksEnd, StartHashing, CompareHashes
<1>2. Seen
  BY <1>1 DEF AnalysisSound
<1>3. CASE ShortSegment
  <2>1. ~Long(cur) /\ cur \in DOMAIN image
    BY <1>3, ImageFacts, SegmentFacts, SizesAssumption
       DEF ShortSegment, TooShort, DataLen, Data, Long, CheckSound
  <2>2. ~Analysing
    BY <1>3 DEF ShortSegment, Report
  <2> QED BY <1>2, <2>1, <2>2 DEF Seen, CleanBehind, Reached, Clean, CheckSound, Analysing
<1>4. CASE WalkEnds
  <2>1. step = "walk" /\ cur \in DOMAIN image /\ Outside(desc_offset) /\ desc_offset \in Listed(image[cur])
    BY <1>4 DEF WalkEnds, CheckSound, InSegment
  <2>2. Long(cur) /\ IsSegment(image[cur]) /\ Links(image[cur])
    BY <1>2, <2>1, CurrentFacts DEF Seen, SegmentGood, InSegment
  <2>3. desc_offset >= HeaderSize /\ desc_offset + DescriptorSize <= Len(image[cur].bytes)
    BY <2>1, <2>2, ListedHigh DEF Long
  <2>4. desc_offset \in Nat /\ Len(image[cur].bytes) \in Nat
    BY <2>1, <2>2, CurrentFacts, SegmentFacts
  <2> QED BY <2>1, <2>3, <2>4, SizesAssumption DEF Outside, DataLen, Data
<1>5. CASE StartHashing
  <2>1. /\ step = "segment" /\ step' = "segment" /\ cur > Len(image) /\ UNCHANGED <<image, final>>
    BY <1>5 DEF StartHashing
  <2>2. \A k \in DOMAIN image : Clean(k)
    BY <1>2, <2>1, ImageFacts DEF Seen, CleanBehind, Reached, CheckSound
  <2>3. CleanBehind'
    BY <2>1, <2>2, SameImage DEF CleanBehind
  <2>4. HashesKept'
    BY <1>2, <2>1 DEF Seen, HashesKept, Kept, Concluded
  <2>5. SegmentGood' /\ NotedAbove' /\ AllNoted' /\ EntryBound' /\ UnpackedBefore'
    BY <2>1 DEF SegmentGood, NotedAbove, AllNoted, EntryBound, UnpackedBefore, InSegment
  <2> QED BY <2>3, <2>4, <2>5 DEF Seen
<1>6. CASE CompareHashes
  <2>1. /\ step = "segment" /\ step' = "done" /\ UNCHANGED <<image, pass, cur, final>>
    BY <1>6 DEF CompareHashes
  <2>2. CleanBehind'
    BY <1>2, <2>1, SameImage DEF Seen, CleanBehind, Reached
  <2>3. HashesKept'
    BY <1>2, <2>1 DEF Seen, HashesKept, Kept, Concluded
  <2>4. SegmentGood' /\ NotedAbove' /\ AllNoted' /\ EntryBound' /\ UnpackedBefore'
    BY <2>1 DEF SegmentGood, NotedAbove, AllNoted, EntryBound, UnpackedBefore, InSegment
  <2> QED BY <2>2, <2>3, <2>4 DEF Seen
<1> QED BY <1>2, <1>3, <1>4, <1>5, <1>6, SeenOpen, SeenWalk, SeenClose, SeenChunk, SeenEnd DEF CheckNext

LEMMA AnalysisSoundStutters ==
  ASSUME AnalysisSound, UNCHANGED vars
  PROVE  AnalysisSound'
BY SeenKept DEF vars

LEMMA AnalysisSoundInit ==
  ASSUME Init
  PROVE  AnalysisSound
<1>1. /\ image \in Images /\ step = "segment" /\ pass = "analyse" /\ cur = 1
  BY DEF Init, OpenInit, CheckInit
<1>2. Len(image) \in Nat /\ DOMAIN image = 1..Len(image)
  BY <1>1, ImageFacts
<1>3. CleanBehind
  BY <1>1, <1>2 DEF CleanBehind, Reached
<1>4. HashesKept
  BY <1>1, <1>2 DEF HashesKept, Concluded
<1>5. SegmentGood /\ NotedAbove /\ AllNoted /\ EntryBound /\ UnpackedBefore
  BY <1>1 DEF SegmentGood, NotedAbove, AllNoted, EntryBound, UnpackedBefore, InSegment
<1> QED BY <1>3, <1>4, <1>5 DEF AnalysisSound, Seen

----------------------------------------------------------------------------
(* The reader: the segments and their lists.                               *)

\* The open has not failed.
Live == pc \in {"segment", "walk", "sections", "finish"} \/ opened.ok

ReadTyped ==
  /\ image \in Images
  /\ pc \in {"headers", "segment", "walk", "sections", "finish", "closed"}
  /\ opened.ok \in BOOLEAN /\ (opened.ok => pc = "closed")
  /\ pc = "headers" => seg = 1
  /\ Live => ordered = Reordered(image) /\ ~Rejected(image)
  /\ pc \in {"segment", "walk", "sections"} => seg \in 1..Len(ordered)
  /\ Live /\ pc \in {"finish", "closed"} => seg = Len(ordered) + 1
  /\ chunk_size \in Nat
  /\ opened.ok => opened.chunks = chunks /\ opened.stored = stored /\ opened.chunk_size \in Nat

\* The descriptors collected of the current segment, none of them twice.
DescsSound ==
  /\ descs \in Seq([offset : Nat, sec : Descriptor]) /\ pos \in Nat \ {0}
  /\ pc \in {"walk", "sections"} =>
       \A i \in DOMAIN descs :
         /\ descs[i].offset \in 0..End(ordered[seg])
         /\ descs[i].sec = ordered[seg].at[descs[i].offset]
         /\ \A j \in DOMAIN descs : descs[i].offset = descs[j].offset => i = j
  /\ pc \in {"headers", "segment"} => descs = <<>>
  /\ pc \in {"headers", "segment", "walk"} => pos = 1
  /\ pc = "walk" => off \in Nat

\* On a list whose links go down: all of it that lies above the walk, then all of it.
ListSound ==
  /\ pc = "walk" /\ Links(ordered[seg]) =>
       /\ off \in Listed(ordered[seg]) /\ Visited \subseteq Listed(ordered[seg])
       /\ End(ordered[seg]) \in Visited \union {off}
       /\ \A v \in Visited : LET prev == ordered[seg].at[v].prev
                             IN  prev = 0 \/ prev \in Visited \union {off}
  /\ pc = "sections" /\ Links(ordered[seg]) => Visited = Listed(ordered[seg])

LEMMA ReorderedFacts ==
  ASSUME image \in Images, ~Rejected(image)
  PROVE  /\ Len(Reordered(image)) = Len(image) /\ DOMAIN Reordered(image) = 1..Len(image)
         /\ Len(image) \in Nat \ {0}
         /\ \A k \in 1..Len(image) : IsSegment(Reordered(image)[k]) /\ Reordered(image)[k].number = k
         /\ (\A k \in 1..Len(image) : image[k].number = k) => Reordered(image) = image
<1> DEFINE at(n) == CHOOSE i \in DOMAIN image : image[i].number = n
           R == Reordered(image)
<1>1. Len(image) \in Nat /\ DOMAIN image = 1..Len(image) /\ \A s \in DOMAIN image : IsSegment(image[s])
  BY ImageFacts
<1>2. {image[i].number : i \in DOMAIN image} = 1..Len(image) /\ Len(image) # 0
  BY ImageFacts DEF Rejected, Sequential
<1>3. ASSUME NEW k \in 1..Len(image)
      PROVE  at(k) \in DOMAIN image /\ image[at(k)].number = k
  <2>1. \E i \in DOMAIN image : image[i].number = k
    BY <1>2
  <2> QED BY <2>1
<1>4. R = [k \in 1..Len(image) |-> image[at(k)]]
  BY DEF Reordered
<1> HIDE DEF at
<1>5. Len(R) = Len(image) /\ DOMAIN R = 1..Len(image)
  BY <1>1, <1>4
<1>6. \A k \in 1..Len(image) : IsSegment(R[k]) /\ R[k].number = k
  BY <1>1, <1>3, <1>4
<1>7. ASSUME \A k \in 1..Len(image) : image[k].number = k
      PROVE  R = image
  <2>1. \A k \in 1..Len(image) : image[at(k)] = image[k]
    BY <1>1, <1>3, <1>7
  <2>2. image = [k \in 1..Len(image) |-> image[k]]
    BY ImagesAssumption
  <2> QED BY <1>4, <2>1, <2>2
<1> QED BY <1>1, <1>2, <1>5, <1>6, <1>7

LEMMA SegFacts ==
  ASSUME ReadTyped, pc \in {"segment", "walk", "sections"}
  PROVE  /\ IsSegment(ordered[seg]) /\ seg \in 1..Len(ordered) /\ Len(ordered) \in Nat
         /\ FileLen = Len(ordered[seg].bytes) /\ FileLen \in Nat
<1>1. IsSegment(ordered[seg]) /\ seg \in 1..Len(ordered) /\ Len(ordered) \in Nat
  BY ReorderedFacts DEF ReadTyped, Live
<1> QED BY <1>1, SegmentFacts DEF FileLen

\* The types that DeviceSection computes with.
LEMMA ProductNat ==
  ASSUME NEW a \in Nat, NEW b \in Nat
  PROVE  a * b \in Nat
BY SMT

LEMMA WrappedNat ==
  ASSUME NEW n \in Nat
  PROVE  Wrapped(n) \in Nat
<1>1. U64Max + 1 \in Nat \ {0}
  BY WidthAssumption DEF U64Max
<1>2. \A c \in Nat \ {0} : n % c \in Nat
  BY SMT
<1> QED BY <1>1, <1>2 DEF Wrapped

LEMMA DeviceSizes ==
  ASSUME ReadTyped, DescsSound, DeviceSection
  PROVE  chunk_size' \in Nat
<1>1. Current \in Descriptor
  <2>1. pos \in DOMAIN descs
    BY DEF DeviceSection, Handle, DescsSound
  <2> DEFINE S == [offset : Nat, sec : Descriptor]
  <2>2. descs \in Seq(S)
    BY DEF DescsSound
  <2>3. descs[pos] \in S
    <3> HIDE DEF S
    <3> QED BY <2>1, <2>2
  <2> QED BY <2>3 DEF Current
<1>2. Default(Current.b, 512) \in Nat /\ Default(Current.sc, 64) \in Nat
  BY <1>1, DescriptorFacts DEF Default, None
<1>3. Wrapped(Default(Current.b, 512) * Default(Current.sc, 64)) \in Nat
  BY <1>2, ProductNat, WrappedNat
<1> QED BY <1>3 DEF DeviceSection, ReadTyped

SectionSteps == CaseSection \/ DeviceSection \/ TableSection \/ HashSection \/ OtherSection

LEMMA SectionKeeps ==
  ASSUME SectionSteps
  PROVE  /\ pc = "sections" /\ pos <= Len(descs) /\ pos' = pos + 1 /\ ~HandlerFails
         /\ UNCHANGED <<pc, ordered, seg, off, descs, opened>>
BY DEF SectionSteps, CaseSection, DeviceSection, TableSection, HashSection, OtherSection, Handle

LEMMA FailKeeps ==
  ASSUME RejectSources \/ WalkFails \/ SectionFails
  PROVE  /\ pc # "closed" /\ pc' = "closed"
         /\ UNCHANGED <<ordered, seg, off, descs, pos, chunk_size, total_size, chunks, stored, opened>>
BY DEF RejectSources, WalkFails, SectionFails, Fail, Goto, position, result

LEMMA ReadTypedInit ==
  ASSUME Init
  PROVE  ReadTyped /\ DescsSound /\ ListSound
<1>1. /\ image \in Images /\ pc = "headers" /\ descs = <<>> /\ pos = 1 /\ chunk_size = 0
      /\ opened = [ok |-> FALSE] /\ seg = 1
  BY DEF Init, OpenInit
<1>2. ReadTyped
  BY <1>1 DEF ReadTyped, Live
<1>3. DescsSound
  BY <1>1 DEF DescsSound
<1>4. ListSound
  BY <1>1 DEF ListSound
<1> QED BY <1>2, <1>3, <1>4

LEMMA ReadTypedStep ==
  ASSUME ReadTyped, DescsSound, OpenNext, UNCHANGED image
  PROVE  ReadTyped'
<1>1. CASE RejectSources \/ WalkFails \/ SectionFails
  BY <1>1, FailKeeps DEF ReadTyped, Live
<1>2. CASE OrderSegments
  <2>1. /\ pc = "headers" /\ pc' = "segment" /\ ~Rejected(image) /\ ordered' = Reordered(image)
        /\ UNCHANGED <<seg, chunk_size, opened>>
    BY <1>2 DEF OrderSegments, Goto, result
  <2>2. 1 \in 1..Len(Reordered(image))
    BY <2>1, ReorderedFacts DEF ReadTyped
  <2> QED BY <2>1, <2>2 DEF ReadTyped, Live
<1>3. CASE NoDescriptors \/ StartWalk
  <2>1. /\ pc = "segment" /\ pc' \in {"walk", "sections"} /\ UNCHANGED <<ordered, seg, chunk_size, opened>>
    BY <1>3 DEF NoDescriptors, StartWalk, Goto, result, position
  <2> QED BY <2>1 DEF ReadTyped, Live
<1>4. CASE WalkDescriptor
  <2>1. /\ pc = "walk" /\ pc' \in {"walk", "sections", "closed"}
        /\ UNCHANGED <<ordered, seg, chunk_size, opened>>
    BY <1>4 DEF WalkDescriptor, result
  <2> QED BY <2>1 DEF ReadTyped, Live
<1>5. CASE SectionSteps
  <2>1. /\ pc = "sections" /\ UNCHANGED <<pc, ordered, seg, opened>>
    BY <1>5, SectionKeeps
  <2>2. chunk_size' \in Nat
    BY <1>5, DeviceSizes DEF SectionSteps, CaseSection, TableSection, HashSection, OtherSection,
       result, ReadTyped
  <2> QED BY <2>1, <2>2 DEF ReadTyped, Live
<1>6. CASE NextSegment
  <2>1. /\ pc = "sections" /\ pc' = (IF seg = Len(ordered) THEN "finish" ELSE "segment")
        /\ seg' = seg + 1 /\ UNCHANGED <<ordered, chunk_size, opened>>
    BY <1>6 DEF NextSegment, Goto, result
  <2>2. seg \in 1..Len(ordered) /\ Len(ordered) \in Nat
    BY <2>1, SegFacts
  <2> QED BY <2>1, <2>2 DEF ReadTyped, Live
<1>7. CASE Finish
  <2> DEFINE size == IF chunk_size = 0 THEN DefaultChunkSize ELSE chunk_size
             total == IF total_size = 0 THEN Len(chunks) * size ELSE total_size
  <2>1. /\ pc = "finish" /\ pc' = "closed" /\ UNCHANGED <<ordered, seg, chunk_size, chunks, stored>>
        /\ opened' = [ok |-> TRUE, chunk_size |-> size, chunks |-> chunks, stored |-> stored,
                      total_size |-> total]
    BY <1>7 DEF Finish, Goto, result, position
  <2>2. size \in Nat
    BY OpenAssumption DEF ReadTyped
  <2> HIDE DEF size, total
  <2>3. opened'.ok = TRUE /\ opened'.chunks = chunks /\ opened'.stored = stored /\ opened'.chunk_size = size
    BY <2>1
  <2> QED BY <2>1, <2>2, <2>3 DEF ReadTyped, Live
<1> QED BY <1>1, <1>2, <1>3, <1>4, <1>5, <1>6, <1>7 DEF OpenNext, SectionSteps

\* What a walk has collected, with one more in front.
LEMMA Prepended ==
  ASSUME NEW S, NEW q \in Seq(S), NEW x \in S
  PROVE  /\ <<x>> \o q \in Seq(S)
         /\ DOMAIN (<<x>> \o q) = 1..Len(q) + 1 /\ (<<x>> \o q)[1] = x
         /\ \A i \in DOMAIN (<<x>> \o q) : i = 1 \/ (i - 1 \in DOMAIN q /\ (<<x>> \o q)[i] = q[i - 1])
         /\ \A i \in DOMAIN q : i + 1 \in DOMAIN (<<x>> \o q) /\ (<<x>> \o q)[i + 1] = q[i]
OBVIOUS

LEMMA DescsSoundStep ==
  ASSUME ReadTyped, DescsSound, OpenNext, UNCHANGED image
  PROVE  DescsSound'
<1>1. CASE RejectSources \/ WalkFails \/ SectionFails
  BY <1>1, FailKeeps DEF DescsSound
<1>2. CASE OrderSegments
  <2>1. /\ pc = "headers" /\ pc' = "segment" /\ UNCHANGED <<descs, pos>>
    BY <1>2 DEF OrderSegments, Goto
  <2> QED BY <2>1 DEF DescsSound
<1>3. CASE NoDescriptors \/ StartWalk
  <2>1. /\ pc = "segment" /\ pc' \in {"walk", "sections"} /\ UNCHANGED <<ordered, seg, descs, pos>>
        /\ pc' = "walk" => off' = FileLen - DescriptorSize /\ FileLen >= DescriptorSize
    BY <1>3 DEF NoDescriptors, StartWalk, Goto, position
  <2>2. pc' = "walk" => off' \in Nat
    BY <2>1, SegFacts, SizesAssumption
  <2> QED BY <2>1, <2>2 DEF DescsSound
<1>4. CASE WalkDescriptor
  <2> DEFINE d == ordered[seg].at[off]
             x == [offset |-> off, sec |-> d]
             S == [offset : Nat, sec : Descriptor]
             all == <<x>> \o descs
  <2>1. /\ pc = "walk" /\ off \notin Visited /\ off + DescriptorSize <= FileLen
        /\ descs' = all /\ off' = d.prev /\ UNCHANGED <<ordered, seg, pos>>
        /\ pc' \in {"walk", "sections", "closed"}
    BY <1>4 DEF WalkDescriptor
  <2>2. off \in 0..End(ordered[seg]) /\ off \in Nat
    BY <2>1, SegFacts, SizesAssumption DEF DescsSound, End
  <2>3. d \in Descriptor /\ d.prev \in Nat /\ x \in S
    BY <2>1, <2>2, SegFacts, SegmentFacts, DescriptorFacts
  <2>4. descs \in Seq(S)
    BY DEF DescsSound
  <2>5. \A i \in DOMAIN descs : /\ descs[i].offset # off
                                /\ descs[i].offset \in 0..End(ordered[seg])
                                /\ descs[i].sec = ordered[seg].at[descs[i].offset]
                                /\ \A j \in DOMAIN descs : descs[i].offset = descs[j].offset => i = j
    BY <2>1 DEF DescsSound, Visited
  <2>6. x.offset = off /\ x.sec = ordered[seg].at[off]
    OBVIOUS
  <2> HIDE DEF x, S, d
  <2>7. /\ all \in Seq(S)
        /\ DOMAIN all = 1..Len(descs) + 1 /\ all[1] = x
        /\ \A i \in DOMAIN all : i = 1 \/ (i - 1 \in DOMAIN descs /\ all[i] = descs[i - 1])
    BY <2>3, <2>4, Prepended
  <2> HIDE DEF all
  <2>8. ASSUME NEW i \in DOMAIN all
        PROVE  /\ all[i].offset \in 0..End(ordered[seg])
               /\ all[i].sec = ordered[seg].at[all[i].offset]
               /\ \A j \in DOMAIN all : all[i].offset = all[j].offset => i = j
    <3>1. i \in Nat /\ \A j \in DOMAIN all : j \in Nat
      BY <2>4, <2>7
    <3>2. CASE i = 1
      BY <3>1, <3>2, <2>2, <2>5, <2>6, <2>7
    <3>3. CASE i # 1
      <4>1. i - 1 \in DOMAIN descs /\ all[i] = descs[i - 1]
        BY <3>3, <2>7
      <4>2. ASSUME NEW j \in DOMAIN all, all[i].offset = all[j].offset
            PROVE  i = j
        <5>1. CASE j = 1
          BY <4>1, <4>2, <5>1, <2>5, <2>6, <2>7
        <5>2. CASE j # 1
          <6>1. j - 1 \in DOMAIN descs /\ all[j] = descs[j - 1]
            BY <5>2, <2>7
          <6>2. i - 1 = j - 1
            BY <4>1, <4>2, <6>1, <2>5
          <6> QED BY <6>2, <3>1
        <5> QED BY <5>1, <5>2
      <4>3. all[i].offset \in 0..End(ordered[seg]) /\ all[i].sec = ordered[seg].at[all[i].offset]
        BY <4>1, <2>5
      <4> QED BY <4>2, <4>3
    <3> QED BY <3>2, <3>3
  <2> QED BY <2>1, <2>3, <2>7, <2>8 DEF DescsSound, S
<1>5. CASE SectionSteps
  BY <1>5, SectionKeeps DEF DescsSound
<1>6. CASE NextSegment
  <2>1. /\ pc' \in {"finish", "segment"} /\ descs' = <<>> /\ pos' = 1
    BY <1>6 DEF NextSegment, Goto
  <2> QED BY <2>1 DEF DescsSound
<1>7. CASE Finish
  BY <1>7 DEF Finish, Goto, position, DescsSound
<1> QED BY <1>1, <1>2, <1>3, <1>4, <1>5, <1>6, <1>7 DEF OpenNext, SectionSteps

LEMMA ListSoundStep ==
  ASSUME ReadTyped, DescsSound, ListSound, OpenNext, UNCHANGED image
  PROVE  ListSound'
<1>1. CASE RejectSources \/ WalkFails \/ SectionFails
  BY <1>1, FailKeeps DEF ListSound
<1>2. CASE OrderSegments \/ NextSegment \/ Finish
  <2>1. pc' \notin {"walk", "sections"}
    BY <1>2 DEF OrderSegments, NextSegment, Finish, Goto
  <2> QED BY <2>1 DEF ListSound
<1>3. CASE NoDescriptors
  <2>1. /\ pc = "segment" /\ pc' = "sections" /\ FileLen < DescriptorSize
        /\ UNCHANGED <<ordered, seg, descs>>
    BY <1>3 DEF NoDescriptors, Goto, position
  <2>2. Visited' = {}
    BY <2>1 DEF DescsSound, Visited
  <2>3. Listed(ordered[seg]) = {}
    <3> SUFFICES ASSUME NEW z \in Listed(ordered[seg]) PROVE FALSE
      OBVIOUS
    <3>1. z \in 0..End(ordered[seg])
      BY <2>1, SegFacts, ListedFollows
    <3> QED BY <2>1, <3>1, SegFacts, SizesAssumption DEF End
  <2> QED BY <2>1, <2>2, <2>3 DEF ListSound
<1>4. CASE StartWalk
  <2>1. /\ pc = "segment" /\ pc' = "walk" /\ FileLen >= DescriptorSize
        /\ off' = End(ordered[seg]) /\ UNCHANGED <<ordered, seg, descs>>
    BY <1>4 DEF StartWalk, Goto, End, FileLen
  <2>2. Visited' = {}
    BY <2>1 DEF DescsSound, Visited
  <2>3. End(ordered[seg]) \in Listed(ordered[seg])
    BY <2>1, SegFacts, ListedFollows, SizesAssumption DEF End
  <2> QED BY <2>1, <2>2, <2>3 DEF ListSound
<1>5. CASE WalkDescriptor
  <2> DEFINE s == ordered[seg]
             d == s.at[off]
             x == [offset |-> off, sec |-> d]
  <2>1. /\ pc = "walk" /\ descs' = <<x>> \o descs /\ off' = d.prev /\ UNCHANGED <<ordered, seg>>
        /\ pc' = CASE d.prev = 0 -> "sections" [] d.prev >= FileLen -> "closed" [] OTHER -> "walk"
    BY <1>5 DEF WalkDescriptor
  <2>2. Visited' = Visited \union {off}
    <3>0. off \in 0..End(s) /\ off \in Nat
      BY <1>5, <2>1, SegFacts, SizesAssumption DEF WalkDescriptor, DescsSound, End
    <3>1. x \in [offset : Nat, sec : Descriptor] /\ x.offset = off
      BY <2>1, <3>0, SegFacts, SegmentFacts
    <3>2. descs \in Seq([offset : Nat, sec : Descriptor])
      BY DEF DescsSound
    <3> HIDE DEF x
    <3>3. /\ DOMAIN descs' = 1..Len(descs) + 1 /\ descs'[1] = x
          /\ \A i \in DOMAIN descs' : i = 1 \/ (i - 1 \in DOMAIN descs /\ descs'[i] = descs[i - 1])
          /\ \A i \in DOMAIN descs : i + 1 \in DOMAIN descs' /\ descs'[i + 1] = descs[i]
      BY <2>1, <3>1, <3>2, Prepended
    <3>4. Len(descs) \in Nat /\ 1 \in DOMAIN descs'
      BY <3>2, <3>3
    <3>5. ASSUME NEW v \in Visited' PROVE v \in Visited \union {off}
      <4>1. PICK i \in DOMAIN descs' : v = descs'[i].offset
        BY <3>5 DEF Visited
      <4> QED BY <4>1, <3>1, <3>3 DEF Visited
    <3>6. ASSUME NEW v \in Visited \union {off} PROVE v \in Visited'
      <4>1. CASE v = off
        BY <4>1, <3>1, <3>3, <3>4 DEF Visited
      <4>2. CASE v # off
        <5>1. PICK i \in DOMAIN descs : v = descs[i].offset
          BY <3>6, <4>2 DEF Visited
        <5>2. PICK j \in DOMAIN descs' : descs'[j] = descs[i]
          BY <3>3
        <5> QED BY <5>1, <5>2 DEF Visited
      <4> QED BY <4>1, <4>2
    <3> QED BY <3>5, <3>6
  <2> SUFFICES ASSUME Links(s), pc' \in {"walk", "sections"}
               PROVE  ListSound'
    BY <2>1 DEF ListSound
  <2>3. /\ off \in Listed(s) /\ Visited \subseteq Listed(s)
        /\ End(s) \in Visited \union {off}
        /\ \A v \in Visited : s.at[v].prev = 0 \/ s.at[v].prev \in Visited \union {off}
    BY <2>1 DEF ListSound
  <2>4. IsSegment(s)
    BY <2>1, SegFacts
  <2>5. d.prev = 0 \/ (d.prev < off /\ d.prev \in Listed(s))
    BY <2>3, <2>4, ListedFollows DEF Links, Lower
  <2>6. CASE d.prev = 0
    <3>1. pc' = "sections"
      BY <2>1, <2>6
    <3>2. ASSUME NEW z \in Visited \union {off}, Lower(s, z)
          PROVE  s.at[z].prev \in Visited \union {off}
      BY <2>3, <2>6, <3>2 DEF Lower
    <3> DEFINE V == Visited \union {off}
    <3>3. V \subseteq Listed(s) /\ End(s) \in V
      BY <2>3
    <3>4. \A z \in V \cap Listed(s) : Lower(s, z) => s.at[z].prev \in V
      BY <3>2
    <3> HIDE DEF V
    <3>5. Listed(s) \subseteq V
      BY <2>4, <3>3, <3>4, ListedLeast
    <3>6. Visited' = Listed(s)
      BY <2>2, <3>3, <3>5 DEF V
    <3> QED BY <2>1, <3>1, <3>6 DEF ListSound
  <2>7. CASE d.prev # 0
    <3>1. pc' = "walk"
      BY <2>1, <2>7
    <3>2. /\ d.prev \in Listed(s) /\ Visited' \subseteq Listed(s)
          /\ End(s) \in Visited' \union {d.prev}
          /\ \A v \in Visited' : s.at[v].prev = 0 \/ s.at[v].prev \in Visited' \union {d.prev}
      BY <2>2, <2>3, <2>5, <2>7
    <3> HIDE DEF d
    <3> QED BY <2>1, <3>1, <3>2 DEF ListSound
  <2> QED BY <2>6, <2>7
<1>6. CASE SectionSteps
  BY <1>6, SectionKeeps DEF ListSound, Visited
<1> QED BY <1>1, <1>2, <1>3, <1>4, <1>5, <1>6 DEF OpenNext, SectionSteps

----------------------------------------------------------------------------
(* The reader: its chunks and its stored hashes.                           *)

SegTables(s) == {o \in Listed(s) : s.at[o].type = SectorTable}

GoodLists(segs) ==
  \A k \in 1..Len(segs) : Links(segs[k]) /\ \A o, q \in SegTables(segs[k]) : o = q

\* base[k] is the number of chunks in the tables of the segments before k.
Counts(segs, base) ==
  /\ base \in [1..Len(segs) + 1 -> Nat] /\ base[1] = 0
  /\ \A k \in 1..Len(segs) :
       /\ \A o \in SegTables(segs[k]) : base[k + 1] = base[k] + segs[k].at[o].count
       /\ SegTables(segs[k]) = {} => base[k + 1] = base[k]

ChunkOf(k, e) == NewChunk(k, e.comp, e.off, e.size)

\* The chunks of segment k's table follow those of the segments before.
Placed(segs, base, cs, k) ==
  \A o \in SegTables(segs[k]) : \A i \in 1..segs[k].at[o].count :
    base[k] + i \in DOMAIN cs /\ cs[base[k] + i] = ChunkOf(k, segs[k].at[o].entries[i])

AllPlaced(segs, base, cs, n) ==
  Len(cs) = base[n + 1] /\ \A k \in 1..n : Placed(segs, base, cs, k)

FromTable(segs, c) ==
  \E k \in 1..Len(segs) : \E o \in SegTables(segs[k]) : \E i \in 1..segs[k].at[o].count :
    c = ChunkOf(k, segs[k].at[o].entries[i])

\* A hash section of some segment stores x.
Stores(segs, type, size, x) ==
  \E k \in 1..Len(segs) : \E z \in Listed(segs[k]) :
    LET d == segs[k].at[z] IN d.type = type /\ d.size >= size /\ d.digest = x

TableDone == pc = "sections" /\ \E p \in DOMAIN descs : p < pos /\ descs[p].sec.type = SectorTable
Parsed == IF TableDone THEN seg ELSE seg - 1

ChunksSound ==
  /\ chunks \in Seq(Chunk)
  /\ pc = "headers" => chunks = <<>>
  /\ Live /\ GoodLists(ordered) =>
       /\ \A j \in DOMAIN chunks : FromTable(ordered, chunks[j])
       /\ \A base : Counts(ordered, base) => AllPlaced(ordered, base, chunks, Parsed)

StoredSound ==
  /\ stored \in [md5 : SUBSET Seq(Byte), sha1 : SUBSET Seq(Byte)]
  /\ pc = "headers" => stored.md5 = {} /\ stored.sha1 = {}
  /\ Live /\ GoodLists(ordered) =>
       /\ \A x \in stored.md5 : Stores(ordered, Md5Hash, Md5Size, x)
       /\ \A x \in stored.sha1 : Stores(ordered, Sha1Hash, Sha1Size, x)

\* The section that comes next.
LEMMA NextSection ==
  ASSUME ReadTyped, DescsSound, ListSound, pc = "sections", pos <= Len(descs), NEW o, o = descs[pos].offset
  PROVE  /\ pos \in DOMAIN descs /\ o \in 0..End(ordered[seg]) /\ o \in Nat
         /\ Current = ordered[seg].at[o] /\ Current \in Descriptor
         /\ GoodLists(ordered) => o \in Listed(ordered[seg])
<1>1. pos \in DOMAIN descs
  BY DEF DescsSound
<1>2. o \in 0..End(ordered[seg]) /\ Current = ordered[seg].at[o]
  BY <1>1 DEF DescsSound, Current
<1>3. Current \in Descriptor /\ o \in Nat
  BY <1>2, SegFacts, SegmentFacts
<1>4. GoodLists(ordered) => Visited = Listed(ordered[seg])
  BY SegFacts DEF ListSound, GoodLists
<1> QED BY <1>1, <1>2, <1>3, <1>4 DEF Visited

LEMMA ChunkType ==
  ASSUME NEW k \in Nat, NEW e \in TableEntry
  PROVE  ChunkOf(k, e) \in Chunk
<1>1. \A n \in Nat : n % OffsetBit \in Nat /\ n % SizeModulus \in Nat
  BY WidthAssumption
<1> QED BY <1>1, EntryFacts DEF ChunkOf, NewChunk, Chunk

LEMMA EntriesLength ==
  ASSUME NEW s, IsSegment(s), NEW o \in 0..End(s), NEW d, d = s.at[o], NEW n, n = Len(s.bytes)
  PROVE  Len(d.entries) = EntriesBetween(BodyStart(o, d), n)
BY SegmentFacts

\* What a table section adds.
LEMMA TableAdds ==
  ASSUME ReadTyped, DescsSound, ListSound, TableSection
  PROVE  LET new == [i \in 1..Current.count |-> ChunkOf(seg, Current.entries[i])]
         IN  chunks' = chunks \o new /\ new \in Seq(Chunk) /\ Len(new) = Current.count
<1> DEFINE new == [i \in 1..Current.count |-> ChunkOf(seg, Current.entries[i])]
<1>1. /\ pc = "sections" /\ pos <= Len(descs) /\ ~HandlerFails /\ IsTable
  BY DEF TableSection, Handle
<1>2. PICK o \in Nat : /\ o = descs[pos].offset /\ o \in 0..End(ordered[seg])
                       /\ Current = ordered[seg].at[o] /\ Current \in Descriptor
  BY <1>1, NextSection
<1>3. /\ Current.count \in Nat /\ Current.size \in Nat /\ Current.entries \in Seq(TableEntry)
      /\ DataOffset = o - Current.size
  BY <1>2, DescriptorFacts DEF DataOffset
<1>4. ~(DataOffset < 0) /\ ~(Current.count > EntriesBetween(DataOffset, FileLen))
  BY <1>1 DEF HandlerFails
<1>5. IsSegment(ordered[seg]) /\ FileLen = Len(ordered[seg].bytes) /\ seg \in Nat /\ FileLen \in Nat
  BY <1>1, SegFacts
<1>6. DataOffset \in Nat /\ DataOffset = BodyStart(o, Current)
  <2>1. o - Current.size \in Nat /\ Current.size <= o
    <3>1. PICK z \in Nat : z = Current.size
      BY <1>3
    <3>2. ~(o - z < 0)
      BY <1>3, <1>4, <3>1, Zenon
    <3>3. o \in Nat /\ z \in Nat
      BY <1>2, <3>1
    <3>4. o - z \in Nat /\ z <= o
      BY ONLY <3>2, <3>3
    <3> QED BY <3>1, <3>4, Zenon
  <2>2. PICK d \in Descriptor : d = Current
    BY <1>2
  <2>3. BodyStart(o, d) = o - d.size
    BY <1>2, <2>1, <2>2, BodyStartFacts
  <2> QED BY <1>3, <2>1, <2>2, <2>3, Zenon
<1>7. Len(Current.entries) = EntriesBetween(DataOffset, FileLen) /\ EntriesBetween(DataOffset, FileLen) \in Nat
  <2>1. Len(Current.entries) = EntriesBetween(BodyStart(o, Current), FileLen)
    <3>1. PICK s, d, n : s = ordered[seg] /\ d = Current /\ n = FileLen
      OBVIOUS
    <3>2. IsSegment(s) /\ o \in 0..End(s) /\ d = s.at[o] /\ n = Len(s.bytes)
      BY <1>2, <1>5, <3>1
    <3>3. Len(d.entries) = EntriesBetween(BodyStart(o, d), n)
      BY ONLY <3>2, EntriesLength
    <3> QED BY <3>1, <3>3
  <2>2. EntriesBetween(DataOffset, FileLen) \in Nat
    <3>1. PICK x \in Nat, y \in Nat : x = DataOffset /\ y = FileLen
      BY <1>5, <1>6
    <3>2. x \in Nat /\ y \in Nat /\ y <= y
      OBVIOUS
    <3>3. EntriesBetween(x, y) \in Nat
      BY ONLY <3>2, EntriesGrow
    <3> QED BY <3>1, <3>3
  <2> QED BY <1>2, <1>5, <1>6, <2>1, <2>2
<1>8. \A i \in 1..Current.count : Current.entries[i] \in TableEntry
  BY <1>3, <1>4, <1>7
<1>9. \A i \in 1..Current.count : ChunkOf(seg, Current.entries[i]) \in Chunk
  BY <1>5, <1>8, ChunkType
<1>10. new \in [1..Current.count -> Chunk]
  BY <1>9
<1>11. new \in Seq(Chunk) /\ Len(new) = Current.count
  <2> HIDE DEF new
  <2> QED BY <1>10, <1>3
<1>12. chunks' = chunks \o new
  BY DEF TableSection, ChunkOf
<1> QED BY <1>11, <1>12

LEMMA Joined ==
  ASSUME NEW S, NEW p \in Seq(S), NEW q \in Seq(S)
  PROVE  /\ p \o q \in Seq(S) /\ Len(p \o q) = Len(p) + Len(q)
         /\ \A j \in 1..Len(p) : j \in DOMAIN (p \o q) /\ (p \o q)[j] = p[j]
         /\ \A i \in 1..Len(q) : Len(p) + i \in DOMAIN (p \o q) /\ (p \o q)[Len(p) + i] = q[i]
OBVIOUS

\* One table's chunks behind the others.
LEMMA PlacedMore ==
  ASSUME NEW segs, NEW base, NEW cs \in Seq(Chunk), NEW new \in Seq(Chunk), NEW n \in 1..Len(segs),
         Len(segs) \in Nat, GoodLists(segs), Counts(segs, base), AllPlaced(segs, base, cs, n - 1),
         NEW o \in SegTables(segs[n]), NEW d, d = segs[n].at[o], d.count \in Nat, Len(new) = d.count,
         \A i \in 1..d.count : new[i] = ChunkOf(n, d.entries[i])
  PROVE  AllPlaced(segs, base, cs \o new, n)
<1>1. /\ base[n + 1] = base[n] + d.count /\ Len(cs) = base[n] /\ base[n] \in Nat
      /\ \A k \in 1..n - 1 : Placed(segs, base, cs, k) /\ base[k] \in Nat
  <2>1. n - 1 + 1 = n /\ n \in 1..Len(segs) + 1 /\ \A k \in 1..n - 1 : k \in 1..Len(segs) + 1
    OBVIOUS
  <2>2. base[n + 1] = base[n] + d.count /\ \A k \in 1..Len(segs) + 1 : base[k] \in Nat
    BY DEF Counts
  <2>3. Len(cs) = base[n - 1 + 1] /\ \A k \in 1..n - 1 : Placed(segs, base, cs, k)
    BY DEF AllPlaced
  <2> QED BY <2>1, <2>2, <2>3
<1> DEFINE all == cs \o new
<1>j. cs \in Seq(Chunk) /\ new \in Seq(Chunk)
  OBVIOUS
<1>2. /\ Len(all) = Len(cs) + Len(new) /\ all \in Seq(Chunk)
      /\ \A j \in 1..Len(cs) : j \in DOMAIN all /\ all[j] = cs[j]
      /\ \A i \in 1..Len(new) : Len(cs) + i \in DOMAIN all /\ all[Len(cs) + i] = new[i]
  BY ONLY <1>j, Joined
<1> HIDE DEF all
<1>3. ASSUME NEW k \in 1..n - 1
      PROVE  Placed(segs, base, all, k)
  <2> SUFFICES ASSUME NEW q \in SegTables(segs[k]), NEW i \in 1..segs[k].at[q].count
               PROVE  base[k] + i \in DOMAIN all /\ all[base[k] + i] = ChunkOf(k, segs[k].at[q].entries[i])
    BY DEF Placed
  <2>1. base[k] + i \in DOMAIN cs /\ cs[base[k] + i] = ChunkOf(k, segs[k].at[q].entries[i])
    BY <1>1 DEF Placed
  <2>2. PICK j : j = base[k] + i
    OBVIOUS
  <2>3. j \in 1..Len(cs)
    BY <2>1, <2>2
  <2> QED BY <1>2, <2>1, <2>2, <2>3
<1>4. Placed(segs, base, all, n)
  <2> SUFFICES ASSUME NEW q \in SegTables(segs[n]), NEW i \in 1..segs[n].at[q].count
               PROVE  base[n] + i \in DOMAIN all /\ all[base[n] + i] = ChunkOf(n, segs[n].at[q].entries[i])
    BY DEF Placed
  <2>1. q = o
    BY DEF GoodLists
  <2> QED BY <1>1, <1>2, <2>1
<1>5. Len(all) = base[n + 1]
  BY <1>1, <1>2
<1>6. ASSUME NEW k \in 1..n PROVE Placed(segs, base, all, k)
  BY <1>3, <1>4
<1> QED BY <1>5, <1>6 DEF AllPlaced, all

\* A segment without a table adds nothing.
LEMMA PlacedNone ==
  ASSUME NEW segs, NEW base, NEW cs, NEW n \in 1..Len(segs), Len(segs) \in Nat,
         Counts(segs, base), AllPlaced(segs, base, cs, n - 1), SegTables(segs[n]) = {}
  PROVE  AllPlaced(segs, base, cs, n)
<1>1. base[n + 1] = base[n] /\ n - 1 + 1 = n
  BY DEF Counts
<1>2. Len(cs) = base[n + 1]
  BY <1>1 DEF AllPlaced
<1>3. ASSUME NEW k \in 1..n PROVE Placed(segs, base, cs, k)
  <2>1. CASE k = n
    BY <2>1 DEF Placed
  <2>2. CASE k # n
    BY <2>2 DEF AllPlaced
  <2> QED BY <2>1, <2>2
<1> QED BY <1>2, <1>3 DEF AllPlaced

\* Steps that neither take a table nor leave a segment.
LEMMA ChunksStay ==
  ASSUME ChunksSound, UNCHANGED <<ordered, seg, chunks>>, (TableDone' <=> TableDone), Live' => Live, pc' # "headers"
  PROVE  ChunksSound'
<1>1. Parsed' = Parsed
  BY DEF Parsed
<1>2. ordered' = ordered /\ chunks' = chunks
  OBVIOUS
<1>3. chunks' \in Seq(Chunk)
  BY <1>2 DEF ChunksSound
<1>4. ASSUME Live', GoodLists(ordered)
      PROVE  /\ \A j \in DOMAIN chunks : FromTable(ordered, chunks[j])
             /\ \A base : Counts(ordered, base) => AllPlaced(ordered, base, chunks, Parsed)
  BY <1>4 DEF ChunksSound
<1> QED BY <1>1, <1>2, <1>3, <1>4 DEF ChunksSound

\* With one table in a segment, the table that comes next is the first.
LEMMA FirstTable ==
  ASSUME ReadTyped, DescsSound, ListSound, pc = "sections", pos <= Len(descs), IsTable, GoodLists(ordered),
         NEW o, o = descs[pos].offset
  PROVE  ~TableDone /\ o \in SegTables(ordered[seg])
<1>1. /\ pos \in DOMAIN descs /\ o \in Listed(ordered[seg]) /\ Current = ordered[seg].at[o]
  BY NextSection
<1>2. o \in SegTables(ordered[seg])
  BY <1>1 DEF SegTables, IsTable
<1>3. ASSUME NEW p \in DOMAIN descs, descs[p].sec.type = SectorTable
      PROVE  p = pos
  <2>1. PICK q : q = descs[p].offset
    OBVIOUS
  <2>2. descs[p].sec = ordered[seg].at[q]
    BY <2>1 DEF DescsSound
  <2>3. q \in Listed(ordered[seg])
    <3>1. Visited = Listed(ordered[seg])
      BY SegFacts DEF ListSound, GoodLists
    <3> QED BY <2>1, <3>1 DEF Visited
  <2>4. q = o
    <3>1. q \in SegTables(ordered[seg])
      BY <1>3, <2>2, <2>3 DEF SegTables
    <3> QED BY <1>2, <3>1, SegFacts DEF GoodLists
  <2> QED BY <1>1, <2>1, <2>4 DEF DescsSound
<1>4. ~TableDone
  <2>1. pos \in Nat
    BY DEF DescsSound
  <2> QED BY <1>3, <2>1 DEF TableDone
<1> QED BY <1>2, <1>4

LEMMA ChunksTable ==
  ASSUME ReadTyped, DescsSound, ListSound, ChunksSound, TableSection
  PROVE  ChunksSound'
<1> DEFINE new == [i \in 1..Current.count |-> ChunkOf(seg, Current.entries[i])]
<1>1. chunks' = chunks \o new /\ new \in Seq(Chunk) /\ Len(new) = Current.count
  BY TableAdds
<1>2. /\ pc = "sections" /\ pos <= Len(descs) /\ pos' = pos + 1 /\ IsTable
      /\ UNCHANGED <<pc, ordered, seg, off, descs, opened>>
  BY DEF TableSection, Handle
<1>3. PICK o : o = descs[pos].offset
  OBVIOUS
<1>4. /\ pos \in DOMAIN descs /\ Current = ordered[seg].at[o] /\ Current \in Descriptor
  BY <1>2, <1>3, NextSection
<1>5. Current.count \in Nat
  BY <1>4, DescriptorFacts
<1>6. \A i \in 1..Current.count : new[i] = ChunkOf(seg, Current.entries[i])
  OBVIOUS
<1>7. IsSegment(ordered[seg]) /\ seg \in 1..Len(ordered) /\ Len(ordered) \in Nat
  BY <1>2, SegFacts
<1>8. chunks \in Seq(Chunk)
  BY DEF ChunksSound
<1> HIDE DEF new
<1>9. chunks' \in Seq(Chunk) /\ \A j \in DOMAIN chunks' : j \in DOMAIN chunks \/ \E i \in 1..Len(new) : chunks'[j] = new[i]
  <2>1. PICK cs : cs = chunks
    OBVIOUS
  <2>2. cs \in Seq(Chunk) /\ new \in Seq(Chunk)
    BY <1>1, <1>8, <2>1
  <2>3. cs \o new \in Seq(Chunk) /\ \A j \in DOMAIN (cs \o new) : j \in DOMAIN cs \/ \E i \in 1..Len(new) : (cs \o new)[j] = new[i]
    BY ONLY <2>2
  <2> QED BY <1>1, <2>1, <2>3
<1>10. \A j \in DOMAIN chunks : chunks'[j] = chunks[j]
  BY ONLY <1>1, <1>8
<1>11. pc' # "headers"
  BY <1>2
<1> SUFFICES ASSUME GoodLists(ordered)
             PROVE  /\ \A j \in DOMAIN chunks' : FromTable(ordered, chunks'[j])
                    /\ \A base : Counts(ordered, base) => AllPlaced(ordered, base, chunks', Parsed')
  BY <1>2, <1>9, <1>11 DEF ChunksSound
<1>12. ~TableDone /\ o \in SegTables(ordered[seg])
  BY <1>2, <1>3, FirstTable
<1>13. Live
  BY <1>2 DEF Live
<1>14. Parsed = seg - 1 /\ Parsed' = seg
  <2>1. TableDone'
    <3>1. pos < pos'
      BY <1>2 DEF DescsSound
    <3>2. descs'[pos].sec.type = SectorTable
      BY <1>2 DEF IsTable, Current
    <3> QED BY <1>2, <1>4, <3>1, <3>2 DEF TableDone
  <2> QED BY <1>2, <1>12, <2>1 DEF Parsed
<1>15. ASSUME NEW j \in DOMAIN chunks' PROVE FromTable(ordered, chunks'[j])
  <2>1. CASE j \in DOMAIN chunks
    BY <1>10, <1>13, <2>1 DEF ChunksSound
  <2>2. CASE \E i \in 1..Len(new) : chunks'[j] = new[i]
    <3>1. PICK i \in 1..Len(new) : chunks'[j] = new[i]
      BY <2>2
    <3>2. i \in 1..ordered[seg].at[o].count /\ chunks'[j] = ChunkOf(seg, ordered[seg].at[o].entries[i])
      BY <1>1, <1>4, <1>6, <3>1
    <3> QED BY <1>7, <1>12, <3>2 DEF FromTable
  <2> QED BY <1>9, <2>1, <2>2
<1>16. ASSUME NEW base, Counts(ordered, base) PROVE AllPlaced(ordered, base, chunks', Parsed')
  <2>1. AllPlaced(ordered, base, chunks, seg - 1)
    BY <1>13, <1>14, <1>16 DEF ChunksSound
  <2>2. PICK segs, cs, n, d : segs = ordered /\ cs = chunks /\ n = seg /\ d = Current
    OBVIOUS
  <2>3. /\ cs \in Seq(Chunk) /\ new \in Seq(Chunk) /\ n \in 1..Len(segs) /\ Len(segs) \in Nat
        /\ GoodLists(segs) /\ Counts(segs, base) /\ AllPlaced(segs, base, cs, n - 1)
        /\ o \in SegTables(segs[n]) /\ d = segs[n].at[o] /\ d.count \in Nat /\ Len(new) = d.count
        /\ \A i \in 1..d.count : new[i] = ChunkOf(n, d.entries[i])
    BY <1>1, <1>4, <1>5, <1>6, <1>7, <1>8, <1>12, <1>16, <2>1, <2>2
  <2>4. AllPlaced(segs, base, cs \o new, n)
    BY ONLY <2>3, PlacedMore
  <2> QED BY <1>1, <1>14, <2>2, <2>4
<1> QED BY <1>15, <1>16

LEMMA ChunksNext ==
  ASSUME ReadTyped, DescsSound, ListSound, ChunksSound, NextSegment
  PROVE  ChunksSound'
<1>1. /\ pc = "sections" /\ pos > Len(descs) /\ seg' = seg + 1 /\ ordered' = ordered /\ chunks' = chunks
      /\ pc' \in {"finish", "segment"}
  BY DEF NextSegment, Goto, result
<1>2. IsSegment(ordered[seg]) /\ seg \in 1..Len(ordered) /\ Len(ordered) \in Nat
  BY <1>1, SegFacts
<1>3. Live
  BY <1>1 DEF Live
<1>4. Parsed' = seg
  <2>1. ~TableDone'
    BY <1>1 DEF TableDone
  <2> QED BY <1>1, <1>2, <2>1 DEF Parsed
<1>5. chunks \in Seq(Chunk) /\ pc' # "headers"
  BY <1>1 DEF ChunksSound
<1> SUFFICES ASSUME GoodLists(ordered)
             PROVE  /\ \A j \in DOMAIN chunks : FromTable(ordered, chunks[j])
                    /\ \A base : Counts(ordered, base) => AllPlaced(ordered, base, chunks, seg)
  BY <1>1, <1>4, <1>5 DEF ChunksSound
<1>6. \A j \in DOMAIN chunks : FromTable(ordered, chunks[j])
  BY <1>3 DEF ChunksSound
<1>7. ASSUME NEW base, Counts(ordered, base) PROVE AllPlaced(ordered, base, chunks, seg)
  <2>1. AllPlaced(ordered, base, chunks, Parsed)
    BY <1>3, <1>7 DEF ChunksSound
  <2>2. CASE TableDone
    BY <2>1, <2>2 DEF Parsed
  <2>3. CASE ~TableDone
    <3>1. ASSUME NEW o \in SegTables(ordered[seg]) PROVE FALSE
      <4>1. o \in Visited /\ ordered[seg].at[o].type = SectorTable
        BY <1>1, <1>2 DEF ListSound, GoodLists, SegTables
      <4>2. PICK p \in DOMAIN descs : descs[p].offset = o
        BY <4>1 DEF Visited
      <4>3. descs[p].sec = ordered[seg].at[o]
        BY <1>1, <4>2 DEF DescsSound
      <4>4. p < pos
        BY <1>1, <4>2 DEF DescsSound
      <4> QED BY <1>1, <2>3, <4>1, <4>3, <4>4 DEF TableDone
    <3>2. PICK segs, n, cs : segs = ordered /\ n = seg /\ cs = chunks
      OBVIOUS
    <3>3. /\ n \in 1..Len(segs) /\ Len(segs) \in Nat /\ Counts(segs, base)
          /\ AllPlaced(segs, base, cs, n - 1) /\ SegTables(segs[n]) = {}
      BY <1>2, <1>7, <2>1, <2>3, <3>1, <3>2 DEF Parsed
    <3>4. AllPlaced(segs, base, cs, n)
      BY ONLY <3>3, PlacedNone
    <3> QED BY <3>2, <3>4
  <2> QED BY <2>2, <2>3
<1> QED BY <1>6, <1>7

LEMMA ChunksSoundInit ==
  ASSUME Init
  PROVE  ChunksSound
<1>1. pc = "headers" /\ chunks = <<>> /\ ~Live
  BY DEF Init, OpenInit, Live
<1>2. chunks \in Seq(Chunk)
  BY <1>1
<1> QED BY <1>1, <1>2 DEF ChunksSound

LEMMA ChunksSoundStep ==
  ASSUME ReadTyped, DescsSound, ListSound, ChunksSound, OpenNext, UNCHANGED image
  PROVE  ChunksSound'
<1>1. CASE RejectSources \/ WalkFails \/ SectionFails
  <2>1. ~Live' /\ pc' # "headers" /\ chunks' = chunks
    BY <1>1, FailKeeps DEF Live, ReadTyped
  <2> QED BY <2>1 DEF ChunksSound
<1>2. CASE OrderSegments
  <2>1. pc = "headers" /\ pc' = "segment" /\ chunks' = chunks /\ chunks = <<>> /\ seg' = 1
    BY <1>2 DEF OrderSegments, Goto, ReadTyped, ChunksSound, result
  <2>2. Parsed' = 0
    BY <2>1 DEF Parsed, TableDone
  <2>3. ASSUME NEW segs, NEW base, Counts(segs, base), NEW cs, cs = <<>>
        PROVE  AllPlaced(segs, base, cs, 0)
    <3>1. base[0 + 1] = 0 /\ Len(cs) = 0 /\ 1..0 = {}
      BY <2>3 DEF Counts
    <3> QED BY <3>1 DEF AllPlaced
  <2>4. \A base : Counts(ordered', base) => AllPlaced(ordered', base, chunks', Parsed')
    BY <2>1, <2>2, <2>3
  <2>5. chunks' \in Seq(Chunk) /\ \A j \in DOMAIN chunks' : FALSE
    BY <2>1
  <2> QED BY <2>1, <2>4, <2>5 DEF ChunksSound
<1>3. CASE NoDescriptors \/ StartWalk \/ WalkDescriptor
  <2>1. /\ UNCHANGED <<ordered, seg, chunks, opened>> /\ pc \in {"segment", "walk"}
        /\ pc' \in {"sections", "walk", "closed"} /\ pos' = pos
    BY <1>3 DEF NoDescriptors, StartWalk, WalkDescriptor, Goto, position, result
  <2>2. pos = 1
    BY <2>1 DEF DescsSound
  <2>3. ~TableDone
    BY <2>1 DEF TableDone
  <2>4. ~TableDone'
    <3>1. CASE NoDescriptors
      <4>1. descs' = descs /\ pc = "segment"
        BY <3>1 DEF NoDescriptors, Goto, position
      <4>2. descs = <<>>
        BY <4>1 DEF DescsSound
      <4> QED BY <4>1, <4>2 DEF TableDone
    <3>2. CASE StartWalk
      BY <3>2 DEF StartWalk, Goto, TableDone
    <3>3. CASE WalkDescriptor
      <4>1. descs' \in Seq([offset : Nat, sec : Descriptor])
        BY DescsSoundStep DEF DescsSound
      <4>2. \A p \in DOMAIN descs' : ~(p < 1)
        BY ONLY <4>1
      <4>3. pos' = 1
        BY <2>1, <2>2
      <4> QED BY <4>2, <4>3 DEF TableDone
    <3> QED BY <1>3, <3>1, <3>2, <3>3
  <2>5. Live' => Live
    BY <2>1 DEF Live
  <2> QED BY <2>1, <2>3, <2>4, <2>5, ChunksStay
<1>4. CASE TableSection
  BY <1>4, ChunksTable
<1>5. CASE CaseSection \/ DeviceSection \/ HashSection \/ OtherSection
  <2>1. /\ pc = "sections" /\ pos <= Len(descs) /\ pos' = pos + 1
        /\ UNCHANGED <<pc, ordered, seg, descs, opened>>
    BY <1>5, SectionKeeps DEF SectionSteps
  <2>2. chunks' = chunks
    BY <1>5 DEF CaseSection, DeviceSection, HashSection, OtherSection, result
  <2>3. descs[pos].sec.type # SectorTable
    BY <1>5 DEF CaseSection, DeviceSection, HashSection, OtherSection, Handle, IsCase, IsDevice, IsMd5, IsSha1,
                IsTable, Current, CaseData, DeviceInfo, Md5Hash, Sha1Hash, SectorTable
  <2>4. (TableDone' <=> TableDone)
    <3>1. \A p \in DOMAIN descs : p < pos + 1 <=> p < pos \/ p = pos
      BY DEF DescsSound
    <3> QED BY <2>1, <2>3, <3>1 DEF TableDone
  <2>5. (Live' => Live) /\ pc' # "headers"
    BY <2>1 DEF Live
  <2> QED BY <2>1, <2>2, <2>4, <2>5, ChunksStay
<1>6. CASE NextSegment
  BY <1>6, ChunksNext
<1>7. CASE Finish
  <2>1. pc = "finish" /\ pc' = "closed" /\ UNCHANGED <<ordered, seg, chunks>>
    BY <1>7 DEF Finish, Goto, position, result
  <2>2. (TableDone' <=> TableDone) /\ Live /\ pc' # "headers"
    BY <2>1 DEF TableDone, Live
  <2> QED BY <2>1, <2>2, ChunksStay
<1> QED BY <1>1, <1>2, <1>3, <1>4, <1>5, <1>6, <1>7 DEF OpenNext

LEMMA StoredSoundInit ==
  ASSUME Init
  PROVE  StoredSound
BY DEF Init, OpenInit, StoredSound, Live

LEMMA StoredSoundStep ==
  ASSUME ReadTyped, DescsSound, ListSound, StoredSound, OpenNext, UNCHANGED image
  PROVE  StoredSound'
<1>1. CASE RejectSources \/ WalkFails \/ SectionFails
  <2>1. ~Live' /\ pc' # "headers" /\ stored' = stored
    BY <1>1, FailKeeps DEF Live, ReadTyped
  <2> QED BY <2>1 DEF StoredSound
<1>2. CASE OrderSegments
  <2>1. pc = "headers" /\ pc' = "segment" /\ stored' = stored
    BY <1>2 DEF OrderSegments, Goto, result
  <2> QED BY <2>1 DEF StoredSound
<1>3. CASE HashSection
  <2>1. /\ pc = "sections" /\ pos <= Len(descs) /\ pc' = pc /\ ordered' = ordered /\ opened' = opened
        /\ IsMd5 \/ IsSha1
    BY <1>3 DEF HashSection, Handle
  <2>2. PICK o : o = descs[pos].offset
    OBVIOUS
  <2>3. /\ Current = ordered[seg].at[o] /\ Current \in Descriptor
        /\ GoodLists(ordered) => o \in Listed(ordered[seg])
    BY <2>1, <2>2, NextSection
  <2>4. Current.digest \in Seq(Byte) /\ seg \in 1..Len(ordered)
    BY <2>1, <2>3, DescriptorFacts, SegFacts
  <2>5. Live
    BY <2>1 DEF Live
  <2>6. CASE IsMd5
    <3>1. stored' = [stored EXCEPT !.md5 = {Current.digest}]
      BY <1>3, <2>6 DEF HashSection
    <3>2. /\ stored'.md5 = {Current.digest} /\ stored'.sha1 = stored.sha1
          /\ stored' \in [md5 : SUBSET Seq(Byte), sha1 : SUBSET Seq(Byte)]
      BY <2>4, <3>1 DEF StoredSound
    <3>3. GoodLists(ordered) => Stores(ordered, Md5Hash, Md5Size, Current.digest)
      BY <2>3, <2>4, <2>6 DEF Stores, IsMd5
    <3> QED BY <2>1, <2>5, <3>2, <3>3 DEF StoredSound
  <2>7. CASE ~IsMd5
    <3>1. stored' = [stored EXCEPT !.sha1 = {Current.digest}] /\ IsSha1
      BY <1>3, <2>1, <2>7 DEF HashSection
    <3>2. /\ stored'.sha1 = {Current.digest} /\ stored'.md5 = stored.md5
          /\ stored' \in [md5 : SUBSET Seq(Byte), sha1 : SUBSET Seq(Byte)]
      BY <2>4, <3>1 DEF StoredSound
    <3>3. GoodLists(ordered) => Stores(ordered, Sha1Hash, Sha1Size, Current.digest)
      BY <2>3, <2>4, <3>1 DEF Stores, IsSha1
    <3> QED BY <2>1, <2>5, <3>2, <3>3 DEF StoredSound
  <2> QED BY <2>6, <2>7
<1>4. CASE \/ NoDescriptors \/ StartWalk \/ WalkDescriptor \/ NextSegment \/ Finish
           \/ CaseSection \/ DeviceSection \/ TableSection \/ OtherSection
  <2>1. ordered' = ordered /\ stored' = stored /\ pc' # "headers"
    BY <1>4 DEF NoDescriptors, StartWalk, WalkDescriptor, NextSegment, Finish, CaseSection, DeviceSection,
                TableSection, OtherSection, Handle, Goto, position, result
  <2>2. Live
    BY <1>4 DEF NoDescriptors, StartWalk, WalkDescriptor, NextSegment, Finish, CaseSection, DeviceSection,
                TableSection, OtherSection, Handle, Goto, Live
  <2> QED BY <2>1, <2>2 DEF StoredSound
<1> QED BY <1>1, <1>2, <1>3, <1>4 DEF OpenNext

----------------------------------------------------------------------------
(* A chunk's page.                                                         *)

\* A page is padded with zeros.
Octet == Byte \union {0}

\* What Filled says of one chunk, and of the chunk's place.
EntryFilled(k, e) ==
  /\ e.comp => Inflate(SubSeq(image[k].bytes, e.off + 1, e.off + e.size)) = Inflate(DataOf(k, e))
  /\ Len(ContentOf(k, e)) <= opened.chunk_size

LEMMA Remainder ==
  ASSUME NEW n \in Nat, NEW m \in Nat, n < m
  PROVE  n % m = n
OBVIOUS

LEMMA ChunkIs ==
  ASSUME NEW k, NEW e \in TableEntry, e.off < OffsetBit
  PROVE  ChunkOf(k, e) = [seg |-> k, comp |-> e.comp, off |-> e.off, size |-> e.size]
<1>1. e.off \in Nat /\ e.size \in Nat /\ e.size < SizeModulus /\ OffsetBit \in Nat /\ SizeModulus \in Nat
  BY EntryFacts, WidthAssumption
<1>2. e.off % OffsetBit = e.off /\ e.size % SizeModulus = e.size
  BY <1>1, Remainder
<1> QED BY <1>2 DEF ChunkOf, NewChunk

LEMMA PaddedIs ==
  ASSUME NEW q \in Seq(Byte), NEW n \in Nat
  PROVE  /\ Padded(q, n) \in Seq(Octet) /\ Len(Padded(q, n)) = n
         /\ \A i \in 1..n : i <= Len(q) => Padded(q, n)[i] = q[i]
<1>1. \A i \in 1..n : (IF i <= Len(q) THEN q[i] ELSE 0) \in Octet
  BY DEF Octet
<1>2. Padded(q, n) = [i \in 1..n |-> IF i <= Len(q) THEN q[i] ELSE 0]
  BY DEF Padded
<1>3. Padded(q, n) \in [1..n -> Octet]
  BY <1>1, <1>2
<1>4. \A i \in 1..n : i <= Len(q) => Padded(q, n)[i] = q[i]
  BY <1>2
<1> QED BY <1>3, <1>4

LEMMA Slices ==
  ASSUME NEW q \in Seq(Byte), NEW a \in Nat, NEW n \in Nat, a + n <= Len(q)
  PROVE  /\ SubSeq(q, a + 1, a + n) \in Seq(Byte) /\ Len(SubSeq(q, a + 1, a + n)) = n
         /\ \A i \in 1..n : SubSeq(q, a + 1, a + n)[i] = q[a + i]
OBVIOUS

\* The page of a chunk that unpacks can be read, and starts with what the chunk holds.
PageShows(k, e) ==
  LET p == Page(ChunkOf(k, e))
      c == ContentOf(k, e)
  IN  /\ p.ok /\ p.bytes \in Seq(Octet) /\ Len(p.bytes) = opened.chunk_size
      /\ c \in Seq(Byte)
      /\ \A i \in 1..Len(c) : c[i] = p.bytes[i]

LEMMA PageOf ==
  ASSUME NEW k, NEW e \in TableEntry, ordered = image, IsSegment(image[k]),
         e.off + e.size <= Len(image[k].bytes), Unpacks(k, e), opened.chunk_size \in Nat, EntryFilled(k, e)
  PROVE  PageShows(k, e)
<1>1. PICK data \in Seq(Byte), cs \in Nat : data = image[k].bytes /\ cs = opened.chunk_size
  BY SegmentFacts
<1>2. /\ e.off \in Nat /\ e.size \in Nat /\ SatSub(e.size, CrcSize) \in Nat /\ SatSub(e.size, CrcSize) <= e.size
      /\ e.comp \in BOOLEAN
  BY EntryFacts
<1>3. PICK a \in Nat, z \in Nat, m \in Nat : a = e.off /\ z = e.size /\ m = SatSub(e.size, CrcSize)
  BY <1>2
<1>4. a + z <= Len(data) /\ m <= z /\ Len(data) < OffsetBit /\ Len(data) \in Nat /\ a < OffsetBit
  BY <1>1, <1>2, <1>3, SegmentFacts, WidthAssumption
<1>5. ChunkOf(k, e) = [seg |-> k, comp |-> e.comp, off |-> a, size |-> z]
  BY <1>3, <1>4, ChunkIs
<1>6. DataOf(k, e) = SubSeq(data, a + 1, a + m)
  BY <1>1, <1>3 DEF DataOf
<1> DEFINE size == IF e.comp THEN z ELSE SmallerOf(z, cs)
           raw == SubSeq(data, a + 1, SmallerOf(a + size, Len(data)))
           out == IF e.comp THEN Inflate(raw) ELSE [ok |-> Len(raw) = size, bytes |-> raw]
<1>7. Page(ChunkOf(k, e)) = [ok |-> out.ok \/ (e.comp /\ Len(out.bytes) >= cs), bytes |-> Padded(out.bytes, cs)]
  <2>1. PICK c : c = ChunkOf(k, e)
    OBVIOUS
  <2>2. c.seg = k /\ c.comp = e.comp /\ c.off = a /\ c.size = z
    BY <1>5, <2>1
  <2> DEFINE file == ordered[c.seg].bytes
             csize == IF c.comp THEN c.size ELSE SmallerOf(c.size, opened.chunk_size)
             craw == SubSeq(file, c.off + 1, SmallerOf(c.off + csize, Len(file)))
             cout == IF c.comp THEN Inflate(craw) ELSE [ok |-> Len(craw) = csize, bytes |-> craw]
  <2>3. Page(c) = [ok |-> cout.ok \/ (c.comp /\ Len(cout.bytes) >= opened.chunk_size),
                   bytes |-> Padded(cout.bytes, opened.chunk_size)]
    BY Zenon DEF Page
  <2>4. file = data /\ csize = size
    BY <1>1, <2>2
  <2> HIDE DEF file, csize, size
  <2>5. craw = raw
    BY <2>2, <2>4
  <2> HIDE DEF craw, raw
  <2>6. cout = out
    BY <2>2, <2>4, <2>5
  <2> HIDE DEF cout, out
  <2> QED BY <1>1, <2>1, <2>2, <2>3, <2>6
<1>8. size \in Nat /\ size <= z /\ SmallerOf(a + size, Len(data)) = a + size
  BY <1>4 DEF SmallerOf
<1>9. raw = SubSeq(data, a + 1, a + size)
  BY <1>8
<1>10. CASE e.comp
  <2>1. raw = SubSeq(data, a + 1, a + z) /\ out = Inflate(raw)
    BY <1>9, <1>10
  <2>2. out = Inflate(DataOf(k, e))
    BY <1>1, <1>3, <1>10, <2>1 DEF EntryFilled
  <2>3. ContentOf(k, e) = out.bytes /\ out.ok
    BY <1>10, <2>2 DEF ContentOf, Unpacks
  <2>4. out.bytes \in Seq(Byte)
    <3>1. a \in 0..Len(data) /\ a + m \in 0..Len(data)
      BY <1>4
    <3>2. Inflate(SubSeq(data, a + 1, a + m)) \in [ok : BOOLEAN, bytes : Seq(Byte)]
      BY <1>1, <3>1 DEF IsSegment
    <3>3. Inflate(SubSeq(data, a + 1, a + m)).bytes \in Seq(Byte)
      BY ONLY <3>2
    <3> QED BY <1>6, <2>2, <3>3
  <2> HIDE DEF out
  <2>5. PICK c \in Seq(Byte) : c = out.bytes
    BY <2>4
  <2>6. /\ Padded(c, cs) \in Seq(Octet) /\ Len(Padded(c, cs)) = cs
        /\ \A i \in 1..cs : i <= Len(c) => Padded(c, cs)[i] = c[i]
    BY PaddedIs
  <2>7. Len(c) <= cs /\ Len(c) \in Nat
    BY <1>1, <2>3, <2>5 DEF EntryFilled
  <2>8. \A i \in 1..Len(c) : c[i] = Padded(c, cs)[i]
    BY <2>6, <2>7
  <2>9. Page(ChunkOf(k, e)).ok /\ Page(ChunkOf(k, e)).bytes = Padded(c, cs)
    <3>1. Page(ChunkOf(k, e)).ok = (out.ok \/ (e.comp /\ Len(out.bytes) >= cs))
      BY <1>7
    <3>2. Page(ChunkOf(k, e)).bytes = Padded(out.bytes, cs)
      BY <1>7
    <3> QED BY <2>3, <2>5, <3>1, <3>2
  <2> QED BY <1>1, <2>3, <2>5, <2>6, <2>8, <2>9, Zenon DEF PageShows
<1>11. CASE ~e.comp
  <2>1. size = SmallerOf(z, cs) /\ out = [ok |-> Len(raw) = size, bytes |-> raw]
    BY <1>11
  <2>2. ContentOf(k, e) = SubSeq(data, a + 1, a + m)
    BY <1>6, <1>11 DEF ContentOf
  <2>3. PICK n \in Nat : n = size
    BY <1>8
  <2>4. n <= z /\ (n = z \/ n = cs) /\ n <= cs
    BY <1>8, <2>1, <2>3 DEF SmallerOf
  <2>5. raw = SubSeq(data, a + 1, a + n)
    BY <1>9, <2>3
  <2>6. out.ok = (Len(raw) = size) /\ out.bytes = raw
    <3> HIDE DEF raw, size
    <3>1. out.ok = (Len(raw) = size)
      BY <2>1
    <3>2. out.bytes = raw
      BY <2>1
    <3> QED BY <3>1, <3>2
  <2> HIDE DEF out, raw, size
  <2>7. raw \in Seq(Byte) /\ Len(raw) = n /\ \A i \in 1..n : raw[i] = data[a + i]
    <3>1. a + n <= Len(data)
      BY <1>4, <2>4
    <3>2. PICK c \in Seq(Byte) : /\ c = SubSeq(data, a + 1, a + n) /\ Len(c) = n
                                 /\ \A i \in 1..n : c[i] = data[a + i]
      BY <3>1, Slices
    <3> QED BY <2>5, <3>2
  <2>8. PICK c \in Seq(Byte) : /\ c = ContentOf(k, e) /\ Len(c) = m
                               /\ \A i \in 1..m : c[i] = data[a + i]
    <3>1. a + m <= Len(data)
      BY <1>4
    <3>2. PICK c \in Seq(Byte) : /\ c = SubSeq(data, a + 1, a + m) /\ Len(c) = m
                                 /\ \A i \in 1..m : c[i] = data[a + i]
      BY <3>1, Slices
    <3> QED BY <2>2, <3>2
  <2>9. m <= cs /\ m <= n
    BY <1>1, <1>4, <2>4, <2>8 DEF EntryFilled
  <2>10. /\ Padded(raw, cs) \in Seq(Octet) /\ Len(Padded(raw, cs)) = cs
         /\ \A i \in 1..cs : i <= Len(raw) => Padded(raw, cs)[i] = raw[i]
    BY <2>7, PaddedIs
  <2>11. \A i \in 1..Len(c) : c[i] = Padded(raw, cs)[i]
    BY <2>7, <2>8, <2>9, <2>10
  <2>12. Page(ChunkOf(k, e)).ok /\ Page(ChunkOf(k, e)).bytes = Padded(raw, cs)
    <3>1. Page(ChunkOf(k, e)).ok = (out.ok \/ (e.comp /\ Len(out.bytes) >= cs))
      BY <1>7
    <3>2. Page(ChunkOf(k, e)).bytes = Padded(out.bytes, cs)
      BY <1>7
    <3> QED BY <2>3, <2>6, <2>7, <3>1, <3>2
  <2> QED BY <1>1, <2>8, <2>10, <2>11, <2>12, Zenon DEF PageShows
<1> QED BY <1>2, <1>10, <1>11

----------------------------------------------------------------------------
(* What the analysis hashes, beside the reader's pages.                    *)

AllFilled ==
  \A s \in DOMAIN image : \A o \in TablesOf(s) : \A i \in 1..image[s].at[o].count :
    LET e == image[s].at[o].entries[i]
    IN  /\ EntryFilled(s, e)
        /\ Len(ContentOf(s, e)) = opened.chunk_size \/ (s = Len(image) /\ i = image[s].at[o].count)

\* The function of MediaRead.
IsPages(f) ==
  f = [i \in 0..Len(opened.chunks) |->
        IF i = 0 THEN <<>> ELSE f[i - 1] \o Page(opened.chunks[i]).bytes]

\* How many chunks the hashing has passed.
Passed(base) == IF step = "chunks" THEN base[cur] + (entry - 1) ELSE base[cur]

\* hashed is the first k pages, the last page of the media perhaps cut short.
Follow(f, k) ==
  /\ k \in 0..Len(opened.chunks) /\ f[k] \in Seq(Octet)
  /\ Len(hashed) <= Len(f[k]) /\ \A i \in 1..Len(hashed) : hashed[i] = f[k][i]
  /\ k < Len(opened.chunks) => hashed = f[k]

Comparable == ~Analysing /\ Regular /\ issues = {} /\ opened.ok /\ AllFilled

HashedSound ==
  /\ hashed \in Seq(Byte)
  /\ Analysing => hashed = <<>>
  /\ pc # "closed" => Analysing
  /\ Comparable => \A base, f : Counts(image, base) /\ IsPages(f) => Follow(f, Passed(base))

LEMMA PrefixJoin ==
  ASSUME NEW S, NEW h \in Seq(S), NEW c \in Seq(S), NEW q \in Seq(S), Len(c) <= Len(q),
         \A i \in 1..Len(c) : c[i] = q[i]
  PROVE  /\ h \o q \in Seq(S) /\ Len(h \o c) <= Len(h \o q)
         /\ \A i \in 1..Len(h \o c) : (h \o c)[i] = (h \o q)[i]
         /\ Len(c) = Len(q) => h \o c = h \o q
<1>1. /\ h \o q \in Seq(S) /\ h \o c \in Seq(S) /\ Len(h \o q) = Len(h) + Len(q) /\ Len(h \o c) = Len(h) + Len(c)
      /\ Len(h) \in Nat /\ Len(c) \in Nat /\ Len(q) \in Nat
  OBVIOUS
<1>2. ASSUME NEW i \in 1..Len(h \o c) PROVE (h \o c)[i] = (h \o q)[i]
  <2>1. CASE i <= Len(h)
    BY <1>1, <2>1
  <2>2. CASE i > Len(h)
    <3>1. PICK j \in 1..Len(c) : i = Len(h) + j
      <4>1. i \in 1..Len(h) + Len(c)
        BY <1>1
      <4>2. i - Len(h) \in 1..Len(c) /\ i = Len(h) + (i - Len(h))
        BY <1>1, <2>2, <4>1
      <4> QED BY <4>2
    <3>2. (h \o c)[i] = c[j] /\ (h \o q)[i] = q[j]
      BY <1>1, <3>1
    <3> QED BY <3>2
  <2> QED BY <1>1, <2>1, <2>2
<1>3. Len(c) = Len(q) => h \o c = h \o q
  <2> SUFFICES ASSUME Len(c) = Len(q) PROVE h \o c = h \o q
    OBVIOUS
  <2>1. Len(h \o c) = Len(h \o q)
    BY <1>1
  <2>2. PICK u \in Seq(S), v \in Seq(S) : u = h \o c /\ v = h \o q
    BY <1>1
  <2>3. Len(u) = Len(v) /\ \A i \in 1..Len(u) : u[i] = v[i]
    BY <1>2, <2>1, <2>2
  <2>4. u = v
    BY ONLY <2>3, u \in Seq(S), v \in Seq(S)
  <2> QED BY <2>2, <2>4
<1> QED BY <1>1, <1>2, <1>3

\* The reader, once it is open, on an image whose segments were given in order.
LEMMA ReaderHas ==
  ASSUME ReadTyped, ChunksSound, Regular, opened.ok, \A k \in DOMAIN image : image[k].number = k
  PROVE  /\ ordered = image /\ GoodLists(image) /\ Len(image) \in Nat \ {0} /\ DOMAIN image = 1..Len(image)
         /\ opened.chunks \in Seq(Chunk) /\ opened.chunk_size \in Nat
         /\ \A j \in DOMAIN opened.chunks : FromTable(image, opened.chunks[j])
         /\ \A base : Counts(image, base) => AllPlaced(image, base, opened.chunks, Len(image))
<1>1. /\ Live /\ pc = "closed" /\ ordered = Reordered(image) /\ ~Rejected(image) /\ image \in Images
      /\ seg = Len(ordered) + 1 /\ opened.chunks = chunks /\ opened.chunk_size \in Nat
  BY DEF ReadTyped, Live
<1>2. DOMAIN image = 1..Len(image) /\ Len(image) \in Nat \ {0}
  BY <1>1, ImageFacts, ReorderedFacts
<1>3. ordered = image
  BY <1>1, <1>2, ReorderedFacts
<1>4. GoodLists(image)
  BY <1>2, RegularFacts DEF GoodLists, SegTables, TablesOf
<1>5. Parsed = Len(image)
  BY <1>1, <1>2, <1>3 DEF Parsed, TableDone
<1> QED BY <1>1, <1>2, <1>3, <1>4, <1>5 DEF ChunksSound

LEMMA ChunkShown ==
  ASSUME image \in Images, Regular, ordered = image, opened.chunk_size \in Nat, AllFilled,
         NEW k \in DOMAIN image, Clean(k), NEW o \in TablesOf(k), NEW d, d = image[k].at[o],
         NEW i \in 1..d.count, NEW e, e = d.entries[i]
  PROVE  /\ PageShows(k, e)
         /\ Len(ContentOf(k, e)) <= opened.chunk_size
         /\ Len(ContentOf(k, e)) = opened.chunk_size \/ (k = Len(image) /\ i = d.count)
<1>1. IsSegment(image[k]) /\ Intact(k)
  BY ImageFacts, RegularFacts
<1>2. e \in TableEntry /\ e.off + e.size <= Len(image[k].bytes)
  BY <1>1, TableFacts
<1>3. Unpacks(k, e)
  BY DEF Clean
<1>4. EntryFilled(k, e) /\ (Len(ContentOf(k, e)) = opened.chunk_size \/ (k = Len(image) /\ i = d.count))
  BY DEF AllFilled
<1>5. PageShows(k, e)
  BY <1>1, <1>2, <1>3, <1>4, PageOf
<1> QED BY <1>4, <1>5 DEF EntryFilled

LEMMA SameReader ==
  ASSUME UNCHANGED <<image, openVars>>
  PROVE  /\ AllFilled' = AllFilled /\ opened' = opened /\ pc' = pc
         /\ \A f : IsPages(f)' = IsPages(f)
<1>1. opened' = opened /\ ordered' = ordered /\ image' = image /\ pc' = pc
  BY DEF openVars, position
<1>2. AllFilled' = AllFilled
  <2>1. \A k, e : DataOf(k, e)' = DataOf(k, e)
    BY <1>1, Zenon DEF DataOf
  <2>2. \A k, e : ContentOf(k, e)' = ContentOf(k, e)
    BY <2>1, Zenon DEF ContentOf
  <2>3. \A k, e : EntryFilled(k, e)' = EntryFilled(k, e)
    BY <1>1, <2>1, <2>2, Zenon DEF EntryFilled
  <2>4. \A k : TablesOf(k)' = TablesOf(k)
    BY <1>1, Zenon DEF TablesOf
  <2> QED BY <1>1, <2>2, <2>3, <2>4 DEF AllFilled
<1>3. \A f : IsPages(f)' = IsPages(f)
  <2>1. \A c : Page(c)' = Page(c)
    BY <1>1, Zenon DEF Page
  <2> QED BY <1>1, <2>1, Zenon DEF IsPages
<1> QED BY <1>1, <1>2, <1>3

\* The bytes that a chunk unpacks to.
LEMMA UnpackedBytes ==
  ASSUME CheckSound, step = "chunks", EntryReadable
  PROVE  Unpacked.bytes \in Seq(Byte)
<1>1. PICK s : s = image[cur]
  OBVIOUS
<1>2. IsSegment(s) /\ found.table \in TablesOf(cur) /\ found.table \in 0..End(s) /\ found.table \in Nat
  <2>1. cur \in DOMAIN image /\ found.table \in TablesOf(cur) /\ image \in Images
    BY DEF CheckSound, InSegment, HasTable
  <2>2. IsSegment(s)
    BY <1>1, <2>1, ImageFacts
  <2>3. found.table \in 0..End(s)
    BY <1>1, <2>1, <2>2, ListedFollows DEF TablesOf
  <2> QED BY <2>1, <2>2, <2>3
<1>3. PICK o \in 0..End(s) : o = found.table
  BY <1>2
<1>4. entry \in Nat \ {0} /\ entry <= EntriesBetween(BodyStart(o, s.at[o]), o)
  BY <1>1, <1>3 DEF EntryReadable, CheckSound, TableStart, Table
<1>5. Entry \in TableEntry
  <2>1. s.at[o].entries[entry] \in TableEntry
    BY <1>2, <1>4, EntriesHeld
  <2> QED BY <1>1, <1>3, <2>1 DEF Entry, Table
<1>6. PICK data \in Seq(Byte), a \in Nat, m \in Nat : data = s.bytes /\ a = Entry.off /\ m = RawSize
  BY <1>2, <1>5, SegmentFacts, EntryFacts DEF RawSize
<1>7. a + m <= Len(data)
  BY <1>1, <1>6 DEF EntryReadable, DataLen, Data
<1>8. Raw = SubSeq(data, a + 1, a + m)
  BY <1>1, <1>6 DEF Raw, Data
<1>9. CASE Entry.comp
  <2>1. a \in 0..Len(data) /\ a + m \in 0..Len(data)
    BY <1>7
  <2>2. Inflate(SubSeq(data, a + 1, a + m)) \in [ok : BOOLEAN, bytes : Seq(Byte)]
    BY <1>2, <1>6, <2>1 DEF IsSegment
  <2>3. Inflate(SubSeq(data, a + 1, a + m)).bytes \in Seq(Byte)
    BY ONLY <2>2
  <2> QED BY <1>8, <1>9, <2>3 DEF Unpacked
<1>10. CASE ~Entry.comp
  <2>1. SubSeq(data, a + 1, a + m) \in Seq(Byte)
    BY <1>7, Slices
  <2>2. Unpacked = [ok |-> TRUE, bytes |-> Raw]
    BY <1>10 DEF Unpacked
  <2>3. Unpacked.bytes = Raw
    BY ONLY <2>2
  <2> QED BY <1>8, <2>1, <2>3
<1> QED BY <1>9, <1>10

LEMMA PageStep ==
  ASSUME NEW f, IsPages(f), NEW n \in Nat, n = Len(opened.chunks)
  PROVE  /\ f[0] = <<>>
         /\ \A j \in 1..n : f[j] = f[j - 1] \o Page(opened.chunks[j]).bytes
<1> DEFINE P(i) == Page(opened.chunks[i]).bytes
<1>1. f = [i \in 0..n |-> IF i = 0 THEN <<>> ELSE f[i - 1] \o P(i)]
  BY Zenon DEF IsPages
<1> HIDE DEF P
<1>2. ASSUME NEW i \in 0..n PROVE f[i] = IF i = 0 THEN <<>> ELSE f[i - 1] \o P(i)
  BY <1>1, Zenon
<1>3. f[0] = <<>>
  <2>1. 0 \in 0..n
    OBVIOUS
  <2> QED BY ONLY <1>2, <2>1
<1>4. ASSUME NEW j \in 1..n PROVE f[j] = f[j - 1] \o P(j)
  <2>1. j \in 0..n /\ j # 0
    OBVIOUS
  <2> QED BY ONLY <1>2, <2>1, Zenon
<1> QED BY <1>3, <1>4 DEF P

\* One more page.
LEMMA FollowMore ==
  ASSUME NEW f, IsPages(f), NEW k \in Nat, NEW n \in Nat, n = Len(opened.chunks), k + 1 <= n,
         Follow(f, k), hashed \in Seq(Byte),
         NEW seq \in Seq(Byte), hashed' = hashed \o seq, opened' = opened,
         NEW page \in Seq(Octet), page = Page(opened.chunks[k + 1]).bytes,
         Len(seq) <= Len(page), \A i \in 1..Len(seq) : seq[i] = page[i],
         k + 1 < n => Len(seq) = Len(page)
  PROVE  Follow(f, k + 1)'
<1>1. k + 1 \in 1..n /\ k < n
  OBVIOUS
<1>2. f[k + 1] = f[k] \o page
  <2>1. PICK j \in 1..n : j = k + 1 /\ j - 1 = k
    BY <1>1
  <2>2. f[j] = f[j - 1] \o Page(opened.chunks[j]).bytes
    BY PageStep
  <2> QED BY <2>1, <2>2
<1>3. hashed = f[k]
  BY <1>1 DEF Follow
<1>4. PICK h \in Seq(Octet) : h = hashed
  BY <1>3 DEF Follow
<1>5. seq \in Seq(Octet)
  <2>1. ASSUME NEW A, NEW B, A \subseteq B, NEW q \in Seq(A) PROVE q \in Seq(B)
    BY <2>1
  <2>2. seq \in Seq(Byte) /\ Byte \subseteq Octet
    BY DEF Octet
  <2> QED BY ONLY <2>1, <2>2
<1>6. /\ h \o page \in Seq(Octet) /\ Len(h \o seq) <= Len(h \o page)
      /\ \A i \in 1..Len(h \o seq) : (h \o seq)[i] = (h \o page)[i]
      /\ Len(seq) = Len(page) => h \o seq = h \o page
  <2>1. /\ h \in Seq(Octet) /\ seq \in Seq(Octet) /\ page \in Seq(Octet) /\ Len(seq) <= Len(page)
        /\ \A i \in 1..Len(seq) : seq[i] = page[i]
    BY <1>5
  <2> QED BY ONLY <2>1, PrefixJoin
<1>7. f[k + 1] = h \o page /\ hashed' = h \o seq
  BY <1>2, <1>3, <1>4
<1>8. k + 1 \in 0..n /\ (k + 1 < n => Len(seq) = Len(page))
  BY <1>1
<1> QED BY <1>1, <1>6, <1>7, <1>8 DEF Follow

\* What a later state needs of this one to be compared.
LEMMA StillComparable ==
  ASSUME UNCHANGED <<image, openVars, pass>>, issues \subseteq issues', Comparable'
  PROVE  Comparable
<1>1. Regular /\ AllFilled /\ opened.ok
  BY SameImage, SameReader DEF Comparable
<1>2. issues = {} /\ ~Analysing
  BY DEF Comparable, Analysing
<1> QED BY <1>1, <1>2 DEF Comparable

LEMMA ComparableFacts ==
  ASSUME ReadTyped, ChunksSound, CheckSound, AnalysisSound, Comparable
  PROVE  /\ Seen /\ (\A k \in DOMAIN image : Clean(k)) /\ \A k \in DOMAIN image : image[k].number = k
         /\ Regular /\ opened.ok /\ AllFilled /\ image \in Images
<1>1. Seen /\ Regular /\ opened.ok /\ AllFilled
  BY DEF AnalysisSound, Comparable
<1>2. \A k \in DOMAIN image : Clean(k)
  BY <1>1 DEF Seen, CleanBehind, Reached, Comparable, Analysing, CheckSound
<1>3. \A k \in DOMAIN image : image[k].number = k
  BY <1>2 DEF Clean
<1> QED BY <1>1, <1>2, <1>3 DEF CheckSound

LEMMA HashedChunk ==
  ASSUME ReadTyped, ChunksSound, CheckSound, AnalysisSound, HashedSound, CheckChunk, pc = "closed",
         UNCHANGED <<image, openVars>>
  PROVE  HashedSound'
<1>1. /\ step = "chunks" /\ EntryReadable /\ issues \subseteq issues'
      /\ entry' = entry + 1 /\ UNCHANGED <<step, pass, cur, found>>
      /\ Analysing => hashed' = hashed
      /\ ~Analysing => hashed' = IF Unpacked.ok THEN hashed \o Unpacked.bytes ELSE hashed
  BY DEF CheckChunk
<1>2. Unpacked.bytes \in Seq(Byte) /\ hashed \in Seq(Byte)
  BY <1>1, UnpackedBytes DEF HashedSound
<1>3. hashed' \in Seq(Byte)
  <2>1. PICK h \in Seq(Byte), u \in Seq(Byte) : h = hashed /\ u = Unpacked.bytes
    BY <1>2
  <2>2. h \o u \in Seq(Byte)
    OBVIOUS
  <2> QED BY <1>1, <2>1, <2>2
<1>4. Analysing' => hashed' = <<>>
  BY <1>1 DEF HashedSound, Analysing
<1>5. pc' = "closed"
  BY SameReader
<1> SUFFICES ASSUME Comparable', NEW base, NEW f, Counts(image, base), IsPages(f)
             PROVE  Follow(f, Passed(base))'
  BY <1>3, <1>4, <1>5, SameReader DEF HashedSound
<1>6. Comparable
  BY <1>1, StillComparable
<1>7. /\ Seen /\ (\A k \in DOMAIN image : Clean(k)) /\ \A k \in DOMAIN image : image[k].number = k
      /\ Regular /\ opened.ok /\ AllFilled /\ image \in Images
  BY <1>6, ComparableFacts
<1>8. /\ ordered = image /\ GoodLists(image) /\ Len(image) \in Nat \ {0} /\ DOMAIN image = 1..Len(image)
      /\ opened.chunks \in Seq(Chunk) /\ opened.chunk_size \in Nat
      /\ AllPlaced(image, base, opened.chunks, Len(image))
  BY <1>7, ReaderHas
<1>9. PICK o \in TablesOf(cur) : o = found.table
  BY <1>1 DEF CheckSound, InSegment, HasTable
<1>10. cur \in DOMAIN image /\ Clean(cur) /\ Intact(cur) /\ entry \in Nat \ {0}
  BY <1>1, <1>7, RegularFacts DEF CheckSound, InSegment
<1>11. PICK d, e : d = image[cur].at[o] /\ d = Table /\ e = d.entries[entry] /\ e = Entry
  BY <1>9 DEF Table, Entry
<1>12. d.count \in Nat /\ entry \in 1..d.count
  BY <1>1, <1>10, <1>11, IntactReadable
<1>13. /\ PageShows(cur, e) /\ Len(ContentOf(cur, e)) <= opened.chunk_size
       /\ Len(ContentOf(cur, e)) = opened.chunk_size \/ (cur = Len(image) /\ entry = d.count)
  <2>1. PICK k, i : k = cur /\ i = entry
    OBVIOUS
  <2>2. k \in DOMAIN image /\ Clean(k) /\ o \in TablesOf(k) /\ d = image[k].at[o] /\ i \in 1..d.count /\ e = d.entries[i]
    BY <1>9, <1>10, <1>11, <1>12, <2>1
  <2>3. /\ PageShows(k, e) /\ Len(ContentOf(k, e)) <= opened.chunk_size
        /\ Len(ContentOf(k, e)) = opened.chunk_size \/ (k = Len(image) /\ i = d.count)
    <3>1. image \in Images /\ Regular /\ ordered = image /\ opened.chunk_size \in Nat /\ AllFilled
      BY <1>7, <1>8
    <3> QED BY ONLY <2>2, <3>1, ChunkShown
  <2> QED BY <2>1, <2>3
<1>14. hashed' = hashed \o ContentOf(cur, e)
  <2>1. Raw = DataOf(cur, e)
    BY <1>11 DEF Raw, RawSize, DataOf, Data
  <2>2. Unpacks(cur, e)
    BY <1>10, <1>11, <1>12 DEF Clean
  <2>3. CASE e.comp
    <3>1. Unpacked = Inflate(DataOf(cur, e)) /\ ContentOf(cur, e) = Inflate(DataOf(cur, e)).bytes
      BY <1>11, <2>1, <2>3 DEF Unpacked, ContentOf
    <3>2. Unpacked.ok
      BY <2>2, <2>3, <3>1 DEF Unpacks
    <3> QED BY <1>1, <1>6, <3>1, <3>2 DEF Comparable
  <2>4. CASE ~e.comp
    <3>1. Unpacked = [ok |-> TRUE, bytes |-> DataOf(cur, e)] /\ ContentOf(cur, e) = DataOf(cur, e)
      BY <1>11, <2>1, <2>4 DEF Unpacked, ContentOf
    <3>2. Unpacked.ok /\ Unpacked.bytes = DataOf(cur, e)
      BY <3>1
    <3> QED BY <1>1, <1>6, <3>1, <3>2 DEF Comparable
  <2> QED BY <2>3, <2>4
<1>15. /\ base[cur] \in Nat /\ base[cur + 1] = base[cur] + d.count
  <2>1. o \in SegTables(image[cur])
    BY <1>9 DEF SegTables, TablesOf
  <2>2. cur \in 1..Len(image) + 1 /\ cur \in 1..Len(image)
    BY <1>8, <1>10
  <2> QED BY <1>11, <2>1, <2>2 DEF Counts
<1>16. PICK k \in Nat, n \in Nat : /\ k = base[cur] + (entry - 1) /\ n = Len(opened.chunks)
                                   /\ k + 1 = base[cur] + entry
  BY <1>8, <1>10, <1>15
<1>17. k + 1 <= n /\ opened.chunks[k + 1] = ChunkOf(cur, e)
  <2>1. Placed(image, base, opened.chunks, cur) /\ o \in SegTables(image[cur])
    BY <1>8, <1>9, <1>10 DEF AllPlaced, SegTables, TablesOf
  <2>2. base[cur] + entry \in DOMAIN opened.chunks /\ opened.chunks[base[cur] + entry] = ChunkOf(cur, e)
    BY <1>11, <1>12, <2>1 DEF Placed
  <2> QED BY <1>8, <1>16, <2>2
<1>18. Passed(base) = k /\ Passed(base)' = k + 1
  <2>1. Passed(base) = k
    BY <1>1, <1>16 DEF Passed
  <2>2. Passed(base)' = base[cur] + entry
    <3>1. step' = "chunks" /\ cur' = cur /\ entry' = entry + 1
      BY <1>1
    <3>2. PICK p : p = Passed(base)'
      OBVIOUS
    <3>3. p = base[cur'] + (entry' - 1)
      BY <3>1, <3>2 DEF Passed
    <3>4. base[cur'] = base[cur] /\ entry' - 1 = entry
      BY <1>10, <3>1
    <3> QED BY <3>2, <3>3, <3>4
  <2> QED BY <1>16, <2>1, <2>2
<1>19. Follow(f, k)
  BY <1>6, <1>18 DEF HashedSound
<1>20. PICK seq \in Seq(Byte), page \in Seq(Octet) :
         /\ seq = ContentOf(cur, e) /\ page = Page(opened.chunks[k + 1]).bytes
         /\ Len(page) = opened.chunk_size /\ \A i \in 1..Len(seq) : seq[i] = page[i]
  BY <1>13, <1>17 DEF PageShows
<1>21. Len(seq) <= Len(page) /\ (k + 1 < n => Len(seq) = Len(page))
  <2>1. n = base[Len(image) + 1]
    BY <1>8, <1>16 DEF AllPlaced
  <2>2. CASE cur = Len(image) /\ entry = d.count
    BY <1>13, <1>15, <1>16, <1>20, <2>1, <2>2
  <2>3. CASE Len(ContentOf(cur, e)) = opened.chunk_size
    BY <1>13, <1>20, <2>3
  <2> QED BY <1>13, <2>2, <2>3
<1>22. hashed' = hashed \o seq /\ opened' = opened
  BY <1>14, <1>20, SameReader
<1>23. Follow(f, k + 1)'
  BY <1>2, <1>8, <1>16, <1>17, <1>19, <1>20, <1>21, <1>22, FollowMore
<1> QED BY <1>18, <1>23

LEMMA CountsAt ==
  ASSUME NEW base, Counts(image, base), Len(image) \in Nat, NEW k \in 1..Len(image)
  PROVE  /\ base[k] \in Nat
         /\ \A o \in TablesOf(k) : base[k + 1] = base[k] + image[k].at[o].count
         /\ TablesOf(k) = {} => base[k + 1] = base[k]
<1>1. k \in 1..Len(image) + 1 /\ TablesOf(k) = SegTables(image[k])
  BY DEF TablesOf, SegTables
<1> QED BY <1>1 DEF Counts

\* Steps that hash nothing and leave no chunk out.
LEMMA HashedStays ==
  ASSUME HashedSound, pc = "closed", UNCHANGED <<image, openVars, pass, hashed>>, issues \subseteq issues',
         Comparable => \A base : Counts(image, base) => Passed(base)' = Passed(base)
  PROVE  HashedSound'
<1>1. hashed' = hashed /\ pass' = pass /\ pc' = "closed" /\ opened' = opened /\ image' = image
  BY SameReader
<1>2. hashed' \in Seq(Byte) /\ (Analysing' => hashed' = <<>>)
  BY <1>1 DEF HashedSound, Analysing
<1> SUFFICES ASSUME Comparable', NEW base, NEW f, Counts(image, base), IsPages(f)
             PROVE  Follow(f, Passed(base))'
  BY <1>1, <1>2, SameReader DEF HashedSound
<1>3. Comparable
  BY StillComparable
<1>4. PICK k : k = Passed(base)
  OBVIOUS
<1>5. Follow(f, k) /\ Passed(base)' = k
  BY <1>3, <1>4 DEF HashedSound
<1>6. Follow(f, k)'
  BY <1>1, <1>5 DEF Follow
<1> QED BY <1>5, <1>6

\* The chunks of a segment that is left have all been passed.
LEMMA PassedWhenLeft ==
  ASSUME ReadTyped, ChunksSound, CheckSound, AnalysisSound, Comparable,
         \/ step = "walked" /\ ~HasTable
         \/ step = "chunks" /\ ~EntryReadable,
         NEW base, Counts(image, base)
  PROVE  base[cur + 1] = Passed(base)
<1>1. Seen /\ Regular /\ image \in Images /\ cur \in DOMAIN image
  BY ComparableFacts DEF CheckSound, InSegment
<1>2. Len(image) \in Nat /\ cur \in 1..Len(image) /\ IsSegment(image[cur])
  BY <1>1, ImageFacts
<1>3. /\ base[cur] \in Nat /\ (TablesOf(cur) = {} => base[cur + 1] = base[cur])
      /\ \A o \in TablesOf(cur) : base[cur + 1] = base[cur] + image[cur].at[o].count
  BY <1>2, CountsAt
<1>4. Intact(cur)
  BY <1>1, RegularFacts
<1>5. CASE step = "walked" /\ ~HasTable
  <2>1. Passed(base) = base[cur]
    BY <1>5 DEF Passed
  <2>2. ASSUME NEW o \in TablesOf(cur) PROVE image[cur].at[o].count = 0
    <3>1. found.table = o /\ Table = image[cur].at[o]
      BY <1>1, <1>5, OwnTable
    <3>2. PICK d : d = image[cur].at[o]
      OBVIOUS
    <3>3. /\ d \in Descriptor /\ o \in Nat /\ BodyStart(o, d) = o - d.size /\ d.size <= o
          /\ d.count <= EntriesBetween(BodyStart(o, d), o)
      BY <1>1, <1>2, <1>4, <3>2, TableFacts
    <3>4. d.size \in Nat /\ d.count \in Nat
      BY <3>3, DescriptorFacts
    <3>5. TableLen = o - (o - d.size) /\ found.table # None
      BY <3>1, <3>2, <3>3 DEF TableLen, TableStart, None
    <3>6. d.size < TableHeaderSize + EntrySize
      BY <1>5, <3>3, <3>4, <3>5, SizesAssumption DEF HasTable
    <3>7. EntriesBetween(o - d.size, o) = 0
      BY <3>3, <3>4, <3>6, NoRoom
    <3> QED BY <3>2, <3>3, <3>4, <3>7
  <2>3. CASE TablesOf(cur) = {}
    BY <1>3, <2>1, <2>3
  <2>4. CASE TablesOf(cur) # {}
    <3>1. PICK o \in TablesOf(cur) : TRUE
      BY <2>4
    <3>2. base[cur + 1] = base[cur] + 0
      BY <1>3, <2>2, <3>1
    <3> QED BY <1>3, <2>1, <3>2
  <2> QED BY <2>3, <2>4
<1>6. CASE step = "chunks" /\ ~EntryReadable
  <2>1. PICK o \in TablesOf(cur) : o = found.table /\ Table = image[cur].at[o]
    BY <1>6 DEF CheckSound, InSegment, HasTable, Table
  <2>2. /\ ChunkCount = Table.count /\ ChunkCount \in Nat /\ ~(entry <= ChunkCount)
    BY <1>4, <1>6, IntactReadable
  <2>3. entry <= Table.count + 1 /\ entry \in Nat
    BY <1>1, <1>6 DEF Seen, EntryBound, CheckSound
  <2>4. entry - 1 = Table.count
    BY <2>2, <2>3
  <2>5. Passed(base) = base[cur] + (entry - 1)
    BY <1>6 DEF Passed
  <2> QED BY <1>3, <2>1, <2>4, <2>5
<1> QED BY <1>5, <1>6

LEMMA HashedStart ==
  ASSUME ReadTyped, ChunksSound, CheckSound, AnalysisSound, HashedSound, StartHashing, pc = "closed",
         UNCHANGED <<image, openVars>>
  PROVE  HashedSound'
<1>1. hashed = <<>> /\ hashed' = hashed /\ step' = "segment" /\ cur' = 1 /\ ~Analysing' /\ issues' = issues
  BY DEF StartHashing, HashedSound, Analysing
<1>2. pc' = "closed" /\ opened' = opened
  BY SameReader
<1>3. hashed' \in Seq(Byte)
  BY <1>1 DEF HashedSound
<1> SUFFICES ASSUME Comparable', NEW base, NEW f, Counts(image, base), IsPages(f)
             PROVE  Follow(f, Passed(base))'
  BY <1>1, <1>2, <1>3, SameReader DEF HashedSound
<1>4. PICK k : k = Passed(base)'
  OBVIOUS
<1>5. k = 0
  <2>1. k = base[cur']
    BY <1>1, <1>4 DEF Passed
  <2> QED BY <1>1, <2>1 DEF Counts
<1>6. opened.ok /\ opened.chunks \in Seq(Chunk)
  BY <1>2 DEF Comparable, ReadTyped, ChunksSound
<1>7. PICK n \in Nat : n = Len(opened.chunks)
  BY <1>6
<1>8. f[0] = <<>>
  BY <1>7, PageStep
<1>9. Follow(f, 0)'
  <2>1. /\ 0 \in 0..n /\ f[0] \in Seq(Octet) /\ Len(hashed') = 0 /\ Len(f[0]) = 0 /\ hashed' = f[0]
    BY <1>1, <1>8
  <2> QED BY <1>2, <1>7, <2>1 DEF Follow
<1> QED BY <1>4, <1>5, <1>9

LEMMA HashedSoundStep ==
  ASSUME ReadTyped, ChunksSound, CheckSound, AnalysisSound, HashedSound, Next
  PROVE  HashedSound'
<1>1. CASE Open
  <2>1. pc # "closed"
    BY <1>1 DEF Open, OpenNext, RejectSources, OrderSegments, NoDescriptors, StartWalk, WalkFails, WalkDescriptor,
                SectionFails, CaseSection, DeviceSection, TableSection, HashSection, OtherSection, NextSegment,
                Finish, Handle, Goto, Fail
  <2>2. pass' = pass /\ hashed' = hashed
    BY <1>1 DEF Open, checkVars
  <2>3. Analysing /\ Analysing'
    BY <2>1, <2>2 DEF HashedSound, Analysing
  <2> QED BY <2>2, <2>3 DEF HashedSound, Comparable
<1>2. CASE Check
  <2>1. pc = "closed" /\ CheckNext /\ UNCHANGED <<image, openVars>>
    BY <1>2 DEF Check
  <2>2. CASE CheckChunk
    BY <2>1, <2>2, HashedChunk
  <2>3. CASE StartHashing
    BY <2>1, <2>3, HashedStart
  <2>4. CASE OpenSegment \/ WalkDescriptor2 \/ WalkEnds \/ CompareHashes
    <3>1. /\ step # "chunks" /\ step' # "chunks" /\ cur' = cur /\ pass' = pass /\ hashed' = hashed
          /\ issues \subseteq issues'
      BY <2>4 DEF OpenSegment, WalkDescriptor2, WalkEnds, CompareHashes
    <3>2. \A base : Passed(base)' = Passed(base)
      BY <3>1 DEF Passed
    <3> QED BY <2>1, <3>1, <3>2, HashedStays
  <2>5. CASE ShortSegment
    <3>1. /\ cur <= Len(image) /\ TooShort /\ pass' = pass /\ hashed' = hashed /\ issues \subseteq issues'
      BY <2>5 DEF ShortSegment
    <3>2. ASSUME Comparable PROVE FALSE
      <4>1. image \in Images /\ \A k \in DOMAIN image : Clean(k)
        BY <3>2, ComparableFacts
      <4>2. cur \in DOMAIN image /\ IsSegment(image[cur])
        BY <3>1, <4>1, ImageFacts DEF CheckSound
      <4>3. Long(cur) /\ Len(image[cur].bytes) \in Nat
        BY <4>1, <4>2, SegmentFacts DEF Clean
      <4> QED BY <3>1, <4>3, SizesAssumption DEF Long, TooShort, DataLen, Data
    <3> QED BY <2>1, <3>1, <3>2, HashedStays
  <2>6. CASE CloseSegment /\ HasTable
    <3>1. /\ step = "walked" /\ step' = "chunks" /\ cur' = cur /\ entry' = 1 /\ pass' = pass /\ hashed' = hashed
          /\ issues \subseteq issues'
      BY <2>6 DEF CloseSegment
    <3>2. ASSUME NEW base, Counts(image, base) PROVE Passed(base)' = Passed(base)
      <4>1. cur \in 1..Len(image) /\ Len(image) \in Nat
        BY <3>1, ImageFacts DEF CheckSound, InSegment
      <4>2. base[cur] \in Nat
        BY <3>2, <4>1, CountsAt
      <4>3. PICK p : p = Passed(base)'
        OBVIOUS
      <4>4. p = base[cur'] + (entry' - 1)
        BY <3>1, <4>3 DEF Passed
      <4>5. p = base[cur]
        BY <3>1, <4>2, <4>4
      <4> QED BY <3>1, <4>3, <4>5 DEF Passed
    <3> QED BY <2>1, <3>1, <3>2, HashedStays
  <2>7. CASE (CloseSegment /\ ~HasTable) \/ ChunksEnd
    <3>1. /\ (step = "walked" /\ ~HasTable) \/ (step = "chunks" /\ ~EntryReadable)
          /\ step' = "segment" /\ cur' = cur + 1 /\ pass' = pass /\ hashed' = hashed
          /\ issues \subseteq issues'
      BY <2>7 DEF CloseSegment, ChunksEnd, NextUp
    <3>2. ASSUME Comparable, NEW base, Counts(image, base) PROVE Passed(base)' = Passed(base)
      <4>1. base[cur + 1] = Passed(base)
        BY <3>1, <3>2, PassedWhenLeft
      <4>2. PICK p : p = Passed(base)'
        OBVIOUS
      <4>3. p = base[cur']
        BY <3>1, <4>2 DEF Passed
      <4> QED BY <3>1, <4>1, <4>2, <4>3
    <3> QED BY <2>1, <3>1, <3>2, HashedStays
  <2> QED BY <2>1, <2>2, <2>3, <2>4, <2>5, <2>6, <2>7 DEF CheckNext
<1> QED BY <1>1, <1>2 DEF Next

LEMMA HashedSoundStutters ==
  ASSUME HashedSound, UNCHANGED vars
  PROVE  HashedSound'
<1>1. UNCHANGED <<image, openVars, pass, hashed>> /\ issues' = issues /\ step' = step /\ cur' = cur /\ entry' = entry
  BY DEF vars, checkVars
<1>2. \A base : Passed(base)' = Passed(base)
  BY <1>1 DEF Passed
<1>3. CASE pc = "closed"
  BY <1>1, <1>2, <1>3, HashedStays
<1>4. CASE pc # "closed"
  <2>1. Analysing /\ Analysing' /\ hashed' = hashed
    BY <1>1, <1>4 DEF HashedSound, Analysing
  <2> QED BY <2>1 DEF HashedSound, Comparable
<1> QED BY <1>3, <1>4

LEMMA HashedSoundInit ==
  ASSUME Init
  PROVE  HashedSound
<1>1. pass = "analyse" /\ hashed = <<>>
  BY DEF Init, CheckInit
<1> QED BY <1>1 DEF HashedSound, Comparable, Analysing

----------------------------------------------------------------------------
(* The comparison.                                                         *)

DoneSound ==
  step = "done" =>
    /\ ~Analysing /\ cur > Len(image)
    /\ issues = {} /\ found_chunks => \A h \in {"md5", "sha1"} : final[h] = {} \/ final[h] = {hashed}

LEMMA DoneSoundStep ==
  ASSUME DoneSound, Next
  PROVE  DoneSound'
<1>1. CASE Open
  <2>1. UNCHANGED <<image, pass, cur, step, issues, found_chunks, final, hashed>>
    BY <1>1 DEF Open, checkVars
  <2> QED BY <2>1 DEF DoneSound, Analysing
<1>2. CASE Check /\ ~CompareHashes
  <2>1. step # "done" /\ step' # "done"
    BY <1>2 DEF Check, CheckNext, ShortSegment, OpenSegment, WalkDescriptor2, WalkEnds, CloseSegment, CheckChunk,
                ChunksEnd, StartHashing, NextUp
  <2> QED BY <2>1 DEF DoneSound
<1>3. CASE Check /\ CompareHashes
  <2> DEFINE names == [md5 |-> "HashMismatch", sha1 |-> "DigestSha1Mismatch", sha256 |-> "DigestSha256Mismatch"]
  <2>1. /\ ~Analysing /\ cur > Len(image) /\ Compared(names, final) \subseteq issues'
        /\ UNCHANGED <<image, pass, cur, found_chunks, final, hashed>>
    BY <1>3 DEF Check, CompareHashes
  <2>2. \A h \in {"md5", "sha1"} : h \in DOMAIN names
    OBVIOUS
  <2> HIDE DEF names
  <2>3. ASSUME issues' = {}, NEW h \in {"md5", "sha1"} PROVE ~Differs(final[h])
    <3>1. Compared(names, final) = {}
      BY <2>1, <2>3
    <3>2. h \in DOMAIN names
      BY <2>2
    <3>3. ASSUME Differs(final[h]) PROVE [kind |-> names[h], seg |-> 0, at |-> 0] \in Compared(names, final)
      BY <3>2, <3>3 DEF Compared
    <3> QED BY <3>1, <3>3
  <2>4. ASSUME issues' = {}, found_chunks', NEW h \in {"md5", "sha1"} PROVE final'[h] = {} \/ final'[h] = {hashed'}
    BY <2>1, <2>3, <2>4 DEF Differs
  <2>5. ~Analysing' /\ cur' > Len(image')
    BY <2>1 DEF Analysing
  <2> QED BY <2>4, <2>5 DEF DoneSound
<1> QED BY <1>1, <1>2, <1>3 DEF Next

LEMMA DoneSoundStutters ==
  ASSUME DoneSound, UNCHANGED vars
  PROVE  DoneSound'
<1>1. UNCHANGED <<image, pass, cur, step, issues, found_chunks, final, hashed>>
  BY DEF vars, checkVars
<1> QED BY <1>1 DEF DoneSound, Analysing

----------------------------------------------------------------------------
(* The functions that the comparison ranges over exist.                    *)

Iterates(f, m, S, x, G) ==
  f \in [0..m -> S] /\ f[0] = x /\ \A i \in 1..m : f[i] = G[i][f[i - 1]]

LEMMA Iterated ==
  ASSUME NEW S, NEW x \in S, NEW n \in Nat, NEW G \in [1..n -> [S -> S]]
  PROVE  \E f : Iterates(f, n, S, x, G)
<1> DEFINE Bad == {m \in 0..n : ~ \E f : Iterates(f, m, S, x, G)}
<1>1. SUFFICES ASSUME Bad # {} PROVE FALSE
  <2>1. n \in 0..n
    OBVIOUS
  <2> QED BY <2>1
<1>2. PICK m \in Bad : \A j \in Bad : m <= j
  <2> HIDE DEF Bad
  <2>1. Bad \subseteq Nat
    BY DEF Bad
  <2> QED BY <1>1, <2>1, Least
<1>3. m \in 1..n
  <2>1. Iterates([i \in 0..0 |-> x], 0, S, x, G)
    BY DEF Iterates
  <2> QED BY <1>2, <2>1
<1>4. PICK f : Iterates(f, m - 1, S, x, G)
  <2>1. m - 1 \in 0..n /\ ~(m <= m - 1)
    BY <1>3
  <2>2. m - 1 \notin Bad
    <3> HIDE DEF Bad
    <3> QED BY <1>2, <2>1
  <2> QED BY <2>1, <2>2
<1> DEFINE g == [i \in 0..m |-> IF i = m THEN G[m][f[m - 1]] ELSE f[i]]
<1>5. m - 1 \in 0..m - 1 /\ \A i \in 0..m : i # m => i \in 0..m - 1
  BY <1>3
<1>6. G[m][f[m - 1]] \in S
  BY <1>3, <1>4, <1>5 DEF Iterates
<1>7. g \in [0..m -> S] /\ g[0] = x
  BY <1>3, <1>4, <1>5, <1>6 DEF Iterates
<1>8. ASSUME NEW i \in 1..m PROVE g[i] = G[i][g[i - 1]]
  <2>1. i - 1 \in 0..m /\ i - 1 # m /\ i \in 0..m
    BY <1>3
  <2>2. g[i - 1] = f[i - 1]
    BY <2>1
  <2>3. CASE i = m
    BY <2>1, <2>2, <2>3
  <2>4. CASE i # m
    <3>1. i \in 1..m - 1
      BY <1>3, <2>4
    <3>2. f[i] = G[i][f[i - 1]]
      BY <1>4, <3>1 DEF Iterates
    <3> QED BY <2>1, <2>2, <2>4, <3>2
  <2> QED BY <2>3, <2>4
<1>9. Iterates(g, m, S, x, G)
  <2> HIDE DEF g
  <2> QED BY <1>7, <1>8 DEF Iterates
<1> QED BY <1>2, <1>9

LEMMA BaseExists ==
  ASSUME NEW segs, NEW n \in Nat, n = Len(segs), \A k \in 1..n : IsSegment(segs[k]), GoodLists(segs)
  PROVE  \E base : Counts(segs, base)
<1> DEFINE T(k) == IF SegTables(segs[k]) = {} THEN 0
                   ELSE segs[k].at[CHOOSE o \in SegTables(segs[k]) : TRUE].count
           G == [k \in 1..n |-> [v \in Nat |-> v + T(k)]]
<1>1. ASSUME NEW k \in 1..n
      PROVE  /\ T(k) \in Nat /\ (SegTables(segs[k]) = {} => T(k) = 0)
             /\ \A o \in SegTables(segs[k]) : T(k) = segs[k].at[o].count
  <2>1. \A o \in SegTables(segs[k]) : segs[k].at[o].count \in Nat
    BY ListedFollows, DescriptorFacts DEF SegTables
  <2>2. \A o, q \in SegTables(segs[k]) : o = q
    BY DEF GoodLists
  <2>3. CASE SegTables(segs[k]) = {}
    BY <2>3
  <2>4. CASE SegTables(segs[k]) # {}
    <3>1. PICK q \in SegTables(segs[k]) : q = CHOOSE o \in SegTables(segs[k]) : TRUE
      BY <2>4
    <3>2. T(k) = segs[k].at[q].count
      BY <2>4, <3>1
    <3> QED BY <2>1, <2>2, <2>4, <3>1, <3>2
  <2> QED BY <2>3, <2>4
<1> HIDE DEF T
<1>2. G \in [1..n -> [Nat -> Nat]]
  <2>1. ASSUME NEW k \in 1..n, NEW v \in Nat PROVE v + T(k) \in Nat
    BY <1>1
  <2> QED BY <2>1
<1>3. PICK f : Iterates(f, n, Nat, 0, G)
  <2> HIDE DEF G
  <2> QED BY <1>2, Iterated
<1>4. /\ \A i \in 0..n : f[i] \in Nat
      /\ f[0] = 0 /\ \A i \in 1..n : f[i] = f[i - 1] + T(i)
  <2>1. f \in [0..n -> Nat] /\ f[0] = 0
    BY <1>3 DEF Iterates
  <2>2. ASSUME NEW i \in 1..n PROVE f[i] = f[i - 1] + T(i)
    <3>1. f[i] = G[i][f[i - 1]]
      BY <1>3 DEF Iterates
    <3>2. f[i - 1] \in Nat
      BY <2>1
    <3> QED BY <3>1, <3>2
  <2> QED BY <2>1, <2>2
<1> DEFINE base == [k \in 1..n + 1 |-> f[k - 1]]
<1>5. base \in [1..n + 1 -> Nat] /\ base[1] = 0
  BY <1>4
<1>6. ASSUME NEW k \in 1..n PROVE base[k + 1] = base[k] + T(k)
  <2>1. k \in 1..n + 1 /\ k + 1 \in 1..n + 1 /\ k + 1 - 1 = k
    OBVIOUS
  <2>2. base[k + 1] = f[k] /\ base[k] = f[k - 1]
    BY <2>1
  <2> QED BY <1>4, <2>2
<1> HIDE DEF base
<1>7. ASSUME NEW k \in 1..n, SegTables(segs[k]) = {} PROVE base[k + 1] = base[k]
  <2>1. base[k] \in Nat /\ T(k) = 0 /\ base[k + 1] = base[k] + T(k)
    BY <1>1, <1>5, <1>6, <1>7
  <2> QED BY <2>1
<1>8. Counts(segs, base)
  BY <1>1, <1>5, <1>6, <1>7 DEF Counts
<1> QED BY <1>8

LEMMA PagesExist ==
  ASSUME NEW n \in Nat, n = Len(opened.chunks), \A i \in 1..n : Page(opened.chunks[i]).bytes \in Seq(Octet)
  PROVE  \E f : IsPages(f)
<1> DEFINE P(i) == Page(opened.chunks[i]).bytes
           S == Seq(Octet)
           G == [i \in 1..n |-> [q \in S |-> q \o P(i)]]
<1>1. \A i \in 1..n : P(i) \in S
  OBVIOUS
<1> HIDE DEF P
<1>2. G \in [1..n -> [S -> S]]
  <2>1. ASSUME NEW i \in 1..n, NEW q \in S PROVE q \o P(i) \in S
    BY <1>1
  <2> HIDE DEF S
  <2> QED BY <2>1
<1>3. <<>> \in S
  OBVIOUS
<1> HIDE DEF S
<1>4. PICK f : Iterates(f, n, S, <<>>, G)
  <2> HIDE DEF G
  <2> QED BY <1>2, <1>3, Iterated
<1>5. f \in [0..n -> S] /\ f[0] = <<>>
  BY <1>4 DEF Iterates
<1>6. ASSUME NEW i \in 1..n PROVE f[i] = f[i - 1] \o P(i)
  <2>1. f[i] = G[i][f[i - 1]]
    BY <1>4 DEF Iterates
  <2>2. f[i - 1] \in S
    BY <1>5
  <2> QED BY <2>1, <2>2
<1>7. ASSUME NEW i \in 0..n PROVE f[i] = IF i = 0 THEN <<>> ELSE f[i - 1] \o P(i)
  <2>1. CASE i = 0
    BY <1>5, <2>1
  <2>2. CASE i # 0
    <3>1. i \in 1..n
      BY <2>2
    <3>2. f[i] = f[i - 1] \o P(i)
      BY <1>6, <3>1
    <3> QED BY <2>2, <3>2, Zenon
  <2> QED BY <2>1, <2>2
<1>8. f = [i \in 0..n |-> IF i = 0 THEN <<>> ELSE f[i - 1] \o P(i)]
  BY <1>5, <1>7
<1>9. IsPages(f)
  BY <1>8 DEF IsPages, P
<1> QED BY <1>9

----------------------------------------------------------------------------
(* Both programs see the same media.                                       *)

Agreement ==
  /\ CheckSound /\ AnalysisSound
  /\ ReadTyped /\ DescsSound /\ ListSound /\ ChunksSound /\ StoredSound
  /\ HashedSound /\ DoneSound

\* A digest that the reader keeps is one that the analysis has compared.
LEMMA StoredKept ==
  ASSUME image \in Images, Regular, Len(image) # 0, NEW type \in {Md5Hash, Sha1Hash}, NEW f, f = HashField(type),
         NEW x, Stores(image, type, f.size, x), \A z \in Listed(image[Len(image)]) : Kept(z)
  PROVE  final[f.name] = {x}
<1>1. type \in HashTypes
  BY DEF HashTypes
<1>2. PICK k \in 1..Len(image) : \E z \in Listed(image[k]) :
        image[k].at[z].type = type /\ image[k].at[z].size >= f.size /\ image[k].at[z].digest = x
  BY DEF Stores
<1>3. PICK z \in Listed(image[k]) :
        image[k].at[z].type = type /\ image[k].at[z].size >= f.size /\ image[k].at[z].digest = x
  BY <1>2
<1>4. z \in HashSectionsOf(k)
  BY <1>1, <1>3 DEF HashSectionsOf
<1>5. k = Len(image)
  <2>1. k \in DOMAIN image
    BY <1>2, ImageFacts
  <2> QED BY <1>4, <2>1, RegularFacts
<1>6. Kept(z)
  BY <1>3, <1>5
<1>7. PICK d : d = image[k].at[z]
  OBVIOUS
<1>8. d.type = type /\ d.size >= f.size /\ d.digest = x /\ f = HashField(d.type)
  BY <1>3, <1>7
<1> QED BY <1>1, <1>5, <1>6, <1>7, <1>8 DEF Kept

LEMMA AgreementShows ==
  ASSUME Agreement
  PROVE  ToolsAgree
<1> SUFFICES ASSUME step = "done", issues = {}, opened.ok, Regular, Filled
             PROVE  /\ \A i \in DOMAIN opened.chunks : Page(opened.chunks[i]).ok
                    /\ MediaRead = hashed
                    /\ \A h \in {"md5", "sha1"} : found_chunks => opened.stored[h] \subseteq {hashed}
  BY DEF ToolsAgree
<1>1. AllFilled /\ opened.total_size = Len(hashed)
  BY DEF Filled, AllFilled, EntryFilled
<1>2. Comparable
  BY <1>1 DEF Comparable, Agreement, DoneSound
<1>3. /\ Seen /\ (\A k \in DOMAIN image : Clean(k)) /\ \A k \in DOMAIN image : image[k].number = k
      /\ image \in Images
  BY <1>2, ComparableFacts DEF Agreement
<1>4. /\ ordered = image /\ GoodLists(image) /\ Len(image) \in Nat \ {0} /\ DOMAIN image = 1..Len(image)
      /\ opened.chunks \in Seq(Chunk) /\ opened.chunk_size \in Nat
      /\ \A j \in DOMAIN opened.chunks : FromTable(image, opened.chunks[j])
      /\ \A base : Counts(image, base) => AllPlaced(image, base, opened.chunks, Len(image))
  BY <1>3, ReaderHas DEF Agreement
<1>5. PICK n \in Nat : n = Len(opened.chunks) /\ DOMAIN opened.chunks = 1..n
  BY <1>4
<1>6. ASSUME NEW j \in 1..n
      PROVE  Page(opened.chunks[j]).ok /\ Page(opened.chunks[j]).bytes \in Seq(Octet)
  <2>1. FromTable(image, opened.chunks[j])
    BY <1>4, <1>5
  <2>2. PICK k \in 1..Len(image) : \E o \in SegTables(image[k]) : \E i \in 1..image[k].at[o].count :
          opened.chunks[j] = ChunkOf(k, image[k].at[o].entries[i])
    BY <2>1 DEF FromTable
  <2>3. PICK o \in SegTables(image[k]) : \E i \in 1..image[k].at[o].count :
          opened.chunks[j] = ChunkOf(k, image[k].at[o].entries[i])
    BY <2>2
  <2>4. PICK d, e, i : /\ d = image[k].at[o] /\ i \in 1..d.count /\ e = d.entries[i]
                       /\ opened.chunks[j] = ChunkOf(k, e)
    BY <2>3
  <2>5. k \in DOMAIN image /\ Clean(k) /\ o \in TablesOf(k) /\ d = image[k].at[o] /\ i \in 1..d.count /\ e = d.entries[i]
    BY <1>3, <1>4, <2>4 DEF SegTables, TablesOf
  <2>6. image \in Images /\ Regular /\ ordered = image /\ opened.chunk_size \in Nat /\ AllFilled
    BY <1>1, <1>3, <1>4
  <2>7. PageShows(k, e)
    BY ONLY <2>5, <2>6, ChunkShown
  <2> QED BY <2>4, <2>7 DEF PageShows
<1>7. PICK base : Counts(image, base)
  <2>1. \A k \in 1..Len(image) : IsSegment(image[k])
    BY <1>3, <1>4, ImageFacts
  <2> QED BY <1>4, <2>1, BaseExists
<1> DEFINE f == CHOOSE g : IsPages(g)
<1>8. IsPages(f)
  <2>1. \E g : IsPages(g)
    BY <1>5, <1>6, PagesExist
  <2> QED BY <2>1
<1>9. MediaRead = SubSeq(f[n], 1, SmallerOf(opened.total_size, Len(f[n])))
  BY <1>5, Zenon DEF MediaRead, IsPages
<1> HIDE DEF f
<1>10. Passed(base) = n
  <2>1. cur = Len(image) + 1
    BY <1>4 DEF Agreement, DoneSound, CheckSound
  <2>2. n = base[Len(image) + 1]
    BY <1>4, <1>5, <1>7 DEF AllPlaced
  <2> QED BY <2>1, <2>2 DEF Passed
<1>11. Follow(f, n) /\ hashed \in Seq(Byte)
  BY <1>2, <1>7, <1>8, <1>10 DEF Agreement, HashedSound
<1>12. PICK all \in Seq(Octet), h \in Seq(Byte) : /\ all = f[n] /\ h = hashed
                                                 /\ Len(h) <= Len(all) /\ \A i \in 1..Len(h) : h[i] = all[i]
  BY <1>11 DEF Follow
<1>13. SubSeq(all, 1, SmallerOf(Len(h), Len(all))) = h
  <2>1. SmallerOf(Len(h), Len(all)) = Len(h)
    BY <1>12 DEF SmallerOf
  <2>2. /\ all \in Seq(Octet) /\ h \in Seq(Byte) /\ Len(h) <= Len(all) /\ \A i \in 1..Len(h) : h[i] = all[i]
    BY <1>12
  <2>3. SubSeq(all, 1, Len(h)) = h
    BY ONLY <2>2
  <2> QED BY <2>1, <2>3
<1>14. MediaRead = hashed
  BY <1>1, <1>9, <1>12, <1>13
<1>15. ASSUME found_chunks, NEW x, NEW type \in {Md5Hash, Sha1Hash}, NEW field, field = HashField(type),
              Stores(image, type, field.size, x), field.name \in {"md5", "sha1"}
       PROVE  x = hashed
  <2>1. \A z \in Listed(image[Len(image)]) : Kept(z)
    BY <1>2, <1>3, <1>4 DEF Seen, HashesKept, Concluded, Comparable, Analysing, Agreement, CheckSound
  <2>2. final[field.name] = {x}
    BY <1>3, <1>4, <1>15, <2>1, StoredKept
  <2>3. final[field.name] = {} \/ final[field.name] = {hashed}
    BY <1>15 DEF Agreement, DoneSound
  <2> QED BY <2>2, <2>3
<1>16. /\ HashField(Md5Hash).name = "md5" /\ HashField(Md5Hash).size = Md5Size
       /\ HashField(Sha1Hash).name = "sha1" /\ HashField(Sha1Hash).size = Sha1Size
  BY DEF HashField, Md5Hash, Sha1Hash
<1>17. /\ \A x \in stored.md5 : Stores(image, Md5Hash, Md5Size, x)
       /\ \A x \in stored.sha1 : Stores(image, Sha1Hash, Sha1Size, x)
       /\ opened.stored = stored
  BY <1>4 DEF Agreement, StoredSound, ReadTyped, Live
<1>18. ASSUME found_chunks PROVE opened.stored.md5 \subseteq {hashed} /\ opened.stored.sha1 \subseteq {hashed}
  <2>1. ASSUME NEW x \in stored.md5 PROVE x = hashed
    <3>1. PICK field : field = HashField(Md5Hash)
      OBVIOUS
    <3> QED BY <1>15, <1>16, <1>17, <1>18, <3>1
  <2>2. ASSUME NEW x \in stored.sha1 PROVE x = hashed
    <3>1. PICK field : field = HashField(Sha1Hash)
      OBVIOUS
    <3> QED BY <1>15, <1>16, <1>17, <1>18, <3>1
  <2> QED BY <1>17, <2>1, <2>2
<1> QED BY <1>5, <1>6, <1>14, <1>18

LEMMA ReaderKept ==
  ASSUME ReadTyped, DescsSound, ListSound, ChunksSound, StoredSound, UNCHANGED <<image, openVars>>
  PROVE  ReadTyped' /\ DescsSound' /\ ListSound' /\ ChunksSound' /\ StoredSound'
<1>1. UNCHANGED <<image, pc, ordered, seg, off, descs, pos, chunk_size, total_size, chunks, stored, opened>>
  BY DEF openVars, position, result
<1>2. ReadTyped'
  BY <1>1 DEF ReadTyped, Live, Rejected, BadHeader
<1>3. DescsSound'
  BY <1>1 DEF DescsSound
<1>4. ListSound'
  BY <1>1 DEF ListSound, Visited
<1>5. ChunksSound' /\ StoredSound'
  BY <1>1 DEF ChunksSound, StoredSound, Live, Parsed, TableDone
<1> QED BY <1>2, <1>3, <1>4, <1>5

LEMMA AgreementStep ==
  ASSUME Agreement, Next
  PROVE  Agreement'
<1>1. CheckSound' /\ AnalysisSound' /\ HashedSound' /\ DoneSound'
  BY CheckSoundStep, AnalysisSoundStep, HashedSoundStep, DoneSoundStep DEF Agreement
<1>2. CASE Open
  <2>1. OpenNext /\ UNCHANGED image
    BY <1>2 DEF Open
  <2> QED BY <1>1, <2>1, ReadTypedStep, DescsSoundStep, ListSoundStep, ChunksSoundStep, StoredSoundStep DEF Agreement
<1>3. CASE Check
  <2>1. UNCHANGED <<image, openVars>>
    BY <1>3 DEF Check
  <2> QED BY <1>1, <2>1, ReaderKept DEF Agreement
<1> QED BY <1>2, <1>3 DEF Next

\* Of a regular, filled image without findings, core and forensic see the same media:
\* every chunk can be read, what a read of the image returns is what
\* compute_hashes_ewf2 hashed, and the digests kept for verify are the digests of it.
THEOREM ToolsSeeTheSame == Spec => []ToolsAgree
<1>1. Init => Agreement
  BY CheckSoundInit, AnalysisSoundInit, ReadTypedInit, ChunksSoundInit, StoredSoundInit, HashedSoundInit
  DEF Agreement, DoneSound, Init, CheckInit
<1>2. Agreement /\ [Next]_vars => Agreement'
  <2>1. ASSUME Agreement, UNCHANGED vars PROVE Agreement'
    <3>1. UNCHANGED <<image, openVars>>
      BY <2>1 DEF vars
    <3> QED BY <2>1, <3>1, CheckSoundStutters, AnalysisSoundStutters, HashedSoundStutters, DoneSoundStutters,
               ReaderKept DEF Agreement
  <2> QED BY <2>1, AgreementStep
<1>3. Agreement => ToolsAgree
  BY AgreementShows
<1> QED BY <1>1, <1>2, <1>3, PTL DEF Spec
=============================================================================
