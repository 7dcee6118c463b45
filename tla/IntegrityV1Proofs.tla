------------------------- MODULE IntegrityV1Proofs -------------------------
(***************************************************************************)
(* The analysis of IntegrityV1 for every damaged image.                    *)
(***************************************************************************)
EXTENDS HashesV1, WellFoundedInduction, TLAPS

\* A set of offsets or positions that is not empty has a least member: `find` and
\* `position` in the sources yield the first match.
LEMMA Least ==
  ASSUME NEW T, T \subseteq Nat, T # {}
  PROVE  \E i \in T : \A j \in T : i <= j
<1> DEFINE R == OpToRel(<, Nat)
<1>1. \E x \in T : \A y \in T : ~(<<y, x>> \in R)
  <2>1. IsWellFoundedOn(R, Nat)
    BY NatLessThanWellFounded
  <2> HIDE DEF R
  <2> QED BY <2>1, WFMin
<1>2. ASSUME NEW x \in Nat, NEW y \in Nat, y < x PROVE <<y, x>> \in R
  BY <1>2 DEF OpToRel
<1> HIDE DEF R
<1>3. PICK x \in T : \A y \in T : ~(<<y, x>> \in R)
  BY <1>1
<1>4. ASSUME NEW y \in T PROVE x <= y
  <2>1. ~(y < x)
    BY <1>2, <1>3
  <2> QED BY <2>1
<1> QED BY <1>4

\* Writing to the end of an output adds its length.
LEMMA AppendedLen ==
  ASSUME NEW S, NEW p \in Seq(S), NEW q \in Seq(S)
  PROVE  p \o q \in Seq(S) /\ Len(p \o q) = Len(p) + Len(q)
OBVIOUS

Walked == [offset : Nat, sec : Section]

Inv == IInv /\ image \in Images

----------------------------------------------------------------------------
(* Types of what the checks read.                                          *)

LEMMA SatTypes ==
  ASSUME NEW a \in Nat, NEW b \in Nat
  PROVE  /\ SatAdd(a, b) \in Nat /\ SmallerOf(a, b) \in Nat
         /\ SmallerOf(a, b) <= a /\ SmallerOf(a, b) <= b
         /\ U64Max \in Nat
BY WidthAssumption DEF SatAdd, SmallerOf, U64Max

LEMMA Sizes ==
  /\ FileHeaderSize \in Nat /\ DescriptorSize \in Nat /\ TableHeaderSize \in Nat
  /\ CountSize \in Nat
BY IntegrityAssumption

\* `find` yields a section of the segment.
LEMMA FirstOfType ==
  ASSUME sections \in Seq(Seq(Walked)), NEW s \in DOMAIN sections, NEW types,
         Having(s, types) # {}
  PROVE  FirstOf(s, types) \in Walked
<1> DEFINE H == HavingIn(sections[s], types)
<1>1. sections[s] \in Seq(Walked)
  OBVIOUS
<1>2. H \subseteq DOMAIN sections[s] /\ H \subseteq Nat
  BY <1>1 DEF HavingIn
<1>3. H # {}
  BY DEF Having
<1> DEFINE i == CHOOSE i \in H : \A j \in H : i <= j
<1>4. i \in H
  <2> HIDE DEF H
  <2>1. \E k \in H : \A j \in H : k <= j
    BY <1>2, <1>3, Least
  <2> QED BY <2>1
<1>5. FirstOf(s, types) = sections[s][i]
  BY DEF FirstOf, FirstIn
<1>6. i \in DOMAIN sections[s]
  BY <1>2, <1>4
<1> HIDE DEF i
<1> QED BY <1>1, <1>5, <1>6

\* The image's segments are byte sequences with a section at every offset that has
\* room for a descriptor.
LEMMA ImageTypes ==
  ASSUME image \in Images
  PROVE  /\ Len(image) \in Nat /\ DOMAIN image = 1..Len(image)
         /\ \A s \in DOMAIN image :
              /\ image[s].bytes \in Seq(Byte) /\ DataLen(s) \in Nat
              /\ \A o \in 0..DataLen(s) - DescriptorSize : image[s].at[o] \in Section
<1>1. Len(image) \in Nat /\ image = [s \in 1..Len(image) |-> image[s]]
  BY IntegrityAssumption
<1>2. ASSUME NEW s \in DOMAIN image
      PROVE  /\ image[s].bytes \in Seq(Byte) /\ DataLen(s) \in Nat
             /\ \A o \in 0..DataLen(s) - DescriptorSize : image[s].at[o] \in Section
  BY IntegrityAssumption DEF DataLen
<1>3. DOMAIN image = 1..Len(image)
  BY <1>1
<1> QED BY <1>1, <1>2, <1>3

\* The position of a table entry, where the table has it.
LEMMA EntryAtType ==
  ASSUME sections \in Seq(Seq(Walked)), NEW s \in DOMAIN sections, Having(s, {"table"}) # {},
         NEW i, EntryAt(s, i) # None
  PROVE  EntryAt(s, i) \in Nat
<1> DEFINE t == TableOf(s).sec
<1>1. TableOf(s) \in Walked
  BY FirstOfType DEF TableOf
<1>2. t \in Section
  BY <1>1 DEF Walked
<1>3. t.base_offset \in Nat /\ t.entries \in Seq(TableEntry)
  BY <1>2 DEF Section
<1> HIDE DEF t
<1>4. i + 1 \in DOMAIN t.entries /\ EntryAt(s, i) = SatAdd(t.base_offset, t.entries[i + 1].off)
  BY DEF EntryAt, EntryIn, t, TableOf, FirstOf
<1>5. t.entries[i + 1] \in TableEntry
  BY <1>3, <1>4
<1>6. t.entries[i + 1].off \in Nat
  BY <1>5 DEF TableEntry
<1> QED BY <1>3, <1>4, <1>6, SatTypes

\* The bytes of a chunk lie inside its segment.
LEMMA RawType ==
  ASSUME TypeOK, Stages, image \in Images, InSegment
  PROVE  Raw \in Seq(Byte) /\ Raw \in Ranges(image)
<1> DEFINE s == cur.seg
           a == EntryAt(cur.seg, cur.entry)
           b == ChunkEnd(cur.seg, cur.entry)
<1>1. s \in DOMAIN image /\ s \in DOMAIN sections
  BY ImageTypes DEF InSegment, TypeOK, Stages
<1>2. Having(s, {"table"}) # {} /\ a # None /\ b # None /\ a < b /\ b <= DataLen(s)
  BY DEF InSegment, Yields, YieldsIn, EntryAt, ChunkEnd, Having, DataLen
<1>3. image[s].bytes \in Seq(Byte) /\ DataLen(s) = Len(image[s].bytes) /\ DataLen(s) \in Nat
  BY <1>1, ImageTypes DEF DataLen
<1>4. sections \in Seq(Seq(Walked))
  BY DEF TypeOK, Walked
<1>5. a \in Nat
  BY <1>1, <1>2, <1>4, EntryAtType
<1>6. b \in Nat
  <2>1. CASE b = EntryAt(s, cur.entry + 1)
    BY <2>1, <1>1, <1>2, <1>4, EntryAtType
  <2>2. CASE b = SmallerOf(SatAdd(SectorsOf(s).offset, SectorsOf(s).sec.size), DataLen(s))
    <3>1. Having(s, {"sectors"}) # {}
      BY DEF InSegment, Yields, YieldsIn, Having
    <3>2. SectorsOf(s) \in Walked
      BY <3>1, <1>1, <1>4, FirstOfType DEF SectorsOf
    <3>3. SectorsOf(s).offset \in Nat /\ SectorsOf(s).sec.size \in Nat
      BY <3>2 DEF Walked, Section
    <3>4. SatAdd(SectorsOf(s).offset, SectorsOf(s).sec.size) \in Nat
      BY <3>3, SatTypes
    <3>5. SmallerOf(SatAdd(SectorsOf(s).offset, SectorsOf(s).sec.size), DataLen(s)) \in Nat
      BY <3>4, <1>3 DEF SmallerOf
    <3> QED BY <2>2, <3>5, Zenon
  <2>3. \/ b = EntryAt(s, cur.entry + 1)
        \/ b = SmallerOf(SatAdd(SectorsOf(s).offset, SectorsOf(s).sec.size), DataLen(s))
    BY Zenon DEF ChunkEnd, ChunkEndIn, EntryAt, SectorsOf, FirstOf, DataLen
  <2> QED BY <2>1, <2>2, <2>3
<1>7. Raw = SubSeq(image[s].bytes, a + 1, b)
  BY DEF Raw
<1> HIDE DEF a, b
<1>8. a \in 0..Len(image[s].bytes) /\ b \in 0..Len(image[s].bytes)
  BY <1>2, <1>3, <1>5, <1>6
<1>9. Raw \in Seq(Byte)
  BY <1>3, <1>7, <1>8
<1>10. Raw \in Ranges(image)
  BY <1>1, <1>7, <1>8 DEF Ranges
<1> QED BY <1>9, <1>10

\* What the chunk loop takes from the media, and what it feeds the hashers.
LEMMA ChunkTypes ==
  ASSUME TypeOK, Stages, image \in Images, InSegment
  PROVE  /\ ToHash \in Nat /\ ToHash <= bytes_remaining /\ ToHash <= geometry.chunk_size
         /\ ChunkBytes \in Seq(Byte) /\ Len(ChunkBytes) <= ToHash
<1>1. geometry.chunk_size \in 0..U64Max /\ bytes_remaining \in Nat /\ U64Max \in Nat
  <2>1. U64Max \in Nat
    BY WidthAssumption DEF U64Max
  <2>2. geometry \in Geometry /\ bytes_remaining \in Nat
    BY DEF TypeOK
  <2> QED BY <2>1, <2>2 DEF Geometry
<1>2. ToHash \in 0..U64Max /\ ToHash <= bytes_remaining /\ ToHash <= geometry.chunk_size
  BY <1>1 DEF ToHash, SmallerOf
<1>3. Raw \in Seq(Byte) /\ Raw \in UNION {Ranges(img) : img \in Images}
  BY RawType
<1>4. Inflate(Raw, ToHash + 1).bytes \in Seq(Byte)
  <2>1. ToHash + 1 \in 1..U64Max + 1
    BY <1>1, <1>2
  <2> QED BY <1>3, <2>1, IntegrityAssumption
<1> DEFINE d == IF Compressed THEN Inflate(Raw, ToHash + 1).bytes ELSE Raw
<1>5. d \in Seq(Byte)
  BY <1>3, <1>4
<1>6. ChunkBytes = Prefix(d, ToHash)
  BY DEF ChunkBytes
<1> HIDE DEF d
<1>7. ASSUME NEW x \in Seq(Byte), NEW n \in Nat
      PROVE  Prefix(x, n) \in Seq(Byte) /\ Len(Prefix(x, n)) <= n
  BY DEF Prefix, SmallerOf
<1> QED BY <1>1, <1>2, <1>5, <1>6, <1>7

----------------------------------------------------------------------------
(* What a step that leaves a segment's sections alone keeps.               *)

LEMMA SameSegment ==
  ASSUME image' = image, NEW CONSTANT s, sections'[s] = sections[s]
  PROVE  /\ ChainWalked(s)' <=> ChainWalked(s)
         /\ SegmentSound(s)' <=> SegmentSound(s)
         /\ TableSound(s)' <=> TableSound(s)
<1>1. DataLen(s)' = DataLen(s)
  BY DEF DataLen
<1>2. ASSUME NEW types
      PROVE  Having(s, types)' = Having(s, types) /\ FirstOf(s, types)' = FirstOf(s, types)
  BY DEF Having, FirstOf
<1>3. ChainWalked(s)' <=> ChainWalked(s)
  BY <1>1 DEF ChainWalked
<1>4. SegmentSound(s)' <=> SegmentSound(s)
  BY DEF SegmentSound
<1>5. TableSound(s)' <=> TableSound(s)
  <2>1. TableOf(s)' = TableOf(s) /\ SectorsOf(s)' = SectorsOf(s)
    BY <1>2 DEF TableOf, SectorsOf
  <2>2. ASSUME NEW a PROVE OutsideSectors(s, a)' <=> OutsideSectors(s, a)
    BY <1>2, <2>1 DEF OutsideSectors
  <2>3. Holds(s, TableOf(s), TableHeaderSize)' <=> Holds(s, TableOf(s), TableHeaderSize)
    BY <1>1, <2>1 DEF Holds
  <2> QED BY <1>1, <1>2, <2>1, <2>2, <2>3 DEF TableSound
<1> QED BY <1>3, <1>4, <1>5

\* From the totals on, the structure is settled.
LEMMA SettledFrame ==
  ASSUME Inv, UNCHANGED <<image, structure>>, issues' = {} => issues = {},
         {pc, pc'} \subseteq {"chunks", "analysed"}
  PROVE  Chains' /\ (issues' = {} => CleanSoFar')
<1>1. image' = image /\ sections' = sections /\ seg' = seg /\ geometry' = geometry
      /\ total_table_entries' = total_table_entries
  BY DEF structure
<1>2. \A s : /\ ChainWalked(s)' <=> ChainWalked(s)
             /\ SegmentSound(s)' <=> SegmentSound(s)
             /\ TableSound(s)' <=> TableSound(s)
  BY <1>1, SameSegment
<1>3. Chains'
  BY <1>1, <1>2 DEF Chains, Inv, IInv
<1>4. ASSUME issues' = {} PROVE CleanSoFar'
  <2>1. CleanSoFar
    BY <1>4 DEF Inv, IInv
  <2>2. Having(Len(image), {"done"})' = Having(Len(image), {"done"})
    BY <1>1 DEF Having
  <2> QED BY <1>1, <1>2, <2>1, <2>2 DEF CleanSoFar
<1> QED BY <1>3, <1>4

LEMMA VerifiedFrame ==
  ASSUME UNCHANGED <<image, expected, structure, digest>>, Verified
  PROVE  Verified'
<1>1. image' = image /\ sections' = sections /\ geometry' = geometry /\ expected' = expected
      /\ total_table_entries' = total_table_entries /\ digest' = digest
  BY DEF structure
<1>2. \A s : (SegmentSound(s)' <=> SegmentSound(s)) /\ (TableSound(s)' <=> TableSound(s))
  BY <1>1, SameSegment
<1>3. Digests' = Digests
  BY <1>1 DEF Digests, StoredMd5, StoredSha1, Having, FirstOf, Holds, DataLen
<1>4. ASSUME NEW types PROVE Having(Len(image), types)' = Having(Len(image), types)
  BY <1>1 DEF Having
<1> QED BY <1>1, <1>2, <1>3, <1>4 DEF Verified

----------------------------------------------------------------------------
(* The chunk loop.                                                         *)

LEMMA OneMore ==
  ASSUME NEW k \in Nat, NEW c \in Nat
  PROVE  k * c \in Nat /\ (k + 1) * c = k * c + c
OBVIOUS

LEMMA NoFewer ==
  ASSUME NEW j \in Nat, NEW k \in Nat, j <= k, NEW c \in Nat
  PROVE  j * c <= k * c
<1>1. PICK d \in Nat : k = j + d
  <2>1. k - j \in Nat /\ k = j + (k - j)
    OBVIOUS
  <2> QED BY <2>1
<1>2. k * c = j * c + d * c
  BY <1>1
<1>3. j * c \in Nat /\ d * c \in Nat
  OBVIOUS
<1> QED BY <1>2, <1>3

\* What one more chunk does to the remainder: total is the media, done the bytes the
\* chunks so far stand for, c the chunk size.
LEMMA RemainderStep ==
  ASSUME NEW total \in Nat, NEW done \in Nat, NEW c \in Nat, NEW rem \in Nat,
         rem # 0, rem = total - SmallerOf(total, done)
  PROVE  /\ rem - SmallerOf(rem, c) \in Nat
         /\ rem - SmallerOf(rem, c) = total - SmallerOf(total, done + c)
         /\ total - (rem - SmallerOf(rem, c)) = SmallerOf(total, done + c)
BY DEF SmallerOf

\* Both kinds of chunk step leave the same remainder.
LEMMA LoopRemaining ==
  ASSUME Inv, InSegment, bytes_remaining # 0
  PROVE  /\ bytes_remaining - ToHash
              = geometry.total_bytes
                  - SmallerOf(geometry.total_bytes, (global_chunk_idx + 1) * geometry.chunk_size)
         /\ geometry.total_bytes - (bytes_remaining - ToHash)
              = SmallerOf(geometry.total_bytes, (global_chunk_idx + 1) * geometry.chunk_size)
<1> DEFINE total == geometry.total_bytes
           c == geometry.chunk_size
           k == global_chunk_idx
<1>1. geometry \in Geometry /\ bytes_remaining \in Nat /\ k \in Nat
  BY DEF Inv, IInv, TypeOK
<1>2. total \in Nat /\ c \in Nat
  <2>1. U64Max \in Nat
    BY WidthAssumption DEF U64Max
  <2> QED BY <1>1, <2>1 DEF Geometry
<1>3. bytes_remaining = total - SmallerOf(total, k * c)
  BY DEF Inv, IInv, RemainingExact, InSegment
<1> HIDE DEF total, c, k
<1>4. k * c \in Nat /\ (k + 1) * c = k * c + c
  BY <1>1, <1>2, OneMore
<1>5. /\ bytes_remaining - SmallerOf(bytes_remaining, c) = total - SmallerOf(total, k * c + c)
      /\ total - (bytes_remaining - SmallerOf(bytes_remaining, c)) = SmallerOf(total, k * c + c)
  BY <1>1, <1>2, <1>3, <1>4, RemainderStep
<1> QED BY <1>4, <1>5 DEF ToHash, total, c, k

\* Steps of the loop that find no anomaly keep what a clean report stands for.
LEMMA LoopFrame ==
  ASSUME Inv, pc = "chunks", UNCHANGED <<image, expected, pc, structure, digest>>,
         issues' = {} => issues = {}
  PROVE  /\ Stages' /\ Chains' /\ (issues' = {} => CleanSoFar')
         /\ CleanIsSound'
<1>1. Chains' /\ (issues' = {} => CleanSoFar')
  BY SettledFrame
<1>2. Stages'
  BY DEF Inv, IInv, Stages, structure
<1>3. CleanIsSound'
  BY DEF CleanIsSound
<1> QED BY <1>1, <1>2, <1>3

LEMMA NextSegmentStep ==
  ASSUME Inv, NextSegment
  PROVE  Inv'
<1>1. /\ pc = "chunks" /\ UNCHANGED <<image, expected, pc, structure, issues>>
      /\ UNCHANGED <<bytes_remaining, global_chunk_idx, hashed, progress, digest>>
      /\ cur' = [seg |-> cur.seg + 1, entry |-> 0]
  BY DEF NextSegment
<1>2. /\ Stages' /\ Chains' /\ (issues' = {} => CleanSoFar')
      /\ CleanIsSound'
  BY <1>1, LoopFrame
<1>3. TypeOK'
  BY <1>1 DEF Inv, IInv, TypeOK, structure
<1>4. ProgressAccounts' /\ RemainingExact' /\ HashedWithinMedia'
  BY <1>1 DEF Inv, IInv, ProgressAccounts, RemainingExact, HashedWithinMedia, structure
<1>5. (image \in Images)'
  BY <1>1 DEF Inv
<1> QED BY <1>2, <1>3, <1>4, <1>5 DEF Inv, IInv

LEMMA FoundGrows ==
  ASSUME NEW wrong, NEW kind, issues' = Found(wrong, kind)
  PROVE  issues' = {} => issues = {}
BY DEF Found

LEMMA ChunkFailsStep ==
  ASSUME Inv, ChunkFails
  PROVE  Inv'
<1>1. /\ InSegment /\ pc = "chunks" /\ bytes_remaining # 0
      /\ issues' = Found(TRUE, "ChunkDecompressionError")
      /\ cur' = [cur EXCEPT !.entry = @ + 1] /\ global_chunk_idx' = global_chunk_idx + 1
      /\ bytes_remaining' = bytes_remaining - ToHash
      /\ UNCHANGED <<image, expected, pc, structure, hashed, progress, digest>>
  BY DEF ChunkFails, InSegment
<1>2. TypeOK /\ Stages /\ image \in Images
  BY DEF Inv, IInv
<1>3. /\ Stages' /\ Chains' /\ (issues' = {} => CleanSoFar')
      /\ CleanIsSound'
  BY <1>1, LoopFrame, FoundGrows
<1>4. ToHash \in Nat /\ ToHash <= bytes_remaining
  BY <1>1, <1>2, ChunkTypes
<1>5. global_chunk_idx \in Nat /\ global_chunk_idx + 1 \in Nat
  BY <1>2 DEF TypeOK
<1>6. TypeOK'
  <2>1. cur' \in [seg : Nat \ {0}, entry : Nat]
    <3>1. cur \in [seg : Nat \ {0}, entry : Nat] /\ cur' = [cur EXCEPT !.entry = @ + 1]
      BY <1>1, <1>2 DEF TypeOK
    <3> QED BY <3>1
  <2>2. bytes_remaining' \in Nat /\ global_chunk_idx' \in Nat
    BY <1>1, <1>2, <1>4, <1>5 DEF TypeOK
  <2> QED BY <1>1, <1>2, <2>1, <2>2 DEF TypeOK, structure
<1>7. ProgressAccounts'
  <2>1. ProgressAccounts
    BY DEF Inv, IInv
  <2>2. progress.chunks_done \in Nat /\ global_chunk_idx \in Nat
    BY <1>2 DEF TypeOK
  <2>3. geometry' = geometry
    BY <1>1 DEF structure
  <2> QED BY <1>1, <1>5, <2>1, <2>2, <2>3 DEF ProgressAccounts
<1>8. RemainingExact'
  <2> SUFFICES bytes_remaining'
                        = geometry'.total_bytes
                            - SmallerOf(geometry'.total_bytes,
                                        global_chunk_idx' * geometry'.chunk_size)
    BY <1>1 DEF RemainingExact
  <2>1. global_chunk_idx' = global_chunk_idx + 1 /\ geometry' = geometry
    BY <1>1 DEF structure
  <2> QED BY <1>1, <2>1, LoopRemaining
<1>9. HashedWithinMedia'
  <2>1. Len(hashed) + bytes_remaining <= geometry.total_bytes
    BY <1>1 DEF Inv, IInv, HashedWithinMedia
  <2>2. Len(hashed) \in Nat /\ bytes_remaining \in Nat /\ geometry.total_bytes \in Int
    BY <1>2 DEF TypeOK, Geometry
  <2>3. geometry' = geometry
    BY <1>1 DEF structure
  <2> QED BY <1>1, <1>4, <2>1, <2>2, <2>3 DEF HashedWithinMedia
<1> QED BY <1>1, <1>2, <1>3, <1>6, <1>7, <1>8, <1>9 DEF Inv, IInv

LEMMA HashChunkStep ==
  ASSUME Inv, HashChunk
  PROVE  Inv'
<1>1. /\ InSegment /\ pc = "chunks" /\ bytes_remaining # 0
      /\ issues' = Found(ChecksumBad, "ChunkChecksumMismatch")
      /\ cur' = [cur EXCEPT !.entry = @ + 1] /\ global_chunk_idx' = global_chunk_idx + 1
      /\ hashed' = hashed \o ChunkBytes
      /\ bytes_remaining' = bytes_remaining - ToHash
      /\ progress' = Progress(global_chunk_idx + 1)
      /\ UNCHANGED <<image, expected, pc, structure, digest>>
  BY DEF HashChunk, InSegment
<1>2. TypeOK /\ Stages /\ image \in Images
  BY DEF Inv, IInv
<1>3. /\ Stages' /\ Chains' /\ (issues' = {} => CleanSoFar')
      /\ CleanIsSound'
  BY <1>1, LoopFrame, FoundGrows
<1>4. /\ ToHash \in Nat /\ ToHash <= bytes_remaining
      /\ ChunkBytes \in Seq(Byte) /\ Len(ChunkBytes) <= ToHash
  BY <1>1, <1>2, ChunkTypes
<1>5. global_chunk_idx \in Nat /\ global_chunk_idx + 1 \in Nat
  BY <1>2 DEF TypeOK
<1>6. geometry' = geometry
  BY <1>1 DEF structure
<1>7. hashed \in Seq(Byte) /\ bytes_remaining \in Nat /\ geometry.total_bytes \in Nat
      /\ geometry.chunk_size \in Nat /\ global_chunk_idx \in Nat
  BY <1>2, WidthAssumption DEF TypeOK, Geometry, U64Max
<1>8. hashed' \in Seq(Byte) /\ Len(hashed') = Len(hashed) + Len(ChunkBytes)
  BY <1>1, <1>4, <1>7, AppendedLen
<1>9. HashedWithinMedia'
  <2>1. Len(hashed) + bytes_remaining <= geometry.total_bytes
    BY <1>1 DEF Inv, IInv, HashedWithinMedia
  <2>2. Len(hashed) \in Nat /\ Len(ChunkBytes) \in Nat
    BY <1>4, <1>7
  <2> QED BY <1>1, <1>4, <1>6, <1>7, <1>8, <2>1, <2>2 DEF HashedWithinMedia
<1>10. bytes_remaining' \in Nat
  BY <1>1, <1>4, <1>7
<1>11. /\ progress' \in [chunks_done : Nat, bytes_done : Nat]
       /\ ProgressAccounts' /\ RemainingExact'
  <2>1. /\ bytes_remaining'
             = geometry.total_bytes
                 - SmallerOf(geometry.total_bytes,
                             (global_chunk_idx + 1) * geometry.chunk_size)
        /\ progress' = [chunks_done |-> global_chunk_idx + 1,
                        bytes_done |-> SmallerOf(geometry.total_bytes,
                                         (global_chunk_idx + 1) * geometry.chunk_size)]
    BY <1>1, LoopRemaining DEF Progress
  <2>2. global_chunk_idx' = global_chunk_idx + 1
    BY <1>1
  <2>3. (global_chunk_idx + 1) * geometry.chunk_size \in Nat
    BY <1>7, OneMore
  <2>4. SmallerOf(geometry.total_bytes, (global_chunk_idx + 1) * geometry.chunk_size) \in Nat
    BY <1>7, <2>3, SatTypes
  <2>5. progress' \in [chunks_done : Nat, bytes_done : Nat]
    BY <1>7, <2>1, <2>4
  <2>6. ProgressAccounts'
    BY <1>6, <1>7, <2>1, <2>2 DEF ProgressAccounts
  <2>7. RemainingExact'
    BY <1>6, <2>1, <2>2 DEF RemainingExact
  <2> QED BY <2>5, <2>6, <2>7
<1>12. TypeOK'
  <2>1. cur' \in [seg : Nat \ {0}, entry : Nat]
    <3>1. cur \in [seg : Nat \ {0}, entry : Nat] /\ cur' = [cur EXCEPT !.entry = @ + 1]
      BY <1>1, <1>2 DEF TypeOK
    <3> QED BY <3>1
  <2>2. global_chunk_idx' \in Nat
    BY <1>1, <1>5
  <2> QED BY <1>1, <1>2, <1>8, <1>10, <1>11, <2>1, <2>2 DEF TypeOK, structure
<1> QED BY <1>1, <1>2, <1>3, <1>9, <1>11, <1>12 DEF Inv, IInv

----------------------------------------------------------------------------
(* The steps around the loop.                                              *)

LEMMA GeometryType ==
  ASSUME TypeOK
  PROVE  geometry.total_bytes \in Nat /\ geometry.chunk_size \in Nat
<1>1. geometry \in Geometry /\ U64Max \in Nat
  BY WidthAssumption DEF TypeOK, U64Max
<1> QED BY <1>1 DEF Geometry

LEMMA CheckTotalsStep ==
  ASSUME Inv, CheckTotals
  PROVE  Inv'
<1>1. /\ pc = "segment" /\ seg > Len(image)
      /\ issues' = issues \union Report(CountsMismatch, "TableChunkCountMismatch",
                                        total_table_entries)
      /\ pc' = (IF geometry.found THEN "chunks" ELSE "analysed")
      /\ bytes_remaining' = geometry.total_bytes
      /\ image' = image /\ expected' = expected
      /\ UNCHANGED structure
      /\ UNCHANGED <<cur, global_chunk_idx, hashed, progress, digest>>
  BY DEF CheckTotals
<1>2. TypeOK /\ Stages /\ image \in Images
  BY DEF Inv, IInv
<1>3. seg' = seg /\ pos' = pos /\ sections' = sections /\ geometry' = geometry
      /\ total_table_entries' = total_table_entries
  BY <1>1 DEF structure
<1>4. geometry.total_bytes \in Nat /\ geometry.chunk_size \in Nat
  BY <1>2, GeometryType
<1>5. seg \in Nat /\ Len(image) \in Nat /\ seg = Len(image) + 1 /\ Len(sections) = seg - 1
  BY <1>1, <1>2, ImageTypes DEF TypeOK, Stages
<1>6. global_chunk_idx = 0 /\ hashed = <<>>
  BY <1>1, <1>2 DEF Stages
<1>7. TypeOK'
  BY <1>1, <1>2, <1>3, <1>4 DEF TypeOK
<1>8. Stages'
  BY <1>1, <1>2, <1>3, <1>5, <1>6 DEF Stages
<1>9. \A s : /\ ChainWalked(s)' <=> ChainWalked(s)
             /\ SegmentSound(s)' <=> SegmentSound(s)
             /\ TableSound(s)' <=> TableSound(s)
  BY <1>1, <1>3, SameSegment
<1>10. Chains'
  BY <1>1, <1>3, <1>9 DEF Inv, IInv, Chains
<1>11. ASSUME issues' = {} PROVE CleanSoFar'
  <2>1. issues = {} /\ ~CountsMismatch
    BY <1>1, <1>11 DEF Report
  <2>2. CleanSoFar
    BY <2>1 DEF Inv, IInv
  <2>3. Having(Len(image), {"done"})' = Having(Len(image), {"done"})
    BY <1>1, <1>3 DEF Having
  <2>4. (geometry.found /\ Len(image) > 1) => total_table_entries = geometry.chunk_count
    BY <2>1 DEF CountsMismatch
  <2> QED BY <1>1, <1>3, <1>9, <2>2, <2>3, <2>4 DEF CleanSoFar
<1>12. ProgressAccounts'
  BY <1>1, <1>3 DEF Inv, IInv, ProgressAccounts
<1>13. RemainingExact'
  <2>1. global_chunk_idx' * geometry'.chunk_size = 0
    BY <1>1, <1>3, <1>4, <1>6
  <2> QED BY <1>1, <1>3, <1>4, <2>1 DEF RemainingExact, SmallerOf
<1>14. HashedWithinMedia'
  BY <1>1, <1>3, <1>4, <1>6 DEF HashedWithinMedia
<1>15. CleanIsSound'
  BY <1>1, <1>3 DEF CleanIsSound
<1> QED BY <1>1, <1>2, <1>7, <1>8, <1>10, <1>11, <1>12, <1>13, <1>14, <1>15 DEF Inv, IInv

\* No anomaly in the comparison: every digest there is, is the one computed.
LEMMA NoHashIssues ==
  ASSUME HashIssues = {}
  PROVE  Having(Len(image), {"hash"}) # {} /\ \A h \in Digests : h = hashed
<1>1. ASSUME NEW wrong, NEW kind, ReportAtEnd(wrong, kind) = {} PROVE ~wrong
  BY <1>1 DEF ReportAtEnd
<1>2. /\ Having(Len(image), {"hash"}) # {}
      /\ ~Differs(StoredMd5) /\ ~Differs(StoredSha1)
      /\ ~Differs(expected.md5) /\ ~Differs(expected.sha1) /\ ~Differs(expected.sha256)
  BY <1>1 DEF HashIssues
<1> QED BY <1>2 DEF Differs, Digests

LEMMA CompareHashesStep ==
  ASSUME Inv, CompareHashes
  PROVE  Inv'
<1>1. /\ pc = "chunks" /\ issues' = issues \union HashIssues
      /\ digest' = {hashed} /\ pc' = "analysed"
      /\ UNCHANGED <<image, expected, structure, loop>>
  BY DEF CompareHashes, LoopEnds
<1>2. TypeOK /\ Stages /\ image \in Images
  BY DEF Inv, IInv
<1>3. seg' = seg /\ pos' = pos /\ sections' = sections /\ geometry' = geometry
      /\ total_table_entries' = total_table_entries
  BY <1>1 DEF structure
<1>4. cur' = cur /\ bytes_remaining' = bytes_remaining /\ global_chunk_idx' = global_chunk_idx
      /\ hashed' = hashed /\ progress' = progress
  BY <1>1 DEF loop
<1>5. Chains' /\ (issues' = {} => CleanSoFar')
  BY <1>1, SettledFrame
<1>6. TypeOK'
  BY <1>1, <1>2, <1>3, <1>4 DEF TypeOK
<1>7. Stages'
  BY <1>1, <1>2, <1>3, <1>4 DEF Stages
<1>8. ProgressAccounts' /\ RemainingExact' /\ HashedWithinMedia'
  BY <1>1, <1>3, <1>4 DEF Inv, IInv, ProgressAccounts, RemainingExact, HashedWithinMedia
<1>9. ASSUME issues' = {} PROVE Verified'
  <2>1. issues = {} /\ HashIssues = {}
    BY <1>1, <1>9
  <2>2. CleanSoFar /\ geometry.found /\ seg > 1 /\ seg = Len(image) + 1
        /\ Len(sections) = seg - 1
    BY <1>1, <1>2, <2>1 DEF Inv, IInv, Stages
  <2>3. Len(image) \in Nat /\ DOMAIN image = 1..Len(image) /\ seg \in Nat
        /\ DOMAIN sections = 1..Len(sections)
    BY <1>2, ImageTypes DEF TypeOK
  <2>4. \A s \in DOMAIN image : SegmentSound(s) /\ TableSound(s)
    BY <2>2, <2>3 DEF CleanSoFar
  <2>5. \A s : (SegmentSound(s)' <=> SegmentSound(s)) /\ (TableSound(s)' <=> TableSound(s))
    BY <1>1, <1>3, SameSegment
  <2>6. Len(image) > 1 => total_table_entries = geometry.chunk_count
    BY <1>1, <2>2 DEF CleanSoFar
  <2>7. Having(Len(image), {"done"}) # {}
    <3>1. Len(image) # 0
      BY <2>2, <2>3
    <3> QED BY <2>2, <2>3, <3>1 DEF CleanSoFar
  <2>8. Having(Len(image), {"hash"}) # {} /\ \A h \in Digests : digest' = {h}
    BY <1>1, <2>1, NoHashIssues
  <2>9. Digests' = Digests
    BY <1>1, <1>3 DEF Digests, StoredMd5, StoredSha1, Having, FirstOf, Holds, DataLen
  <2>10. ASSUME NEW types PROVE Having(Len(image), types)' = Having(Len(image), types)
    BY <1>1, <1>3 DEF Having
  <2> QED BY <1>1, <1>3, <2>4, <2>5, <2>6, <2>7, <2>8, <2>9, <2>10 DEF Verified
<1> QED BY <1>1, <1>2, <1>5, <1>6, <1>7, <1>8, <1>9 DEF Inv, IInv, CleanIsSound

----------------------------------------------------------------------------
(* The segments.                                                           *)

\* Before the loop nothing is counted or hashed, whatever becomes of the geometry.
LEMMA EarlyFrame ==
  ASSUME Inv, {pc, pc'} \subseteq {"segment", "walk", "check"}, UNCHANGED loop,
         TypeOK'
  PROVE  /\ ProgressAccounts' /\ RemainingExact' /\ HashedWithinMedia'
         /\ CleanIsSound'
         /\ (global_chunk_idx = 0 /\ hashed = <<>>)'
<1>1. global_chunk_idx = 0 /\ hashed = <<>>
  BY DEF Inv, IInv, Stages
<1>2. progress' = progress /\ global_chunk_idx' = global_chunk_idx /\ hashed' = hashed
  BY DEF loop
<1>3. ProgressAccounts'
  <2>1. progress.chunks_done = 0 /\ progress.bytes_done = 0
    <3>1. progress.chunks_done \in Nat /\ progress.chunks_done <= 0
      BY <1>1 DEF Inv, IInv, TypeOK, ProgressAccounts
    <3>2. progress.chunks_done = 0
      BY <3>1
    <3>3. geometry.total_bytes \in Nat /\ geometry.chunk_size \in Nat
      BY GeometryType DEF Inv, IInv
    <3>4. progress.chunks_done * geometry.chunk_size = 0
      BY <3>2, <3>3
    <3>5. progress.bytes_done = SmallerOf(geometry.total_bytes, 0)
      BY <3>4 DEF Inv, IInv, ProgressAccounts
    <3> QED BY <3>2, <3>3, <3>5 DEF SmallerOf
  <2>2. geometry'.total_bytes \in Nat /\ geometry'.chunk_size \in Nat
    <3>1. geometry' \in Geometry /\ U64Max \in Nat
      BY WidthAssumption DEF TypeOK, U64Max
    <3> QED BY <3>1 DEF Geometry
  <2>3. progress'.chunks_done * geometry'.chunk_size = 0
    BY <1>2, <2>1, <2>2
  <2>4. progress'.bytes_done = SmallerOf(geometry'.total_bytes, 0)
    BY <1>2, <2>1, <2>2 DEF SmallerOf
  <2> QED BY <1>1, <1>2, <2>1, <2>3, <2>4 DEF ProgressAccounts
<1>4. RemainingExact' /\ HashedWithinMedia'
  BY DEF RemainingExact, HashedWithinMedia
<1>5. CleanIsSound'
  BY DEF CleanIsSound
<1> QED BY <1>1, <1>2, <1>3, <1>4, <1>5

\* A segment that begins has no sections yet; those before it are as they were.
LEMMA BeginSegment ==
  ASSUME Inv, pc = "segment", sections' = Append(sections, <<>>)
  PROVE  /\ sections' \in Seq(Seq(Walked)) /\ Len(sections') = seg
         /\ DOMAIN sections' = 1..seg /\ seg \in Nat /\ sections'[seg] = <<>>
         /\ DOMAIN sections = 1..seg - 1
         /\ \A s \in 1..seg - 1 : sections'[s] = sections[s]
<1>1. sections \in Seq(Seq(Walked)) /\ Len(sections) = seg - 1 /\ seg \in Nat
  BY DEF Inv, IInv, TypeOK, Stages, Walked
<1> QED BY <1>1

LEMMA ShortSegmentStep ==
  ASSUME Inv, ShortSegment
  PROVE  Inv'
<1>1. /\ pc = "segment" /\ pc' = pc /\ seg <= Len(image) /\ seg' = seg + 1
      /\ issues' = issues \union Report(TRUE, "SectionChainBroken", 0)
      /\ sections' = Append(sections, <<>>)
      /\ UNCHANGED <<image, expected, pos, geometry, total_table_entries, loop, digest>>
  BY DEF ShortSegment
<1>2. TypeOK /\ Stages /\ Chains /\ image \in Images
  BY DEF Inv, IInv
<1>3. /\ sections' \in Seq(Seq(Walked)) /\ Len(sections') = seg /\ DOMAIN sections' = 1..seg
      /\ seg \in Nat /\ sections'[seg] = <<>> /\ DOMAIN sections = 1..seg - 1
      /\ \A s \in 1..seg - 1 : sections'[s] = sections[s]
  BY <1>1, BeginSegment
<1>4. TypeOK'
  BY <1>1, <1>2, <1>3 DEF TypeOK, Walked, loop
<1>5. /\ ProgressAccounts' /\ RemainingExact' /\ HashedWithinMedia'
      /\ CleanIsSound'
      /\ (global_chunk_idx = 0 /\ hashed = <<>>)'
  BY <1>1, <1>4, EarlyFrame
<1>6. Stages'
  <2>1. Len(image) \in Nat /\ seg \in Nat \ {0}
    BY <1>2, ImageTypes DEF TypeOK
  <2> QED BY <1>1, <1>2, <1>3, <1>5, <2>1 DEF Stages
<1>7. Chains'
  <2>1. ASSUME NEW s \in DOMAIN sections' PROVE ChainWalked(s)'
    <3>1. CASE s = seg
      BY <1>3, <3>1 DEF ChainWalked
    <3>2. CASE s # seg
      <4>1. s \in DOMAIN sections /\ sections'[s] = sections[s]
        BY <1>3, <3>2
      <4> QED BY <1>1, <1>2, <4>1, SameSegment DEF Chains
    <3> QED BY <3>1, <3>2
  <2> QED BY <1>1, <2>1 DEF Chains
<1>8. issues' # {}
  BY <1>1 DEF Report
<1> QED BY <1>1, <1>2, <1>4, <1>5, <1>6, <1>7, <1>8 DEF Inv, IInv

LEMMA OpenSegmentStep ==
  ASSUME Inv, OpenSegment
  PROVE  Inv'
<1>1. /\ pc = "segment" /\ pc' = "walk" /\ seg <= Len(image) /\ pos' = FileHeaderSize
      /\ issues' = issues \union HeaderIssues
      /\ sections' = Append(sections, <<>>)
      /\ UNCHANGED <<image, expected, seg, geometry, total_table_entries, loop, digest>>
  BY DEF OpenSegment
<1>2. TypeOK /\ Stages /\ Chains /\ image \in Images
  BY DEF Inv, IInv
<1>3. /\ sections' \in Seq(Seq(Walked)) /\ Len(sections') = seg /\ DOMAIN sections' = 1..seg
      /\ seg \in Nat /\ sections'[seg] = <<>> /\ DOMAIN sections = 1..seg - 1
      /\ \A s \in 1..seg - 1 : sections'[s] = sections[s]
  BY <1>1, BeginSegment
<1>4. TypeOK'
  BY <1>1, <1>2, <1>3, Sizes DEF TypeOK, Walked, loop
<1>5. /\ ProgressAccounts' /\ RemainingExact' /\ HashedWithinMedia'
      /\ CleanIsSound'
      /\ (global_chunk_idx = 0 /\ hashed = <<>>)'
  BY <1>1, <1>4, EarlyFrame
<1>6. Stages'
  <2>1. Len(image) \in Nat /\ seg \in Nat \ {0}
    BY <1>2, ImageTypes DEF TypeOK
  <2> QED BY <1>1, <1>2, <1>3, <1>5, <2>1 DEF Stages
<1>7. ASSUME NEW s \in 1..seg - 1
      PROVE  /\ s \in DOMAIN sections /\ ChainWalked(s)'
             /\ SegmentSound(s)' <=> SegmentSound(s)
             /\ TableSound(s)' <=> TableSound(s)
  <2>1. s \in DOMAIN sections /\ sections'[s] = sections[s]
    BY <1>3
  <2> QED BY <1>1, <1>2, <2>1, SameSegment DEF Chains
<1>8. Chains'
  <2>1. ASSUME NEW s \in DOMAIN sections' PROVE ChainWalked(s)'
    <3>1. CASE s = seg
      BY <1>3, <3>1 DEF ChainWalked
    <3>2. CASE s \in 1..seg - 1
      BY <1>7, <3>2
    <3> QED BY <1>3, <3>1, <3>2
  <2> QED BY <1>1, <1>3, <2>1 DEF Chains
<1>9. ASSUME issues' = {} PROVE CleanSoFar'
  <2>1. issues = {} /\ HeaderIssues = {}
    BY <1>1, <1>9
  <2>2. CleanSoFar
    BY <2>1 DEF Inv, IInv
  <2>3. image[seg].signature /\ image[seg].number = seg
    BY <2>1 DEF HeaderIssues, Report
  <2>4. ASSUME NEW s \in DOMAIN sections' PROVE SegmentSound(s)'
    <3>1. CASE s = seg
      BY <1>1, <1>3, <2>3, <3>1 DEF SegmentSound
    <3>2. CASE s \in 1..seg - 1
      BY <1>7, <2>2, <3>2 DEF CleanSoFar
    <3> QED BY <1>3, <3>1, <3>2
  <2>5. ASSUME NEW s \in 1..seg - 1 PROVE TableSound(s)'
    BY <1>7, <2>2 DEF CleanSoFar
  <2>6. ~(seg > Len(image))
    BY <1>1, <1>2, <1>3, ImageTypes
  <2> QED BY <1>1, <1>3, <2>4, <2>5, <2>6 DEF CleanSoFar
<1> QED BY <1>1, <1>2, <1>4, <1>5, <1>6, <1>8, <1>9 DEF Inv, IInv

LEMMA WalkEndsStep ==
  ASSUME Inv, WalkEnds
  PROVE  Inv'
<1>1. /\ pc = "walk" /\ pc' = "check"
      /\ UNCHANGED <<image, expected, structure, issues, loop, digest>>
  BY DEF WalkEnds
<1>2. TypeOK /\ Stages /\ Chains /\ image \in Images
  BY DEF Inv, IInv
<1>3. seg' = seg /\ pos' = pos /\ sections' = sections /\ geometry' = geometry
      /\ total_table_entries' = total_table_entries
  BY <1>1 DEF structure
<1>4. TypeOK'
  BY <1>1, <1>2, <1>3 DEF TypeOK, loop
<1>5. /\ ProgressAccounts' /\ RemainingExact' /\ HashedWithinMedia'
      /\ CleanIsSound'
      /\ (global_chunk_idx = 0 /\ hashed = <<>>)'
  BY <1>1, <1>4, EarlyFrame
<1>6. Stages'
  BY <1>1, <1>2, <1>3, <1>5 DEF Stages
<1>7. \A s : /\ ChainWalked(s)' <=> ChainWalked(s)
             /\ SegmentSound(s)' <=> SegmentSound(s)
             /\ TableSound(s)' <=> TableSound(s)
  BY <1>1, <1>3, SameSegment
<1>8. Chains'
  BY <1>1, <1>2, <1>3, <1>7 DEF Chains
<1>9. ASSUME issues' = {} PROVE CleanSoFar'
  <2>1. CleanSoFar
    BY <1>1, <1>9 DEF Inv, IInv
  <2>2. Having(Len(image), {"done"})' = Having(Len(image), {"done"})
    BY <1>1, <1>3 DEF Having
  <2> QED BY <1>1, <1>3, <1>7, <2>1, <2>2 DEF CleanSoFar
<1> QED BY <1>1, <1>2, <1>4, <1>5, <1>6, <1>8, <1>9 DEF Inv, IInv

LEMMA WalkDescriptorStep ==
  ASSUME Inv, WalkDescriptor
  PROVE  Inv'
<1> DEFINE sec == image[seg].at[pos]
           stop == Stops(image[seg], pos, sec)
           old == sections[seg]
           found == [offset |-> pos, sec |-> sec]
           new == Append(old, found)
<1>1. /\ pc = "walk" /\ pos + DescriptorSize <= DataLen(seg)
      /\ issues' = issues \union DescriptorIssues(sec)
      /\ sections' = [sections EXCEPT ![seg] = new]
      /\ pc' = (IF stop THEN "check" ELSE "walk") /\ pos' = (IF stop THEN pos ELSE sec.next)
      /\ UNCHANGED <<image, expected, seg, geometry, total_table_entries, loop, digest>>
  BY DEF WalkDescriptor
<1>2. TypeOK /\ Stages /\ Chains /\ image \in Images
  BY DEF Inv, IInv
<1>3. /\ sections \in Seq(Seq(Walked)) /\ seg \in Nat \ {0} /\ pos \in Nat
      /\ seg <= Len(image) /\ Len(sections) = seg
  BY <1>1, <1>2 DEF TypeOK, Stages, Walked
<1>4. seg \in DOMAIN image /\ seg \in DOMAIN sections /\ DOMAIN sections = 1..seg
      /\ Len(image) \in Nat
  BY <1>2, <1>3, ImageTypes
<1>5. DataLen(seg) \in Nat /\ sec \in Section
  <2>1. /\ DataLen(seg) \in Nat
        /\ \A o \in 0..DataLen(seg) - DescriptorSize : image[seg].at[o] \in Section
    BY <1>2, <1>4, ImageTypes
  <2>2. pos \in 0..DataLen(seg) - DescriptorSize
    BY <1>1, <1>3, <2>1, Sizes
  <2> QED BY <2>1, <2>2
<1>6. sec.next \in Nat /\ sec.size \in Nat
  BY <1>5 DEF Section
<1> HIDE DEF sec
<1>7. old \in Seq(Walked) /\ found \in Walked
  BY <1>3, <1>4, <1>5 DEF Walked
<1>8. /\ new \in Seq(Walked) /\ Len(new) = Len(old) + 1 /\ Len(old) \in Nat
      /\ DOMAIN new = 1..Len(old) + 1 /\ DOMAIN old = 1..Len(old)
      /\ new[Len(old) + 1] = found /\ \A i \in 1..Len(old) : new[i] = old[i]
  <2> HIDE DEF old, found
  <2> QED BY <1>7
<1> HIDE DEF new, stop
<1>9. /\ sections' \in Seq(Seq(Walked)) /\ Len(sections') = seg /\ DOMAIN sections' = 1..seg
      /\ sections'[seg] = new /\ \A s \in 1..seg : s # seg => sections'[s] = sections[s]
  BY <1>1, <1>3, <1>4, <1>8
<1>10. pos' \in Nat
  BY <1>1, <1>3, <1>6
<1>11. TypeOK'
  BY <1>1, <1>2, <1>9, <1>10 DEF TypeOK, Walked, loop
<1>12. {pc, pc'} \subseteq {"segment", "walk", "check"}
  BY <1>1
<1>13. /\ ProgressAccounts' /\ RemainingExact' /\ HashedWithinMedia'
       /\ CleanIsSound'
       /\ (global_chunk_idx = 0 /\ hashed = <<>>)'
  BY <1>1, <1>11, <1>12, EarlyFrame
<1>14. Stages'
  BY <1>1, <1>2, <1>3, <1>4, <1>9, <1>13 DEF Stages
<1>15. ASSUME NEW s \in 1..seg, s # seg
       PROVE  /\ s \in DOMAIN sections /\ ChainWalked(s)'
              /\ SegmentSound(s)' <=> SegmentSound(s)
              /\ TableSound(s)' <=> TableSound(s)
  <2>1. s \in DOMAIN sections /\ sections'[s] = sections[s]
    BY <1>4, <1>9, <1>15
  <2> QED BY <1>1, <1>2, <2>1, SameSegment DEF Chains
<1>16. \A i \in 1..Len(old) : old[i] \in Walked /\ old[i].offset \in Nat /\ old[i].offset < pos
  <2>1. \A i \in DOMAIN old : old[i].offset < pos
    BY <1>1, <1>2 DEF Chains
  <2>2. ASSUME NEW i \in 1..Len(old) PROVE old[i] \in Walked
    BY <1>7, <1>8
  <2> QED BY <1>8, <2>1, <2>2 DEF Walked
<1>17. Chains'
  <2>1. ASSUME NEW s \in DOMAIN sections' PROVE ChainWalked(s)'
    <3>1. CASE s = seg
      <4>1. ChainWalked(seg)
        BY <1>2, <1>4 DEF Chains
      <4>2. ASSUME NEW i \in 1..Len(old) + 1
            PROVE  new[i].offset + DescriptorSize <= DataLen(seg)
        <5>1. CASE i = Len(old) + 1
          BY <1>1, <1>8, <5>1
        <5>2. CASE i # Len(old) + 1
          <6>1. i \in 1..Len(old)
            BY <1>8, <5>2
          <6> QED BY <1>8, <4>1, <6>1 DEF ChainWalked
        <5> QED BY <5>1, <5>2
      <4>3. ASSUME NEW i \in 1..Len(old) + 1, NEW j \in 1..Len(old) + 1, i < j
            PROVE  new[i].offset < new[j].offset
        <5>1. i \in 1..Len(old)
          BY <1>8, <4>3
        <5>2. CASE j = Len(old) + 1
          BY <1>8, <1>16, <5>1, <5>2
        <5>3. CASE j # Len(old) + 1
          <6>1. j \in 1..Len(old)
            BY <1>8, <5>3
          <6> QED BY <1>8, <4>1, <4>3, <5>1, <6>1 DEF ChainWalked
        <5> QED BY <5>2, <5>3
      <4>4. DataLen(s)' = DataLen(seg) /\ sections'[s] = new
        BY <1>1, <1>9, <3>1 DEF DataLen
      <4> QED BY <1>8, <4>2, <4>3, <4>4 DEF ChainWalked
    <3>2. CASE s # seg
      BY <1>9, <1>15, <3>2
    <3> QED BY <3>1, <3>2
  <2>2. ASSUME pc' = "walk", NEW i \in DOMAIN new PROVE new[i].offset < pos'
    <3>1. ~stop /\ pos' = sec.next /\ pos < sec.next
      BY <1>1, <1>3, <1>6, <2>2 DEF stop, Stops, Dangling, DataLen
    <3>2. CASE i = Len(old) + 1
      BY <1>8, <3>1, <3>2
    <3>3. CASE i # Len(old) + 1
      <4>1. i \in 1..Len(old)
        BY <1>8, <3>3
      <4> QED BY <1>3, <1>6, <1>8, <1>16, <3>1, <4>1
    <3> QED BY <3>2, <3>3
  <2> QED BY <1>1, <1>9, <2>1, <2>2 DEF Chains
<1>18. ASSUME issues' = {} PROVE CleanSoFar'
  <2>1. issues = {} /\ DescriptorIssues(sec) = {}
    BY <1>1, <1>18
  <2>2. CleanSoFar
    BY <2>1 DEF Inv, IInv
  <2>3. sec.crc_ok /\ (~stop => sec.next <= SatAdd(pos, sec.size))
    <3>1. sec.crc_ok
      BY <2>1 DEF DescriptorIssues, Report
    <3>2. ASSUME ~stop PROVE ~(sec.next > SatAdd(pos, sec.size))
      BY <2>1, <3>2 DEF DescriptorIssues, Report, stop
    <3>3. SatAdd(pos, sec.size) \in Nat
      BY <1>3, <1>6, SatTypes
    <3> QED BY <1>6, <3>1, <3>2, <3>3
  <2>4. ASSUME NEW s \in DOMAIN sections' PROVE SegmentSound(s)'
    <3>1. CASE s = seg
      <4>1. SegmentSound(seg)
        BY <1>4, <2>2 DEF CleanSoFar
      <4>2. ASSUME NEW i \in 1..Len(old) + 1
            PROVE  /\ new[i].sec.crc_ok
                   /\ i + 1 \in 1..Len(old) + 1 =>
                        new[i + 1].offset <= SatAdd(new[i].offset, new[i].sec.size)
        <5>1. CASE i = Len(old) + 1
          BY <1>8, <2>3, <5>1
        <5>2. CASE i = Len(old)
          <6>1. i \in 1..Len(old) /\ new[i] = old[i] /\ new[i + 1].offset = pos
            BY <1>8, <5>2
          <6>2. old # <<>>
            BY <6>1
          <6>3. pos <= SatAdd(old[i].offset, old[i].sec.size)
            BY <1>1, <2>2, <5>2, <6>2 DEF CleanSoFar
          <6> QED BY <1>8, <4>1, <6>1, <6>3 DEF SegmentSound
        <5>3. CASE i < Len(old)
          <6>1. /\ i \in 1..Len(old) /\ i + 1 \in 1..Len(old)
                /\ new[i] = old[i] /\ new[i + 1] = old[i + 1]
            BY <1>8, <5>3
          <6> QED BY <1>8, <4>1, <6>1 DEF SegmentSound
        <5> QED BY <1>8, <5>1, <5>2, <5>3
      <4>3. sections'[s] = new /\ image'[s] = image[seg]
        BY <1>1, <1>9, <3>1
      <4>4. image[seg].signature /\ image[seg].number = seg
        BY <4>1 DEF SegmentSound
      <4> QED BY <1>8, <3>1, <4>2, <4>3, <4>4 DEF SegmentSound
    <3>2. CASE s # seg
      BY <1>4, <1>9, <1>15, <2>2, <3>2 DEF CleanSoFar
    <3> QED BY <3>1, <3>2
  <2>5. ASSUME NEW s \in 1..seg - 1 PROVE TableSound(s)'
    BY <1>3, <1>15, <2>2 DEF CleanSoFar
  <2>6. ASSUME pc' = "walk" PROVE pos' <= SatAdd(new[Len(new)].offset, new[Len(new)].sec.size)
    BY <1>1, <1>8, <2>3, <2>6
  <2>7. ~(seg > Len(image))
    BY <1>3, <1>4
  <2> QED BY <1>1, <1>9, <2>4, <2>5, <2>6, <2>7 DEF CleanSoFar
<1> QED BY <1>1, <1>2, <1>11, <1>13, <1>14, <1>17, <1>18 DEF Inv, IInv

\* The geometry read from the volume, cut to 64 bits.
LEMMA CheckedGeometryType ==
  ASSUME TypeOK, Stages, pc = "check"
  PROVE  CheckedGeometry \in Geometry /\ (CheckedGeometry.found /\ seg > 1 => geometry.found)
<1>1. geometry \in Geometry /\ sections \in Seq(Seq(Walked)) /\ seg \in DOMAIN sections
  BY DEF TypeOK, Stages, Walked
<1>2. CASE seg = 1 /\ VolumeReadable
  <2> DEFINE v == FirstOf(1, Volumes).sec
  <2>1. CheckedGeometry = DeclaredGeometry(v)
    BY <1>2 DEF CheckedGeometry
  <2>2. Having(seg, Volumes) # {}
    BY <1>2 DEF VolumeReadable, Readable, Having
  <2>3. FirstOf(1, Volumes) \in Walked
    BY <1>1, <1>2, <2>2, FirstOfType
  <2>4. v \in Section
    BY <2>3 DEF Walked
  <2> HIDE DEF v
  <2>5. /\ v.sectors_per_chunk \in Nat /\ v.bytes_per_sector \in Nat /\ v.sector_count \in Nat
        /\ v.chunk_count \in Nat /\ v.set_identifier \in Nat
    BY <2>4 DEF Section
  <2>6. U64Max \in Nat
    BY WidthAssumption DEF U64Max
  <2>7. ASSUME NEW a \in Nat, NEW b \in Nat PROVE SmallerOf(a * b, U64Max) \in 0..U64Max
    <3>1. a * b \in Nat
      BY OneMore
    <3> QED BY <2>6, <3>1 DEF SmallerOf
  <2>8. DeclaredGeometry(v) \in Geometry
    BY <2>5, <2>7 DEF DeclaredGeometry, Geometry
  <2> QED BY <1>2, <2>1, <2>8
<1>3. CASE ~(seg = 1 /\ VolumeReadable)
  BY <1>1, <1>3 DEF CheckedGeometry
<1> QED BY <1>2, <1>3

LEMMA TableCountType ==
  ASSUME TypeOK, Stages, pc = "check"
  PROVE  TableCount \in Nat
<1>1. sections \in Seq(Seq(Walked)) /\ seg \in DOMAIN sections
  BY DEF TypeOK, Stages, Walked
<1>2. CASE Having(seg, {"table"}) # {}
  <2>1. TableOf(seg) \in Walked
    BY <1>1, <1>2, FirstOfType DEF TableOf
  <2>2. TableOf(seg).sec.entry_count \in Nat
    BY <2>1 DEF Walked, Section
  <2> QED BY <2>2 DEF TableCount
<1> QED BY <1>2 DEF TableCount

\* A segment that passes its checks has its table, and its table's entries are in
\* the sectors.
LEMMA NoSegmentIssues ==
  ASSUME TypeOK, Stages, image \in Images, pc = "check", SegmentIssues = {}
  PROVE  TableSound(seg) /\ (seg = Len(image) => Having(seg, {"done"}) # {})
<1>1. ASSUME NEW wrong, NEW kind, NEW at, Report(wrong, kind, at) = {} PROVE ~wrong
  BY <1>1 DEF Report
<1>2. /\ Report(Having(seg, {"sectors"}) = {}, "SectorsSectionMissing", 0) = {}
      /\ TableIssues = {}
      /\ Report(seg = Len(image) /\ Having(seg, {"done"}) = {}, "DoneSectionMissing", 0) = {}
  BY DEF SegmentIssues
<1>3. Having(seg, {"sectors"}) # {} /\ (seg = Len(image) => Having(seg, {"done"}) # {})
  BY <1>1, <1>2
<1>4. Having(seg, {"table"}) # {}
  <2>1. CASE Having(seg, {"table"}) = {}
    <3>1. TableIssues = Report(TRUE, "TableSectionMissing", 0)
      BY <2>1, Zenon DEF TableIssues
    <3> QED BY <1>1, <1>2, <3>1
  <2> QED BY <2>1
<1>5. ASSUME Holds(seg, TableOf(seg), TableHeaderSize),
             NEW i \in 1..SmallerOf(TableOf(seg).sec.entry_count, Len(TableOf(seg).sec.entries))
      PROVE  LET absolute == SatAdd(TableOf(seg).sec.base_offset, TableOf(seg).sec.entries[i].off)
             IN  absolute < DataLen(seg) /\ ~OutsideSectors(seg, absolute)
  <2> DEFINE t == TableOf(seg).sec
             absolute == SatAdd(t.base_offset, t.entries[i].off)
  <2>1. EntryIssues(t, i) = {}
    BY <1>2, <1>4, <1>5 DEF TableIssues
  <2>2. /\ Report(absolute >= DataLen(seg), "TableEntryOutOfBounds", i - 1) = {}
        /\ Report(absolute < DataLen(seg) /\ OutsideSectors(seg, absolute),
                  "TableEntryOutsideSectorsRange", i - 1) = {}
    BY <2>1 DEF EntryIssues
  <2>3. ~(absolute >= DataLen(seg)) /\ ~(absolute < DataLen(seg) /\ OutsideSectors(seg, absolute))
    BY <1>1, <2>2
  <2>4. sections \in Seq(Seq(Walked)) /\ seg \in DOMAIN sections /\ seg \in DOMAIN image
    BY ImageTypes DEF TypeOK, Stages, Walked
  <2>5. TableOf(seg) \in Walked
    BY <1>4, <2>4, FirstOfType DEF TableOf
  <2>6. t.base_offset \in Nat /\ t.entries \in Seq(TableEntry) /\ t.entry_count \in Nat
    BY <2>5 DEF Walked, Section
  <2>7. i \in DOMAIN t.entries
    BY <1>5, <2>6 DEF SmallerOf
  <2>8. t.entries[i].off \in Nat
    <3>1. t.entries[i] \in TableEntry
      BY <2>6, <2>7
    <3> QED BY <3>1 DEF TableEntry
  <2>9. absolute \in Nat /\ DataLen(seg) \in Nat
    BY <2>4, <2>6, <2>8, SatTypes, ImageTypes
  <2> HIDE DEF t, absolute
  <2>10. absolute < DataLen(seg) /\ ~OutsideSectors(seg, absolute)
    BY <2>3, <2>9
  <2> QED BY <2>10 DEF t, absolute
<1> QED BY <1>3, <1>4, <1>5 DEF TableSound

LEMMA CheckSegmentStep ==
  ASSUME Inv, CheckSegment
  PROVE  Inv'
<1>1. /\ pc = "check" /\ pc' = "segment" /\ seg' = seg + 1
      /\ issues' = issues \union SegmentIssues /\ geometry' = CheckedGeometry
      /\ total_table_entries'
           = SmallerOf(total_table_entries + TableCount, SizeModulus - 1)
      /\ UNCHANGED <<image, expected, pos, sections, loop, digest>>
  BY DEF CheckSegment
<1>2. TypeOK /\ Stages /\ Chains /\ image \in Images
  BY DEF Inv, IInv
<1>3. seg \in Nat \ {0} /\ seg <= Len(image) /\ Len(sections) = seg /\ Len(image) \in Nat
      /\ DOMAIN sections = 1..seg /\ DOMAIN image = 1..Len(image)
  BY <1>1, <1>2, ImageTypes DEF TypeOK, Stages
<1>4. geometry' \in Geometry
  BY <1>1, <1>2, CheckedGeometryType
<1>5. total_table_entries' \in Nat
  <2>1. TableCount \in Nat /\ total_table_entries \in Nat /\ SizeModulus - 1 \in Nat
    BY <1>1, <1>2, TableCountType, WidthAssumption DEF TypeOK
  <2> QED BY <1>1, <2>1 DEF SmallerOf
<1>6. TypeOK'
  BY <1>1, <1>2, <1>3, <1>4, <1>5 DEF TypeOK, loop
<1>7. /\ ProgressAccounts' /\ RemainingExact' /\ HashedWithinMedia'
      /\ CleanIsSound'
      /\ (global_chunk_idx = 0 /\ hashed = <<>>)'
  BY <1>1, <1>6, EarlyFrame
<1>8. Stages'
  BY <1>1, <1>2, <1>3, <1>7 DEF Stages
<1>9. \A s : /\ ChainWalked(s)' <=> ChainWalked(s)
             /\ SegmentSound(s)' <=> SegmentSound(s)
             /\ TableSound(s)' <=> TableSound(s)
  BY <1>1, SameSegment
<1>10. Chains'
  BY <1>1, <1>2, <1>9 DEF Chains
<1>11. ASSUME issues' = {} PROVE CleanSoFar'
  <2>1. issues = {} /\ SegmentIssues = {}
    BY <1>1, <1>11
  <2>2. CleanSoFar
    BY <2>1 DEF Inv, IInv
  <2>3. TableSound(seg) /\ (seg = Len(image) => Having(seg, {"done"}) # {})
    BY <1>1, <1>2, <2>1, NoSegmentIssues
  <2>4. ASSUME NEW s \in 1..seg' - 1 PROVE TableSound(s)'
    <3>1. s = seg \/ s \in 1..seg - 1
      BY <1>1, <1>3
    <3>2. TableSound(s)
      BY <2>2, <2>3, <3>1 DEF CleanSoFar
    <3> QED BY <1>9, <3>2
  <2>5. seg' > Len(image) => Having(Len(image), {"done"}) # {}
    <3>1. seg' = seg + 1
      BY <1>1
    <3>2. seg' > Len(image) => seg = Len(image)
      <4>1. ASSUME NEW a \in Nat, NEW b \in Nat, a <= b, a + 1 > b PROVE a = b
        BY <4>1
      <4>2. seg \in Nat /\ Len(image) \in Nat /\ seg <= Len(image)
        BY <1>3
      <4> QED BY <3>1, <4>1, <4>2
    <3> QED BY <2>3, <3>2
  <2>6. Having(Len(image), {"done"})' = Having(Len(image), {"done"})
    BY <1>1 DEF Having
  <2>7. \A s \in DOMAIN sections' : SegmentSound(s)'
    BY <1>1, <1>9, <2>2 DEF CleanSoFar
  <2> QED BY <1>1, <2>4, <2>5, <2>6, <2>7 DEF CleanSoFar
<1> QED BY <1>1, <1>2, <1>6, <1>7, <1>8, <1>10, <1>11 DEF Inv, IInv

----------------------------------------------------------------------------
(* The theorems.                                                           *)

LEMMA InitInv == Init => Inv
<1> SUFFICES ASSUME Init PROVE Inv
  OBVIOUS
<1>1. /\ image \in Images /\ pc = "segment" /\ seg = 1 /\ pos = FileHeaderSize /\ sections = <<>>
      /\ geometry = NoGeometry /\ total_table_entries = 0
      /\ cur = [seg |-> 1, entry |-> 0] /\ bytes_remaining = 0 /\ global_chunk_idx = 0
      /\ hashed = <<>> /\ progress = [chunks_done |-> 0, bytes_done |-> 0]
  BY DEF Init
<1>2. U64Max \in Nat /\ Len(image) \in Nat
  BY <1>1, WidthAssumption, ImageTypes DEF U64Max
<1>3. geometry \in Geometry
  BY <1>1, <1>2 DEF NoGeometry, Geometry
<1>4. TypeOK
  BY <1>1, <1>3, Sizes DEF TypeOK
<1>5. Stages /\ Chains
  BY <1>1, <1>2 DEF Stages, Chains, NoGeometry
<1>6. CleanSoFar
  <2>1. seg > Len(image) => Len(image) = 0
    BY <1>1, <1>2
  <2> QED BY <1>1, <2>1 DEF CleanSoFar
<1>7. ProgressAccounts /\ RemainingExact /\ HashedWithinMedia
  BY <1>1 DEF ProgressAccounts, RemainingExact, HashedWithinMedia, NoGeometry, SmallerOf
<1>8. CleanIsSound
  BY <1>1 DEF CleanIsSound
<1> QED BY <1>1, <1>4, <1>5, <1>6, <1>7, <1>8 DEF Inv, IInv

LEMMA StutterInv ==
  ASSUME Inv, UNCHANGED vars
  PROVE  Inv'
<1>1. /\ image' = image /\ expected' = expected /\ pc' = pc /\ seg' = seg /\ pos' = pos
      /\ sections' = sections /\ geometry' = geometry
      /\ total_table_entries' = total_table_entries /\ issues' = issues
      /\ cur' = cur /\ bytes_remaining' = bytes_remaining
      /\ global_chunk_idx' = global_chunk_idx /\ hashed' = hashed /\ progress' = progress
      /\ digest' = digest
  BY DEF vars, structure, loop
<1>2. \A s : /\ ChainWalked(s)' <=> ChainWalked(s)
             /\ SegmentSound(s)' <=> SegmentSound(s)
             /\ TableSound(s)' <=> TableSound(s)
  BY <1>1, SameSegment
<1>3. TypeOK' /\ Stages' /\ Chains'
  BY <1>1, <1>2 DEF Inv, IInv, TypeOK, Stages, Chains
<1>4. ASSUME issues' = {} PROVE CleanSoFar'
  <2>1. CleanSoFar
    BY <1>1, <1>4 DEF Inv, IInv
  <2>2. Having(Len(image), {"done"})' = Having(Len(image), {"done"})
    BY <1>1 DEF Having
  <2> QED BY <1>1, <1>2, <2>1, <2>2 DEF CleanSoFar
<1>5. ProgressAccounts' /\ RemainingExact' /\ HashedWithinMedia'
  BY <1>1 DEF Inv, IInv, ProgressAccounts, RemainingExact, HashedWithinMedia
<1>6. CleanIsSound'
  <2>1. (pc = "analysed" /\ issues = {} /\ geometry.found) => Verified
    BY DEF Inv, IInv, CleanIsSound
  <2>2. Verified => Verified'
    BY <1>1, VerifiedFrame DEF structure
  <2> QED BY <1>1, <2>1, <2>2 DEF CleanIsSound
<1> QED BY <1>1, <1>3, <1>4, <1>5, <1>6 DEF Inv, IInv

LEMMA InvStep ==
  ASSUME Inv, [Next]_vars
  PROVE  Inv'
BY ShortSegmentStep, OpenSegmentStep, WalkEndsStep, WalkDescriptorStep, CheckSegmentStep,
   CheckTotalsStep, NextSegmentStep, ChunkFailsStep, HashChunkStep, CompareHashesStep,
   StutterInv
   DEF Next

\* The invariant of the analysis holds initially and in every step, for every set of
\* images: damaged, truncated, with links in circles.
THEOREM Inductive == SafetySpec => []IInv
<1>1. Inv /\ [Next]_vars => Inv'
  BY InvStep
<1>2. Inv => IInv
  BY DEF Inv
<1> QED BY <1>1, <1>2, InitInv, PTL DEF SafetySpec

THEOREM TypeCorrect == SafetySpec => []TypeOK
<1>1. IInv => TypeOK
  BY DEF IInv
<1> QED BY <1>1, Inductive, PTL

\* bytes_done is what chunks_done stand for, however many chunks failed and wherever
\* the media ends.
THEOREM ProgressIsExact == SafetySpec => []ProgressAccounts
<1>1. IInv => ProgressAccounts
  BY DEF IInv
<1> QED BY <1>1, Inductive, PTL

\* No byte beyond the media is hashed.
THEOREM HashesOnlyMedia == SafetySpec => []HashedWithinMedia
<1>1. IInv => HashedWithinMedia
  BY DEF IInv
<1> QED BY <1>1, Inductive, PTL

\* An empty list of anomalies means that every segment is sound, that the counts add up
\* and that every digest given or stored is the computed one.
THEOREM CleanReportsSound == SafetySpec => []CleanIsSound
<1>1. IInv => CleanIsSound
  BY DEF IInv
<1> QED BY <1>1, Inductive, PTL

\* Every progress call reports a further chunk and no fewer bytes than the one before.
THEOREM ProgressNeverBack == SafetySpec => ProgressAdvances
<1> DEFINE A == /\ progress.chunks_done < progress'.chunks_done
                /\ progress.bytes_done <= progress'.bytes_done
<1>1. ASSUME IInv, IInv', Next PROVE A \/ progress' = progress
  <2>1. CASE progress' # progress
    <3>1. HashChunk
      BY <1>1, <2>1 DEF Next, ShortSegment, OpenSegment, WalkEnds, WalkDescriptor, CheckSegment,
         CheckTotals, NextSegment, ChunkFails, HashChunk, CompareHashes, loop
    <3>2. progress'.chunks_done = global_chunk_idx + 1 /\ geometry' = geometry
      BY <3>1 DEF HashChunk, Progress, structure
    <3>3. /\ progress.chunks_done \in Nat /\ global_chunk_idx \in Nat
          /\ progress.chunks_done <= global_chunk_idx
      BY <1>1 DEF IInv, TypeOK, ProgressAccounts
    <3>4. geometry.total_bytes \in Nat /\ geometry.chunk_size \in Nat
      BY <1>1, GeometryType DEF IInv
    <3> DEFINE a == progress.chunks_done * geometry.chunk_size
               b == (global_chunk_idx + 1) * geometry.chunk_size
    <3>5. /\ progress.bytes_done = SmallerOf(geometry.total_bytes, a)
          /\ progress'.bytes_done = SmallerOf(geometry.total_bytes, b)
      BY <1>1, <3>2 DEF IInv, ProgressAccounts
    <3>6. a \in Nat /\ b \in Nat /\ a <= b
      <4>1. global_chunk_idx + 1 \in Nat /\ progress.chunks_done <= global_chunk_idx + 1
        BY <3>3
      <4> QED BY <3>3, <3>4, <4>1, OneMore, NoFewer
    <3> HIDE DEF a, b
    <3>7. progress.bytes_done <= progress'.bytes_done
      BY <3>4, <3>5, <3>6 DEF SmallerOf
    <3> QED BY <3>2, <3>3, <3>7
  <2> QED BY <2>1
<1>2. UNCHANGED vars => progress' = progress
  BY DEF vars, loop
<1>3. IInv /\ IInv' /\ [Next]_vars => [A]_progress
  BY <1>1, <1>2
<1> QED BY <1>3, Inductive, PTL DEF SafetySpec, ProgressAdvances

----------------------------------------------------------------------------
(* What the walk of analyse leaves behind: each segment's whole chain, and *)
(* the geometry of the first one.                                          *)

\* Each section is where the one before it points, and the walk went on from there.
Linked(g, list) ==
  \A i \in DOMAIN list : list[i] = SectionAt(g, LinkAfter(list, i - 1)) /\ GoesOn(g, list, i - 1)
Complete(g, list) == Linked(g, list) /\ ~GoesOn(g, list, Len(list))

GeometryIn(g, list) ==
  IF Readable(g, list) THEN DeclaredGeometry(FirstIn(list, Volumes).sec) ELSE NoGeometry

WalkInv ==
  /\ \A s \in 1..seg - 1 : Complete(image[s], sections[s])
  /\ pc \in {"walk", "check"} => Linked(image[seg], sections[seg])
  /\ pc = "walk" =>
       LET list == sections[seg]
           n    == Len(list)
       IN  /\ pos = LinkAfter(list, n)
           /\ n # 0 => ~Stops(image[seg], list[n].offset, list[n].sec)
  /\ pc = "check" => ~GoesOn(image[seg], sections[seg], Len(sections[seg]))
  /\ geometry = IF seg = 1 THEN NoGeometry ELSE GeometryIn(image[1], sections[1])
  /\ pc # "analysed" \/ ~geometry.found => digest = {}

\* One section more.
LEMMA LinkedOn ==
  ASSUME NEW g, NEW list \in Seq(Walked), Linked(g, list), GoesOn(g, list, Len(list)),
         NEW x, x = SectionAt(g, LinkAfter(list, Len(list))), x \in Walked
  PROVE  /\ Append(list, x) \in Seq(Walked) /\ Len(Append(list, x)) = Len(list) + 1
         /\ Append(list, x)[Len(list) + 1] = x
         /\ Linked(g, Append(list, x))
<1> DEFINE more == Append(list, x)
<1>1. /\ Len(list) \in Nat /\ more \in Seq(Walked) /\ Len(more) = Len(list) + 1
      /\ DOMAIN more = 1..Len(list) + 1 /\ DOMAIN list = 1..Len(list)
      /\ \A i \in 1..Len(list) : more[i] = list[i]
      /\ more[Len(list) + 1] = x
  OBVIOUS
<1> HIDE DEF more
<1>2. ASSUME NEW i \in 0..Len(list)
      PROVE  LinkAfter(more, i) = LinkAfter(list, i) /\ (GoesOn(g, more, i) <=> GoesOn(g, list, i))
  <2>1. i # 0 => more[i] = list[i]
    BY <1>1
  <2> QED BY <2>1 DEF LinkAfter, GoesOn
<1>3. ASSUME NEW i \in DOMAIN more
      PROVE  more[i] = SectionAt(g, LinkAfter(more, i - 1)) /\ GoesOn(g, more, i - 1)
  <2>1. i - 1 \in 0..Len(list)
    BY <1>1
  <2>2. CASE i = Len(list) + 1
    <3>1. i - 1 = Len(list)
      BY <1>1, <2>2
    <3> QED BY <1>1, <1>2, <2>1, <2>2, <3>1
  <2>3. CASE i \in DOMAIN list
    BY <1>1, <1>2, <2>1, <2>3 DEF Linked
  <2> QED BY <1>1, <2>2, <2>3
<1>4. Linked(g, more)
  BY <1>3 DEF Linked
<1> QED BY <1>1, <1>4 DEF more

LEMMA NothingLinked ==
  ASSUME NEW g
  PROVE  Linked(g, <<>>) /\ ~Readable(g, <<>>)
<1>1. DOMAIN <<>> = {}
  OBVIOUS
<1> QED BY <1>1 DEF Linked, Readable, HavingIn

LEMMA WalkInvStep ==
  ASSUME Inv, WalkInv, [Next]_vars
  PROVE  WalkInv'
<1>1. TypeOK /\ Stages /\ image \in Images
  BY DEF Inv, IInv
<1>2. seg \in Nat /\ seg >= 1 /\ sections \in Seq(Seq(Walked)) /\ Len(sections) \in Nat
      /\ DOMAIN sections = 1..Len(sections) /\ FileHeaderSize \in Nat /\ DescriptorSize \in Nat
  BY <1>1, Sizes DEF TypeOK, Walked
<1>3. CASE ShortSegment
  <2>1. /\ pc = "segment" /\ pc' = pc /\ DataLen(seg) < FileHeaderSize /\ seg' = seg + 1
        /\ seg <= Len(image) /\ sections' = Append(sections, <<>>)
        /\ UNCHANGED <<image, geometry, digest>>
    BY <1>3 DEF ShortSegment
  <2>2. Len(sections) = seg - 1
    BY <1>1, <2>1 DEF Stages
  <2>3. sections'[seg] = <<>> /\ \A s \in 1..seg - 1 : sections'[s] = sections[s]
    BY <1>2, <2>1, <2>2
  <2>4. Complete(image[seg], <<>>)
    <3>1. DataLen(seg) \in Nat /\ DataLen(seg) = Len(image[seg].bytes)
      BY <1>1, <1>2, <2>1, ImageTypes DEF DataLen
    <3>2. ~GoesOn(image[seg], <<>>, 0)
      BY <1>2, <2>1, <3>1 DEF GoesOn, LinkAfter
    <3> QED BY <3>2, NothingLinked DEF Complete
  <2>5. \A s \in 1..seg' - 1 : Complete(image'[s], sections'[s])
    <3> SUFFICES ASSUME NEW s \in 1..seg' - 1 PROVE Complete(image[s], sections'[s])
      BY <2>1
    <3>1. s = seg \/ s \in 1..seg - 1
      BY <1>2, <2>1
    <3> QED BY <2>3, <2>4, <3>1 DEF WalkInv
  <2>6. geometry' = IF seg' = 1 THEN NoGeometry ELSE GeometryIn(image'[1], sections'[1])
    <3>1. CASE seg = 1
      BY <2>1, <2>3, <3>1, NothingLinked DEF WalkInv, GeometryIn
    <3>2. CASE seg # 1
      BY <1>2, <2>1, <2>3, <3>2 DEF WalkInv
    <3> QED BY <3>1, <3>2
  <2> QED BY <2>1, <2>5, <2>6 DEF WalkInv
<1>4. CASE OpenSegment
  <2>1. /\ pc = "segment" /\ pc' = "walk" /\ seg' = seg /\ pos' = FileHeaderSize
        /\ sections' = Append(sections, <<>>)
        /\ UNCHANGED <<image, geometry, digest>>
    BY <1>4 DEF OpenSegment
  <2>2. Len(sections) = seg - 1
    BY <1>1, <2>1 DEF Stages
  <2>3. sections'[seg] = <<>> /\ \A s \in 1..seg - 1 : sections'[s] = sections[s]
    BY <1>2, <2>1, <2>2
  <2>4. \A s \in 1..seg' - 1 : Complete(image'[s], sections'[s])
    BY <2>1, <2>3 DEF WalkInv
  <2>5. geometry' = IF seg' = 1 THEN NoGeometry ELSE GeometryIn(image'[1], sections'[1])
    BY <1>2, <2>1, <2>3 DEF WalkInv
  <2>6. Linked(image'[seg'], sections'[seg']) /\ Len(sections'[seg']) = 0
        /\ pos' = LinkAfter(sections'[seg'], 0)
    <3>1. sections'[seg'] = <<>>
      BY <2>1, <2>3
    <3>2. Linked(image'[seg'], <<>>) /\ Len(<<>>) = 0
      BY NothingLinked
    <3> QED BY <2>1, <3>1, <3>2 DEF LinkAfter
  <2> QED BY <2>1, <2>4, <2>5, <2>6 DEF WalkInv
<1>5. CASE WalkEnds
  <2>1. /\ pc = "walk" /\ pc' = "check" /\ pos + DescriptorSize > DataLen(seg)
        /\ UNCHANGED <<image, seg, sections, geometry, digest>>
    BY <1>5 DEF WalkEnds, structure
  <2>2. ~GoesOn(image[seg], sections[seg], Len(sections[seg]))
    <3>1. seg \in DOMAIN image /\ pos \in Nat
      BY <1>1, <1>2, <2>1, ImageTypes DEF Stages, TypeOK
    <3>2. DataLen(seg) \in Nat /\ DataLen(seg) = Len(image[seg].bytes)
      BY <1>1, <3>1, ImageTypes DEF DataLen
    <3>3. pos = LinkAfter(sections[seg], Len(sections[seg]))
      BY <2>1 DEF WalkInv
    <3> QED BY <1>2, <2>1, <3>1, <3>2, <3>3 DEF GoesOn
  <2> QED BY <2>1, <2>2 DEF WalkInv
<1>6. CASE WalkDescriptor
  <2> DEFINE g == image[seg]
             list == sections[seg]
             x == [offset |-> pos, sec |-> image[seg].at[pos]]
             stop == Stops(image[seg], pos, image[seg].at[pos])
  <2>1. /\ pc = "walk" /\ pc' = (IF stop THEN "check" ELSE "walk")
        /\ pos' = (IF stop THEN pos ELSE image[seg].at[pos].next)
        /\ pos + DescriptorSize <= DataLen(seg)
        /\ sections' = [sections EXCEPT ![seg] = Append(list, x)]
        /\ UNCHANGED <<image, seg, geometry, digest>>
    BY <1>6 DEF WalkDescriptor
  <2>2. seg \in DOMAIN sections /\ seg \in DOMAIN image /\ pos \in Nat /\ list \in Seq(Walked)
    BY <1>1, <1>2, <2>1, ImageTypes DEF Stages, TypeOK
  <2>3. sections'[seg] = Append(list, x) /\ \A s \in 1..seg - 1 : sections'[s] = sections[s]
    BY <1>2, <2>1, <2>2
  <2>4. x \in Walked
    <3>1. /\ DataLen(seg) \in Nat
          /\ \A o \in 0..DataLen(seg) - DescriptorSize : image[seg].at[o] \in Section
      BY <1>1, <2>2, ImageTypes
    <3>2. pos \in 0..DataLen(seg) - DescriptorSize
      BY <1>2, <2>1, <2>2, <3>1
    <3> QED BY <2>2, <3>1, <3>2 DEF Walked
  <2>5. Linked(g, list) /\ pos = LinkAfter(list, Len(list))
        /\ (Len(list) # 0 => ~Stops(g, list[Len(list)].offset, list[Len(list)].sec))
    BY <2>1 DEF WalkInv
  <2>6. GoesOn(g, list, Len(list)) /\ x = SectionAt(g, LinkAfter(list, Len(list)))
    BY <2>1, <2>5 DEF GoesOn, SectionAt, DataLen
  <2>7. x.offset = pos /\ x.sec = image[seg].at[pos]
    OBVIOUS
  <2> HIDE DEF g, x, list
  <2> DEFINE more == Append(list, x)
  <2>8. /\ more \in Seq(Walked) /\ Len(more) = Len(list) + 1 /\ Len(list) \in Nat
        /\ more[Len(list) + 1] = x /\ Linked(g, more)
    BY <2>2, <2>4, <2>5, <2>6, LinkedOn
  <2> HIDE DEF more
  <2>9. more[Len(more)] = x /\ Len(more) # 0 /\ LinkAfter(more, Len(more)) = image[seg].at[pos].next
    BY <2>7, <2>8 DEF LinkAfter
  <2>10. \A s \in 1..seg' - 1 : Complete(image'[s], sections'[s])
    BY <2>1, <2>3 DEF WalkInv
  <2>11. geometry' = IF seg' = 1 THEN NoGeometry ELSE GeometryIn(image'[1], sections'[1])
    BY <1>2, <2>1, <2>3 DEF WalkInv
  <2>12. image'[seg'] = g /\ sections'[seg'] = more
    BY <2>1, <2>3 DEF g, more
  <2>13. stop <=> Stops(g, more[Len(more)].offset, more[Len(more)].sec)
    BY <2>7, <2>9 DEF g
  <2>14. stop => ~GoesOn(g, more, Len(more))
    BY <2>9, <2>13 DEF GoesOn
  <2> HIDE DEF stop
  <2>15. pc' = "walk" => pos' = LinkAfter(more, Len(more)) /\ ~stop
    BY <2>1, <2>9
  <2>16. pc' = "check" => stop
    BY <2>1
  <2>17. pc' \in {"walk", "check"} /\ digest' = {}
    BY <2>1 DEF WalkInv
  <2> QED BY <2>8, <2>10, <2>11, <2>12, <2>13, <2>14, <2>15, <2>16, <2>17 DEF WalkInv
<1>7. CASE CheckSegment
  <2>1. /\ pc = "check" /\ pc' = "segment" /\ seg' = seg + 1 /\ geometry' = CheckedGeometry
        /\ UNCHANGED <<image, sections, digest>>
    BY <1>7 DEF CheckSegment
  <2>2. Complete(image[seg], sections[seg])
    BY <2>1 DEF WalkInv, Complete
  <2>3. \A s \in 1..seg' - 1 : Complete(image'[s], sections'[s])
    BY <1>2, <2>1, <2>2 DEF WalkInv
  <2>4. geometry' = GeometryIn(image[1], sections[1])
    <3>1. CASE seg = 1
      <4>1. geometry = NoGeometry
        BY <3>1 DEF WalkInv
      <4> QED BY <2>1, <3>1, <4>1 DEF CheckedGeometry, VolumeReadable, GeometryIn, FirstOf
    <3>2. CASE seg # 1
      BY <2>1, <3>2 DEF CheckedGeometry, WalkInv
    <3> QED BY <3>1, <3>2
  <2>5. seg' # 1
    BY <1>2, <2>1
  <2> QED BY <2>1, <2>3, <2>4, <2>5 DEF WalkInv
<1>8. CASE CheckTotals \/ NextSegment \/ ChunkFails \/ HashChunk \/ CompareHashes
  <2>1. /\ UNCHANGED <<image, seg, sections, geometry>> /\ pc \in {"segment", "chunks"}
        /\ pc' \in {"chunks", "analysed"}
        /\ digest' = digest \/ pc = "chunks"
    BY <1>8 DEF CheckTotals, NextSegment, ChunkFails, HashChunk, CompareHashes, InSegment, LoopEnds,
       structure
  <2>2. digest = {} /\ (pc = "chunks" => geometry.found)
    BY <1>1, <2>1 DEF WalkInv, Stages
  <2>3. pc' # "analysed" => digest' = {}
    BY <1>8, <2>2 DEF CheckTotals, NextSegment, ChunkFails, HashChunk, CompareHashes
  <2> QED BY <2>1, <2>2, <2>3 DEF WalkInv
<1>9. CASE UNCHANGED vars
  BY <1>9 DEF WalkInv, vars, structure
<1> QED BY <1>3, <1>4, <1>5, <1>6, <1>7, <1>8, <1>9 DEF Next

----------------------------------------------------------------------------
(* The chunk loop, which the code has twice.  Where a loop is, what it has *)
(* left to hash and what it has hashed is a triple; the next one is a      *)
(* function of it, of the image, of the segments' sections and of the      *)
(* chunk size.  Each of the two loops is shown to follow it, on its own    *)
(* variables.                                                              *)

Over(img, lists, x) ==
  IF x[1].seg <= Len(img) THEN YieldsIn(img[x[1].seg], lists[x[1].seg], x[1].entry) /\ x[2] = 0
  ELSE TRUE

RawAt(img, lists, c) ==
  SubSeq(img[c.seg].bytes, EntryIn(lists[c.seg], c.entry) + 1,
         ChunkEndIn(img[c.seg], lists[c.seg], c.entry))
PackedAt(lists, c) == FirstIn(lists[c.seg], {"table"}).sec.entries[c.entry + 1].comp
InflatedAt(img, lists, size, c, b) == Inflate(RawAt(img, lists, c), SmallerOf(b, size) + 1)
BytesAt(img, lists, size, c, b) ==
  Prefix(IF PackedAt(lists, c) THEN InflatedAt(img, lists, size, c, b).bytes
         ELSE RawAt(img, lists, c), SmallerOf(b, size))

After(img, lists, size, x) ==
  IF ~YieldsIn(img[x[1].seg], lists[x[1].seg], x[1].entry)
  THEN <<[seg |-> x[1].seg + 1, entry |-> 0], x[2], x[3]>>
  ELSE <<[seg |-> x[1].seg, entry |-> x[1].entry + 1], x[2] - SmallerOf(x[2], size),
         IF PackedAt(lists, x[1]) /\ ~InflatedAt(img, lists, size, x[1], x[2]).ok THEN x[3]
         ELSE x[3] \o BytesAt(img, lists, size, x[1], x[2])>>

\* A set that the loop does not leave, and a place from which it ends with this stream.
Loops(img, lists, size, S) ==
  \A x \in S : ~Over(img, lists, x) => After(img, lists, size, x) \in S
LeadsTo(img, lists, size, x, h) ==
  \A S : Loops(img, lists, size, S) /\ x \in S => \E w \in S : Over(img, lists, w) /\ w[3] = h

Begin == [seg |-> 1, entry |-> 0]
Start == <<Begin, geometry.total_bytes, <<>>>>
Here == <<cur, bytes_remaining, hashed>>
There == <<place, remaining, fed>>

\* One step further, the loop still ends with the same stream; at the end it has it.
LEMMA LeadsOn ==
  ASSUME NEW img, NEW lists, NEW size, NEW x, NEW h, LeadsTo(img, lists, size, x, h)
  PROVE  /\ ~Over(img, lists, x) => LeadsTo(img, lists, size, After(img, lists, size, x), h)
         /\ Over(img, lists, x) => x[3] = h
<1>1. ASSUME ~Over(img, lists, x), NEW S, Loops(img, lists, size, S),
             After(img, lists, size, x) \in S
      PROVE  \E w \in S : Over(img, lists, w) /\ w[3] = h
  <2>1. Loops(img, lists, size, S \union {x})
    BY <1>1 DEF Loops
  <2>2. PICK w \in S \union {x} : Over(img, lists, w) /\ w[3] = h
    BY <2>1 DEF LeadsTo
  <2> QED BY <1>1, <2>2
<1>2. ASSUME Over(img, lists, x) PROVE x[3] = h
  <2>1. Loops(img, lists, size, {x})
    BY <1>2 DEF Loops
  <2> QED BY <2>1 DEF LeadsTo
<1> QED BY <1>1, <1>2 DEF LeadsTo

\* Each step of analyse's loop is that function's.
LEMMA LoopMoves ==
  ASSUME TypeOK, NextSegment \/ ChunkFails \/ HashChunk
  PROVE  /\ pc = "chunks" /\ ~Over(image, sections, Here)
         /\ Here' = After(image, sections, geometry.chunk_size, Here)
<1>1. cur = [seg |-> cur.seg, entry |-> cur.entry] /\ cur.seg \in Nat /\ cur.entry \in Nat
  BY DEF TypeOK
<1>2. Here[1] = cur /\ Here[2] = bytes_remaining /\ Here[3] = hashed
  BY DEF Here
<1> DEFINE size == geometry.chunk_size
<1>3. /\ Raw = RawAt(image, sections, cur) /\ Compressed = PackedAt(sections, cur)
      /\ ToHash = SmallerOf(bytes_remaining, size)
      /\ (Fails <=> PackedAt(sections, cur)
                      /\ ~InflatedAt(image, sections, size, cur, bytes_remaining).ok)
      /\ ChunkBytes = BytesAt(image, sections, size, cur, bytes_remaining)
  BY DEF Raw, RawAt, Compressed, PackedAt, ToHash, Fails, InflatedAt, ChunkBytes, BytesAt,
     EntryAt, ChunkEnd, TableOf, FirstOf
<1>4. Yields(cur.seg, cur.entry) <=> YieldsIn(image[cur.seg], sections[cur.seg], cur.entry)
  BY DEF Yields
<1> HIDE DEF size
<1>5. CASE NextSegment
  BY <1>2, <1>4, <1>5 DEF NextSegment, Over, After, Here
<1>6. CASE ChunkFails
  BY <1>1, <1>2, <1>3, <1>4, <1>6 DEF ChunkFails, InSegment, Over, After, Here, size
<1>7. CASE HashChunk
  <2>1. /\ cur' = [seg |-> cur.seg, entry |-> cur.entry + 1]
        /\ bytes_remaining' = bytes_remaining - SmallerOf(bytes_remaining, size)
        /\ bytes_remaining # 0 /\ pc = "chunks"
        /\ cur.seg <= Len(image) /\ YieldsIn(image[cur.seg], sections[cur.seg], cur.entry)
    BY <1>1, <1>3, <1>4, <1>7 DEF HashChunk, InSegment
  <2>2. /\ hashed' = hashed \o BytesAt(image, sections, size, cur, bytes_remaining)
        /\ ~(PackedAt(sections, cur)
               /\ ~InflatedAt(image, sections, size, cur, bytes_remaining).ok)
    BY <1>3, <1>7, Zenon DEF HashChunk
  <2>3. ~Over(image, sections, Here) /\ Here' = After(image, sections, size, Here)
    BY ONLY <1>2, <2>1, <2>2 DEF Over, After, Here
  <2> QED BY <2>1, <2>3 DEF size
<1> QED BY <1>5, <1>6, <1>7 DEF size

\* Each step of compute_hashes' loop is that function's, on its own walk and size.
LEMMA CopyMoves ==
  ASSUME place \in [seg : Nat, entry : Nat], NextList \/ SkipChunk \/ FeedChunk
  PROVE  ~Over(image, walks, There) /\ There' = After(image, walks, chunk_size, There)
<1>1. place = [seg |-> place.seg, entry |-> place.entry] /\ place.seg \in Nat /\ place.entry \in Nat
  OBVIOUS
<1>2. There[1] = place /\ There[2] = remaining /\ There[3] = fed
  BY DEF There
<1>3. /\ OwnRaw = RawAt(image, walks, place) /\ OwnCompressed = PackedAt(walks, place)
      /\ OwnToHash = SmallerOf(remaining, chunk_size)
      /\ (OwnFails <=> PackedAt(walks, place)
                         /\ ~InflatedAt(image, walks, chunk_size, place, remaining).ok)
      /\ Prefix(IF OwnCompressed THEN Inflate(OwnRaw, OwnToHash + 1).bytes ELSE OwnRaw, OwnToHash)
           = BytesAt(image, walks, chunk_size, place, remaining)
  BY DEF OwnRaw, RawAt, OwnCompressed, PackedAt, OwnToHash, OwnFails, InflatedAt, BytesAt
<1>4. YieldsHere <=> YieldsIn(image[place.seg], walks[place.seg], place.entry)
  BY DEF YieldsHere
<1>5. CASE NextList
  BY <1>2, <1>4, <1>5 DEF NextList, AtSegment, Over, After, There
<1>6. CASE SkipChunk
  BY <1>1, <1>2, <1>3, <1>4, <1>6 DEF SkipChunk, AtSegment, Over, After, There
<1>7. CASE FeedChunk
  <2>1. /\ place' = [seg |-> place.seg, entry |-> place.entry + 1]
        /\ remaining' = remaining - SmallerOf(remaining, chunk_size) /\ remaining # 0
        /\ place.seg <= Len(image) /\ YieldsIn(image[place.seg], walks[place.seg], place.entry)
    BY <1>1, <1>3, <1>4, <1>7 DEF FeedChunk, AtSegment
  <2>2. /\ fed' = fed \o BytesAt(image, walks, chunk_size, place, remaining)
        /\ ~(PackedAt(walks, place) /\ ~InflatedAt(image, walks, chunk_size, place, remaining).ok)
    BY <1>3, <1>7, Zenon DEF FeedChunk
  <2> QED BY ONLY <1>2, <2>1, <2>2 DEF Over, After, There
<1> QED BY <1>5, <1>6, <1>7

\* analyse's loop is where the function gets from the start, and the digest is the
\* stream at its end.
Hashing ==
  /\ pc \in {"segment", "walk", "check"} => cur = Begin
  /\ pc = "chunks" =>
       \A S : Loops(image, sections, geometry.chunk_size, S) /\ Start \in S => Here \in S
  /\ pc = "analysed" /\ geometry.found =>
       \E d : digest = {d} /\ LeadsTo(image, sections, geometry.chunk_size, Start, d)

LEMMA HashingStep ==
  ASSUME IInv, Hashing, [Next]_vars PROVE Hashing'
<1>1. CASE ShortSegment \/ OpenSegment \/ WalkEnds \/ WalkDescriptor \/ CheckSegment
  BY <1>1 DEF Hashing, ShortSegment, OpenSegment, WalkEnds, WalkDescriptor, CheckSegment, loop
<1>2. CASE CheckTotals
  <2>1. /\ pc = "segment" /\ pc' = (IF geometry.found THEN "chunks" ELSE "analysed")
        /\ bytes_remaining' = geometry.total_bytes
        /\ UNCHANGED <<image, sections, geometry, cur, hashed>>
    BY <1>2 DEF CheckTotals, structure
  <2>2. hashed = <<>> /\ cur = Begin
    BY <2>1 DEF IInv, Stages, Hashing
  <2>3. Here' = Start'
    BY <2>1, <2>2 DEF Here, Start, Begin
  <2> QED BY <2>1, <2>2, <2>3 DEF Hashing
<1>3. CASE NextSegment \/ ChunkFails \/ HashChunk
  <2>1. UNCHANGED <<image, sections, geometry, pc>>
    BY <1>3 DEF NextSegment, ChunkFails, HashChunk, structure
  <2>2. /\ pc = "chunks" /\ ~Over(image, sections, Here)
        /\ Here' = After(image, sections, geometry.chunk_size, Here)
    BY <1>3, LoopMoves DEF IInv
  <2>3. Start' = Start
    BY <2>1 DEF Start, Begin
  <2>4. ASSUME NEW S, Loops(image, sections, geometry.chunk_size, S), Start \in S
        PROVE  Here' \in S
    BY <2>2, <2>4 DEF Hashing, Loops
  <2> QED BY <2>1, <2>2, <2>3, <2>4 DEF Hashing
<1>4. CASE CompareHashes
  <2>1. /\ LoopEnds /\ pc' = "analysed" /\ digest' = {hashed}
        /\ UNCHANGED <<image, sections, geometry>>
    BY <1>4 DEF CompareHashes, structure
  <2>2. pc = "chunks" /\ Over(image, sections, Here) /\ Here[3] = hashed
    BY <2>1 DEF LoopEnds, Over, Here, Yields
  <2>3. LeadsTo(image, sections, geometry.chunk_size, Start, hashed)
    BY <2>1, <2>2 DEF Hashing, LeadsTo
  <2>4. Start' = Start
    BY <2>1 DEF Start, Begin
  <2> QED BY <2>1, <2>2, <2>3, <2>4 DEF Hashing
<1>5. CASE UNCHANGED vars
  <2>1. UNCHANGED <<image, sections, geometry, pc, digest, cur, bytes_remaining, hashed>>
    BY <1>5 DEF vars, structure, loop
  <2>2. Here' = Here /\ Start' = Start
    BY <2>1 DEF Here, Start, Begin
  <2> QED BY <2>1, <2>2 DEF Hashing
<1> QED BY <1>1, <1>2, <1>3, <1>4, <1>5 DEF Next

----------------------------------------------------------------------------
(* compute_hashes beside analyse.  Its walk of a segment is a part of the  *)
(* list that analyse's walk ended with, and when it ends it is that list;  *)
(* its geometry is then analyse's, and its loop goes from the same start   *)
(* by the same function.                                                   *)

Part(list, whole) ==
  /\ list \in Seq(Walked) /\ Len(list) <= Len(whole)
  /\ \A i \in 1..Len(list) : list[i] = whole[i]

Following ==
  /\ step \in {"idle", "first", "all", "loop", "done"}
  /\ step # "idle" => pc = "analysed"
  /\ step # "done" => computed = {}
  /\ place \in [seg : Nat, entry : Nat]
  /\ step \in {"idle", "first", "all"} => place = Begin /\ fed = <<>>
  /\ step \in {"first", "all", "loop"} => image # <<>> /\ image[1].signature
  /\ step \in {"first", "all"} =>
       /\ walks \in Seq(Seq(Walked)) /\ Len(walks) \in 1..Len(image)
       /\ \A k \in 1..Len(walks) - 1 : walks[k] = sections[k]
       /\ Part(Walk, sections[Len(walks)])
  /\ step = "first" => Len(walks) = 1
  /\ step \in {"all", "loop"} => geometry.found /\ chunk_size = geometry.chunk_size
  /\ step = "all" => remaining = geometry.total_bytes
  /\ step = "loop" =>
       walks = sections /\ \E d : digest = {d} /\ LeadsTo(image, walks, chunk_size, There, d)
  /\ PassesAgree

\* A walk that goes on finds the next section of the list; one that is over, the list.
LEMMA PartGrows ==
  ASSUME NEW g, NEW whole \in Seq(Walked), Complete(g, whole), NEW list, Part(list, whole)
  PROVE  /\ GoesOn(g, list, Len(list)) =>
              Part(Append(list, SectionAt(g, LinkAfter(list, Len(list)))), whole)
         /\ ~GoesOn(g, list, Len(list)) => list = whole
<1> DEFINE n == Len(list)
<1>1. /\ n \in Nat /\ n <= Len(whole) /\ list \in Seq(Walked) /\ DOMAIN list = 1..n
      /\ Len(whole) \in Nat /\ DOMAIN whole = 1..Len(whole)
      /\ \A i \in 1..n : list[i] = whole[i]
  BY DEF Part
<1>2. LinkAfter(list, n) = LinkAfter(whole, n) /\ (GoesOn(g, list, n) <=> GoesOn(g, whole, n))
  <2>1. n # 0 => list[n] = whole[n]
    BY <1>1
  <2> QED BY <2>1 DEF LinkAfter, GoesOn
<1>3. CASE n = Len(whole)
  <2>1. list = whole
    BY <1>1, <1>3
  <2>2. ~GoesOn(g, whole, Len(whole))
    BY DEF Complete
  <2> QED BY <1>2, <1>3, <2>1, <2>2
<1>4. CASE n < Len(whole)
  <2>1. n + 1 \in DOMAIN whole /\ (n + 1) - 1 = n
    BY <1>1, <1>4
  <2>2. whole[n + 1] = SectionAt(g, LinkAfter(whole, n)) /\ GoesOn(g, whole, n)
    BY <2>1 DEF Complete, Linked
  <2> DEFINE x == SectionAt(g, LinkAfter(list, n))
  <2>3. x = whole[n + 1] /\ x \in Walked
    BY <1>2, <2>1, <2>2
  <2> HIDE DEF x
  <2>4. Part(Append(list, x), whole)
    <3>1. /\ Append(list, x) \in Seq(Walked) /\ Len(Append(list, x)) = n + 1
          /\ Append(list, x)[n + 1] = x
          /\ \A i \in 1..n : Append(list, x)[i] = list[i]
      BY <1>1, <2>3
    <3>2. ASSUME NEW i \in 1..n + 1 PROVE Append(list, x)[i] = whole[i]
      <4>1. i = n + 1 \/ i \in 1..n
        BY <1>1
      <4> QED BY <1>1, <2>3, <3>1, <4>1
    <3>3. n + 1 <= Len(whole)
      BY <1>1, <1>4
    <3> QED BY <3>1, <3>2, <3>3 DEF Part
  <2> QED BY <1>2, <2>2, <2>4 DEF x
<1>5. n = Len(whole) \/ n < Len(whole)
  <2>1. n \in Nat /\ Len(whole) \in Nat /\ n <= Len(whole)
    BY <1>1
  <2> HIDE DEF n
  <2> QED BY ONLY <2>1
<1> QED BY <1>3, <1>4, <1>5

\* What is settled once analyse has returned.
Settled ==
  /\ image \in Images /\ Len(image) \in Nat
  /\ sections \in Seq(Seq(Walked)) /\ Len(sections) = Len(image)
  /\ \A s \in 1..Len(image) : Complete(image[s], sections[s])
  /\ geometry = IF Len(image) = 0 THEN NoGeometry ELSE GeometryIn(image[1], sections[1])
  /\ ~geometry.found => digest = {}

LEMMA AnalysedSettled ==
  ASSUME Inv, WalkInv, pc = "analysed" PROVE Settled
<1>1. TypeOK /\ Stages /\ image \in Images
  BY DEF Inv, IInv
<1>2. Len(image) \in Nat /\ sections \in Seq(Seq(Walked))
  BY <1>1, ImageTypes DEF TypeOK, Walked
<1>3. seg = Len(image) + 1 /\ Len(sections) = seg - 1
  BY <1>1 DEF Stages
<1> QED BY <1>1, <1>2, <1>3 DEF Settled, WalkInv

\* Before the first walk and after it.
LEMMA WalkStarts ==
  ASSUME Settled, image # <<>>
  PROVE  /\ Len(image) >= 1 /\ <<<<>>>> \in Seq(Seq(Walked)) /\ Len(<<<<>>>>) = 1
         /\ Part(<<>>, sections[1]) /\ <<<<>>>>[1] = <<>>
<1>1. image = [s \in 1..Len(image) |-> image[s]] /\ Len(image) \in Nat
  BY IntegrityAssumption DEF Settled
<1>2. Len(image) # 0
  <2> SUFFICES ASSUME Len(image) = 0 PROVE FALSE
    OBVIOUS
  <2>1. image = <<>>
    BY <1>1
  <2> QED BY <2>1
<1>3. 1 \in DOMAIN sections /\ sections[1] \in Seq(Walked)
  BY <1>1, <1>2 DEF Settled
<1>4. Part(<<>>, sections[1])
  BY <1>3 DEF Part
<1> QED BY <1>1, <1>2, <1>4

LEMMA CopyStep ==
  ASSUME Settled, Hashing, Following, pc = "analysed",
         \/ ComputeNone \/ ComputeHashes \/ WalkSection \/ NoVolume \/ ReadVolume \/ NextWalk
         \/ StartLoop \/ NextList \/ SkipChunk \/ FeedChunk \/ ReturnHashes
  PROVE  Following'
<1>1. UNCHANGED <<image, sections, geometry, digest, pc>>
  BY DEF ComputeNone, ComputeHashes, WalkSection, NoVolume, ReadVolume, NextWalk, StartLoop,
     NextList, SkipChunk, FeedChunk, ReturnHashes, vars, structure
<1>2. ASSUME step \in {"first", "all"}
      PROVE  /\ Len(walks) \in DOMAIN sections /\ sections[Len(walks)] \in Seq(Walked)
             /\ Complete(Current, sections[Len(walks)]) /\ Part(Walk, sections[Len(walks)])
             /\ Len(walks) \in Nat /\ walks \in Seq(Seq(Walked)) /\ Walk \in Seq(Walked)
             /\ WalkOver => Walk = sections[Len(walks)]
  <2>1. /\ Len(walks) \in 1..Len(image) /\ walks \in Seq(Seq(Walked))
        /\ Part(Walk, sections[Len(walks)])
    BY <1>2 DEF Following
  <2>2. /\ Len(walks) \in DOMAIN sections /\ sections[Len(walks)] \in Seq(Walked)
        /\ Complete(Current, sections[Len(walks)]) /\ Len(walks) \in Nat /\ Walk \in Seq(Walked)
    BY <2>1 DEF Settled, Current, Part
  <2>3. WalkOver => Walk = sections[Len(walks)]
    BY <2>1, <2>2, PartGrows DEF WalkOver
  <2> QED BY <2>1, <2>2, <2>3
<1>3. CASE ComputeNone
  <2>1. step' = "done" /\ ~Hashable /\ UNCHANGED <<place, computed>> /\ step = "idle"
    BY <1>3 DEF ComputeNone
  <2>2. computed = {} /\ place \in [seg : Nat, entry : Nat]
    BY <2>1 DEF Following
  <2>3. (image # <<>> /\ image[1].signature) => digest = {}
    <3> SUFFICES ASSUME image # <<>>, image[1].signature PROVE digest = {}
      OBVIOUS
    <3>1. DataLen(1) < FileHeaderSize /\ Len(image) >= 1
      <4>1. Len(image) >= 1
        BY WalkStarts
      <4>2. DataLen(1) \in Nat /\ FileHeaderSize \in Nat
        BY <4>1, ImageTypes, Sizes DEF Settled
      <4> QED BY <2>1, <4>1, <4>2 DEF Hashable
    <3>2. sections[1] = <<>>
      <4>1. Complete(image[1], sections[1]) /\ sections[1] \in Seq(Walked)
        BY <3>1 DEF Settled
      <4>2. ~GoesOn(image[1], sections[1], 0)
        <5>1. DataLen(1) \in Nat /\ DataLen(1) = Len(image[1].bytes)
          BY <3>1, ImageTypes DEF Settled, DataLen
        <5> QED BY <3>1, <5>1, Sizes DEF GoesOn, LinkAfter
      <4>3. 1 \notin DOMAIN sections[1]
        BY <4>1, <4>2 DEF Complete, Linked
      <4> QED BY <4>1, <4>3
    <3>3. geometry = NoGeometry
      BY <3>1, <3>2, NothingLinked DEF Settled, GeometryIn
    <3> QED BY <3>3 DEF Settled, NoGeometry
  <2> QED BY <1>1, <2>1, <2>2, <2>3 DEF Following, PassesAgree
<1>4. CASE ComputeHashes
  <2>1. /\ step = "idle" /\ step' = "first" /\ walks' = <<<<>>>> /\ Hashable
        /\ UNCHANGED <<place, fed, computed>>
    BY <1>4 DEF ComputeHashes
  <2>2. /\ computed = {} /\ place \in [seg : Nat, entry : Nat] /\ place = Begin /\ fed = <<>>
        /\ image # <<>> /\ image[1].signature
    BY <2>1 DEF Following, Hashable
  <2>3. /\ Len(image) >= 1 /\ walks' \in Seq(Seq(Walked)) /\ Len(walks') = 1
        /\ Part(<<>>, sections[1]) /\ walks'[1] = <<>>
    BY <2>1, <2>2, WalkStarts
  <2>4. Walk' = <<>> /\ Len(image) \in Nat
    BY <2>3 DEF Walk, Settled
  <2> QED BY <1>1, <2>1, <2>2, <2>3, <2>4 DEF Following, PassesAgree
<1>5. CASE WalkSection
  <2> DEFINE n == Len(walks)
             more == Append(Walk, SectionAt(Current, LinkAfter(Walk, Len(Walk))))
  <2>1. /\ step \in {"first", "all"} /\ step' = step
        /\ GoesOn(Current, Walk, Len(Walk))
        /\ walks' = [walks EXCEPT ![n] = more]
        /\ UNCHANGED <<chunk_size, remaining, place, fed, computed>>
    BY <1>5 DEF WalkSection, Walk
  <2>2. Part(more, sections[n])
    BY <1>2, <2>1, PartGrows
  <2> HIDE DEF more
  <2>3. more \in Seq(Walked)
    BY <2>2 DEF Part
  <2>4. n \in DOMAIN walks /\ n \in 1..Len(image) /\ walks \in Seq(Seq(Walked))
    BY <2>1 DEF Following
  <2>5. /\ walks' \in Seq(Seq(Walked)) /\ Len(walks') = n /\ walks'[n] = more
        /\ \A k \in 1..n - 1 : walks'[k] = walks[k]
    BY <2>1, <2>3, <2>4
  <2>6. Walk' = more
    BY <2>5 DEF Walk
  <2>7. \A k \in 1..n - 1 : walks'[k] = sections[k]
    BY <2>1, <2>5 DEF Following
  <2> QED BY <1>1, <2>1, <2>2, <2>4, <2>5, <2>6, <2>7 DEF Following, PassesAgree
<1>6. CASE NoVolume
  <2>1. /\ step = "first" /\ step' = "done" /\ WalkOver /\ ~Readable(Current, Walk)
        /\ UNCHANGED <<place, computed>>
    BY <1>6 DEF NoVolume
  <2>2. /\ Len(walks) = 1 /\ Walk = sections[1] /\ computed = {} /\ Len(image) # 0
        /\ place \in [seg : Nat, entry : Nat]
    <3>1. Len(walks) = 1 /\ computed = {} /\ 1 \in 1..Len(image) /\ place \in [seg : Nat, entry : Nat]
      BY <2>1 DEF Following
    <3>2. Walk = sections[Len(walks)]
      BY <1>2, <2>1
    <3> QED BY <3>1, <3>2 DEF Settled
  <2>3. geometry = NoGeometry
    BY <2>1, <2>2 DEF Settled, GeometryIn, Current
  <2>4. digest = {}
    BY <2>3 DEF Settled, NoGeometry
  <2> QED BY <1>1, <2>1, <2>2, <2>4 DEF Following, PassesAgree
<1>7. CASE ReadVolume
  <2>1. /\ step = "first" /\ step' = "all" /\ WalkOver /\ Readable(Current, Walk)
        /\ chunk_size' = SmallerOf(FirstIn(Walk, Volumes).sec.sectors_per_chunk
                                     * FirstIn(Walk, Volumes).sec.bytes_per_sector, U64Max)
        /\ remaining' = SmallerOf(FirstIn(Walk, Volumes).sec.sector_count
                                    * FirstIn(Walk, Volumes).sec.bytes_per_sector, U64Max)
        /\ walks' = <<<<>>>> /\ UNCHANGED <<place, fed, computed>>
    BY <1>7 DEF ReadVolume
  <2>2. Len(walks) = 1 /\ Walk = sections[1] /\ Len(image) # 0
    <3>1. Len(walks) = 1 /\ 1 \in 1..Len(image)
      BY <2>1 DEF Following
    <3>2. Walk = sections[Len(walks)]
      BY <1>2, <2>1
    <3> QED BY <3>1, <3>2 DEF Settled
  <2>3. geometry = DeclaredGeometry(FirstIn(Walk, Volumes).sec)
    BY <2>1, <2>2 DEF Settled, GeometryIn, Current
  <2>4. /\ geometry.found /\ chunk_size' = geometry.chunk_size
        /\ remaining' = geometry.total_bytes
    BY <2>1, <2>3 DEF DeclaredGeometry
  <2>5. /\ computed = {} /\ place \in [seg : Nat, entry : Nat] /\ place = Begin /\ fed = <<>>
        /\ image # <<>> /\ image[1].signature
    BY <2>1 DEF Following
  <2>6. /\ Len(image) >= 1 /\ walks' \in Seq(Seq(Walked)) /\ Len(walks') = 1
        /\ Part(<<>>, sections[1]) /\ walks'[1] = <<>>
    BY <2>1, <2>5, WalkStarts
  <2>7. Walk' = <<>> /\ Len(image) \in Nat
    BY <2>6 DEF Walk, Settled
  <2> QED BY <1>1, <2>1, <2>4, <2>5, <2>6, <2>7 DEF Following, PassesAgree
<1>8. CASE NextWalk
  <2> DEFINE n == Len(walks)
  <2>1. /\ step = "all" /\ step' = step /\ WalkOver /\ n < Len(image)
        /\ walks' = Append(walks, <<>>)
        /\ UNCHANGED <<chunk_size, remaining, place, fed, computed>>
    BY <1>8 DEF NextWalk
  <2>2. /\ n \in Nat /\ n \in 1..Len(image) /\ walks \in Seq(Seq(Walked))
        /\ walks[n] = sections[n] /\ \A k \in 1..n - 1 : walks[k] = sections[k]
    BY <1>2, <2>1 DEF Following, Walk
  <2>3. /\ walks' \in Seq(Seq(Walked)) /\ Len(walks') = n + 1 /\ walks'[n + 1] = <<>>
        /\ \A k \in 1..n : walks'[k] = walks[k]
    BY <2>1, <2>2
  <2>4. \A k \in 1..Len(walks') - 1 : walks'[k] = sections[k]
    <3> SUFFICES ASSUME NEW k \in 1..n PROVE walks'[k] = sections[k]
      BY <2>2, <2>3
    <3>1. k = n \/ k \in 1..n - 1
      BY <2>2
    <3> QED BY <2>2, <2>3, <3>1
  <2>5. n + 1 \in 1..Len(image) /\ n + 1 \in DOMAIN sections
    BY <2>1, <2>2 DEF Settled
  <2>6. Part(<<>>, sections[n + 1])
    <3>1. sections[n + 1] \in Seq(Walked)
      BY <2>5 DEF Settled
    <3> QED BY <3>1 DEF Part
  <2>7. Walk' = <<>>
    BY <2>3 DEF Walk
  <2> HIDE DEF n
  <2> QED BY <1>1, <2>1, <2>3, <2>4, <2>5, <2>6, <2>7 DEF Following, PassesAgree
<1>9. CASE StartLoop
  <2>1. /\ step = "all" /\ step' = "loop" /\ WalkOver /\ Len(walks) = Len(image)
        /\ UNCHANGED <<walks, chunk_size, remaining, place, fed, computed>>
    BY <1>9 DEF StartLoop
  <2>2. walks = sections
    <3>1. /\ Len(walks) \in Nat /\ walks \in Seq(Seq(Walked)) /\ sections \in Seq(Seq(Walked))
          /\ Len(walks) = Len(sections) /\ walks[Len(walks)] = sections[Len(walks)]
          /\ \A k \in 1..Len(walks) - 1 : walks[k] = sections[k]
      BY <1>2, <2>1 DEF Following, Walk, Settled
    <3>2. ASSUME NEW k \in 1..Len(walks) PROVE walks[k] = sections[k]
      <4>1. k = Len(walks) \/ k \in 1..Len(walks) - 1
        BY <3>1
      <4> QED BY <3>1, <4>1
    <3> QED BY <3>1, <3>2
  <2>3. /\ geometry.found /\ chunk_size = geometry.chunk_size /\ remaining = geometry.total_bytes
        /\ place = Begin /\ fed = <<>>
    BY <2>1 DEF Following
  <2>4. There = Start
    BY <2>3 DEF There, Start
  <2>5. \E d : digest = {d} /\ LeadsTo(image, walks, chunk_size, There, d)
    BY <2>2, <2>3, <2>4 DEF Hashing
  <2>6. There' = There
    BY <2>1 DEF There
  <2> QED BY <1>1, <2>1, <2>2, <2>3, <2>5, <2>6 DEF Following, PassesAgree
<1>10. CASE NextList \/ SkipChunk \/ FeedChunk
  <2>1. step = "loop" /\ step' = step /\ UNCHANGED <<walks, chunk_size, computed>>
    BY <1>10 DEF NextList, SkipChunk, FeedChunk, AtSegment
  <2>2. place \in [seg : Nat, entry : Nat] /\ walks = sections
    BY <2>1 DEF Following
  <2>3. ~Over(image, walks, There) /\ There' = After(image, walks, chunk_size, There)
    BY <1>10, <2>2, CopyMoves
  <2>4. PICK d : digest = {d} /\ LeadsTo(image, walks, chunk_size, There, d)
    BY <2>1 DEF Following
  <2>5. LeadsTo(image, walks, chunk_size, There', d)
    BY <2>3, <2>4, LeadsOn
  <2>6. place' \in [seg : Nat, entry : Nat]
    BY <1>10, <2>2 DEF NextList, SkipChunk, FeedChunk
  <2> QED BY <1>1, <2>1, <2>2, <2>4, <2>5, <2>6 DEF Following, PassesAgree
<1>11. CASE ReturnHashes
  <2>1. /\ step = "loop" /\ step' = "done" /\ computed' = {fed} /\ place' = place
        /\ Over(image, walks, There) /\ There[3] = fed
    BY <1>11 DEF ReturnHashes, YieldsHere, Over, There
  <2>2. PICK d : digest = {d} /\ LeadsTo(image, walks, chunk_size, There, d)
    BY <2>1 DEF Following
  <2>3. fed = d
    BY <2>1, <2>2, LeadsOn
  <2>4. image # <<>> /\ image[1].signature /\ place \in [seg : Nat, entry : Nat]
    BY <2>1 DEF Following
  <2> QED BY <1>1, <2>1, <2>2, <2>3, <2>4 DEF Following, PassesAgree
<1> QED BY <1>3, <1>4, <1>5, <1>6, <1>7, <1>8, <1>9, <1>10, <1>11

\* The analysis with compute_hashes after it is the analysis.
LEMMA Analyses == HashSafety => SafetySpec
<1>1. HashInit => Init
  BY DEF HashInit
<1>2. [HashNext]_allVars => [Next]_vars
  BY DEF HashNext, ComputeNone, ComputeHashes, WalkSection, NoVolume, ReadVolume, NextWalk,
     StartLoop, NextList, SkipChunk, FeedChunk, ReturnHashes, allVars
<1> QED BY <1>1, <1>2, PTL DEF HashSafety, SafetySpec

\* compute_hashes walks the segments, reads the volume and goes through the chunks a
\* second time with code and variables of its own, and ends with the digest that
\* analyse compared, whatever image it is, whatever chunks failed.
THEOREM HashPassesAgree == HashSafety => []PassesAgree
<1> DEFINE All == Inv /\ WalkInv /\ Hashing /\ Following
<1>1. HashInit => All
  <2> SUFFICES ASSUME HashInit PROVE All
    OBVIOUS
  <2>1. Init /\ step = "idle" /\ place = Begin /\ fed = <<>> /\ computed = {}
    BY DEF HashInit, Begin
  <2>2. Inv
    BY <2>1, InitInv
  <2>3. WalkInv
    BY <2>1 DEF Init, WalkInv, NoGeometry
  <2>4. Hashing
    BY <2>1 DEF Init, Hashing, Begin
  <2>5. Following
    BY <2>1 DEF Following, PassesAgree, Begin
  <2> QED BY <2>2, <2>3, <2>4, <2>5
<1>2. All /\ [HashNext]_allVars => All'
  <2> SUFFICES ASSUME All, [HashNext]_allVars PROVE All'
    OBVIOUS
  <2>1. [Next]_vars
    BY DEF HashNext, ComputeNone, ComputeHashes, WalkSection, NoVolume, ReadVolume, NextWalk,
       StartLoop, NextList, SkipChunk, FeedChunk, ReturnHashes, allVars
  <2>2. Inv'
    BY <2>1, InvStep
  <2>3. WalkInv' /\ Hashing'
    BY <2>1, WalkInvStep, HashingStep DEF Inv
  <2>4. Following'
    <3>1. CASE \/ ComputeNone \/ ComputeHashes \/ WalkSection \/ NoVolume \/ ReadVolume \/ NextWalk
               \/ StartLoop \/ NextList \/ SkipChunk \/ FeedChunk \/ ReturnHashes
      <4>1. pc = "analysed"
        BY <3>1 DEF ComputeNone, ComputeHashes, WalkSection, NoVolume, ReadVolume, NextWalk,
           StartLoop, NextList, SkipChunk, FeedChunk, ReturnHashes, AtSegment, Following
      <4>2. Settled
        BY <4>1, AnalysedSettled
      <4> QED BY <3>1, <4>1, <4>2, CopyStep
    <3>2. CASE Next /\ UNCHANGED copy
      <4>1. pc # "analysed"
        BY <3>2 DEF Next, ShortSegment, OpenSegment, WalkEnds, WalkDescriptor, CheckSegment,
           CheckTotals, NextSegment, ChunkFails, HashChunk, CompareHashes, InSegment, LoopEnds
      <4>2. step = "idle" /\ UNCHANGED <<step, place, fed, computed>>
        BY <3>2, <4>1 DEF Following, copy
      <4> QED BY <4>2 DEF Following, PassesAgree
    <3>3. CASE UNCHANGED allVars
      <4>1. /\ UNCHANGED <<image, sections, geometry, digest, pc>>
            /\ UNCHANGED <<step, walks, chunk_size, remaining, place, fed, computed>>
        BY <3>3 DEF allVars, vars, copy, structure
      <4>2. Walk' = Walk /\ There' = There
        BY <4>1 DEF Walk, There
      <4> QED BY <4>1, <4>2 DEF Following, PassesAgree
    <3> QED BY <3>1, <3>2, <3>3 DEF HashNext
  <2> QED BY <2>2, <2>3, <2>4
<1>3. All => PassesAgree
  BY DEF Following
<1> HIDE DEF All
<1> QED BY <1>1, <1>2, <1>3, PTL DEF HashSafety
=============================================================================
