--------------------------- MODULE EwfReaderProofs ---------------------------
(***************************************************************************)
(* EwfReader's safety properties for every image, every set of threads and *)
(* requests and every cache capacity, and that it implements ImageSource.  *)
(***************************************************************************)
EXTENDS EwfReader, FiniteSetTheorems, TLAPS

----------------------------------------------------------------------------
(* What the LRU's operators preserve, for every capacity and every set of  *)
(* entries.                                                                *)

\* The slot of a present key holds that key: what `cache.get(&k)` returns was
\* stored under k.
LEMMA SlotHoldsKey ==
  ASSUME NEW E, NEW c \in Seq(E), NEW k, k \in Keys(c)
  PROVE  /\ Slot(c, k) \in DOMAIN c
         /\ c[Slot(c, k)].key = k
BY DEF Keys, Slot

\* Removing a slot keeps the other entries, each once.
LEMMA WithoutSlotEntries ==
  ASSUME NEW E, NEW c \in Seq(E), NEW s \in DOMAIN c
  PROVE  /\ WithoutSlot(c, s) \in Seq(E)
         /\ Len(WithoutSlot(c, s)) = Len(c) - 1
         /\ \A i \in DOMAIN WithoutSlot(c, s) :
              LET j == IF i < s THEN i ELSE i + 1
              IN  j \in DOMAIN c /\ j # s /\ WithoutSlot(c, s)[i] = c[j]
BY DEF WithoutSlot

\* Putting an entry in front keeps all the others.
LEMMA InFrontEntries ==
  ASSUME NEW E, NEW c \in Seq(E), NEW e \in E
  PROVE  /\ InFront(e, c) \in Seq(E)
         /\ Len(InFront(e, c)) = Len(c) + 1
         /\ InFront(e, c)[1] = e
         /\ \A i \in DOMAIN InFront(e, c) :
              i # 1 => i - 1 \in DOMAIN c /\ InFront(e, c)[i] = c[i - 1]
BY DEF InFront

\* An entry with a new key may be put in front of a cache that has room.
LEMMA InFrontWellFormed ==
  ASSUME NEW E, NEW c \in Seq(E), NEW e \in E, NEW cap \in Nat,
         Len(c) < cap,
         \A i \in DOMAIN c : c[i].key # e.key,
         \A i, j \in DOMAIN c : c[i].key = c[j].key => i = j
  PROVE  WellFormed(InFront(e, c), cap)
<1> DEFINE d == InFront(e, c)
<1>1. /\ d \in Seq(E)
      /\ Len(d) = Len(c) + 1
      /\ d[1] = e
      /\ \A i \in DOMAIN d : i # 1 => i - 1 \in DOMAIN c /\ d[i] = c[i - 1]
  BY InFrontEntries
<1> HIDE DEF d
<1>2. Len(d) <= cap
  BY <1>1
<1>3. ASSUME NEW i \in DOMAIN d, NEW j \in DOMAIN d, d[i].key = d[j].key
      PROVE  i = j
  <2>1. CASE i = 1 /\ j # 1
    BY <1>1, <1>3, <2>1
  <2>2. CASE i # 1 /\ j = 1
    BY <1>1, <1>3, <2>2
  <2>3. CASE i # 1 /\ j # 1
    <3>1. i - 1 = j - 1
      BY <1>1, <1>3, <2>3
    <3> QED BY <3>1, <1>1
  <2> QED BY <2>1, <2>2, <2>3
<1> QED BY <1>2, <1>3 DEF WellFormed, d

\* `cache.get` on a hit only reorders: the cache stays well formed and holds no
\* entry it did not hold.
LEMMA PromotePreserves ==
  ASSUME NEW E, NEW c \in Seq(E), NEW cap \in Nat, NEW k,
         WellFormed(c, cap), k \in Keys(c)
  PROVE  /\ Promote(c, k) \in Seq(E)
         /\ WellFormed(Promote(c, k), cap)
         /\ \A i \in DOMAIN Promote(c, k) : \E j \in DOMAIN c : Promote(c, k)[i] = c[j]
<1> DEFINE s == Slot(c, k)
           w == WithoutSlot(c, s)
<1>1. s \in DOMAIN c /\ c[s].key = k /\ c[s] \in E
  BY SlotHoldsKey
<1>2. /\ w \in Seq(E)
      /\ Len(w) = Len(c) - 1
      /\ \A i \in DOMAIN w :
           LET j == IF i < s THEN i ELSE i + 1
           IN  j \in DOMAIN c /\ j # s /\ w[i] = c[j]
  BY <1>1, WithoutSlotEntries
<1>3. /\ InFront(c[s], w) \in Seq(E)
      /\ Len(InFront(c[s], w)) = Len(w) + 1
      /\ InFront(c[s], w)[1] = c[s]
      /\ \A i \in DOMAIN InFront(c[s], w) :
           i # 1 => i - 1 \in DOMAIN w /\ InFront(c[s], w)[i] = w[i - 1]
  BY <1>1, <1>2, InFrontEntries
<1>4. Promote(c, k) = InFront(c[s], w)
  BY DEF Promote
<1> HIDE DEF s, w
<1>5. WellFormed(InFront(c[s], w), cap)
  <2>1. Len(w) < cap
    BY <1>2 DEF WellFormed
  <2>2. \A i \in DOMAIN w : w[i].key # c[s].key
    BY <1>1, <1>2 DEF WellFormed
  <2>3. \A i, j \in DOMAIN w : w[i].key = w[j].key => i = j
    BY <1>1, <1>2 DEF WellFormed
  <2> QED BY <1>1, <1>2, <2>1, <2>2, <2>3, InFrontWellFormed
<1>6. \A i \in DOMAIN InFront(c[s], w) : \E j \in DOMAIN c : InFront(c[s], w)[i] = c[j]
  BY <1>1, <1>2, <1>3
<1> QED BY <1>3, <1>4, <1>5, <1>6

\* A full cache gives up one entry, a cache with room none.
LEMMA EvictedEntries ==
  ASSUME NEW E, NEW c \in Seq(E), NEW cap \in Nat \ {0}, Len(c) <= cap
  PROVE  /\ Evicted(c, cap) \in Seq(E)
         /\ Len(Evicted(c, cap)) <= cap - 1
         /\ \A i \in DOMAIN Evicted(c, cap) : i \in DOMAIN c /\ Evicted(c, cap)[i] = c[i]
BY DEF Evicted

\* `cache.put` keeps the capacity and the uniqueness of keys, also when two
\* threads insert the same key one after the other, and brings in no entry but
\* the one it was given.
LEMMA PutPreserves ==
  ASSUME NEW E, NEW c \in Seq(E), NEW cap \in Nat \ {0}, WellFormed(c, cap),
         NEW k, NEW v, [key |-> k, val |-> v] \in E
  PROVE  /\ Put(c, k, v, cap) \in Seq(E)
         /\ WellFormed(Put(c, k, v, cap), cap)
         /\ \A i \in DOMAIN Put(c, k, v, cap) :
              \/ Put(c, k, v, cap)[i] = [key |-> k, val |-> v]
              \/ \E j \in DOMAIN c : Put(c, k, v, cap)[i] = c[j]
<1> DEFINE e == [key |-> k, val |-> v]
           s == Slot(c, k)
           rest == IF k \in Keys(c) THEN WithoutSlot(c, s) ELSE Evicted(c, cap)
<1>1. e \in E
  OBVIOUS
<1>2. /\ rest \in Seq(E)
      /\ Len(rest) <= cap - 1
      /\ \A i \in DOMAIN rest : rest[i].key # k /\ \E j \in DOMAIN c : rest[i] = c[j]
      /\ \A i, j \in DOMAIN rest : rest[i].key = rest[j].key => i = j
  <2>1. CASE k \in Keys(c)
    <3>1. s \in DOMAIN c /\ c[s].key = k
      BY <2>1, SlotHoldsKey
    <3>2. /\ rest \in Seq(E)
          /\ Len(rest) = Len(c) - 1
          /\ \A i \in DOMAIN rest :
               LET j == IF i < s THEN i ELSE i + 1
               IN  j \in DOMAIN c /\ j # s /\ rest[i] = c[j]
      BY <2>1, <3>1, WithoutSlotEntries
    <3> HIDE DEF rest, s
    <3>3. /\ Len(c) \in Nat /\ DOMAIN c = 1..Len(c)
          /\ Len(rest) \in Nat /\ DOMAIN rest = 1..Len(rest)
          /\ Len(c) <= cap
      BY <3>2 DEF WellFormed
    <3>4. \A i \in DOMAIN rest : rest[i].key # k /\ \E j \in DOMAIN c : rest[i] = c[j]
      BY <3>1, <3>2 DEF WellFormed
    <3>5. \A i, j \in DOMAIN rest : rest[i].key = rest[j].key => i = j
      <4> TAKE i, j \in DOMAIN rest
      <4> DEFINE up(m) == IF m < s THEN m ELSE m + 1
      <4>1. /\ up(i) \in DOMAIN c /\ rest[i] = c[up(i)]
            /\ up(j) \in DOMAIN c /\ rest[j] = c[up(j)]
        BY <3>2
      <4>2. rest[i].key = rest[j].key => up(i) = up(j)
        BY <4>1 DEF WellFormed
      <4>3. up(i) = up(j) => i = j
        BY <3>1, <3>3
      <4> QED BY <4>2, <4>3
    <3> QED BY <3>2, <3>3, <3>4, <3>5
  <2>2. CASE k \notin Keys(c)
    <3>1. /\ rest \in Seq(E)
          /\ Len(rest) <= cap - 1
          /\ \A i \in DOMAIN rest : i \in DOMAIN c /\ rest[i] = c[i]
      BY <2>2, EvictedEntries DEF WellFormed
    <3>2. \A j \in DOMAIN c : c[j].key # k
      BY <2>2 DEF Keys
    <3> HIDE DEF rest
    <3> QED BY <3>1, <3>2 DEF WellFormed
  <2> QED BY <2>1, <2>2
<1>3. Put(c, k, v, cap) = InFront(e, rest)
  BY DEF Put
<1> HIDE DEF e, rest
<1>4. /\ InFront(e, rest) \in Seq(E)
      /\ Len(InFront(e, rest)) = Len(rest) + 1
      /\ InFront(e, rest)[1] = e
      /\ \A i \in DOMAIN InFront(e, rest) :
           i # 1 => i - 1 \in DOMAIN rest /\ InFront(e, rest)[i] = rest[i - 1]
  BY <1>1, <1>2, InFrontEntries
<1>5. e.key = k
  BY DEF e
<1>6. WellFormed(InFront(e, rest), cap)
  BY <1>1, <1>2, <1>5, InFrontWellFormed
<1>7. \A i \in DOMAIN InFront(e, rest) :
        InFront(e, rest)[i] = e \/ \E j \in DOMAIN c : InFront(e, rest)[i] = c[j]
  BY <1>2, <1>4
<1> QED BY <1>3, <1>4, <1>6, <1>7 DEF e

----------------------------------------------------------------------------
(* Chunk ids and the table.                                                *)

\* Bytes o .. o + k of one chunk share its id and follow one another in its page.
LEMMA SameChunk ==
  ASSUME NEW o \in Nat, NEW k \in Nat, k < ChunkSize - (o % ChunkSize)
  PROVE  /\ (o + k) \div ChunkSize = o \div ChunkSize
         /\ (o + k) % ChunkSize = (o % ChunkSize) + k
<1>1. ASSUME NEW C \in Nat \ {0}, k < C - (o % C)
      PROVE  (o + k) \div C = o \div C /\ (o + k) % C = (o % C) + k
  BY <1>1, SMT
<1> QED BY <1>1, ReaderAssumption

\* A chunk id is a natural number and an offset in a page is below the chunk size.
LEMMA DivModRange ==
  ASSUME NEW o \in Nat
  PROVE  o \div ChunkSize \in Nat /\ o % ChunkSize \in 0..ChunkSize - 1
<1>1. ASSUME NEW C \in Nat \ {0}
      PROVE  o \div C \in Nat /\ o % C \in 0..C - 1
  BY SMT
<1> QED BY <1>1, ReaderAssumption

\* copy_from_slice: the bytes before stay, n bytes of the page follow.
LEMMA AppendPage ==
  ASSUME NEW b \in Seq(Byte), NEW p \in Page, NEW a \in Nat, NEW n \in Nat,
         a + n <= ChunkSize
  PROVE  LET r == b \o SubSeq(p, a + 1, a + n)
         IN  /\ r \in Seq(Byte)
             /\ Len(r) = Len(b) + n
             /\ \A i \in 1..Len(b) : r[i] = b[i]
             /\ \A i \in 1..n : r[Len(b) + i] = p[a + i]
<1>1. p \in Seq(Byte) /\ Len(p) = ChunkSize
  BY ReaderAssumption DEF Page
<1>2. /\ SubSeq(p, a + 1, a + n) \in Seq(Byte)
      /\ Len(SubSeq(p, a + 1, a + n)) = n
      /\ \A i \in 1..n : SubSeq(p, a + 1, a + n)[i] = p[a + i]
  BY <1>1, ReaderAssumption
<1> QED BY <1>2

LEMMA ElementOf ==
  ASSUME NEW S, NEW s \in Seq(S), NEW i \in DOMAIN s
  PROVE  s[i] \in S
OBVIOUS

\* The fields of the lazy index that lookups use.
LEMMA IndexType ==
  ASSUME NEW p \in DOMAIN Index
  PROVE  Index[p].first_chunk_id \in Nat
<1> DEFINE M == [first_chunk_id : Nat, entry_count : Nat, segment_idx : Nat,
                 base_offset : Nat, sectors_data_end : Nat \union {None},
                 entries : Seq([comp : BOOLEAN, off : Nat])]
<1>1. Index \in Seq(M)
  BY ReaderAssumption
<1>2. Index[p] \in M
  <2> HIDE DEF M
  <2> QED BY <1>1
<1> QED BY <1>2

\* section_for answers None or the position of a section that starts at or before
\* the chunk: the sections counted by partition_point are a prefix of the index.
LEMMA SectionForRange ==
  ASSUME NEW id \in Nat, SectionFor(Index, id) # None
  PROVE  /\ SectionFor(Index, id) \in DOMAIN Index
         /\ Index[SectionFor(Index, id)].first_chunk_id <= id
<1> DEFINE S == {p \in DOMAIN Index : Index[p].first_chunk_id <= id}
           n == Cardinality(S)
<1>1. Len(Index) \in Nat /\ DOMAIN Index = 1..Len(Index)
  BY ReaderAssumption
<1>2. ASSUME NEW m \in Nat
      PROVE  IsFiniteSet(1..m) /\ Cardinality(1..m) = m
  <2>1. 1 \in Int /\ m \in Int
    OBVIOUS
  <2>2. IsFiniteSet(1..m) /\ Cardinality(1..m) = IF 1 > m THEN 0 ELSE m - 1 + 1
    BY <2>1, FS_Interval
  <2> QED BY <2>2
<1>3. IsFiniteSet(S) /\ n <= Len(Index)
  BY <1>1, <1>2, FS_Subset
<1>4. n \in Nat
  BY <1>3, FS_CardinalityType
<1>5. n > 0 /\ SectionFor(Index, id) = n
  BY DEF SectionFor
<1>6. n \in DOMAIN Index
  BY <1>1, <1>3, <1>4, <1>5
<1>7. n \in S
  <2> SUFFICES ASSUME ~(Index[n].first_chunk_id <= id) PROVE FALSE
    BY <1>6
  <2> HIDE DEF n
  <2>1. ASSUME NEW q \in S PROVE q \in 1..(n - 1)
    <3>1. q \in 1..Len(Index) /\ Index[q].first_chunk_id <= id
      BY <1>1
    <3>2. n <= q => Index[n].first_chunk_id <= Index[q].first_chunk_id
      BY <3>1, <1>1, <1>6, IndexAssumption
    <3>3. Index[n].first_chunk_id \in Nat /\ Index[q].first_chunk_id \in Nat
      BY <3>1, <1>1, <1>6, IndexType
    <3> QED BY <3>1, <3>2, <3>3, <1>1, <1>4
  <2>2. S \subseteq 1..(n - 1)
    BY <2>1
  <2>3. n <= n - 1
    <3>1. n - 1 \in Nat
      BY <1>4, <1>5
    <3>2. IsFiniteSet(1..(n - 1)) /\ Cardinality(1..(n - 1)) = n - 1
      BY <3>1, <1>2
    <3>3. Cardinality(S) <= Cardinality(1..(n - 1))
      BY <2>2, <3>2, FS_Subset
    <3> QED BY <3>2, <3>3 DEF n
  <2> QED BY <2>3, <1>4
<1> QED BY <1>5, <1>6, <1>7

\* A located chunk is one of the table's, and decodes to a page.
LEMMA LocatedChunk ==
  ASSUME NEW id \in Nat, Located(id) = "ok"
  PROVE  /\ ChunkOf(id) \in Chunk
         /\ Decompressed(ChunkOf(id)).page \in Page
<1>1. CASE ~Lazy
  <2>1. ChunkOf(id) = Chunks[id + 1] /\ id + 1 \in DOMAIN Chunks
    BY <1>1, ReaderAssumption DEF Located, ChunkOf
  <2> QED BY <1>1, <2>1, ReaderAssumption, ImageAssumption DEF TableChunks
<1>2. CASE Lazy
  <2> DEFINE pos == SectionFor(Index, id)
  <2>1. pos # None /\ Local(pos, id) <= Len(ParsedSection[pos])
    BY <1>2 DEF Located
  <2>2. pos \in DOMAIN Index /\ Index[pos].first_chunk_id <= id
    BY <2>1, SectionForRange
  <2>3. /\ ParsedSection[pos] \in Seq(Chunk)
        /\ Index[pos].first_chunk_id \in Nat
    BY <2>2, IndexType, ImageAssumption
  <2> DEFINE s == ParsedSection[pos]
  <2>4. Local(pos, id) \in DOMAIN s
    <3> HIDE DEF pos, s
    <3>1. Len(s) \in Nat /\ DOMAIN s = 1..Len(s)
      BY <2>3 DEF s
    <3> QED BY <3>1, <2>1, <2>2, <2>3 DEF Local, s
  <2>5. ChunkOf(id) = s[Local(pos, id)]
    BY <1>2 DEF ChunkOf
  <2>6. ChunkOf(id) \in Chunk
    BY <2>3, <2>4, <2>5
  <2>7. ChunkOf(id) \in TableChunks
    BY <1>2, <2>2, <2>4, <2>5 DEF TableChunks
  <2> QED BY <2>6, <2>7, ImageAssumption
<1> QED BY <1>1, <1>2

----------------------------------------------------------------------------
(* The chunk loop's arithmetic.                                            *)

LEMMA CoveredLenType ==
  ASSUME NEW r \in [off : Nat, len : Nat]
  PROVE  CoveredLen(r) \in Nat
BY ReaderAssumption DEF CoveredLen, SmallerOf, SatSub

\* to_read is what is left of the page, of the image and of the buffer: it stays
\* inside the page and inside the covered range, and is 0 only at the end of it.
LEMMA ToReadBounds ==
  ASSUME TypeOK, NEW t \in Threads,
         off[t] = req[t].off + Len(buf[t]),
         Len(buf[t]) <= CoveredLen(req[t])
  PROVE  /\ ToRead(t) \in Nat
         /\ PageOffset(t) \in Nat
         /\ PageOffset(t) + ToRead(t) <= ChunkSize
         /\ Len(buf[t]) + ToRead(t) <= CoveredLen(req[t])
         /\ ToRead(t) = 0 <=> Len(buf[t]) = CoveredLen(req[t])
<1>1. /\ req[t].off \in Nat /\ req[t].len \in Nat
      /\ off[t] \in Nat
      /\ Len(buf[t]) \in Nat
  BY DEF TypeOK
<1>2. PageOffset(t) \in 0..ChunkSize - 1
  BY <1>1, DivModRange DEF PageOffset
<1> DEFINE o == req[t].off
           n == req[t].len
           b == Len(buf[t])
           p == PageOffset(t)
<1>3. /\ ToRead(t) = SmallerOf(SmallerOf(ChunkSize - p, SatSub(TotalSize, o + b)), n - b)
      /\ CoveredLen(req[t]) = SmallerOf(n, SatSub(TotalSize, o))
  BY DEF ToRead, CoveredLen
<1> HIDE DEF o, n, b, p
<1>4. o \in Nat /\ n \in Nat /\ b \in Nat /\ p \in Nat /\ p < ChunkSize
  BY <1>1, <1>2, ReaderAssumption DEF o, n, b, p
<1>5. b <= SmallerOf(n, SatSub(TotalSize, o))
  BY <1>3 DEF b
<1>6. LET r == SmallerOf(SmallerOf(ChunkSize - p, SatSub(TotalSize, o + b)), n - b)
          c == SmallerOf(n, SatSub(TotalSize, o))
      IN  r \in Nat /\ p + r <= ChunkSize /\ b + r <= c /\ (r = 0 <=> b = c)
  BY <1>4, <1>5, ReaderAssumption DEF SmallerOf, SatSub
<1> QED BY <1>3, <1>4, <1>6 DEF p, b

\* Until the range is covered, the chunk the loop is at is one of the range's.
LEMMA OwnChunk ==
  ASSUME TypeOK, NEW t \in Threads,
         off[t] = req[t].off + Len(buf[t]),
         Len(buf[t]) < CoveredLen(req[t])
  PROVE  ChunkId(t) \in CoveredChunks(req[t]) /\ ChunkId(t) \in Nat
<1>1. req[t] \in [off : Nat, len : Nat] /\ off[t] \in Nat /\ Len(buf[t]) \in Nat
  BY DEF TypeOK
<1>2. CoveredLen(req[t]) \in Nat
  BY <1>1, CoveredLenType
<1>3. Len(buf[t]) \in 0..CoveredLen(req[t]) - 1
  BY <1>1, <1>2
<1>4. ChunkId(t) \in CoveredChunks(req[t])
  BY <1>3 DEF CoveredChunks, ChunkId
<1> QED BY <1>1, <1>4, DivModRange DEF ChunkId

----------------------------------------------------------------------------
(* A step of one thread leaves the claims about the others alone.          *)

SameLocals(u) ==
  /\ pc'[u] = pc[u]
  /\ req'[u] = req[u]
  /\ off'[u] = off[u]
  /\ buf'[u] = buf[u]
  /\ chunk'[u] = chunk[u]
  /\ section'[u] = section[u]
  /\ page'[u] = page[u]
  /\ reply'[u] = reply[u]

LEMMA ThreadFrame ==
  ASSUME NEW u \in Threads, ThreadInv(u), SameLocals(u)
  PROVE  ThreadInv(u)'
BY DEF ThreadInv, SameLocals, ChunkId

LEMMA OtherThreads ==
  ASSUME TypeOK, NEW t \in Threads, NEW u \in Threads, u # t,
         Step(t) \/ \E r \in Requests : Call(t, r)
  PROVE  SameLocals(u)
<1>1. ASSUME NEW r \in Requests, Call(t, r) PROVE SameLocals(u)
  BY <1>1 DEF Call, Goto, SameLocals, TypeOK
<1>2. ASSUME NEW from, NEW how, Return(t, from, how) PROVE SameLocals(u)
  BY <1>2 DEF Return, Goto, EndOfScope, SameLocals, TypeOK
<1>3. CASE LoopEnd(t) \/ OutOfRange(t) \/ SectionHitPanics(t) \/ LoadFails(t)
           \/ LoadPanics(t) \/ DecompressFails(t) \/ IoError(t)
  BY <1>2, <1>3 DEF LoopEnd, OutOfRange, SectionHitPanics, LoadFails, LoadPanics,
                    DecompressFails, IoError
<1>4. CASE LoopBody(t) \/ CacheMiss(t) \/ SectionMiss(t) \/ PutSection(t) \/ PutPage(t)
  BY <1>4 DEF LoopBody, CacheMiss, SectionMiss, PutSection, PutPage, Goto, locals,
              SameLocals, TypeOK
<1>5. CASE CacheHit(t) \/ EagerGet(t) \/ SectionHit(t)
  BY <1>5 DEF CacheHit, EagerGet, SectionHit, Goto, SameLocals, TypeOK
<1>6. CASE LoadSection(t) \/ Decompress(t)
  BY <1>6 DEF LoadSection, Decompress, Goto, SameLocals, TypeOK
<1>7. CASE CopyOut(t)
  BY <1>7 DEF CopyOut, Goto, EndOfScope, SameLocals, TypeOK
<1> QED BY <1>1, <1>3, <1>4, <1>5, <1>6, <1>7 DEF Step

----------------------------------------------------------------------------
(* Each action keeps the inductive invariant.  Its conjuncts are grouped   *)
(* by the state they are about: the threads' locals and the two LRUs.      *)

LocalsOK ==
  /\ pc \in [Threads -> {"idle", "loop", "probe", "lookup", "load", "cache_section",
                         "decode", "put", "copy"}]
  /\ req \in [Threads -> [off : Nat, len : Nat]]
  /\ off \in [Threads -> Nat]
  /\ buf \in [Threads -> Seq(Byte)]
  /\ chunk \in [Threads -> Chunk]
  /\ section \in [Threads -> Seq(Chunk)]
  /\ page \in [Threads -> Page]
  /\ reply \in [Threads -> {"none", "ok", "err", "panic"}]
  /\ poisoned \in BOOLEAN

PageCacheOK ==
  /\ cache \in Seq([key : Nat, val : Page])
  /\ WellFormed(cache, CacheSize)
  /\ PageCacheCoherent

SectionCacheOK ==
  /\ sections \in Seq([key : Nat, val : Seq(Chunk)])
  /\ WellFormed(sections, SectionCacheSize)
  /\ SectionCacheCoherent

LEMMA IInvParts ==
  IInv <=> /\ LocalsOK /\ PageCacheOK /\ SectionCacheOK
           /\ \A t \in Threads : ThreadInv(t)
BY DEF IInv, TypeOK, CachesBounded, LocalsOK, PageCacheOK, SectionCacheOK

LEMMA PageCacheFrame ==
  ASSUME PageCacheOK, cache' = cache
  PROVE  PageCacheOK'
BY DEF PageCacheOK, PageCacheCoherent

LEMMA SectionCacheFrame ==
  ASSUME SectionCacheOK, sections' = sections
  PROVE  SectionCacheOK'
BY DEF SectionCacheOK, SectionCacheCoherent

\* The values of locals that are out of scope have the right shape.
LEMMA ScopeTypes == NewChunk(0, FALSE, 0, 0) \in Chunk /\ Padded(<<>>) \in Page
<1>1. ASSUME NEW m \in Nat \ {0} PROVE 0 % m \in Nat
  BY SMT
<1>2. NewChunk(0, FALSE, 0, 0) \in Chunk
  BY <1>1, WidthAssumption DEF NewChunk, Chunk
<1>3. Padded(<<>>) \in Page
  BY ReaderAssumption DEF Padded, Page
<1> QED BY <1>2, <1>3

LEMMA EndOfScopeTypes ==
  ASSUME LocalsOK, NEW t \in Threads, EndOfScope(t)
  PROVE  /\ chunk' \in [Threads -> Chunk]
         /\ section' \in [Threads -> Seq(Chunk)]
         /\ page' \in [Threads -> Page]
<1> DEFINE c == NewChunk(0, FALSE, 0, 0)
           p == Padded(<<>>)
<1>1. /\ chunk' = [chunk EXCEPT ![t] = c]
      /\ section' = [section EXCEPT ![t] = <<>>]
      /\ page' = [page EXCEPT ![t] = p]
  BY DEF EndOfScope
<1>2. c \in Chunk /\ p \in Page
  BY ScopeTypes
<1> HIDE DEF c, p
<1> QED BY <1>1, <1>2 DEF LocalsOK

\* `section[local]` is past the end or not, never both.
LEMMA BeyondSection ==
  ASSUME NEW id \in Nat, SectionFor(Index, id) # None,
         LET pos == SectionFor(Index, id) IN Local(pos, id) > Len(ParsedSection[pos])
  PROVE  LET pos == SectionFor(Index, id) IN ~(Local(pos, id) <= Len(ParsedSection[pos]))
<1> DEFINE pos == SectionFor(Index, id)
           s == ParsedSection[pos]
<1>1. pos \in DOMAIN Index
  BY SectionForRange
<1>2. s \in Seq(Chunk) /\ Index[pos].first_chunk_id \in Nat
  BY <1>1, ImageAssumption, IndexType
<1> HIDE DEF pos, s
<1>3. Len(s) \in Nat /\ Local(pos, id) \in Int
  BY <1>2 DEF Local
<1> QED BY <1>3 DEF pos, s

\* A cached section is the parse of the section it is filed under.
LEMMA SectionValue ==
  ASSUME SectionCacheOK, NEW pos \in Keys(sections)
  PROVE  /\ pos \in DOMAIN Index
         /\ SectionReadable(pos)
         /\ ValueOf(sections, pos) = ParsedSection[pos]
<1>1. /\ Slot(sections, pos) \in DOMAIN sections
      /\ sections[Slot(sections, pos)].key = pos
  BY SlotHoldsKey DEF SectionCacheOK
<1> QED BY <1>1 DEF SectionCacheOK, SectionCacheCoherent, ValueOf

\* Promoting a section keeps the section LRU bounded and coherent.
LEMMA PromoteSection ==
  ASSUME SectionCacheOK, NEW pos \in Keys(sections),
         sections' = Promote(sections, pos)
  PROVE  SectionCacheOK'
<1>1. /\ sections' \in Seq([key : Nat, val : Seq(Chunk)])
      /\ WellFormed(sections', SectionCacheSize)
      /\ \A i \in DOMAIN sections' : \E j \in DOMAIN sections : sections'[i] = sections[j]
  BY PromotePreserves, ReaderAssumption DEF SectionCacheOK
<1>2. SectionCacheCoherent'
  BY <1>1 DEF SectionCacheOK, SectionCacheCoherent
<1> QED BY <1>1, <1>2 DEF SectionCacheOK

\* What makes the end of a call legitimate.
Justified(t, how) ==
  IF how = "ok"
  THEN buf[t] = ImageBytes(req[t]) /\ \A id \in CoveredChunks(req[t]) : Readable(id)
  ELSE (IoErrors /\ how = "err") \/ \E id \in CoveredChunks(req[t]) : ~Readable(id)

LEMMA ReturnInv ==
  ASSUME LocalsOK, NEW t \in Threads, NEW from, NEW how \in {"ok", "err", "panic"},
         Return(t, from, how), poisoned' \in BOOLEAN, Justified(t, how)
  PROVE  LocalsOK' /\ ThreadInv(t)'
<1>1. LocalsOK'
  <2>1. /\ chunk' \in [Threads -> Chunk]
        /\ section' \in [Threads -> Seq(Chunk)]
        /\ page' \in [Threads -> Page]
    BY EndOfScopeTypes DEF LocalsOK, Return
  <2>2. /\ pc' = [pc EXCEPT ![t] = "idle"]
        /\ reply' = [reply EXCEPT ![t] = how]
        /\ req' = req /\ off' = off /\ buf' = buf
    BY DEF Return, Goto
  <2> QED BY <2>1, <2>2 DEF LocalsOK
<1>2. /\ pc'[t] = "idle" /\ reply'[t] = how
      /\ buf'[t] = buf[t] /\ req'[t] = req[t]
  BY DEF LocalsOK, Return, Goto
<1>3. ThreadInv(t)'
  BY <1>2 DEF ThreadInv, Justified
<1> QED BY <1>1, <1>3

\* A failed lookup or decode is the failure of a chunk of the call's own range.
LEMMA FailureJustified ==
  ASSUME IInv, NEW t \in Threads, pc[t] \notin {"idle", "loop"},
         NEW how \in {"err", "panic"}, ~Readable(ChunkId(t))
  PROVE  Justified(t, how)
BY OwnChunk DEF IInv, ThreadInv, Justified

\* What a step of thread t must keep; OtherThreads does the rest.
Kept(t) == LocalsOK' /\ PageCacheOK' /\ SectionCacheOK' /\ ThreadInv(t)'

LEMMA CallInv ==
  ASSUME IInv, NEW t \in Threads, NEW r \in Requests, Call(t, r)
  PROVE  Kept(t)
<1>1. r \in [off : Nat, len : Nat]
  BY ReaderAssumption
<1>2. LocalsOK'
  BY <1>1, IInvParts DEF LocalsOK, Call, Goto
<1>3. /\ pc'[t] = "loop" /\ reply'[t] = "none"
      /\ req'[t] = r /\ off'[t] = r.off /\ buf'[t] = <<>>
  BY IInvParts DEF LocalsOK, Call, Goto
<1>4. CoveredLen(r) \in Nat
  BY <1>1, CoveredLenType
<1>5. ThreadInv(t)'
  BY <1>1, <1>3, <1>4 DEF ThreadInv
<1> QED BY <1>2, <1>5, IInvParts, PageCacheFrame, SectionCacheFrame DEF Kept, Call

LEMMA LoopEndInv ==
  ASSUME IInv, NEW t \in Threads, LoopEnd(t)
  PROVE  Kept(t)
<1> DEFINE r == req[t]
           b == buf[t]
<1>1. pc[t] = "loop" /\ ToRead(t) = 0 /\ Return(t, "loop", "ok")
  BY DEF LoopEnd, Return, Goto
<1>2. /\ off[t] = r.off + Len(b)
      /\ Len(b) <= CoveredLen(r)
      /\ \A i \in 1..Len(b) : /\ Readable((r.off + i - 1) \div ChunkSize)
                              /\ b[i] = ImageByte(r.off + i - 1)
  BY <1>1 DEF IInv, ThreadInv
<1>3. r \in [off : Nat, len : Nat] /\ b \in Seq(Byte) /\ TypeOK
  BY DEF IInv, TypeOK
<1>4. Len(b) = CoveredLen(r)
  BY <1>1, <1>2, <1>3, ToReadBounds
<1> HIDE DEF r, b
<1>5. b = ImageBytes(r)
  BY <1>2, <1>3, <1>4 DEF ImageBytes
<1>6. \A id \in CoveredChunks(r) : Readable(id)
  <2> SUFFICES ASSUME NEW i \in 0..CoveredLen(r) - 1
               PROVE  Readable((r.off + i) \div ChunkSize)
    BY DEF CoveredChunks
  <2>1. i + 1 \in 1..Len(b) /\ r.off + (i + 1) - 1 = r.off + i
    BY <1>3, <1>4
  <2> QED BY <1>2, <2>1
<1>7. Justified(t, "ok")
  BY <1>5, <1>6 DEF Justified, r, b
<1>8. poisoned' \in BOOLEAN
  BY IInvParts DEF LoopEnd, LocalsOK
<1>9. LocalsOK' /\ ThreadInv(t)'
  BY <1>1, <1>7, <1>8, IInvParts, ReturnInv
<1> QED BY <1>9, IInvParts, PageCacheFrame, SectionCacheFrame DEF Kept, LoopEnd

\* The steps that only move the program counter on.
LEMMA MoveOnInv ==
  ASSUME IInv, NEW t \in Threads, LoopBody(t) \/ CacheMiss(t) \/ SectionMiss(t)
  PROVE  Kept(t)
<1>1. /\ UNCHANGED <<req, off, buf, chunk, section, page, reply, cache, sections, poisoned>>
      /\ pc' = [pc EXCEPT ![t] = pc'[t]]
      /\ pc'[t] \in {"probe", "lookup", "load"}
      /\ pc[t] \in {"loop", "probe", "lookup"}
      /\ pc[t] = "loop" => ToRead(t) # 0
      /\ pc'[t] = "load" => Lazy /\ SectionFor(Index, ChunkId(t)) # None
  BY IInvParts DEF LoopBody, CacheMiss, SectionMiss, Goto, locals, LocalsOK
<1>2. LocalsOK'
  BY <1>1, IInvParts DEF LocalsOK
<1>3. Len(buf[t]) < CoveredLen(req[t])
  <2>1. CASE pc[t] = "loop"
    <3>1. /\ TypeOK
          /\ off[t] = req[t].off + Len(buf[t])
          /\ Len(buf[t]) <= CoveredLen(req[t])
      BY <2>1 DEF IInv, ThreadInv
    <3>2. Len(buf[t]) # CoveredLen(req[t])
      BY <2>1, <3>1, <1>1, ToReadBounds
    <3>3. Len(buf[t]) \in Nat /\ CoveredLen(req[t]) \in Nat
      BY CoveredLenType DEF IInv, TypeOK
    <3> QED BY <3>1, <3>2, <3>3
  <2>2. CASE pc[t] # "loop"
    BY <1>1, <2>2 DEF IInv, ThreadInv
  <2> QED BY <2>1, <2>2
<1>4. /\ ThreadInv(t) /\ ChunkId(t)' = ChunkId(t)
      /\ req'[t] = req[t] /\ off'[t] = off[t] /\ buf'[t] = buf[t] /\ reply'[t] = reply[t]
  BY <1>1 DEF IInv, ChunkId
<1>5. ThreadInv(t)'
  BY <1>1, <1>3, <1>4 DEF ThreadInv
<1> QED BY <1>1, <1>2, <1>5, IInvParts, PageCacheFrame, SectionCacheFrame DEF Kept

\* Every failing exit of the call.
LEMMA FailInv ==
  ASSUME IInv, NEW t \in Threads,
         OutOfRange(t) \/ LoadFails(t) \/ LoadPanics(t) \/ DecompressFails(t)
           \/ IoError(t) \/ SectionHitPanics(t)
  PROVE  Kept(t)
<1> DEFINE id == ChunkId(t)
           pos == SectionFor(Index, id)
<1>0. LocalsOK /\ PageCacheOK /\ SectionCacheOK /\ ThreadInv(t)
  BY IInvParts
<1>1. ASSUME NEW from \in {"lookup", "load", "decode"}, NEW how \in {"err", "panic"},
             Return(t, from, how), ~Readable(id) \/ (IoErrors /\ how = "err"),
             UNCHANGED cache, poisoned' \in BOOLEAN, SectionCacheOK'
      PROVE  Kept(t)
  <2>1. pc[t] \notin {"idle", "loop"}
    BY <1>1 DEF Return, Goto
  <2>2. Justified(t, how)
    BY <1>1, <2>1, FailureJustified DEF Justified
  <2>3. LocalsOK' /\ ThreadInv(t)'
    BY <1>0, <1>1, <2>2, ReturnInv
  <2> QED BY <1>0, <1>1, <2>3, PageCacheFrame DEF Kept
<1>2. CASE OutOfRange(t)
  <2>1. Return(t, "lookup", "err") /\ UNCHANGED <<cache, sections, poisoned>>
    BY <1>2 DEF OutOfRange
  <2>2. id \in Nat
    BY <2>1, OwnChunk DEF Return, Goto, IInv, ThreadInv
  <2>3. ~Readable(id)
    BY <1>2, <2>2, ReaderAssumption DEF OutOfRange, Readable, Located
  <2> QED BY <1>0, <1>1, <2>1, <2>3, SectionCacheFrame DEF LocalsOK
<1>3. CASE LoadFails(t)
  <2>1. Return(t, "load", "err") /\ UNCHANGED <<cache, sections, poisoned>>
    BY <1>3 DEF LoadFails
  <2>2. Lazy
    BY <1>0, <2>1 DEF Return, Goto, ThreadInv
  <2>3. ~Readable(id)
    BY <1>3, <2>2 DEF LoadFails, Readable, Located
  <2> QED BY <1>0, <1>1, <2>1, <2>3, SectionCacheFrame DEF LocalsOK
<1>4. CASE LoadPanics(t)
  <2>1. Return(t, "load", "panic") /\ UNCHANGED <<cache, sections, poisoned>>
    BY <1>4 DEF LoadPanics
  <2>2. Lazy /\ pos # None /\ id \in Nat
    BY <1>0, <2>1, OwnChunk DEF Return, Goto, ThreadInv, IInv
  <2>3. Local(pos, id) > Len(ParsedSection[pos])
    BY <1>4 DEF LoadPanics
  <2>4. ~(Local(pos, id) <= Len(ParsedSection[pos]))
    BY <2>2, <2>3, BeyondSection
  <2>5. ~Readable(id)
    BY <2>2, <2>4 DEF Readable, Located
  <2> QED BY <1>0, <1>1, <2>1, <2>5, SectionCacheFrame DEF LocalsOK
<1>5. CASE DecompressFails(t)
  <2>1. /\ Return(t, "decode", "err") /\ UNCHANGED <<cache, sections, poisoned>>
        /\ ~Decompressed(chunk[t]).ok
    BY <1>5 DEF DecompressFails
  <2>2. chunk[t] = ChunkOf(id)
    BY <1>0, <2>1 DEF Return, Goto, ThreadInv
  <2>3. ~Readable(id)
    BY <2>1, <2>2 DEF Readable
  <2> QED BY <1>0, <1>1, <2>1, <2>3, SectionCacheFrame DEF LocalsOK
<1>6. CASE IoError(t)
  <2>1. PICK from \in {"load", "decode"} : Return(t, from, "err")
    BY <1>6 DEF IoError
  <2>2. IoErrors /\ UNCHANGED <<cache, sections, poisoned>>
    BY <1>6 DEF IoError
  <2> QED BY <1>0, <1>1, <2>1, <2>2, SectionCacheFrame DEF LocalsOK
<1>7. CASE SectionHitPanics(t)
  <2>1. /\ Return(t, "lookup", "panic") /\ UNCHANGED cache /\ poisoned' \in BOOLEAN
        /\ Lazy /\ pos # None /\ pos \in Keys(sections)
        /\ Local(pos, id) > Len(ValueOf(sections, pos))
        /\ sections' = Promote(sections, pos)
    BY <1>7 DEF SectionHitPanics
  <2>2. id \in Nat
    BY <2>1, OwnChunk DEF Return, Goto, IInv, ThreadInv
  <2>3. ValueOf(sections, pos) = ParsedSection[pos]
    BY <1>0, <2>1, SectionValue
  <2>4. ~(Local(pos, id) <= Len(ParsedSection[pos]))
    BY <2>1, <2>2, <2>3, BeyondSection
  <2>5. ~Readable(id)
    BY <2>1, <2>4 DEF Readable, Located
  <2>6. SectionCacheOK'
    BY <1>0, <2>1, PromoteSection
  <2> QED BY <1>0, <1>1, <2>1, <2>5, <2>6
<1> QED BY <1>2, <1>3, <1>4, <1>5, <1>6, <1>7

\* A probe of the page LRU that hits yields the page of the chunk asked for.
LEMMA CacheHitInv ==
  ASSUME IInv, NEW t \in Threads, CacheHit(t)
  PROVE  Kept(t)
<1> DEFINE id == ChunkId(t)
           s == Slot(cache, id)
<1>0. LocalsOK /\ PageCacheOK /\ SectionCacheOK /\ ThreadInv(t)
  BY IInvParts
<1>1. /\ pc[t] = "probe" /\ pc' = [pc EXCEPT ![t] = "copy"]
      /\ id \in Keys(cache)
      /\ page' = [page EXCEPT ![t] = ValueOf(cache, id)]
      /\ cache' = Promote(cache, id)
      /\ UNCHANGED <<req, off, buf, chunk, section, reply, sections, poisoned>>
  BY DEF CacheHit, Goto
<1>2. s \in DOMAIN cache /\ cache[s].key = id
  BY <1>0, <1>1, SlotHoldsKey DEF PageCacheOK
<1>3. Readable(id) /\ ValueOf(cache, id) = PageOf(id) /\ ValueOf(cache, id) \in Page
  <2>1. Readable(id) /\ ValueOf(cache, id) = PageOf(id)
    BY <1>0, <1>2 DEF PageCacheOK, PageCacheCoherent, ValueOf
  <2>2. cache[s] \in [key : Nat, val : Page]
    <3> HIDE DEF s
    <3> QED BY <1>0, <1>2, ElementOf DEF PageCacheOK
  <2> QED BY <2>1, <2>2 DEF ValueOf
<1>4. LocalsOK'
  BY <1>0, <1>1, <1>3 DEF LocalsOK
<1>5. /\ pc'[t] = "copy" /\ page'[t] = PageOf(id) /\ ChunkId(t)' = id
      /\ req'[t] = req[t] /\ off'[t] = off[t] /\ buf'[t] = buf[t] /\ reply'[t] = reply[t]
  BY <1>0, <1>1, <1>3 DEF LocalsOK, ChunkId
<1>6. ThreadInv(t)'
  BY <1>0, <1>1, <1>3, <1>5 DEF ThreadInv
<1>7. /\ cache' \in Seq([key : Nat, val : Page])
      /\ WellFormed(cache', CacheSize)
      /\ \A i \in DOMAIN cache' : \E j \in DOMAIN cache : cache'[i] = cache[j]
  BY <1>0, <1>1, PromotePreserves, ReaderAssumption DEF PageCacheOK
<1>8. PageCacheOK'
  BY <1>0, <1>7 DEF PageCacheOK, PageCacheCoherent
<1> QED BY <1>0, <1>1, <1>4, <1>6, <1>8, SectionCacheFrame DEF Kept

\* A chunk that was located is what the table says of the id.
LEMMA LocateInv ==
  ASSUME IInv, NEW t \in Threads, EagerGet(t) \/ SectionHit(t)
  PROVE  Kept(t)
<1> DEFINE id == ChunkId(t)
           pos == SectionFor(Index, id)
<1>0. LocalsOK /\ PageCacheOK /\ SectionCacheOK /\ ThreadInv(t)
  BY IInvParts
<1>1. ASSUME pc[t] = "lookup", pc' = [pc EXCEPT ![t] = "decode"],
             Located(id) = "ok", chunk' = [chunk EXCEPT ![t] = ChunkOf(id)],
             UNCHANGED <<req, off, buf, section, page, reply, cache, poisoned>>,
             SectionCacheOK'
      PROVE  Kept(t)
  <2>1. ChunkOf(id) \in Chunk
    BY <1>0, <1>1, OwnChunk, LocatedChunk DEF ThreadInv, IInv
  <2>2. LocalsOK'
    BY <1>0, <1>1, <2>1 DEF LocalsOK
  <2>3. /\ pc'[t] = "decode" /\ chunk'[t] = ChunkOf(id) /\ ChunkId(t)' = id
        /\ req'[t] = req[t] /\ off'[t] = off[t] /\ buf'[t] = buf[t] /\ reply'[t] = reply[t]
    BY <1>0, <1>1 DEF LocalsOK, ChunkId
  <2>4. ThreadInv(t)'
    BY <1>0, <1>1, <2>3 DEF ThreadInv
  <2> QED BY <1>0, <1>1, <2>2, <2>4, PageCacheFrame DEF Kept
<1>2. CASE EagerGet(t)
  <2>1. Located(id) = "ok" /\ Chunks[id + 1] = ChunkOf(id)
    BY <1>2 DEF EagerGet, Located, ChunkOf
  <2> QED BY <1>0, <1>1, <1>2, <2>1, SectionCacheFrame DEF EagerGet, Goto
<1>3. CASE SectionHit(t)
  <2>1. /\ Lazy /\ pos # None /\ pos \in Keys(sections)
        /\ Local(pos, id) <= Len(ValueOf(sections, pos))
        /\ pc[t] = "lookup" /\ pc' = [pc EXCEPT ![t] = "decode"]
        /\ chunk' = [chunk EXCEPT ![t] = ValueOf(sections, pos)[Local(pos, id)]]
        /\ sections' = Promote(sections, pos)
        /\ UNCHANGED <<req, off, buf, section, page, reply, cache, poisoned>>
    BY <1>3 DEF SectionHit, Goto
  <2>2. SectionReadable(pos) /\ ValueOf(sections, pos) = ParsedSection[pos]
    BY <1>0, <2>1, SectionValue
  <2>3. Located(id) = "ok" /\ ValueOf(sections, pos)[Local(pos, id)] = ChunkOf(id)
    BY <2>1, <2>2 DEF Located, ChunkOf
  <2>4. SectionCacheOK'
    BY <1>0, <2>1, PromoteSection
  <2> QED BY <1>1, <2>1, <2>3, <2>4
<1> QED BY <1>2, <1>3

LEMMA LoadSectionInv ==
  ASSUME IInv, NEW t \in Threads, LoadSection(t)
  PROVE  Kept(t)
<1> DEFINE id == ChunkId(t)
           pos == SectionFor(Index, id)
<1>0. LocalsOK /\ PageCacheOK /\ SectionCacheOK /\ ThreadInv(t)
  BY IInvParts
<1>1. /\ pc[t] = "load" /\ pc' = [pc EXCEPT ![t] = "cache_section"]
      /\ SectionReadable(pos)
      /\ Local(pos, id) <= Len(ParsedSection[pos])
      /\ section' = [section EXCEPT ![t] = ParsedSection[pos]]
      /\ chunk' = [chunk EXCEPT ![t] = ParsedSection[pos][Local(pos, id)]]
      /\ UNCHANGED <<req, off, buf, page, reply, cache, sections, poisoned>>
  BY DEF LoadSection, Goto
<1>2. Lazy /\ pos # None /\ id \in Nat
  BY <1>0, <1>1, OwnChunk DEF ThreadInv, IInv
<1>3. Located(id) = "ok" /\ ParsedSection[pos][Local(pos, id)] = ChunkOf(id)
  BY <1>1, <1>2 DEF Located, ChunkOf
<1>4. ChunkOf(id) \in Chunk /\ ParsedSection[pos] \in Seq(Chunk)
  BY <1>2, <1>3, LocatedChunk, SectionForRange, ImageAssumption
<1>5. LocalsOK'
  BY <1>0, <1>1, <1>3, <1>4 DEF LocalsOK
<1>6. /\ pc'[t] = "cache_section" /\ ChunkId(t)' = id
      /\ section'[t] = ParsedSection[pos] /\ chunk'[t] = ChunkOf(id)
      /\ req'[t] = req[t] /\ off'[t] = off[t] /\ buf'[t] = buf[t] /\ reply'[t] = reply[t]
  BY <1>0, <1>1, <1>3 DEF LocalsOK, ChunkId
<1>7. ThreadInv(t)'
  BY <1>0, <1>1, <1>2, <1>3, <1>6 DEF ThreadInv
<1> QED BY <1>0, <1>1, <1>5, <1>7, PageCacheFrame, SectionCacheFrame DEF Kept

\* The section inserted is the parse of the section it is filed under, whoever
\* else inserted it meanwhile.
LEMMA PutSectionInv ==
  ASSUME IInv, NEW t \in Threads, PutSection(t)
  PROVE  Kept(t)
<1> DEFINE id == ChunkId(t)
           pos == SectionFor(Index, id)
<1>0. LocalsOK /\ PageCacheOK /\ SectionCacheOK /\ ThreadInv(t)
  BY IInvParts
<1>1. /\ pc[t] = "cache_section" /\ pc' = [pc EXCEPT ![t] = "decode"]
      /\ sections' = Put(sections, pos, section[t], SectionCacheSize)
      /\ UNCHANGED <<req, off, buf, chunk, section, page, reply, cache, poisoned>>
  BY DEF PutSection, Goto, locals
<1>2. /\ SectionReadable(pos) /\ section[t] = ParsedSection[pos]
      /\ Lazy /\ pos # None /\ id \in Nat
  BY <1>0, <1>1, OwnChunk DEF ThreadInv, IInv
<1>3. pos \in DOMAIN Index /\ pos \in Nat /\ section[t] \in Seq(Chunk)
  <2>1. pos \in DOMAIN Index
    BY <1>2, SectionForRange
  <2>2. DOMAIN Index = 1..Len(Index)
    BY ReaderAssumption
  <2> QED BY <1>0, <2>1, <2>2 DEF LocalsOK
<1> DEFINE v == section[t]
<1> HIDE DEF pos, v
<1>4. /\ sections' \in Seq([key : Nat, val : Seq(Chunk)])
      /\ WellFormed(sections', SectionCacheSize)
      /\ \A i \in DOMAIN sections' :
           \/ sections'[i] = [key |-> pos, val |-> v]
           \/ \E j \in DOMAIN sections : sections'[i] = sections[j]
  <2>1. /\ sections \in Seq([key : Nat, val : Seq(Chunk)])
        /\ WellFormed(sections, SectionCacheSize)
        /\ SectionCacheSize \in Nat \ {0}
        /\ v \in Seq(Chunk)
        /\ sections' = Put(sections, pos, v, SectionCacheSize)
    BY <1>0, <1>1, <1>3, ReaderAssumption DEF SectionCacheOK, v
  <2> DEFINE E == [key : Nat, val : Seq(Chunk)]
  <2>2. [key |-> pos, val |-> v] \in E /\ sections \in Seq(E)
    BY <1>3, <2>1
  <2> HIDE DEF E
  <2>3. /\ Put(sections, pos, v, SectionCacheSize) \in Seq(E)
        /\ WellFormed(Put(sections, pos, v, SectionCacheSize), SectionCacheSize)
        /\ \A i \in DOMAIN Put(sections, pos, v, SectionCacheSize) :
             \/ Put(sections, pos, v, SectionCacheSize)[i] = [key |-> pos, val |-> v]
             \/ \E j \in DOMAIN sections :
                  Put(sections, pos, v, SectionCacheSize)[i] = sections[j]
    BY <2>1, <2>2, PutPreserves
  <2> QED BY <2>1, <2>3 DEF E
<1>5. SectionCacheCoherent'
  <2>1. v = ParsedSection[pos] /\ SectionReadable(pos) /\ pos \in DOMAIN Index
    BY <1>2, <1>3 DEF v
  <2> SUFFICES ASSUME NEW i \in DOMAIN sections'
               PROVE  /\ sections'[i].key \in DOMAIN Index
                      /\ SectionReadable(sections'[i].key)
                      /\ sections'[i].val = ParsedSection[sections'[i].key]
    BY DEF SectionCacheCoherent
  <2>2. CASE sections'[i] = [key |-> pos, val |-> v]
    BY <2>1, <2>2
  <2>3. CASE \E j \in DOMAIN sections : sections'[i] = sections[j]
    BY <1>0, <2>3 DEF SectionCacheOK, SectionCacheCoherent
  <2> QED BY <1>4, <2>2, <2>3
<1>6. SectionCacheOK'
  BY <1>4, <1>5 DEF SectionCacheOK
<1>7. LocalsOK'
  BY <1>0, <1>1 DEF LocalsOK
<1>8. /\ pc'[t] = "decode" /\ ChunkId(t)' = id /\ chunk'[t] = chunk[t]
      /\ req'[t] = req[t] /\ off'[t] = off[t] /\ buf'[t] = buf[t] /\ reply'[t] = reply[t]
  BY <1>0, <1>1 DEF LocalsOK, ChunkId
<1>9. ThreadInv(t)'
  BY <1>0, <1>1, <1>8 DEF ThreadInv
<1> QED BY <1>0, <1>1, <1>6, <1>7, <1>9, PageCacheFrame DEF Kept

LEMMA DecompressInv ==
  ASSUME IInv, NEW t \in Threads, Decompress(t)
  PROVE  Kept(t)
<1> DEFINE id == ChunkId(t)
<1>0. LocalsOK /\ PageCacheOK /\ SectionCacheOK /\ ThreadInv(t)
  BY IInvParts
<1>1. /\ pc[t] = "decode" /\ pc' = [pc EXCEPT ![t] = "put"]
      /\ Decompressed(chunk[t]).ok
      /\ page' = [page EXCEPT ![t] = Decompressed(chunk[t]).page]
      /\ UNCHANGED <<req, off, buf, chunk, section, reply, cache, sections, poisoned>>
  BY DEF Decompress, Goto
<1>2. id \in Nat /\ Located(id) = "ok" /\ chunk[t] = ChunkOf(id)
  BY <1>0, <1>1, OwnChunk DEF ThreadInv, IInv
<1>3. PageOf(id) \in Page /\ Decompressed(chunk[t]).page = PageOf(id) /\ Readable(id)
  BY <1>1, <1>2, LocatedChunk DEF PageOf, Readable
<1>4. LocalsOK'
  BY <1>0, <1>1, <1>3 DEF LocalsOK
<1>5. /\ pc'[t] = "put" /\ ChunkId(t)' = id /\ page'[t] = PageOf(id)
      /\ req'[t] = req[t] /\ off'[t] = off[t] /\ buf'[t] = buf[t] /\ reply'[t] = reply[t]
  BY <1>0, <1>1, <1>3 DEF LocalsOK, ChunkId
<1>6. ThreadInv(t)'
  BY <1>0, <1>1, <1>3, <1>5 DEF ThreadInv
<1> QED BY <1>0, <1>1, <1>4, <1>6, PageCacheFrame, SectionCacheFrame DEF Kept

\* The page inserted is the page of the chunk it is filed under, and that chunk
\* is readable.
LEMMA PutPageInv ==
  ASSUME IInv, NEW t \in Threads, PutPage(t)
  PROVE  Kept(t)
<1> DEFINE id == ChunkId(t)
           v == page[t]
<1>0. LocalsOK /\ PageCacheOK /\ SectionCacheOK /\ ThreadInv(t)
  BY IInvParts
<1>1. /\ pc[t] = "put" /\ pc' = [pc EXCEPT ![t] = "copy"]
      /\ cache' = Put(cache, id, v, CacheSize)
      /\ UNCHANGED <<req, off, buf, chunk, section, page, reply, sections, poisoned>>
  BY DEF PutPage, Goto, locals
<1>2. id \in Nat /\ Readable(id) /\ v = PageOf(id) /\ v \in Page
  BY <1>0, <1>1, OwnChunk DEF ThreadInv, IInv, LocalsOK
<1>3. LocalsOK'
  BY <1>0, <1>1 DEF LocalsOK
<1>4. /\ pc'[t] = "copy" /\ ChunkId(t)' = id /\ page'[t] = page[t]
      /\ req'[t] = req[t] /\ off'[t] = off[t] /\ buf'[t] = buf[t] /\ reply'[t] = reply[t]
  BY <1>0, <1>1 DEF LocalsOK, ChunkId
<1>5. ThreadInv(t)'
  BY <1>0, <1>1, <1>4 DEF ThreadInv
<1> HIDE DEF id, v
<1>6. /\ cache' \in Seq([key : Nat, val : Page])
      /\ WellFormed(cache', CacheSize)
      /\ \A i \in DOMAIN cache' :
           \/ cache'[i] = [key |-> id, val |-> v]
           \/ \E j \in DOMAIN cache : cache'[i] = cache[j]
  <2>1. /\ cache \in Seq([key : Nat, val : Page])
        /\ WellFormed(cache, CacheSize)
        /\ CacheSize \in Nat \ {0}
    BY <1>0, ReaderAssumption DEF PageCacheOK
  <2> DEFINE E == [key : Nat, val : Page]
  <2>2. [key |-> id, val |-> v] \in E /\ cache \in Seq(E)
    BY <1>2, <2>1
  <2> HIDE DEF E
  <2>3. /\ Put(cache, id, v, CacheSize) \in Seq(E)
        /\ WellFormed(Put(cache, id, v, CacheSize), CacheSize)
        /\ \A i \in DOMAIN Put(cache, id, v, CacheSize) :
             \/ Put(cache, id, v, CacheSize)[i] = [key |-> id, val |-> v]
             \/ \E j \in DOMAIN cache : Put(cache, id, v, CacheSize)[i] = cache[j]
    BY <2>1, <2>2, PutPreserves
  <2> QED BY <1>1, <2>3 DEF E
<1>7. PageCacheCoherent'
  <2> SUFFICES ASSUME NEW i \in DOMAIN cache'
               PROVE  Readable(cache'[i].key) /\ cache'[i].val = PageOf(cache'[i].key)
    BY DEF PageCacheCoherent
  <2>1. CASE cache'[i] = [key |-> id, val |-> v]
    BY <1>2, <2>1
  <2>2. CASE \E j \in DOMAIN cache : cache'[i] = cache[j]
    BY <1>0, <2>2 DEF PageCacheOK, PageCacheCoherent
  <2> QED BY <1>6, <2>1, <2>2
<1>8. PageCacheOK'
  BY <1>6, <1>7 DEF PageCacheOK
<1> QED BY <1>0, <1>1, <1>3, <1>5, <1>8, SectionCacheFrame DEF Kept

\* The bytes copied out of the page are the image's next bytes.
LEMMA CopyOutInv ==
  ASSUME IInv, NEW t \in Threads, CopyOut(t)
  PROVE  Kept(t)
<1> DEFINE id == ChunkId(t)
           b == buf[t]
           a == PageOffset(t)
           n == ToRead(t)
           p == page[t]
           r == req[t]
           c == b \o SubSeq(p, a + 1, a + n)
<1>0. LocalsOK /\ PageCacheOK /\ SectionCacheOK /\ ThreadInv(t) /\ TypeOK
  BY IInvParts DEF IInv
<1>1. /\ pc[t] = "copy" /\ pc' = [pc EXCEPT ![t] = "loop"]
      /\ buf' = [buf EXCEPT ![t] = c]
      /\ off' = [off EXCEPT ![t] = off[t] + n]
      /\ EndOfScope(t)
      /\ UNCHANGED <<req, reply, cache, sections, poisoned>>
  BY <1>0 DEF CopyOut, Goto, LocalsOK
<1>2. /\ off[t] = r.off + Len(b) /\ Len(b) < CoveredLen(r) /\ reply[t] = "none"
      /\ Readable(id) /\ p = PageOf(id)
      /\ \A i \in 1..Len(b) : /\ Readable((r.off + i - 1) \div ChunkSize)
                              /\ b[i] = ImageByte(r.off + i - 1)
  BY <1>0, <1>1 DEF ThreadInv
<1>3. /\ r \in [off : Nat, len : Nat] /\ b \in Seq(Byte) /\ p \in Page
      /\ off[t] \in Nat /\ Len(b) \in Nat /\ CoveredLen(r) \in Nat
  BY <1>0, CoveredLenType DEF LocalsOK
<1>4. n \in Nat /\ a \in Nat /\ a + n <= ChunkSize /\ Len(b) + n <= CoveredLen(r)
  BY <1>0, <1>2, <1>3, ToReadBounds
<1>5. /\ c \in Seq(Byte)
      /\ Len(c) = Len(b) + n
      /\ \A i \in 1..Len(b) : c[i] = b[i]
      /\ \A i \in 1..n : c[Len(b) + i] = p[a + i]
  <2>1. b \in Seq(Byte) /\ p \in Page /\ a \in Nat /\ n \in Nat /\ a + n <= ChunkSize
    BY <1>3, <1>4
  <2> HIDE DEF b, p, a, n
  <2> QED BY ONLY <2>1, AppendPage, Zenon
<1>6. ASSUME NEW i \in 1..n
      PROVE  /\ Readable((off[t] + (i - 1)) \div ChunkSize)
             /\ p[a + i] = ImageByte(off[t] + (i - 1))
  <2>1. /\ (off[t] + (i - 1)) \div ChunkSize = id
        /\ (off[t] + (i - 1)) % ChunkSize = a + (i - 1)
    <3>1. i - 1 \in Nat /\ i - 1 < ChunkSize - a
      BY <1>4, ReaderAssumption
    <3> QED BY <3>1, <1>3, SameChunk DEF ChunkId, PageOffset
  <2>2. a + (i - 1) + 1 = a + i
    BY <1>4
  <2> QED BY <1>2, <2>1, <2>2 DEF ImageByte
<1>7. LocalsOK'
  <2>1. /\ chunk' \in [Threads -> Chunk]
        /\ section' \in [Threads -> Seq(Chunk)]
        /\ page' \in [Threads -> Page]
    BY <1>0, <1>1, EndOfScopeTypes
  <2> HIDE DEF c, n
  <2>2. buf' \in [Threads -> Seq(Byte)] /\ off' \in [Threads -> Nat]
    BY <1>0, <1>1, <1>3, <1>4, <1>5 DEF LocalsOK
  <2> QED BY <1>0, <1>1, <2>1, <2>2 DEF LocalsOK
<1>8. /\ pc'[t] = "loop" /\ buf'[t] = c /\ off'[t] = off[t] + n
      /\ req'[t] = r /\ reply'[t] = "none"
  BY <1>0, <1>1, <1>2 DEF LocalsOK
<1> HIDE DEF id, b, a, n, p, r, c
<1>9. ASSUME NEW i \in 1..Len(c)
      PROVE  /\ Readable((r.off + i - 1) \div ChunkSize)
             /\ c[i] = ImageByte(r.off + i - 1)
  <2>1. CASE i <= Len(b)
    BY <1>2, <1>3, <1>5, <2>1
  <2>2. CASE i > Len(b)
    <3>1. /\ i - Len(b) \in 1..n
          /\ Len(b) + (i - Len(b)) = i
          /\ off[t] + ((i - Len(b)) - 1) = r.off + i - 1
      BY <1>2, <1>3, <1>4, <1>5, <2>2
    <3> QED BY <1>5, <1>6, <3>1
  <2> QED BY <1>3, <2>1, <2>2
<1>10. ThreadInv(t)'
  <2>1. r.off + Len(b) + n = r.off + Len(c) /\ Len(c) <= CoveredLen(r)
    BY <1>3, <1>4, <1>5
  <2> QED BY <1>2, <1>8, <1>9, <2>1 DEF ThreadInv
<1> QED BY <1>0, <1>1, <1>7, <1>10, PageCacheFrame, SectionCacheFrame DEF Kept

----------------------------------------------------------------------------
(* The theorems.                                                           *)

LEMMA InitInv == ASSUME Init PROVE IInv
<1>1. TypeOK
  <2> DEFINE c == NewChunk(0, FALSE, 0, 0)
             p == Padded(<<>>)
  <2>1. /\ chunk = [t \in Threads |-> c]
        /\ page = [t \in Threads |-> p]
        /\ c \in Chunk /\ p \in Page
    BY ScopeTypes DEF Init
  <2> HIDE DEF c, p
  <2>2. chunk \in [Threads -> Chunk] /\ page \in [Threads -> Page]
    BY <2>1
  <2>3. /\ pc \in [Threads -> {"idle", "loop", "probe", "lookup", "load", "cache_section",
                               "decode", "put", "copy"}]
        /\ req \in [Threads -> [off : Nat, len : Nat]]
        /\ off \in [Threads -> Nat]
        /\ reply \in [Threads -> {"none", "ok", "err", "panic"}]
        /\ poisoned \in BOOLEAN
    BY DEF Init
  <2>4. buf \in [Threads -> Seq(Byte)] /\ section \in [Threads -> Seq(Chunk)]
    BY DEF Init
  <2>5. /\ cache \in Seq([key : Nat, val : Page])
        /\ sections \in Seq([key : Nat, val : Seq(Chunk)])
    BY DEF Init
  <2> QED BY <2>2, <2>3, <2>4, <2>5 DEF TypeOK
<1>2. CachesBounded /\ PageCacheCoherent /\ SectionCacheCoherent
  BY ReaderAssumption DEF Init, CachesBounded, PageCacheCoherent, SectionCacheCoherent,
                          WellFormed
<1>3. \A t \in Threads : ThreadInv(t)
  BY DEF Init, ThreadInv
<1> QED BY <1>1, <1>2, <1>3 DEF IInv

LEMMA StepInv ==
  ASSUME IInv, NEW t \in Threads, Step(t) \/ \E r \in Requests : Call(t, r)
  PROVE  IInv'
<1>1. Kept(t)
  BY CallInv, LoopEndInv, MoveOnInv, FailInv, CacheHitInv, LocateInv, LoadSectionInv,
     PutSectionInv, DecompressInv, PutPageInv, CopyOutInv DEF Step
<1>2. ASSUME NEW u \in Threads PROVE ThreadInv(u)'
  <2>1. CASE u = t
    BY <1>1, <2>1 DEF Kept
  <2>2. CASE u # t
    BY <2>2, OtherThreads, ThreadFrame DEF IInv
  <2> QED BY <2>1, <2>2
<1> QED BY <1>1, <1>2, IInvParts DEF Kept, IInv, TypeOK, CachesBounded, LocalsOK,
                                     PageCacheOK, SectionCacheOK

LEMMA StutterInv == ASSUME IInv, UNCHANGED vars PROVE IInv'
<1>1. LocalsOK /\ PageCacheOK /\ SectionCacheOK /\ \A t \in Threads : ThreadInv(t)
  BY IInvParts
<1>2. LocalsOK'
  BY <1>1 DEF vars, locals, LocalsOK
<1>3. PageCacheOK' /\ SectionCacheOK'
  BY <1>1, PageCacheFrame, SectionCacheFrame DEF vars
<1>4. \A t \in Threads : ThreadInv(t)'
  BY <1>1, ThreadFrame DEF vars, locals, SameLocals
<1> QED BY <1>2, <1>3, <1>4 DEF IInv, TypeOK, CachesBounded, LocalsOK, PageCacheOK,
                                SectionCacheOK

\* The inductive invariant holds in every reachable state of the read path: at
\* each point of read_at what a thread holds is what the table and the segments
\* say of the chunk it is at.
THEOREM Inductive == SafetySpec => []IInv
<1>1. IInv /\ [Next]_vars => IInv'
  BY StepInv, StutterInv DEF Next
<1> QED BY <1>1, InitInv, PTL DEF SafetySpec

\* The state of the reader keeps its type, for every image and any number of
\* threads.
THEOREM TypeCorrect == SafetySpec => []TypeOK
<1>1. IInv => TypeOK
  BY DEF IInv
<1> QED BY <1>1, Inductive, PTL

\* Both LRUs stay within their capacities with no key twice.
THEOREM CachesStayBounded == SafetySpec => []CachesBounded
<1>1. IInv => CachesBounded
  BY DEF IInv
<1> QED BY <1>1, Inductive, PTL

\* A cached page is the page of the chunk it is filed under (read_chunk).
THEOREM PagesCoherent == SafetySpec => []PageCacheCoherent
<1>1. IInv => PageCacheCoherent
  BY DEF IInv
<1> QED BY <1>1, Inductive, PTL

\* A cached table section is the parse of the section it is filed under, also
\* after a panic with the lock held (LazyChunkTable::get).
THEOREM SectionsCoherent == SafetySpec => []SectionCacheCoherent
<1>1. IInv => SectionCacheCoherent
  BY DEF IInv
<1> QED BY <1>1, Inductive, PTL

\* Every Ok of read_at carries exactly the image's bytes of its range.
THEOREM ReadsExact == SafetySpec => []ReadIsExact
<1>1. IInv => ReadIsExact
  BY DEF IInv, ThreadInv, ReadIsExact
<1> QED BY <1>1, Inductive, PTL

\* Every failure of read_at has a reason inside the call's own range.
THEOREM FailuresOwn == SafetySpec => []FailureIsOwn
<1>1. IInv => FailureIsOwn
  BY DEF IInv, ThreadInv, FailureIsOwn
<1> QED BY <1>1, Inductive, PTL

----------------------------------------------------------------------------
(* The read path implements ImageSource.                                   *)

Pending == [t \in Threads |-> pc[t] # "idle"]
Data == [t \in Threads |-> IF pc[t] = "idle" /\ reply[t] = "ok" THEN buf[t] ELSE <<>>]

\* A step inside the call is invisible to the caller.
LEMMA InnerStutters ==
  ASSUME IInv, NEW t \in Threads, pc[t] # "idle", pc'[t] # "idle",
         \A u \in Threads \ {t} : SameLocals(u),
         UNCHANGED <<req, reply>>
  PROVE  UNCHANGED Abstract!vars
<1>1. Pending' = Pending
  BY DEF Pending, SameLocals
<1>2. Data' = Data
  BY DEF Data, SameLocals
<1> QED BY <1>1, <1>2 DEF Abstract!vars, Pending, Data

LEMMA CallBegins ==
  ASSUME IInv, NEW t \in Threads, NEW r \in Requests, Call(t, r)
  PROVE  Abstract!Begin(t, r)
<1>1. LocalsOK
  BY IInvParts
<1>2. pc[t] = "idle" /\ pc' = [pc EXCEPT ![t] = "loop"]
      /\ req' = [req EXCEPT ![t] = r] /\ reply' = [reply EXCEPT ![t] = "none"]
      /\ buf' = [buf EXCEPT ![t] = <<>>]
  BY DEF Call, Goto
<1>3. Pending' = [Pending EXCEPT ![t] = TRUE] /\ ~Pending[t]
  BY <1>1, <1>2 DEF Pending, LocalsOK
<1>4. Data' = [Data EXCEPT ![t] = <<>>]
  BY <1>1, <1>2 DEF Data, LocalsOK
<1> QED BY <1>2, <1>3, <1>4 DEF Abstract!Begin, Pending, Data

LEMMA ReturnFinishes ==
  ASSUME IInv, IInv', NEW t \in Threads, NEW from, from # "idle",
         NEW how \in {"ok", "err", "panic"}, Return(t, from, how)
  PROVE  Abstract!Finish(t)
<1>1. LocalsOK
  BY IInvParts
<1>2. /\ pc[t] # "idle" /\ pc' = [pc EXCEPT ![t] = "idle"]
      /\ reply' = [reply EXCEPT ![t] = how] /\ UNCHANGED <<req, buf>>
  BY DEF Return, Goto
<1>3. pc'[t] = "idle" /\ reply'[t] = how /\ req'[t] = req[t] /\ buf'[t] = buf[t]
  BY <1>1, <1>2 DEF LocalsOK
<1>4. Pending[t] /\ Pending' = [Pending EXCEPT ![t] = FALSE]
  BY <1>1, <1>2 DEF Pending, LocalsOK
<1>5. Data' = [Data EXCEPT ![t] = IF how = "ok" THEN buf[t] ELSE <<>>]
  BY <1>1, <1>2 DEF Data, LocalsOK
<1>6. ThreadInv(t)'
  BY DEF IInv
<1>7. CASE how = "ok"
  <2>1. buf[t] = ImageBytes(req[t]) /\ \A id \in CoveredChunks(req[t]) : Readable(id)
    BY <1>3, <1>6, <1>7 DEF ThreadInv
  <2> QED BY <1>2, <1>4, <1>5, <1>7, <2>1 DEF Abstract!Finish, Abstract!Answer, Pending, Data
<1>8. CASE how \in {"err", "panic"}
  <2>1. (IoErrors /\ how = "err") \/ \E id \in CoveredChunks(req[t]) : ~Readable(id)
    BY <1>3, <1>6, <1>8 DEF ThreadInv
  <2>2. Data' = Data
    BY <1>2, <1>5, <1>8 DEF Data
  <2>3. Abstract!Fail(t, how)
    BY <1>2, <1>4, <2>1, <2>2 DEF Abstract!Fail, Pending, Data
  <2> QED BY <1>8, <2>3 DEF Abstract!Finish
<1> QED BY <1>7, <1>8

LEMMA StepSimulates ==
  ASSUME IInv, IInv', NEW t \in Threads, Step(t)
  PROVE  Abstract!Finish(t) \/ UNCHANGED Abstract!vars
<1>1. \A u \in Threads \ {t} : SameLocals(u)
  BY OtherThreads DEF IInv
<1>2. ASSUME pc[t] # "idle", pc'[t] # "idle", UNCHANGED <<req, reply>>
      PROVE  UNCHANGED Abstract!vars
  BY <1>1, <1>2, InnerStutters
<1>3. CASE LoopEnd(t) \/ OutOfRange(t) \/ SectionHitPanics(t) \/ LoadFails(t)
           \/ LoadPanics(t) \/ DecompressFails(t) \/ IoError(t)
  BY <1>3, ReturnFinishes DEF LoopEnd, OutOfRange, SectionHitPanics, LoadFails,
                              LoadPanics, DecompressFails, IoError
<1>4. CASE LoopBody(t) \/ CacheMiss(t) \/ SectionMiss(t) \/ PutSection(t) \/ PutPage(t)
  BY <1>2, <1>4 DEF LoopBody, CacheMiss, SectionMiss, PutSection, PutPage, Goto, locals,
                    IInv, TypeOK
<1>5. CASE CacheHit(t) \/ EagerGet(t) \/ SectionHit(t) \/ LoadSection(t) \/ Decompress(t)
           \/ CopyOut(t)
  BY <1>2, <1>5 DEF CacheHit, EagerGet, SectionHit, LoadSection, Decompress, CopyOut, Goto,
                    IInv, TypeOK
<1> QED BY <1>3, <1>4, <1>5 DEF Step

\* The whole cached, lazily indexed, multi-threaded read path behaves as a fixed
\* array of bytes answering each call in one step: nothing a caller sees tells
\* the two apart.
THEOREM ImplementsImageSource == SafetySpec => Refinement
<1>1. Init => Abstract!Init
  <2> SUFFICES ASSUME Init PROVE Abstract!Init
    OBVIOUS
  <2>1. Pending = [t \in Threads |-> FALSE] /\ Data = [t \in Threads |-> <<>>]
    BY DEF Init, Pending, Data
  <2> QED BY <2>1 DEF Init, Abstract!Init, Pending, Data
<1>2. IInv /\ IInv' /\ [Next]_vars => [Abstract!Next]_(Abstract!vars)
  <2> SUFFICES ASSUME IInv, IInv', [Next]_vars
               PROVE  Abstract!Next \/ UNCHANGED Abstract!vars
    OBVIOUS
  <2>1. CASE UNCHANGED vars
    BY <2>1 DEF vars, locals, Abstract!vars
  <2>2. ASSUME NEW t \in Threads, Step(t)
        PROVE  Abstract!Next \/ UNCHANGED Abstract!vars
    BY <2>2, StepSimulates DEF Abstract!Next
  <2>3. ASSUME NEW t \in Threads, NEW r \in Requests, Call(t, r)
        PROVE  Abstract!Next
    BY <2>3, CallBegins DEF Abstract!Next
  <2> QED BY <2>1, <2>2, <2>3 DEF Next
<1> QED BY <1>1, <1>2, Inductive, PTL DEF SafetySpec, Refinement, Abstract!SafetySpec
=============================================================================
