---------------------------- MODULE VerifyProofs ----------------------------
(***************************************************************************)
(* Verify's safety properties for every image, pool and batch size.        *)
(***************************************************************************)
EXTENDS Verify, FiniteSetTheorems, TLAPS

\* Byte j of the n-th chunk in the stream.
LEMMA ByteOfChunk ==
  ASSUME NEW n \in Nat, NEW j \in Nat, j < ChunkSize
  PROVE  /\ (n * ChunkSize + j) \div ChunkSize = n
         /\ (n * ChunkSize + j) % ChunkSize = j
<1>1. ASSUME NEW C \in Nat \ {0}, j < C
      PROVE  (n * C + j) \div C = n /\ (n * C + j) % C = j
  BY <1>1, SMT
<1> QED BY <1>1, VerifyAssumption

LEMMA Products ==
  ASSUME NEW n \in Nat
  PROVE  /\ n * ChunkSize \in Nat
         /\ (n + 1) * ChunkSize = n * ChunkSize + ChunkSize
<1>1. ASSUME NEW C \in Nat PROVE n * C \in Nat /\ (n + 1) * C = n * C + C
  BY SMT
<1> QED BY <1>1, VerifyAssumption

LEMMA Appended ==
  ASSUME NEW S, NEW s \in Seq(S), NEW p \in Seq(S)
  PROVE  /\ s \o p \in Seq(S)
         /\ Len(s \o p) = Len(s) + Len(p)
         /\ \A i \in 1..Len(s) : (s \o p)[i] = s[i]
         /\ \A i \in 1..Len(p) : (s \o p)[Len(s) + i] = p[i]
OBVIOUS

LEMMA EndBounds ==
  ASSUME IInv
  PROVE  /\ start \in Nat /\ NumChunks \in Nat /\ Batch \in Nat \ {0}
         /\ TotalSize \in Nat /\ Broken \subseteq Chunks
         /\ End \in Nat /\ End <= NumChunks
         /\ start < NumChunks => start < End
         /\ End <= start + Batch
         /\ InBatch \subseteq Chunks
BY VerifyAssumption DEF IInv, TypeOK, End, InBatch, Chunks, TotalSize, Broken

\* Init.
LEMMA InitInv == Init => IInv
<1> SUFFICES ASSUME Init PROVE IInv
  OBVIOUS
<1> USE VerifyAssumption
<1>1. TotalSize \in Nat
  BY DEF Init, TotalSize
<1>2. TypeOK
  BY <1>1 DEF Init, TypeOK, Chunks
<1>3. HashedInOrder
  BY DEF Init, HashedInOrder
<1>4. Fed * ChunkSize = 0
  BY DEF Init, Fed
<1>5. DOMAIN pages = {} /\ running = {}
  BY DEF Init
<1>6. /\ pc = "batch" => start < NumChunks
      /\ pc = "finish" => start = NumChunks
      /\ pc \in {"batch", "finish"}
  BY DEF Init
<1>7. hashed = IF Fed * ChunkSize < TotalSize THEN Fed * ChunkSize ELSE TotalSize
  BY <1>1, <1>4 DEF Init
<1>8. \A c \in Chunks : c < start => c \notin Broken
  BY DEF Init, Chunks
<1>9. image \in Images
  BY DEF Init
<1> QED BY <1>2, <1>3, <1>5, <1>6, <1>7, <1>8, <1>9 DEF IInv

\* What a step on the pool's side leaves alone.
LEMMA PoolFrame ==
  ASSUME IInv, UNCHANGED <<image, start, next, stream, hashed, result>>,
         pc = "batch", pc' = "batch"
  PROVE  /\ TotalSize' = TotalSize /\ Broken' = Broken /\ End' = End /\ InBatch' = InBatch
         /\ HashedInOrder' /\ Fed' = Fed
         /\ \A c \in Chunks : c < start' => c \notin Broken'
BY DEF IInv, TotalSize, Broken, End, InBatch, HashedInOrder, Fed

LEMMA TakeInv == ASSUME IInv, NEW c \in Chunks, Take(c) PROVE IInv'
<1>1. UNCHANGED <<image, start, next, stream, hashed, result>> /\ pc = "batch" /\ pc' = "batch"
  BY DEF Take
<1>2. TypeOK'
  BY PoolFrame, <1>1 DEF IInv, TypeOK, Take
<1> QED BY <1>1, <1>2, PoolFrame DEF IInv, Take

LEMMA DecompressedInv == ASSUME IInv, NEW c \in Chunks, Decompressed(c) PROVE IInv'
<1>1. UNCHANGED <<image, start, next, stream, hashed, result>> /\ pc = "batch" /\ pc' = "batch"
  BY DEF Decompressed
<1>2. Page(c) \in Seq(Byte)
  BY VerifyAssumption
<1>3. /\ DOMAIN pages' = DOMAIN pages \union {c}
      /\ \A d \in DOMAIN pages' : pages'[d] = IF d = c THEN Page(c) ELSE pages[d]
  BY DEF Decompressed
<1>4. pages' \in [DOMAIN pages' -> Seq(Byte)]
  BY <1>2 DEF Decompressed, IInv, TypeOK
<1>5. TypeOK'
  BY PoolFrame, <1>1, <1>3, <1>4 DEF IInv, TypeOK, Decompressed
<1>6. \A d \in DOMAIN pages' : d \notin Broken' /\ pages'[d] = Page(d)
  BY <1>1, <1>3, PoolFrame DEF IInv, Decompressed
<1> QED BY <1>1, <1>3, <1>5, <1>6, PoolFrame DEF IInv, Decompressed

LEMMA CorruptInv == ASSUME IInv, NEW c \in Chunks, Corrupt(c) PROVE IInv'
<1>1. UNCHANGED <<image, start, next, stream, hashed, result>> /\ pc = "batch" /\ pc' = "batch"
  BY DEF Corrupt
<1>2. TypeOK'
  BY PoolFrame, <1>1 DEF IInv, TypeOK, Corrupt
<1> QED BY <1>1, <1>2, PoolFrame DEF IInv, Corrupt

LEMMA AbortInv == ASSUME IInv, Abort PROVE IInv'
<1>1. TypeOK'
  BY DEF IInv, TypeOK, Abort, TotalSize, Broken
<1> QED BY <1>1 DEF IInv, Abort, TotalSize, Broken, End, InBatch, HashedInOrder, Fed

LEMMA CollectInv == ASSUME IInv, Collect PROVE IInv'
<1>1. start \in 0..NumChunks /\ start < NumChunks
  BY DEF IInv, TypeOK, Collect
<1>2. TypeOK'
  BY <1>1 DEF IInv, TypeOK, Collect, TotalSize, Broken
<1>3. running = {}
  BY DEF IInv, Collect
<1> QED BY <1>1, <1>2, <1>3, EndBounds
        DEF IInv, Collect, TotalSize, Broken, End, InBatch, HashedInOrder, Fed

\* One page more in the stream: the bytes of the chunk after those already fed, up
\* to the media's end.
LEMMA HashPageInv == ASSUME IInv, HashPage PROVE IInv'
<1> DEFINE n == next
           P == Page(n)
           t == IF ChunkSize < Remaining THEN ChunkSize ELSE Remaining
<1>1. /\ n \in Nat /\ n \in Chunks /\ n \in DOMAIN pages
      /\ pages[n] = P /\ P \in Seq(Byte) /\ Len(P) = ChunkSize
  <2>1. /\ pc = "hash" /\ next < End /\ start <= next /\ DOMAIN pages = InBatch
        /\ next \in 0..NumChunks /\ \A c \in DOMAIN pages : pages[c] = Page(c)
    BY DEF IInv, HashPage, TypeOK
  <2>2. /\ NumChunks \in Nat /\ End \in Nat /\ End <= NumChunks /\ start \in Nat
        /\ InBatch \subseteq Chunks
    BY EndBounds
  <2>3. n \in Nat /\ n \in InBatch
    BY <2>1, <2>2 DEF InBatch
  <2>4. n \in DOMAIN pages /\ pages[n] = P /\ n \in Chunks
    BY <2>1, <2>2, <2>3, Zenon
  <2> QED BY <2>3, <2>4, VerifyAssumption
<1>2. /\ ChunkSize \in Nat \ {0} /\ TotalSize \in Nat
      /\ n * ChunkSize \in Nat
      /\ (n + 1) * ChunkSize = n * ChunkSize + ChunkSize
  BY <1>1, Products, EndBounds, VerifyAssumption
<1>3. /\ hashed = IF n * ChunkSize < TotalSize THEN n * ChunkSize ELSE TotalSize
      /\ hashed = Len(stream) /\ stream \in Seq(Byte)
  BY DEF IInv, HashPage, Fed, HashedInOrder, TypeOK
<1>4. /\ t \in Nat /\ t <= ChunkSize
      /\ t > 0 => hashed = n * ChunkSize
      /\ hashed + t = IF (n + 1) * ChunkSize < TotalSize THEN (n + 1) * ChunkSize ELSE TotalSize
  BY <1>2, <1>3 DEF Remaining
<1>5. /\ Trim(pages[next]) = SubSeq(P, 1, t)
      /\ SubSeq(P, 1, t) \in Seq(Byte) /\ Len(SubSeq(P, 1, t)) = t
      /\ \A i \in 1..t : SubSeq(P, 1, t)[i] = P[i]
  <2>1. Trim(pages[next]) = SubSeq(P, 1, t)
    BY <1>1 DEF Trim
  <2> HIDE DEF t, P
  <2> QED BY <1>1, <1>2, <1>4, <2>1
<1>6. /\ stream' \in Seq(Byte) /\ Len(stream') = Len(stream) + t /\ hashed' = hashed + t
      /\ \A i \in 1..Len(stream) : stream'[i] = stream[i]
      /\ \A i \in 1..t : stream'[Len(stream) + i] = P[i]
  <2>1. stream' = stream \o SubSeq(P, 1, t) /\ hashed' = hashed + Len(SubSeq(P, 1, t))
    BY <1>5 DEF HashPage
  <2> DEFINE Q == SubSeq(P, 1, t)
  <2>2. Q \in Seq(Byte) /\ Len(Q) = t /\ \A i \in 1..t : Q[i] = P[i]
    BY <1>5
  <2>3. stream' = stream \o Q /\ hashed' = hashed + Len(Q)
    BY <2>1
  <2> HIDE DEF Q, t, P
  <2>4. /\ stream' \in Seq(Byte) /\ Len(stream') = Len(stream) + Len(Q)
        /\ \A i \in 1..Len(stream) : stream'[i] = stream[i]
        /\ \A i \in 1..Len(Q) : stream'[Len(stream) + i] = Q[i]
    <3> DEFINE R == stream \o Q
    <3>1. /\ R \in Seq(Byte) /\ Len(R) = Len(stream) + Len(Q)
          /\ \A i \in 1..Len(stream) : R[i] = stream[i]
          /\ \A i \in 1..Len(Q) : R[Len(stream) + i] = Q[i]
      <4>1. stream \in Seq(Byte) /\ Q \in Seq(Byte)
        BY <1>3, <2>2
      <4> QED BY <4>1, Appended
    <3>2. stream' = R
      BY <2>3
    <3> HIDE DEF R
    <3> QED BY <3>1, <3>2
  <2>5. hashed' = hashed + t /\ Len(stream') = Len(stream) + t
    BY <2>2, <2>3, <2>4
  <2>6. \A i \in 1..t : stream'[Len(stream) + i] = P[i]
    BY <2>2, <2>4
  <2> QED BY <2>4, <2>5, <2>6
<1>7. HashedInOrder'
  <2>1. hashed' = Len(stream')
    BY <1>3, <1>6
  <2>2. ASSUME NEW k \in 0..Len(stream') - 1
        PROVE  stream'[k + 1] = Page(k \div ChunkSize)[(k % ChunkSize) + 1]
    <3>1. CASE k < Len(stream)
      BY <3>1, <1>3, <1>6 DEF IInv, HashedInOrder
    <3>2. CASE k >= Len(stream)
      <4> DEFINE j == k - Len(stream)
      <4>1. j \in Nat /\ j < t /\ j < ChunkSize /\ k = n * ChunkSize + j
        <5> DEFINE N == n * ChunkSize
        <5>1. /\ N \in Nat /\ ChunkSize \in Nat /\ t \in Nat /\ t <= ChunkSize
              /\ Len(stream) \in Nat /\ Len(stream') = Len(stream) + t
              /\ t > 0 => Len(stream) = N
          BY <1>2, <1>3, <1>4, <1>6
        <5> HIDE DEF N, t
        <5>2. j \in Nat /\ j < t /\ j < ChunkSize /\ k = N + j
          BY <5>1, <3>2
        <5> QED BY <5>2 DEF N
      <4>2. k \div ChunkSize = n /\ k % ChunkSize = j
        BY <4>1, <1>1, ByteOfChunk
      <4>3. stream'[k + 1] = P[j + 1]
        <5>1. j + 1 \in 1..t /\ k + 1 = Len(stream) + (j + 1)
          BY <4>1, <1>3, <1>4
        <5> HIDE DEF j, t, P
        <5> QED BY <5>1, <1>6
      <4> QED BY <4>2, <4>3
    <3> QED BY <3>1, <3>2, <1>3
  <2> QED BY <2>1, <2>2 DEF HashedInOrder
<1>8. hashed' = IF Fed' * ChunkSize < TotalSize' THEN Fed' * ChunkSize ELSE TotalSize'
  BY <1>4, <1>6 DEF HashPage, Fed, TotalSize
<1>9. hashed' \in 0..TotalSize'
  <2>1. TotalSize' = TotalSize
    BY DEF HashPage, TotalSize
  <2>2. PICK a \in Nat, b \in Nat :
          a = TotalSize /\ b = n * ChunkSize + ChunkSize /\ b = (n + 1) * ChunkSize
    BY <1>2
  <2>3. hashed' = IF b < a THEN b ELSE a
    BY <1>4, <1>6, <2>2, Zenon
  <2>4. hashed' \in 0..a
    BY ONLY <2>2, <2>3
  <2> QED BY <2>1, <2>2, <2>4
<1>10. next' \in 0..NumChunks /\ start' <= next' /\ next' <= End'
  <2>1. /\ next' = next + 1 /\ start' = start /\ End' = End /\ next < End /\ start <= next
    BY DEF IInv, HashPage, End
  <2>2. NumChunks \in Nat /\ End \in Nat /\ End <= NumChunks /\ start \in Nat /\ next \in Nat
    BY <1>1, EndBounds
  <2> HIDE DEF n, P, t
  <2> QED BY <2>1, <2>2
<1>11. TypeOK'
  BY <1>6, <1>9, <1>10 DEF IInv, TypeOK, HashPage, Broken
<1> QED BY <1>7, <1>8, <1>10, <1>11
        DEF IInv, HashPage, Broken, End, InBatch, TotalSize

LEMMA NextBatchInv == ASSUME IInv, NextBatch PROVE IInv'
<1>1. start' = End /\ End \in 0..NumChunks /\ next = End /\ start < NumChunks
  BY EndBounds DEF IInv, NextBatch
<1>2. DOMAIN pages' = {} /\ running' = {}
  BY DEF IInv, NextBatch
<1>3. \A c \in Chunks : c < start' => c \notin Broken'
  BY <1>1, EndBounds DEF IInv, NextBatch, Chunks, InBatch, Broken, TypeOK
<1>4. pages' \in [DOMAIN pages' -> Seq(Byte)]
  BY <1>2 DEF NextBatch
<1>5. TypeOK'
  BY <1>1, <1>2, <1>4 DEF IInv, TypeOK, NextBatch, Broken, TotalSize
<1>6. /\ pc' = "batch" => start' < NumChunks
      /\ pc' = "finish" => start' = NumChunks
      /\ pc' \in {"batch", "finish"}
  BY <1>1, VerifyAssumption DEF NextBatch
<1>7. Fed' = Fed /\ TotalSize' = TotalSize /\ HashedInOrder'
  BY <1>1, <1>6 DEF IInv, NextBatch, Fed, TotalSize, HashedInOrder
<1>8. hashed' = IF Fed' * ChunkSize < TotalSize' THEN Fed' * ChunkSize ELSE TotalSize'
  BY <1>7 DEF IInv, NextBatch
<1>9. image' \in Images
  BY DEF IInv, NextBatch
<1> QED BY <1>2, <1>3, <1>5, <1>6, <1>7, <1>8, <1>9 DEF IInv

LEMMA FinishInv == ASSUME IInv, Finish PROVE IInv'
<1>1. TypeOK'
  BY DEF IInv, TypeOK, Finish, TotalSize, Broken
<1>2. result'.addressable = ChunkSize * NumChunks /\ result'.declared = TotalSize'
  BY DEF Finish, TotalSize
<1> QED BY <1>1, <1>2
        DEF IInv, Finish, TotalSize, Broken, End, InBatch, HashedInOrder, Fed

LEMMA StutterInv == ASSUME IInv, UNCHANGED vars PROVE IInv'
<1>1. TypeOK'
  BY DEF IInv, vars, TypeOK, TotalSize, Broken
<1> QED BY <1>1 DEF IInv, vars, TotalSize, Broken, End, InBatch, HashedInOrder, Fed

\* The invariant of verify: however the pool's threads interleave, between any two
\* steps the hashers hold the image's bytes up to a chunk boundary or its end.
THEOREM Inductive == SafetySpec => []IInv
<1>1. ASSUME IInv, [Next]_vars PROVE IInv'
  <2>1. CASE \E c \in Chunks : Take(c) \/ Decompressed(c) \/ Corrupt(c)
    BY <1>1, <2>1, TakeInv, DecompressedInv, CorruptInv
  <2>2. CASE Abort \/ Collect \/ HashPage \/ NextBatch \/ Finish
    BY <1>1, <2>2, AbortInv, CollectInv, HashPageInv, NextBatchInv, FinishInv
  <2>3. CASE UNCHANGED vars
    BY <1>1, <2>3, StutterInv
  <2> QED BY <1>1, <2>1, <2>2, <2>3 DEF Next
<1> QED BY InitInv, <1>1, PTL DEF SafetySpec

\* Type correctness; `hashed` never passes the media size.
THEOREM TypeCorrect == SafetySpec => []TypeOK
<1>1. IInv => TypeOK
  BY DEF IInv
<1> QED BY <1>1, Inductive, PTL

\* The hashers are fed the image's bytes in order, whatever order the threads
\* finish in.
THEOREM HashesInOrder == SafetySpec => []HashedInOrder
<1>1. IInv => HashedInOrder
  BY DEF IInv
<1> QED BY <1>1, Inductive, PTL

\* A digest is reported only when every chunk decompressed, an error only when one
\* did not.
THEOREM ReportsErrors == SafetySpec => []ErrorsReported
<1>1. IInv => ErrorsReported
  <2> SUFFICES ASSUME IInv PROVE ErrorsReported
    OBVIOUS
  <2>1. ASSUME pc \in {"finish", "done"} PROVE Broken = {}
    BY <2>1, EndBounds DEF IInv, Chunks
  <2>2. ASSUME pc = "failed" PROVE Broken # {}
    BY <2>2 DEF IInv, TypeOK
  <2> QED BY <2>1, <2>2 DEF ErrorsReported
<1> QED BY <1>1, Inductive, PTL

\* is_complete and missing_bytes tell exactly what the digest covers.
THEOREM SoundVerdict == SafetySpec => []VerdictSound
<1>1. IInv => VerdictSound
  <2> SUFFICES ASSUME IInv, pc = "done" PROVE
        /\ IsComplete(result) <=> Len(stream) = TotalSize
        /\ MissingBytes(result) = TotalSize - Len(stream)
    BY DEF VerdictSound
  <2> DEFINE A == ChunkSize * NumChunks
  <2>1. Fed * ChunkSize = A /\ A \in Nat
    <3>1. Fed = NumChunks
      BY DEF IInv, Fed
    <3>2. ASSUME NEW x \in Nat, NEW y \in Nat PROVE x * y = y * x /\ x * y \in Nat
      BY SMT
    <3> QED BY <3>1, <3>2, VerifyAssumption
  <2>2. /\ Len(stream) = IF A < TotalSize THEN A ELSE TotalSize
        /\ result.addressable = A /\ result.declared = TotalSize
        /\ TotalSize \in Nat
    BY <2>1, EndBounds DEF IInv, HashedInOrder
  <2> HIDE DEF A
  <2> QED BY <2>1, <2>2 DEF IsComplete, MissingBytes
<1> QED BY <1>1, Inductive, PTL

\* Never more than one batch of pages is held.
THEOREM HoldsOneBatch == SafetySpec => []OneBatchHeld
<1>1. IInv => OneBatchHeld
  <2> SUFFICES ASSUME IInv PROVE OneBatchHeld
    OBVIOUS
  <2> DEFINE held == DOMAIN pages \union running
  <2>1. start \in Nat /\ End \in Nat /\ End - 1 \in Int /\ End <= start + Batch /\ Batch \in Nat \ {0}
    BY EndBounds
  <2>2. /\ IsFiniteSet(start..End - 1)
        /\ Cardinality(start..End - 1) = IF start > End - 1 THEN 0 ELSE (End - 1) - start + 1
    BY <2>1, FS_Interval
  <2>3. held \subseteq start..End - 1
    BY DEF IInv, InBatch
  <2>4. Cardinality(held) <= Cardinality(start..End - 1) /\ Cardinality(held) \in Nat
    BY <2>2, <2>3, FS_Subset, FS_CardinalityType
  <2> DEFINE h == Cardinality(held)
             b == Cardinality(start..End - 1)
  <2>5. b <= Batch /\ b \in Nat
    <3>1. b = IF start > End - 1 THEN 0 ELSE (End - 1) - start + 1
      BY <2>2
    <3> HIDE DEF b
    <3> QED BY <3>1, <2>1
  <2>6. h <= Batch
    <3>1. h \in Nat /\ b \in Nat /\ h <= b /\ b <= Batch /\ Batch \in Nat
      BY <2>1, <2>4, <2>5
    <3> HIDE DEF h, b
    <3> QED BY <3>1
  <2>7. OneBatchHeld <=> h <= Batch
    BY DEF OneBatchHeld
  <2> HIDE DEF h
  <2> QED BY <2>6, <2>7
<1> QED BY <1>1, Inductive, PTL
=============================================================================
