------------------------------- MODULE Verify -------------------------------
(***************************************************************************)
(* EwfReader::verify (core/src/reader.rs): the image is hashed batch by    *)
(* batch.  The chunks of a batch are decompressed by the threads of a pool *)
(* in any order; once all are there, they are hashed in chunk order.       *)
(*                                                                         *)
(* decompress_chunk is a function of the chunk: it fails for broken chunks *)
(* and yields Page(c) for the others.  EwfReader shows that this is so     *)
(* whatever its table cache holds.  A digest is the stream that was hashed *)
(* (no collisions).                                                        *)
(***************************************************************************)
EXTENDS Integers, Sequences, FiniteSets

CONSTANTS
  NumChunks, ChunkSize,
  Byte,
  Page(_),   \* the ChunkSize bytes a chunk decompresses to
  Images,    \* what the reader holds otherwise: [total_size, broken,
             \* stored_md5, stored_sha1]
  Threads,   \* of the pool
  Batch      \* chunks per batch: threads * 4 in the code

NoDigest == <<-1>>
Chunks == 0..NumChunks - 1

ASSUME VerifyAssumption ==
  /\ NumChunks \in Nat /\ ChunkSize \in Nat \ {0}
  /\ Threads \in Nat \ {0} /\ Batch \in Nat \ {0}
  /\ \A img \in Images : img.total_size \in Nat /\ img.broken \subseteq Chunks
  /\ \A c \in Chunks : Page(c) \in Seq(Byte) /\ Len(Page(c)) = ChunkSize

VARIABLES
  image,    \* the image that is verified
  pc,
  start,    \* the batch's first chunk
  running,  \* chunks that some thread is decompressing
  pages,    \* the batch's results: a function on the chunks that are ready
  failed,   \* the batch's chunks that did not decompress
  next,     \* the page to hash next
  stream,   \* what the hashers were fed
  hashed,
  result

vars == <<image, pc, start, running, pages, failed, next, stream, hashed, result>>

----------------------------------------------------------------------------

TotalSize == image.total_size
Broken == image.broken

End == IF start + Batch < NumChunks THEN start + Batch ELSE NumChunks
InBatch == start..End - 1

NoResult == [md5_match |-> "none", sha1_match |-> "none", addressable |-> 0, declared |-> 0]

Init ==
  /\ image \in Images
  /\ pc = IF NumChunks = 0 THEN "finish" ELSE "batch"
  /\ start = 0 /\ running = {} /\ pages = <<>> /\ failed = {}
  /\ next = 0 /\ stream = <<>> /\ hashed = 0
  /\ result = NoResult

\* An idle thread takes a chunk of the batch.
Take(c) ==
  /\ pc = "batch"
  /\ c \in InBatch \ (running \union failed \union DOMAIN pages)
  /\ Cardinality(running) < Threads
  /\ running' = running \union {c}
  /\ UNCHANGED <<image, pc, start, pages, failed, next, stream, hashed, result>>

Decompressed(c) ==
  /\ pc = "batch"
  /\ c \in running \ Broken
  /\ running' = running \ {c}
  /\ pages' = [d \in DOMAIN pages \union {c} |-> IF d = c THEN Page(c) ELSE pages[d]]
  /\ UNCHANGED <<image, pc, start, failed, next, stream, hashed, result>>

\* Mutant: a chunk that does not decompress reads as zeros.
CorruptAsZeros(c) ==
  /\ pc = "batch"
  /\ c \in running \intersect Broken
  /\ running' = running \ {c}
  /\ pages' = [d \in DOMAIN pages \union {c} |-> IF d = c THEN [i \in 1..ChunkSize |-> 0] ELSE pages[d]]
  /\ UNCHANGED <<image, pc, start, failed, next, stream, hashed, result>>

\* A failed chunk is never ready; the threads that are at work finish theirs.
Corrupt(c) ==
  /\ pc = "batch"
  /\ c \in running \intersect Broken
  /\ running' = running \ {c}
  /\ failed' = failed \union {c}
  /\ UNCHANGED <<image, pc, start, pages, next, stream, hashed, result>>

\* `?` on the collected pages, with some chunks possibly never tried.
Abort ==
  /\ pc = "batch" /\ failed # {} /\ running = {}
  /\ pc' = "failed"
  /\ UNCHANGED <<image, start, running, pages, failed, next, stream, hashed, result>>

Collect ==
  /\ pc = "batch" /\ failed = {}
  /\ DOMAIN pages = InBatch
  /\ pc' = "hash"
  /\ next' = start
  /\ UNCHANGED <<image, start, running, pages, failed, stream, hashed, result>>

----------------------------------------------------------------------------
(* Hashing, on the caller's thread.                                        *)

Remaining == IF TotalSize > hashed THEN TotalSize - hashed ELSE 0

\* The last page is cut to the image's length.
Trim(page) == SubSeq(page, 1, IF Len(page) < Remaining THEN Len(page) ELSE Remaining)

\* Mutant: the pages are hashed in the order the caller meets them.
HashPageAny ==
  \E c \in DOMAIN pages :
    /\ pc = "hash" /\ next < End
    /\ stream' = stream \o Trim(pages[c])
    /\ hashed' = hashed + Len(Trim(pages[c]))
    /\ next' = next + 1
    /\ UNCHANGED <<image, pc, start, running, pages, failed, result>>

HashPage ==
  /\ pc = "hash" /\ next < End
  /\ stream' = stream \o Trim(pages[next])
  /\ hashed' = hashed + Len(Trim(pages[next]))
  /\ next' = next + 1
  /\ UNCHANGED <<image, pc, start, running, pages, failed, result>>

\* Mutant: a short last batch is not hashed.
NextBatchWhole ==
  /\ pc = "hash" /\ next = End
  /\ start' = End
  /\ pages' = <<>>
  /\ pc' = IF End + Batch > NumChunks THEN "finish" ELSE "batch"
  /\ UNCHANGED <<image, running, failed, next, stream, hashed, result>>

\* Mutant: the loop has no end.
NextBatchAlways ==
  /\ pc = "hash" /\ next = End
  /\ start' = End
  /\ pages' = <<>>
  /\ pc' = "batch"
  /\ UNCHANGED <<image, running, failed, next, stream, hashed, result>>

NextBatch ==
  /\ pc = "hash" /\ next = End
  /\ start' = End
  /\ pages' = <<>>
  /\ pc' = IF End = NumChunks THEN "finish" ELSE "batch"
  /\ UNCHANGED <<image, running, failed, next, stream, hashed, result>>

\* Both hashers were fed the same stream; without a stored digest nothing is
\* compared.
Match(stored) ==
  IF stored = NoDigest THEN "none" ELSE IF stored = stream THEN "yes" ELSE "no"

Finish ==
  /\ pc = "finish"
  /\ pc' = "done"
  /\ result' = [md5_match   |-> Match(image.stored_md5),
                sha1_match  |-> Match(image.stored_sha1),
                addressable |-> ChunkSize * NumChunks,
                declared    |-> TotalSize]
  /\ UNCHANGED <<image, start, running, pages, failed, next, stream, hashed>>

\* VerifyResult::is_complete and missing_bytes.
IsComplete(r) == r.addressable >= r.declared
MissingBytes(r) == IF r.declared > r.addressable THEN r.declared - r.addressable ELSE 0

Next ==
  \/ \E c \in Chunks : Take(c) \/ Decompressed(c) \/ Corrupt(c)
  \/ Abort \/ Collect \/ HashPage \/ NextBatch \/ Finish

SafetySpec == Init /\ [][Next]_vars

\* The pool's threads keep taking and finishing work, and the caller goes on when
\* the batch is there: nothing in verify blocks.
Spec == SafetySpec /\ WF_vars(Next)

----------------------------------------------------------------------------
(* Properties.                                                             *)

TypeOK ==
  /\ pc \in {"batch", "hash", "finish", "done", "failed"}
  /\ start \in 0..NumChunks /\ next \in 0..NumChunks
  /\ running \subseteq Chunks
  /\ pages \in [DOMAIN pages -> Seq(Byte)] /\ DOMAIN pages \subseteq Chunks
  /\ failed \subseteq Broken
  /\ stream \in Seq(Byte) /\ hashed \in 0..TotalSize

\* However the threads interleave, the hashers are fed the image's bytes in order:
\* byte k is the byte k % ChunkSize of chunk k \div ChunkSize.
HashedInOrder ==
  /\ hashed = Len(stream)
  /\ \A k \in 0..Len(stream) - 1 : stream[k + 1] = Page(k \div ChunkSize)[(k % ChunkSize) + 1]

\* A digest is only reported when every chunk was decompressed, and an error only
\* when some chunk could not be.
ErrorsReported ==
  /\ pc \in {"finish", "done"} => Broken = {}
  /\ pc = "failed" => Broken # {}

\* `is_complete` tells the two kinds of mismatch apart: the digest covers the whole
\* declared image exactly when it is true, and missing_bytes is what the digest
\* does not cover.
VerdictSound ==
  pc = "done" =>
    /\ IsComplete(result) <=> Len(stream) = TotalSize
    /\ MissingBytes(result) = TotalSize - Len(stream)

\* Peak memory: never more than one batch of pages, ready or in the making.
OneBatchHeld == Cardinality(DOMAIN pages \union running) <= Batch

\* The chunks whose bytes went to the hashers.
Fed == IF pc = "hash" THEN next ELSE start

\* What holds between any two steps: a ready page is its chunk's, only chunks of
\* the current batch are held, the batches before it had no broken chunk, and the
\* stream is the image up to the chunks fed or the media's end.
IInv ==
  /\ TypeOK
  /\ image \in Images
  /\ DOMAIN pages \union running \subseteq InBatch
  /\ DOMAIN pages \intersect running = {}
  /\ \A c \in DOMAIN pages : c \notin Broken /\ pages[c] = Page(c)
  /\ \A c \in Chunks : c < start => c \notin Broken
  /\ pc = "batch" => start < NumChunks
  /\ pc = "hash" =>
       /\ start <= next /\ next <= End /\ start < NumChunks
       /\ DOMAIN pages = InBatch /\ running = {}
  /\ pc \in {"finish", "done"} => start = NumChunks
  /\ pc = "failed" => failed # {}
  /\ pc = "done" => result.addressable = ChunkSize * NumChunks /\ result.declared = TotalSize
  /\ hashed = IF Fed * ChunkSize < TotalSize THEN Fed * ChunkSize ELSE TotalSize
  /\ HashedInOrder

\* verify returns, with a result or an error.
VerifyReturns == <>(pc \in {"done", "failed"})

MediaStream == [k \in 1..TotalSize |-> Page((k - 1) \div ChunkSize)[((k - 1) % ChunkSize) + 1]]

GoodImage ==
  /\ Broken = {} /\ TotalSize <= ChunkSize * NumChunks
  /\ image.stored_md5 = MediaStream /\ image.stored_sha1 \in {NoDigest, MediaStream}

\* An image that its chunks cover, without a broken one, is verified: the digests
\* recorded of it match.
GoodImageVerifies ==
  GoodImage => <>(pc = "done" /\ result.md5_match = "yes" /\ result.sha1_match # "no")
=============================================================================
