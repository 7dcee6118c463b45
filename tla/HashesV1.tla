------------------------------ MODULE HashesV1 ------------------------------
(***************************************************************************)
(* compute_hashes for EWF v1 images (compute_hashes_ewf1 of                *)
(* forensic/src/integrity.rs), which analyse_and_compute_hashes calls once *)
(* analyse has returned.  It takes nothing over from analyse: it walks the *)
(* segments again, reads the volume again and has a chunk loop of its own, *)
(* without anomalies, index or progress.  Only the functions that the two  *)
(* call are the same: walk_sections_v1, check_volume_v1 and                *)
(* iter_segment_chunks.                                                    *)
(***************************************************************************)
EXTENDS IntegrityV1

VARIABLES
  step,         \* where compute_hashes is
  walks,        \* sections_first, then all_sections
  chunk_size,
  remaining,    \* its bytes_remaining
  place,        \* the segment and the entry its loop is at
  fed,          \* what its hashers were fed
  computed      \* its result

copy == <<step, walks, chunk_size, remaining, place, fed, computed>>
allVars == <<vars, copy>>

----------------------------------------------------------------------------
(* Walking.                                                                *)

\* walk_sections_v1: the offset of the descriptor after the first n of a list.
LinkAfter(list, n) == IF n = 0 THEN FileHeaderSize ELSE list[n].sec.next

GoesOn(g, list, n) ==
  /\ n # 0 => ~Stops(g, list[n].offset, list[n].sec)
  /\ LinkAfter(list, n) + DescriptorSize <= Len(g.bytes)

SectionAt(g, offset) == [offset |-> offset, sec |-> g.at[offset]]

\* The segment that is being walked, and what was found of it.
Current == image[Len(walks)]
Walk == walks[Len(walks)]
WalkOver ==
  step \in {"first", "all"} /\ ~GoesOn(Current, Walk, Len(Walk))

----------------------------------------------------------------------------

HashInit ==
  /\ Init
  /\ step = "idle" /\ walks = <<>>
  /\ chunk_size = 0 /\ remaining = 0
  /\ place = [seg |-> 1, entry |-> 0] /\ fed = <<>>
  /\ computed = {}

\* What it asks of the first segment before it walks it.
Hashable == image # <<>> /\ DataLen(1) >= FileHeaderSize /\ image[1].signature

ComputeNone ==
  /\ pc = "analysed" /\ step = "idle" /\ ~Hashable
  /\ step' = "done"
  /\ UNCHANGED <<vars, walks, chunk_size, remaining, place, fed, computed>>

ComputeHashes ==
  /\ pc = "analysed" /\ step = "idle" /\ Hashable
  /\ step' = "first"
  /\ walks' = <<<<>>>>
  /\ UNCHANGED <<vars, chunk_size, remaining, place, fed, computed>>

WalkSection ==
  /\ step \in {"first", "all"}
  /\ GoesOn(Current, Walk, Len(Walk))
  /\ walks' = [walks EXCEPT ![Len(walks)] =
                 Append(@, SectionAt(Current, LinkAfter(@, Len(@))))]
  /\ UNCHANGED <<vars, step, chunk_size, remaining, place, fed, computed>>

\* No volume section, or one that is too short: no hashes.
NoVolume ==
  /\ step = "first" /\ WalkOver /\ ~Readable(Current, Walk)
  /\ step' = "done"
  /\ UNCHANGED <<vars, walks, chunk_size, remaining, place, fed, computed>>

ReadVolume ==
  LET v == FirstIn(Walk, Volumes).sec
  IN  /\ step = "first" /\ WalkOver /\ Readable(Current, Walk)
      /\ chunk_size' = SmallerOf(v.sectors_per_chunk * v.bytes_per_sector, U64Max)
      /\ remaining' = SmallerOf(v.sector_count * v.bytes_per_sector, U64Max)
      /\ step' = "all"
      /\ walks' = <<<<>>>>
      /\ UNCHANGED <<vars, place, fed, computed>>

\* Every segment is walked, those without a whole file header and the first one too.
NextWalk ==
  /\ step = "all" /\ WalkOver /\ Len(walks) < Len(image)
  /\ walks' = Append(walks, <<>>)
  /\ UNCHANGED <<vars, step, chunk_size, remaining, place, fed, computed>>

StartLoop ==
  /\ step = "all" /\ WalkOver /\ Len(walks) = Len(image)
  /\ step' = "loop"
  /\ UNCHANGED <<vars, walks, chunk_size, remaining, place, fed, computed>>

----------------------------------------------------------------------------
(* Its chunk loop.                                                         *)

AtSegment == step = "loop" /\ place.seg <= Len(image)
YieldsHere == YieldsIn(image[place.seg], walks[place.seg], place.entry)

OwnRaw ==
  SubSeq(image[place.seg].bytes, EntryIn(walks[place.seg], place.entry) + 1,
         ChunkEndIn(image[place.seg], walks[place.seg], place.entry))
OwnCompressed == FirstIn(walks[place.seg], {"table"}).sec.entries[place.entry + 1].comp
OwnToHash == SmallerOf(remaining, chunk_size)
OwnFails == OwnCompressed /\ ~Inflate(OwnRaw, OwnToHash + 1).ok

NextList ==
  /\ AtSegment /\ ~YieldsHere
  /\ place' = [seg |-> place.seg + 1, entry |-> 0]
  /\ UNCHANGED <<vars, step, walks, chunk_size, remaining, fed, computed>>

\* Mutant: the sectors of a chunk that fails are not passed over.
SkipChunkInPlace ==
  /\ AtSegment /\ YieldsHere /\ remaining # 0 /\ OwnFails
  /\ place' = [place EXCEPT !.entry = @ + 1]
  /\ UNCHANGED <<vars, step, walks, chunk_size, remaining, fed, computed>>

SkipChunk ==
  /\ AtSegment /\ YieldsHere /\ remaining # 0 /\ OwnFails
  /\ place' = [place EXCEPT !.entry = @ + 1]
  /\ remaining' = remaining - OwnToHash
  /\ UNCHANGED <<vars, step, walks, chunk_size, fed, computed>>

FeedChunk ==
  /\ AtSegment /\ YieldsHere /\ remaining # 0 /\ ~OwnFails
  /\ place' = [place EXCEPT !.entry = @ + 1]
  /\ fed' = fed \o Prefix(IF OwnCompressed THEN Inflate(OwnRaw, OwnToHash + 1).bytes ELSE OwnRaw,
                          OwnToHash)
  /\ remaining' = remaining - OwnToHash
  /\ UNCHANGED <<vars, step, walks, chunk_size, computed>>

ReturnHashes ==
  /\ step = "loop"
  /\ IF place.seg <= Len(image) THEN YieldsHere /\ remaining = 0 ELSE TRUE
  /\ computed' = {fed}
  /\ step' = "done"
  /\ UNCHANGED <<vars, walks, chunk_size, remaining, place, fed>>

HashNext ==
  \/ Next /\ UNCHANGED copy
  \/ ComputeNone \/ ComputeHashes \/ WalkSection \/ NoVolume \/ ReadVolume \/ NextWalk \/ StartLoop
  \/ NextList \/ SkipChunk \/ FeedChunk \/ ReturnHashes

\* Both run on their caller's thread over mapped files and wait for nobody.
HashSafety == HashInit /\ [][HashNext]_allVars
HashSpec == HashSafety /\ WF_allVars(HashNext)

----------------------------------------------------------------------------
(* Properties.                                                             *)

\* compute_hashes, a second copy of the hashing with a walk, a geometry and a loop of
\* its own, ends with the digest that analyse compared, failed chunks, short segments
\* and broken chains and all.  Only a first segment without an EWF signature, which
\* analyse reports and hashes all the same, has no hashes here.
PassesAgree ==
  step = "done" => computed = IF image # <<>> /\ image[1].signature THEN digest ELSE {}

\* Circular, backward and dangling chains included, the analysis and the hashing
\* after it come to an end.
AnalysisReturns == <>(step = "done")

=============================================================================
