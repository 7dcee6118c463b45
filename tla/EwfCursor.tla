----------------------------- MODULE EwfCursor -----------------------------
(***************************************************************************)
(* The Read and Seek implementations of EwfReader (core/src/reader.rs).    *)
(* Positions are u64, distances i64; `as i64` keeps the bits, and an       *)
(* addition wraps around as in a release build.  An image is [media, bad]: *)
(* the bytes of its total size and the chunks that cannot be read          *)
(* (EwfReader models why).                                                 *)
(***************************************************************************)
EXTENDS Integers, Sequences

CONSTANTS
  HalfWord,   \* 2^63
  ChunkSize

VARIABLES image, position, call, result

cursor == <<position, call, result>>

TotalSize == Len(image.media)
Word == 2 * HalfWord
MaxI64 == HalfWord - 1

ASSUME WordAssumption == HalfWord \in Nat \ {0} /\ ChunkSize \in Nat \ {0}

\* `as i64`; the sum of two i64 is brought back into the word the same way.
AsI64(n) == ((n + HalfWord) % Word) - HalfWord

Error == [ok |-> FALSE, at |-> 0, data |-> <<>>]

OpenImage ==
  /\ position' = 0
  /\ call' = [op |-> "open", arg |-> 0]
  /\ result' = Error

\* SeekFrom::Start takes a u64, the others an i64.
SeekTarget(from, p) ==
  CASE from = "start"   -> AsI64(p)
    [] from = "end"     -> AsI64(AsI64(TotalSize) + p)
    [] from = "current" -> AsI64(AsI64(position) + p)

Seek(from, p) ==
  LET target == SeekTarget(from, p)
  IN  /\ call' = [op |-> from, arg |-> p]
      /\ IF target < 0
         THEN result' = Error /\ UNCHANGED position
         ELSE position' = target /\ result' = [ok |-> TRUE, at |-> target, data |-> <<>>]

\* read_at: nothing behind the total size, and an error for a chunk that fails.
ReadAt(n, off) ==
  LET end  == IF off + n < TotalSize THEN off + n ELSE TotalSize
      span == {b \div ChunkSize : b \in off..end - 1}
  IN  IF span \intersect image.bad # {} THEN Error
      ELSE [ok |-> TRUE, at |-> off, data |-> SubSeq(image.media, off + 1, end)]

\* Mutant: the position moves by the length of the buffer.
ReadFull(n) ==
  LET r == ReadAt(n, position)
  IN  /\ call' = [op |-> "read", arg |-> n]
      /\ result' = r
      /\ position' = IF r.ok THEN position + n ELSE position

Read(n) ==
  LET r == ReadAt(n, position)
  IN  /\ call' = [op |-> "read", arg |-> n]
      /\ result' = r
      /\ position' = position + Len(r.data)
=============================================================================
