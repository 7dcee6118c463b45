---------------------------- MODULE SegmentOrder ----------------------------
(***************************************************************************)
(* validate_and_reorder_segments (core/src/reader.rs): the order in which  *)
(* both openers, of v1 and of v2 images, take the segments they were given.*)
(***************************************************************************)
EXTENDS Integers, Sequences, FiniteSets

\* The segment numbers must be exactly 1, 2, 3, ...
Sequential(sources) == {sources[i].number : i \in DOMAIN sources} = 1..Len(sources)

\* Mutant: the order in which the caller found the files.
AsFound(sources) == sources

Reordered(sources) ==
  [n \in 1..Len(sources) |-> sources[CHOOSE i \in DOMAIN sources : sources[i].number = n]]
=============================================================================
