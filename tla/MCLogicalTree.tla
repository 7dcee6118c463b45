--------------------------- MODULE MCLogicalTree ---------------------------
(***************************************************************************)
(* Evidence for LogicalTree: trees of up to four entries as an acquisition *)
(* writes them, and texts and section lists that are damaged.  Headers and *)
(* descriptors have one unit, like a line.  Files with a `truth` are       *)
(* sound: it holds the tree and the contents that were acquired.           *)
(***************************************************************************)
EXTENDS LogicalTree

MCMedia == <<1, 2, 3, 4, 5, 6, 7, 8>>

NoExtents == [count |-> 0, tokens |-> <<>>]
Hex(n) == [hex |-> TRUE, val |-> n, sparse |-> FALSE]
Flag(s) == [hex |-> FALSE, val |-> 0, sparse |-> s]
At(n, tokens) == [count |-> n, tokens |-> tokens]

\* A file: its size, how it is stored, and what its content was.
Stored(size, be, du, ok, bytes) ==
  [size |-> size, be |-> be, du |-> du, content |-> [ok |-> ok, bytes |-> bytes]]
Layouts ==
  <<Stored(3, At(1, <<Hex(1), Hex(4)>>), 0, TRUE, <<2, 3, 4>>),                 \* padded
    Stored(3, At(1, <<Hex(0), Hex(1)>>), 1, TRUE, <<2, 3, 4>>),                 \* a duplicate
    Stored(4, At(2, <<Flag(TRUE), Hex(2), Hex(2), Hex(6), Hex(2)>>), 0, TRUE, <<0, 0, 7, 8>>),
    Stored(3, At(2, <<Flag(FALSE), Hex(5), Hex(2), Flag(TRUE), Hex(0), Hex(1)>>), 0, TRUE, <<6, 7, 0>>),
    Stored(0, NoExtents, 0, TRUE, <<>>),
    Stored(1, At(1, <<Hex(2), Hex(1)>>), 5, TRUE, <<3>>),                       \* one byte of its own
    Stored(2, At(1, <<Hex(7), Hex(2)>>), 0, FALSE, <<>>),                       \* beyond the media
    Stored(2, At(1, <<Hex(0), Hex(1)>>), 7, FALSE, <<>>),
    Stored(2, At(1, <<Hex(7)>>), 0, FALSE, <<>>),                               \* malformed
    Stored(2, At(2, <<Hex(0), Hex(2), Flag(TRUE)>>), 0, FALSE, <<>>),
    Stored(2, At(None, <<>>), 0, FALSE, <<>>)>>

Line ==
  [category |-> FALSE, subs |-> None, columns |-> 3, alias_ok |-> TRUE, name |-> 0, dir |-> FALSE,
   size |-> 0, md5 |-> 0, be |-> NoExtents, du |-> 0]

\* The trees, as the parents of their entries in preorder.
Trees(n) == {p \in [1..n -> 0..n] : Preorder(p)}

LayoutOf(k, i) == Layouts[((k + i) % Len(Layouts)) + 1]

\* The lines of a tree; leaves are files.
Written(p, k) ==
  LET Values(i) ==
        IF SubsOf(p, i) > 0 THEN [Line EXCEPT !.name = i, !.dir = TRUE]
        ELSE [Line EXCEPT !.name = IF k = 2 THEN 0 ELSE i, !.md5 = k % 2, !.size = LayoutOf(k, i).size,
                          !.be = LayoutOf(k, i).be, !.du = LayoutOf(k, i).du]
      Pair(i) == <<[Line EXCEPT !.subs = SubsOf(p, i)], Values(i)>>
      pairs[i \in 0..Len(p)] == IF i = 0 THEN <<>> ELSE pairs[i - 1] \o Pair(i)
  IN  <<Line, [Line EXCEPT !.category = TRUE], Line, Line, [Line EXCEPT !.subs = SubsOf(p, 0)], Line>>
      \o pairs[Len(p)]

Acquired(p, k) ==
  [parents |-> p, names |-> [i \in DOMAIN p |-> IF SubsOf(p, i) = 0 /\ k = 2 THEN 0 ELSE i],
   contents |-> [i \in DOMAIN p |-> IF SubsOf(p, i) > 0 THEN [ok |-> TRUE, bytes |-> <<>>] ELSE LayoutOf(k, i).content]]

\* Sections at 1 and 2, the ltree behind them, padded by a line of another category.
Plain == [type |-> "sectors", next |-> 2, size |-> 1, data_size |-> 0, md5 |-> <<>>, lines |-> <<>>]
LtreeSegment(text) ==
  LET ltree == [type |-> "ltree", next |-> 2, size |-> 3 + Len(text), data_size |-> Len(text),
                md5 |-> text, lines |-> Append(text, Line)]
  IN  [header |-> TRUE, len |-> 5 + Len(text),
       at |-> [o \in 0..4 + Len(text) |-> IF o = 2 THEN ltree ELSE Plain]]
DoneSegment ==
  [header |-> TRUE, len |-> 3, at |-> [o \in 0..2 |-> [Plain EXCEPT !.type = IF o = 2 THEN "done" ELSE @]]]

Sound ==
  {[segments |-> s, media |-> MCMedia, truth |-> {Acquired(p, k)}] :
     <<p, k, s>> \in UNION {{<<p, k, <<LtreeSegment(Written(p, k))>>>>,
                              <<p, k, <<DoneSegment, LtreeSegment(Written(p, k)), DoneSegment>>>>} :
                               p \in UNION {Trees(n) : n \in 0..4}, k \in 0..10}}

----------------------------------------------------------------------------
(* Damaged texts and lists.                                                *)

\* Sizes that no buffer has, and such that their sum is more than a word.
HugeExtents ==
  {At(1, <<Hex(1), Hex(40)>>), At(1, <<Flag(TRUE), Hex(1), Hex(40)>>), At(1, <<Hex(40), Hex(40)>>),
   At(1, <<Hex(0), Hex(1)>>), At(2, <<Hex(1), Hex(4), Hex(1), Hex(62)>>),
   At(2, <<Hex(1), Hex(4), Flag(TRUE), Hex(1), Hex(62)>>),
   At(2, <<Flag(TRUE), Hex(1), Hex(32), Flag(TRUE), Hex(1), Hex(32)>>)}

Some == Written(<<0, 1, 1, 0>>, 0)
Texts ==
  {[Some EXCEPT ![i].subs = n] : i \in {5, 7, 9, 11, 13}, n \in {None, 0, 1, 2, 3, 5}}
  \union {[Some EXCEPT ![i].subs = n, ![5].subs = m] : i \in {7, 9, 11}, n \in {1, 3}, m \in {1, 3}}
  \union {[Some EXCEPT ![8].columns = 2, ![10].alias_ok = FALSE]}
  \union {SubSeq(Some, 1, n) : n \in 0..Len(Some)}
  \union {[Some EXCEPT ![10].be = be, ![10].size = n, ![10].du = d] :
             be \in HugeExtents, n \in {1, 3, 40}, d \in {0, 1, 40}}

Lists ==
  LET cyclic(n) == [LtreeSegment(Some) EXCEPT !.at[2] = [Plain EXCEPT !.next = n]]
  IN  {<<cyclic(n), LtreeSegment(Some)>> : n \in {0, 1, 2, 3, 40}}
      \union {<<[LtreeSegment(Some) EXCEPT !.at[2].size = n]>> : n \in {0, 1, 2, 3, 30, 40}}
      \union {<<[LtreeSegment(Some) EXCEPT !.at[2].data_size = n]>> : n \in {0, 8, 40}}
      \union {<<[LtreeSegment(Some) EXCEPT !.len = n], LtreeSegment(Some)>> : n \in {0, 1, 2}}
      \union {<<DoneSegment, [LtreeSegment(Some) EXCEPT !.header = FALSE]>>, <<DoneSegment>>, <<>>}

Damaged ==
  {[segments |-> <<LtreeSegment(t)>>, media |-> MCMedia, truth |-> {}] : t \in Texts}
  \union {[segments |-> s, media |-> MCMedia, truth |-> {}] : s \in Lists}

AllEvidence == Sound \union Damaged

\* What was acquired is found, in whichever segment the tree is stored and whatever
\* the section is padded with, with the digest of its text confirmed; and its files
\* are read as they were: padding cut off, sparse extents as zeros, and a duplicate
\* from the place of its content.  Extents that lie or leave the media are an error,
\* never other bytes.
EntryReadExact ==
  pc = "done" => \A t \in file.truth : verified /\ Describes(t) /\ data = t.contents
=============================================================================
