---------------------------- MODULE LogicalTree ----------------------------
(***************************************************************************)
(* Logical evidence (core/src/logical.rs and `ewf ls` of cli/src/main.rs): *)
(* find_ltree looks for the ltree section in one segment after another,    *)
(* parse_entry_tree turns its lines into a tree, which is listed, and      *)
(* read_entry reads the data of its files.                                 *)
(*                                                                         *)
(* A segment is [header, len, at], with the section that the bytes at an   *)
(* offset describe; an ltree section also has the lines behind its header. *)
(* A line is one unit long and has the values it would be read for: its    *)
(* sub-count, its number of columns, and the fields its columns give.      *)
(* Entries are numbered from 1; a parent of 0 is the category root.        *)
(***************************************************************************)
EXTENDS Integers, Sequences, FiniteSets

CONSTANTS
  Evidence,     \* the files: [segments, media, truth], with the trees acquired
  FileHeaderSize, DescriptorSize, LtreeHeaderSize,
  Word,         \* 2^64
  MaxAlloc      \* the largest buffer the program can have; a larger one ends it

None == -1

VARIABLES
  file,
  pc,
  seg, off, seen,        \* the segment, the descriptor, those visited in the segment
  lines, verified,       \* the text found, and whether it has the MD5 of its header
  cursor, columns,       \* the next line, and the number of indicators
  stack,                 \* the calls of parse_one: [left, parent]
  entries, warnings,
  listing,               \* what `ls` prints of each entry
  data                   \* what read_entry returned for each entry

search == <<seg, off, seen>>
parse == <<lines, verified, cursor, columns, stack, entries, warnings>>
vars == <<file, pc, search, parse, listing, data>>

Init ==
  /\ file \in Evidence
  /\ pc = "segment"
  /\ seg = 1 /\ off = FileHeaderSize /\ seen = {}
  /\ lines = <<>> /\ verified = FALSE /\ cursor = 1 /\ columns = 0
  /\ stack = <<>> /\ entries = <<>> /\ warnings = 0
  /\ listing = <<>> /\ data = <<>>

Leave(from, to) ==
  /\ pc = from
  /\ pc' = to
  /\ UNCHANGED <<file, search, parse, listing, data>>
Fail(from) == Leave(from, "failed")

----------------------------------------------------------------------------
(* find_ltree.                                                             *)

Segment == file.segments[seg]
SkipSegment == seg' = seg + 1 /\ off' = FileHeaderSize /\ seen' = {}

\* Every segment has been searched: a physical image.
NotLogicalEvidence == Fail("segment") /\ seg > Len(file.segments)

\* The header is no EWF header.
InvalidSignature ==
  /\ Fail("segment")
  /\ seg <= Len(file.segments)
  /\ Segment.len >= FileHeaderSize /\ ~Segment.header

\* A file shorter than its header is passed over.
ShortSegment ==
  /\ pc = "segment" /\ seg <= Len(file.segments)
  /\ Segment.len < FileHeaderSize
  /\ SkipSegment
  /\ UNCHANGED <<file, pc, parse, listing, data>>

OpenSegment ==
  /\ pc = "segment" /\ seg <= Len(file.segments)
  /\ Segment.len >= FileHeaderSize /\ Segment.header
  /\ pc' = "walk"
  /\ UNCHANGED <<file, search, parse, listing, data>>

\* Mutant: the sections seen are not looked up.
WalkableAgain == off + DescriptorSize <= Segment.len
Walkable == off \notin seen /\ off + DescriptorSize <= Segment.len
Section == Segment.at[off]
PayloadLen == Section.size - DescriptorSize

\* A list that comes back to a section, or leaves the file.
WalkEnds ==
  /\ pc = "walk"
  /\ ~Walkable
  /\ pc' = "segment"
  /\ SkipSegment
  /\ UNCHANGED <<file, parse, listing, data>>

OtherSection ==
  /\ pc = "walk"
  /\ Walkable
  /\ Section.type # "ltree"
  /\ IF Section.next \in {0, off} \/ Section.type = "done"
     THEN SkipSegment /\ pc' = "segment"
     ELSE off' = Section.next /\ seen' = seen \union {off} /\ UNCHANGED <<pc, seg>>
  /\ UNCHANGED <<file, parse, listing, data>>

BodyLen == PayloadLen - LtreeHeaderSize
HeaderHeld == BodyLen >= 0 /\ off + DescriptorSize + LtreeHeaderSize <= Segment.len

\* The section has no room for its header, or the file none for the header or for
\* what is behind it.
LtreeFails ==
  /\ Fail("walk")
  /\ Walkable /\ Section.type = "ltree"
  /\ HeaderHeld => BodyLen <= MaxAlloc /\ off + Section.size > Segment.len

\* The buffer is made as long as the section says, before anything is read into it.
LtreeAborts ==
  /\ Leave("walk", "aborted")
  /\ Walkable /\ Section.type = "ltree"
  /\ HeaderHeld /\ BodyLen > MaxAlloc

\* The declared size cuts off what the section is padded with.
FoundLtree ==
  /\ pc = "walk"
  /\ Walkable /\ Section.type = "ltree"
  /\ HeaderHeld /\ BodyLen <= MaxAlloc /\ off + Section.size <= Segment.len
  /\ LET n == IF Section.data_size < BodyLen THEN Section.data_size ELSE BodyLen
     IN  /\ lines' = SubSeq(Section.lines, 1, n)
         /\ verified' = (Section.md5 = lines')
  /\ pc' = "text"
  /\ UNCHANGED <<file, search, cursor, columns, stack, entries, warnings, listing, data>>

----------------------------------------------------------------------------
(* parse_entry_tree.                                                       *)

Categories == {i \in DOMAIN lines : lines[i].category}
Category == CHOOSE i \in Categories : \A j \in Categories : i <= j

\* entry, its counts, the indicators, and the root's two lines.
Parseable ==
  /\ Categories # {}
  /\ Category + 3 <= Len(lines)
  /\ lines[Category + 3].subs # None

NoTree == Fail("text") /\ ~Parseable

StartTree ==
  /\ pc = "text"
  /\ Parseable
  /\ pc' = "tree"
  /\ columns' = lines[Category + 2].columns
  /\ cursor' = Category + 5
  /\ stack' = <<[left |-> lines[Category + 3].subs, parent |-> 0]>>
  /\ UNCHANGED <<file, search, lines, verified, entries, warnings, listing, data>>

\* The loop of the innermost call makes another call, or ends.
Top == stack[Len(stack)]
Looping == pc = "tree" /\ stack # <<>> /\ Top.left > 0
Below == [stack EXCEPT ![Len(stack)] = [left |-> @.left - 1, parent |-> @.parent]]

\* No counts line, or no values line: parse_one makes no entry, and goes on at most
\* to the end of the text.
NoEntry ==
  /\ Looping
  /\ cursor >= Len(lines)
  /\ cursor' = IF cursor = Len(lines) THEN cursor + 1 ELSE cursor
  /\ stack' = Below
  /\ UNCHANGED <<file, pc, search, lines, verified, columns, entries, warnings, listing, data>>

\* "ha" has 0 for a file without a digest.
NewEntry(values) ==
  [name |-> values.name, is_dir |-> values.dir, size |-> values.size,
   md5 |-> IF values.md5 = 0 THEN None ELSE values.md5,
   be |-> values.be, du |-> values.du, parent |-> Top.parent, children |-> <<>>]

\* Mutant: the entry is listed as a child of the entry before it.
LinkedPrevious(index) ==
  [i \in DOMAIN entries |->
     IF Top.parent # 0 /\ i = index - 1 THEN [entries[i] EXCEPT !.children = Append(@, index)]
                                        ELSE entries[i]]

\* The new entry is the last child of its parent so far.
Linked(index) ==
  [i \in DOMAIN entries |->
     IF i = Top.parent THEN [entries[i] EXCEPT !.children = Append(@, index)] ELSE entries[i]]

Subs(line) == IF line.subs = None THEN 0 ELSE line.subs

\* Mutant: the sub-count of the entry before it is used.
ParseOneStale ==
  LET values == lines[cursor + 1]
      index  == Len(entries) + 1
  IN  /\ Looping
      /\ cursor < Len(lines)
      /\ entries' = Append(Linked(index), NewEntry(values))
      /\ warnings' = warnings + (IF values.columns = columns THEN 0 ELSE 1)
                              + (IF values.alias_ok THEN 0 ELSE 1)
      /\ cursor' = cursor + 2
      /\ stack' = Append(Below, [left |-> Subs(lines[cursor - 2]), parent |-> index])
      /\ UNCHANGED <<file, pc, search, lines, verified, columns, listing, data>>

\* One entry, whose sub-entries follow it.
ParseOne ==
  LET values == lines[cursor + 1]
      index  == Len(entries) + 1
  IN  /\ Looping
      /\ cursor < Len(lines)
      /\ entries' = Append(Linked(index), NewEntry(values))
      /\ warnings' = warnings + (IF values.columns = columns THEN 0 ELSE 1)
                              + (IF values.alias_ok THEN 0 ELSE 1)
      /\ cursor' = cursor + 2
      /\ stack' = Append(Below, [left |-> Subs(lines[cursor]), parent |-> index])
      /\ UNCHANGED <<file, pc, search, lines, verified, columns, listing, data>>

Return ==
  /\ pc = "tree" /\ stack # <<>>
  /\ Top.left = 0
  /\ stack' = SubSeq(stack, 1, Len(stack) - 1)
  /\ UNCHANGED <<file, pc, search, lines, verified, cursor, columns, entries, warnings,
                 listing, data>>

----------------------------------------------------------------------------
(* `ls`: the path of an entry is read off its ancestors.                   *)

\* Each entry comes behind its parent, so the paths can be made in order; an empty
\* name is left out of the path.
Paths ==
  LET path[i \in 0..Len(entries)] ==
        IF i = 0 THEN <<>>
        ELSE path[entries[i].parent] \o (IF entries[i].name = 0 THEN <<>> ELSE <<entries[i].name>>)
  IN  path

List ==
  /\ pc = "tree" /\ stack = <<>>
  /\ pc' = "read"
  /\ listing' = [i \in DOMAIN entries |->
       [path |-> Paths[i], is_dir |-> entries[i].is_dir, size |-> entries[i].size,
        md5 |-> entries[i].md5]]
  /\ UNCHANGED <<file, search, parse, data>>

----------------------------------------------------------------------------
(* read_entry.                                                             *)

\* parse_binary_extents: a count, then for each extent any number of tokens that are
\* not hexadecimal (an S among them makes the extent sparse), an offset and a size.
\* A flag whose letters are hexadecimal digits is taken for an offset.
Extents(be) ==
  LET t == be.tokens
      Numbers(p) == {q \in p..Len(t) : t[q].hex}
      At(p) == CHOOSE q \in Numbers(p) : \A r \in Numbers(p) : q <= r
      bad == [ok |-> FALSE, next |-> 0, out |-> <<>>]
      scan[k \in 0..be.count] ==
        IF k = 0 THEN [ok |-> TRUE, next |-> 1, out |-> <<>>]
        ELSE LET s == scan[k - 1]
                 q == At(s.next)
             IN  IF s.ok /\ Numbers(s.next) # {} /\ q + 1 \in Numbers(q + 1)
                 THEN [ok |-> TRUE, next |-> q + 2,
                       out |-> Append(s.out, [offset |-> t[q].val, size |-> t[q + 1].val,
                                              sparse |-> \E r \in s.next..q - 1 : t[r].sparse])]
                 ELSE bad
  IN  IF be.count = None THEN bad ELSE scan[be.count]

\* seek, which takes no offset beyond an i64, and read_exact.
Seekable(offset) == offset < Word \div 2
Held(offset, n) == n = 0 \/ offset + n <= Len(file.media)
Media(offset, n) == SubSeq(file.media, offset + 1, offset + n)

Ok(bytes) == [ok |-> TRUE, aborts |-> FALSE, bytes |-> bytes]
Error == [ok |-> FALSE, aborts |-> FALSE, bytes |-> <<>>]
Aborted == [ok |-> FALSE, aborts |-> TRUE, bytes |-> <<>>]

Total(extents) ==
  LET sum[k \in 0..Len(extents)] == IF k = 0 THEN 0 ELSE sum[k - 1] + extents[k].size
  IN  sum[Len(extents)]

Resized(bytes, n) == [i \in 1..n |-> IF i \in DOMAIN bytes THEN bytes[i] ELSE 0]

\* Mutant: a sparse extent is read from the media like any other.
ExtendedDense(before, x, checked) ==
  IF before.ok /\ Seekable(x.offset) /\ Held(x.offset, x.size)
  THEN Ok(before.bytes \o Media(x.offset, x.size)) ELSE Error

\* One extent more.  The sum of the lengths wraps, or panics in a build that checks
\* it; after a wrap there is no room behind `start`, and slicing there panics.
Extended(before, x, checked) ==
  LET start == Len(before.bytes)
      wraps == start + x.size >= Word
      len   == (start + x.size) % Word
  IN  CASE ~before.ok -> before
        [] before.ok /\ x.sparse ->
             IF len > MaxAlloc \/ (wraps /\ checked) THEN Aborted ELSE Ok(Resized(before.bytes, len))
        [] OTHER ->
             IF ~Seekable(x.offset) THEN Error
             ELSE IF len > MaxAlloc \/ wraps THEN Aborted
             ELSE IF Held(x.offset, x.size) THEN Ok(before.bytes \o Media(x.offset, x.size)) ELSE Error

\* The extents one after another.
Joined(extents, checked) ==
  LET all[k \in 0..Len(extents)] ==
        IF k = 0 THEN Ok(<<>>) ELSE Extended(all[k - 1], extents[k], checked)
  IN  all[Len(extents)]

\* Identical content is stored once: a later entry has an extent of one byte, and
\* the place of the content in `du`.
Duplicate(e, extents) == e.size > 1 /\ Total(extents) % Word <= 1 /\ e.du > 0

\* What reading an entry with these extents comes to, in a build that checks
\* arithmetic for overflow or in one that does not.
ReadEntry(e, extents, checked) ==
  CASE e.is_dir                -> Ok(<<>>)
    [] ~e.is_dir /\ ~extents.ok -> Error
    [] OTHER ->
         IF checked /\ e.size > 1 /\ Total(extents.out) >= Word THEN Aborted
         ELSE IF Duplicate(e, extents.out)
         THEN IF e.size > MaxAlloc THEN Aborted
              ELSE IF Seekable(e.du) /\ Held(e.du, e.size) THEN Ok(Media(e.du, e.size)) ELSE Error
         ELSE [Joined(extents.out, checked) EXCEPT
                 !.bytes = SubSeq(@, 1, IF e.size < Len(@) THEN e.size ELSE Len(@))]

Outcomes(e) == {ReadEntry(e, extents, checked) : extents \in {Extents(e.be)}, checked \in BOOLEAN}

Reading == pc = "read" /\ Len(data) < Len(entries)

ReadNext ==
  /\ Reading
  /\ \E read \in Outcomes(entries[Len(data) + 1]) :
       ~read.aborts /\ data' = Append(data, [ok |-> read.ok, bytes |-> read.bytes])
  /\ UNCHANGED <<file, pc, search, parse, listing>>

ReadAborts ==
  /\ Reading
  /\ Leave("read", "aborted")
  /\ \E read \in Outcomes(entries[Len(data) + 1]) : read.aborts

Finish ==
  /\ pc = "read"
  /\ Len(data) = Len(entries)
  /\ pc' = "done"
  /\ UNCHANGED <<file, search, parse, listing, data>>

Next ==
  \/ NotLogicalEvidence \/ InvalidSignature \/ ShortSegment \/ OpenSegment
  \/ WalkEnds \/ OtherSection \/ LtreeFails \/ LtreeAborts \/ FoundLtree
  \/ NoTree \/ StartTree \/ NoEntry \/ ParseOne \/ Return \/ List \/ ReadNext \/ ReadAborts
  \/ Finish

SafetySpec == Init /\ [][Next]_vars

\* One thread, which waits for nobody.
Spec == SafetySpec /\ WF_vars(Next)

----------------------------------------------------------------------------
(* Properties.                                                             *)

\* "All entries, parents before children": whatever sub-counts the text declares,
\* every entry is in exactly one list of children, that of its parent, the parent
\* comes before it, and the lists are in order.  Without it `ls` would not come to
\* an end on the way up to the root.
TreeSound ==
  /\ \A i \in DOMAIN entries : entries[i].parent \in 0..i - 1
  /\ \A i \in DOMAIN entries : \A k \in DOMAIN entries[i].children :
       LET c == entries[i].children[k]
       IN  /\ c \in i + 1..Len(entries) /\ entries[c].parent = i
           /\ \A m \in DOMAIN entries[i].children : m < k => entries[i].children[m] < c
  /\ \A c \in DOMAIN entries : entries[c].parent # 0 =>
       \E k \in DOMAIN entries[entries[c].parent].children :
         entries[entries[c].parent].children[k] = c

\* Parents of entries that are numbered in preorder, as they are written.
Preorder(p) ==
  /\ p \in Seq(Nat)
  /\ \A i \in DOMAIN p : p[i] < i /\ \A j \in p[i] + 1..i - 1 : p[j] >= p[i]
SubsOf(p, i) == Cardinality({j \in DOMAIN p : p[j] = i})

\* The text holds the tree t: two lines for the root and for each entry, the first
\* with its number of sub-entries, the second with a value for each indicator.
Describes(t) ==
  LET n == Len(t.parents)
      Counts(i) == lines[Category + 3 + 2 * i]
      Values(i) == lines[Category + 4 + 2 * i]
  IN  /\ Preorder(t.parents)
      /\ {Category, Len(lines)} \subseteq Nat /\ Category + 4 + 2 * n <= Len(lines)
      /\ \A i \in 0..n : Counts(i).subs = SubsOf(t.parents, i)
      /\ \A i \in 1..n : /\ Values(i).name = t.names[i] /\ Values(i).alias_ok
                        /\ Values(i).columns = lines[Category + 2].columns

\* Every entry once, under its path, and nothing to warn of.
ListedAs(t) ==
  /\ warnings = 0
  /\ Len(listing) = Len(t.parents)
  /\ \A i \in DOMAIN t.parents :
       LET up == IF t.parents[i] = 0 THEN <<>> ELSE listing[t.parents[i]].path
       IN  listing[i].path = up \o (IF t.names[i] = 0 THEN <<>> ELSE <<t.names[i]>>)

\* The tree that the text holds is the tree that is listed: the entries are found
\* from sub-counts alone, so one miscount would move all entries behind it.
WrittenTreeListed ==
  pc \in {"read", "done"} => \A t \in file.truth : Describes(t) => ListedAs(t)

\* Circular section lists and sub-counts larger than the text end, too, if only
\* because a length in the file is more than the program can allocate.
ListingEnds == <>(pc \in {"failed", "aborted", "done"})
=============================================================================
