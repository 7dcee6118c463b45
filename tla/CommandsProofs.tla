--------------------------- MODULE CommandsProofs ---------------------------
(***************************************************************************)
(* Safety of the programs of Commands for every session, every word size   *)
(* and every size of their buffers, and that the reader's cursor           *)
(* implements ByteCursor.                                                  *)
(***************************************************************************)
EXTENDS Commands, WellFoundedInduction, TLAPS

\* A set of numbers that is not empty has a least one.
LEMMA Least ==
  ASSUME NEW T, T \subseteq Nat, T # {}
  PROVE  \E i \in T : \A j \in T : i <= j
<1> DEFINE R == OpToRel(<, Nat)
<1>1. \E x \in T : \A y \in T : ~(<<y, x>> \in R)
  <2>1. IsWellFoundedOn(R, Nat)
    BY NatLessThanWellFounded
  <2> HIDE DEF R
  <2> QED BY <2>1, WFMin
<1>2. ASSUME NEW x \in Nat, NEW y \in Nat, y < x PROVE <<y, x>> \in R
  BY <1>2 DEF OpToRel
<1> HIDE DEF R
<1>3. PICK x \in T : \A y \in T : ~(<<y, x>> \in R)
  BY <1>1
<1>4. ASSUME NEW y \in T PROVE x <= y
  <2>1. ~(y < x)
    BY <1>2, <1>3
  <2> QED BY <2>1
<1> QED BY <1>4

----------------------------------------------------------------------------
(* Words and positions.                                                    *)

\* `as i64` keeps what an i64 can hold, and makes the next larger numbers negative.
LEMMA AsI64Sum ==
  ASSUME NEW x \in Int, NEW y \in Int, -HalfWord <= x + y, x + y < Word
  PROVE  AsI64(x + y) = IF x + y < HalfWord THEN x + y ELSE x + y - Word
<1>1. HalfWord \in Nat \ {0} /\ Word = 2 * HalfWord
  BY WordAssumption DEF Word
<1>2. x + y < HalfWord => (x + y + HalfWord) % Word = x + y + HalfWord
  BY <1>1
<1>3. ASSUME x + y >= HalfWord PROVE (x + y + HalfWord) % Word = x + y + HalfWord - Word
  BY <1>1, <1>3
<1> QED BY <1>1, <1>2, <1>3 DEF AsI64

LEMMA AsI64Small ==
  ASSUME NEW x \in Nat, x < HalfWord
  PROVE  AsI64(x) = x
<1>1. HalfWord \in Nat \ {0} /\ Word = 2 * HalfWord
  BY WordAssumption DEF Word
<1>2. (x + HalfWord) % Word = x + HalfWord
  BY <1>1
<1> QED BY <1>1, <1>2 DEF AsI64

\* What a state's session says about its image.
LEMMA ImageFacts ==
  ASSUME ControlOK
  PROVE  /\ image.media \in Seq(0..255) /\ TotalSize \in Nat /\ TotalSize <= MaxI64
         /\ session.room \in Nat \union {None}
         /\ Len(session.lines) \in Nat /\ DOMAIN session.lines = 1..Len(session.lines)
         /\ Mode \in {"cli", "mcp", "check", "library"}
         /\ Mode = "cli" => Len(session.lines) = 1 /\ session.lines[1].kind = "call"
         /\ \A i \in DOMAIN session.lines : session.lines[i].kind = "call" => CallOK(session.lines[i])
BY SessionAssumption DEF ControlOK, TotalSize, Mode

----------------------------------------------------------------------------
(* Each step of the cursor is one of ByteCursor's.                         *)

\* A seek ends where exact integers say, or fails.
LEMMA SeekExact ==
  ASSUME ControlOK, position \in 0..MaxI64, NEW from, NEW p,
         \/ from = "start" /\ p \in 0..Word - 1
         \/ from \in {"end", "current"} /\ p \in -HalfWord..MaxI64,
         NEW base, base = (CASE from = "start" -> 0 [] from = "end" -> TotalSize [] from = "current" -> position)
  PROVE  /\ base + p \in 0..MaxI64 => SeekTarget(from, p) = base + p
         /\ base + p \notin 0..MaxI64 => SeekTarget(from, p) < 0
         /\ base + p \in Int
<1>1. HalfWord \in Nat \ {0} /\ Word = 2 * HalfWord /\ MaxI64 = HalfWord - 1
  BY WordAssumption DEF Word, MaxI64
<1>2. TotalSize \in 0..MaxI64
  BY <1>1, ImageFacts
<1>3. AsI64(TotalSize) = TotalSize /\ AsI64(position) = position
  BY <1>1, <1>2, AsI64Small
<1>4. base \in 0..MaxI64 /\ p \in Int /\ -HalfWord <= base + p /\ base + p < Word
  BY <1>1, <1>2
<1>5. SeekTarget(from, p) = AsI64(base + p)
  <2>1. CASE from = "start"
    BY <2>1, <1>4 DEF SeekTarget
  <2>2. CASE from = "end"
    BY <2>2, <1>3, <1>4 DEF SeekTarget
  <2>3. CASE from = "current"
    BY <2>3, <1>3, <1>4 DEF SeekTarget
  <2> QED BY <2>1, <2>2, <2>3
<1>6. AsI64(base + p) = IF base + p < HalfWord THEN base + p ELSE base + p - Word
  BY <1>4, AsI64Sum
<1> QED BY <1>1, <1>4, <1>5, <1>6

\* What a read returns, byte for byte.
LEMMA ReadAtIs ==
  ASSUME ControlOK, position \in Nat, NEW n \in Nat
  PROVE  LET end  == IF position + n < TotalSize THEN position + n ELSE TotalSize
             r    == ReadAt(n, position)
         IN  /\ r.ok \in BOOLEAN
             /\ r.ok => r = [ok |-> TRUE, at |-> position, data |-> SubSeq(image.media, position + 1, end)]
             /\ ~r.ok => r = Error
             /\ r.ok <=> \A b \in position..end - 1 : b \div ChunkSize \notin image.bad
<1> DEFINE end  == IF position + n < TotalSize THEN position + n ELSE TotalSize
           span == {b \div ChunkSize : b \in position..end - 1}
           good == [ok |-> TRUE, at |-> position, data |-> SubSeq(image.media, position + 1, end)]
<1>1. ReadAt(n, position) = IF span \intersect image.bad # {} THEN Error ELSE good
  BY DEF ReadAt
<1>2. span \intersect image.bad = {} <=> \A b \in position..end - 1 : b \div ChunkSize \notin image.bad
  OBVIOUS
<1>3. Error.ok = FALSE /\ good.ok = TRUE
  BY DEF Error
<1> HIDE DEF end, span, good
<1>4. \/ span \intersect image.bad = {} /\ ReadAt(n, position) = good
      \/ span \intersect image.bad # {} /\ ReadAt(n, position) = Error
  BY <1>1
<1> QED BY <1>2, <1>3, <1>4 DEF end, good

\* The part of a sequence behind the first a elements, up to the b-th.
LEMMA SliceIs ==
  ASSUME NEW S, NEW s \in Seq(S), NEW a \in Nat, NEW b \in Nat, b <= Len(s),
         NEW len, len = IF b > a THEN b - a ELSE 0
  PROVE  /\ SubSeq(s, a + 1, b) \in Seq(S)
         /\ Len(SubSeq(s, a + 1, b)) = len /\ DOMAIN SubSeq(s, a + 1, b) = 1..len
         /\ \A i \in 1..len : a + i \in 1..Len(s) /\ SubSeq(s, a + 1, b)[i] = s[a + i]
<1>1. CASE b > a
  BY <1>1
<1>2. CASE b <= a
  BY <1>2
<1> QED BY <1>1, <1>2

LEMMA ImageBytesAre ==
  ASSUME ControlOK
  PROVE  /\ Len(ImageBytes) = TotalSize /\ DOMAIN ImageBytes = 1..TotalSize
         /\ \A i \in 1..TotalSize :
              /\ ImageBytes[i].value = image.media[i]
              /\ ImageBytes[i].readable <=> (i - 1) \div ChunkSize \notin image.bad
<1>1. TotalSize \in Nat
  BY ImageFacts
<1> DEFINE e(i) == [value |-> image.media[i], readable |-> (i - 1) \div ChunkSize \notin image.bad]
<1>2. ImageBytes = [i \in 1..TotalSize |-> e(i)]
  BY DEF ImageBytes
<1>3. ASSUME NEW i \in 1..TotalSize
      PROVE  e(i).value = image.media[i] /\ (e(i).readable <=> (i - 1) \div ChunkSize \notin image.bad)
  BY Zenon
<1> HIDE DEF e
<1> QED BY <1>1, <1>2, <1>3

LEMMA SeekStep ==
  ASSUME ControlOK, position \in 0..MaxI64, image' = image, NEW from, NEW p,
         \/ from = "start" /\ p \in 0..Word - 1
         \/ from \in {"end", "current"} /\ p \in -HalfWord..MaxI64,
         Seek(from, p)
  PROVE  Cursor!Next /\ position' \in 0..MaxI64
<1> DEFINE base == CASE from = "start" -> 0 [] from = "end" -> TotalSize [] from = "current" -> position
           target == SeekTarget(from, p)
<1>1. HalfWord \in Nat \ {0} /\ Word = 2 * HalfWord /\ MaxI64 = HalfWord - 1
  BY WordAssumption DEF Word, MaxI64
<1>2. /\ base + p \in 0..MaxI64 => target = base + p
      /\ base + p \notin 0..MaxI64 => target < 0
      /\ base + p \in Int
  BY SeekExact
<1>3. /\ call' = [op |-> from, arg |-> p]
      /\ IF target < 0
         THEN result' = Error /\ UNCHANGED position
         ELSE position' = target /\ result' = [ok |-> TRUE, at |-> target, data |-> <<>>]
  BY DEF Seek
<1> HIDE DEF base, target
<1>4. ImageBytes' = ImageBytes
  BY DEF ImageBytes, TotalSize
<1>5. Cursor!Seek(from, base, p)
  <2>1. CASE base + p \in 0..MaxI64
    BY <2>1, <1>1, <1>2, <1>3, <1>4 DEF Cursor!Seek
  <2>2. CASE base + p \notin 0..MaxI64
    BY <2>2, <1>1, <1>2, <1>3, <1>4 DEF Cursor!Seek, Cursor!Error, Error
  <2> QED BY <2>1, <2>2
<1>6. p \in -HalfWord..Word - 1
  BY <1>1
<1>7. Cursor!Next
  <2>1. CASE from = "start"
    BY <2>1, <1>5, <1>6 DEF base, Cursor!Next
  <2>2. CASE from = "end"
    <3>1. base = Len(ImageBytes)
      BY <2>2, ImageBytesAre DEF base
    <3> QED BY <2>2, <3>1, <1>5, <1>6 DEF Cursor!Next
  <2>3. CASE from = "current"
    <3>1. base = position
      BY <2>3 DEF base
    <3> QED BY <2>3, <3>1, <1>5, <1>6 DEF Cursor!Next
  <2> QED BY <2>1, <2>2, <2>3
<1>8. position' \in 0..MaxI64
  BY <1>1, <1>2, <1>3
<1> QED BY <1>7, <1>8

LEMMA ReadStep ==
  ASSUME ControlOK, position \in 0..MaxI64, image' = image, NEW n \in 0..Word - 1, Read(n)
  PROVE  /\ Cursor!Next /\ position' \in 0..MaxI64
         /\ result'.ok \in BOOLEAN
         /\ ~result'.ok => result'.data = <<>>
         /\ result'.ok =>
              LET end == IF position + n < TotalSize THEN position + n ELSE TotalSize
              IN  /\ result'.data = SubSeq(image.media, position + 1, end)
                  /\ position' = position + Len(result'.data)
<1> DEFINE end  == IF position + n < TotalSize THEN position + n ELSE TotalSize
           data == SubSeq(image.media, position + 1, end)
           span == SubSeq(ImageBytes, position + 1, end)
           good == [ok |-> TRUE, at |-> position, data |-> data]
<1>1. HalfWord \in Nat \ {0} /\ Word = 2 * HalfWord /\ MaxI64 = HalfWord - 1 /\ n \in Nat /\ position \in Nat
  BY WordAssumption DEF Word, MaxI64
<1>2. image.media \in Seq(0..255) /\ TotalSize \in Nat /\ TotalSize <= MaxI64 /\ Len(image.media) = TotalSize
  BY ImageFacts DEF TotalSize
<1>3. /\ result' = ReadAt(n, position) /\ call' = [op |-> "read", arg |-> n]
      /\ position' = position + Len(result'.data)
  BY DEF Read
<1>4. /\ result'.ok \in BOOLEAN
      /\ result'.ok => result' = good
      /\ ~result'.ok => result' = Error
      /\ result'.ok <=> \A b \in position..end - 1 : b \div ChunkSize \notin image.bad
  BY <1>1, <1>3, ReadAtIs
<1>5. ImageBytes' = ImageBytes /\ Len(ImageBytes) = TotalSize
  BY ImageBytesAre DEF ImageBytes, TotalSize
<1>6. end \in Nat /\ end <= TotalSize /\ end >= 0
  BY <1>1, <1>2
<1> DEFINE len == IF end > position THEN end - position ELSE 0
<1>7. /\ Len(data) = len /\ DOMAIN data = 1..len /\ data \in Seq(0..255)
      /\ \A i \in 1..len : data[i] = image.media[position + i]
  <2> HIDE DEF end
  <2> DEFINE Byte == 0..255
  <2>1. image.media \in Seq(Byte) /\ Len(image.media) = TotalSize
    BY <1>2
  <2> HIDE DEF Byte
  <2>2. /\ Len(data) = len /\ DOMAIN data = 1..len /\ data \in Seq(Byte)
        /\ \A i \in 1..len : data[i] = image.media[position + i]
    <3>1. PICK m \in Seq(Byte), a \in Nat, b \in Nat, l \in Nat :
            m = image.media /\ a = position /\ b = end /\ l = len
      <4>1. len \in Nat
        BY <1>1, <1>6
      <4> HIDE DEF len
      <4> QED BY <1>1, <1>6, <2>1, <4>1
    <3>2. b <= Len(m) /\ l = IF b > a THEN b - a ELSE 0
      BY <1>6, <2>1, <3>1
    <3>3. /\ SubSeq(m, a + 1, b) \in Seq(Byte)
          /\ Len(SubSeq(m, a + 1, b)) = l /\ DOMAIN SubSeq(m, a + 1, b) = 1..l
          /\ \A i \in 1..l : SubSeq(m, a + 1, b)[i] = m[a + i]
      BY <3>2, SliceIs
    <3> QED BY <3>1, <3>3
  <2> QED BY <2>2 DEF Byte
<1>8. /\ Len(span) = len /\ DOMAIN span = 1..len
      /\ \A i \in 1..len : /\ span[i].value = image.media[position + i]
                           /\ span[i].readable <=> (position + i - 1) \div ChunkSize \notin image.bad
  <2> DEFINE all == ImageBytes
  <2>1. all \in Seq({all[i] : i \in 1..TotalSize})
    <3>1. all = [i \in 1..TotalSize |-> all[i]]
      BY DEF ImageBytes
    <3> HIDE DEF all
    <3> QED BY <3>1, <1>2
  <2>2. /\ Len(all) = TotalSize
        /\ \A i \in 1..TotalSize : /\ all[i].value = image.media[i]
                                   /\ all[i].readable <=> (i - 1) \div ChunkSize \notin image.bad
    BY ImageBytesAre
  <2> HIDE DEF end, all
  <2>3. /\ Len(span) = len /\ DOMAIN span = 1..len
        /\ \A i \in 1..len : position + i \in 1..TotalSize /\ span[i] = all[position + i]
    BY <1>1, <1>6, <2>1, <2>2, SliceIs DEF all
  <2> HIDE DEF span, len
  <2> QED BY <2>2, <2>3
<1> HIDE DEF len
<1>9. (\A i \in DOMAIN span : span[i].readable) <=> result'.ok
  <2> HIDE DEF end, span
  <2>1. ASSUME result'.ok, NEW i \in 1..len PROVE span[i].readable
    <3>1. position + i - 1 \in position..end - 1
      BY <1>1, <1>6 DEF len
    <3> QED BY <3>1, <2>1, <1>4, <1>8
  <2>2. ASSUME \A i \in 1..len : span[i].readable, NEW b \in position..end - 1
        PROVE  b \div ChunkSize \notin image.bad
    <3>1. b - position + 1 \in 1..len /\ position + (b - position + 1) - 1 = b
      BY <1>1, <1>6 DEF len
    <3> QED BY <3>1, <2>2, <1>8
  <2> QED BY <2>1, <2>2, <1>4, <1>8
<1>10. [i \in DOMAIN span |-> span[i].value] = data
  <2> HIDE DEF end, span, data
  <2> QED BY <1>7, <1>8
<1>11. Cursor!Read(n)
  <2>1. CASE result'.ok
    <3>1. result' = [ok |-> TRUE, at |-> position, data |-> [i \in DOMAIN span |-> span[i].value]]
      BY <2>1, <1>4, <1>10
    <3>2. position' = position + Len(span)
      <4>1. result'.data = data
        BY <2>1, <1>4
      <4> HIDE DEF data, span, good
      <4> QED BY <4>1, <1>3, <1>7, <1>8
    <3>3. \A i \in DOMAIN span : span[i].readable
      BY <2>1, <1>9
    <3>4. span = SubSeq(ImageBytes, position + 1,
                        IF position + n < Len(ImageBytes) THEN position + n ELSE Len(ImageBytes))
      BY <1>5
    <3> HIDE DEF span
    <3> QED BY <1>3, <1>5, <3>1, <3>2, <3>3, <3>4 DEF Cursor!Read
  <2>2. CASE ~result'.ok
    <3>1. result' = Error /\ Len(result'.data) = 0
      BY <2>2, <1>4 DEF Error
    <3>2. position' = position
      BY <3>1, <1>1, <1>3
    <3>3. ~\A i \in DOMAIN span : span[i].readable
      BY <2>2, <1>9
    <3>4. span = SubSeq(ImageBytes, position + 1,
                        IF position + n < Len(ImageBytes) THEN position + n ELSE Len(ImageBytes))
      BY <1>5
    <3> HIDE DEF span
    <3> QED BY <1>3, <1>5, <3>1, <3>2, <3>3, <3>4 DEF Cursor!Read, Cursor!Error, Error
  <2> QED BY <2>1, <2>2
<1>12. Cursor!Next
  <2>1. n \in -HalfWord..Word - 1 /\ n >= 0
    BY <1>1
  <2> QED BY <2>1, <1>11 DEF Cursor!Next
<1>13. position' \in 0..MaxI64
  <2>1. CASE result'.ok
    <3>1. position' = position + len
      <4>1. result'.data = data
        BY <2>1, <1>4
      <4> HIDE DEF data, good
      <4> QED BY <4>1, <1>3, <1>7
    <3> QED BY <3>1, <1>1, <1>2, <1>6 DEF len
  <2>2. CASE ~result'.ok
    <3>1. position' = position
      BY <2>2, <1>1, <1>3, <1>4 DEF Error
    <3> QED BY <3>1
  <2> QED BY <2>1, <2>2
<1>14. ~result'.ok => result'.data = <<>>
  BY <1>4 DEF Error
<1> QED BY <1>3, <1>4, <1>12, <1>13, <1>14

LEMMA OpenStep ==
  ASSUME image' = image, OpenImage
  PROVE  Cursor!Next /\ position' = 0
BY DEF OpenImage, Cursor!Next, Cursor!Open, Cursor!Error, Error, ImageBytes, TotalSize

----------------------------------------------------------------------------
(* Answers.                                                                *)

\* What the session alone determines stays the same.
LEMMA SameSession ==
  ASSUME session' = session, image' = image
  PROVE  /\ Mode' = Mode /\ TotalSize' = TotalSize
         /\ \A q : Range(q)' = Range(q)
         /\ \A p : MatchesIn(p)' = MatchesIn(p)
         /\ \A n : LevelOf(n)' = LevelOf(n)
BY DEF Mode, TotalSize, Range, MatchesIn, LevelOf

LEMMA SameLine ==
  ASSUME session' = session, image' = image, line' = line
  PROVE  /\ Line' = Line /\ Offset' = Offset /\ RangeLength' = RangeLength
         /\ Pattern' = Pattern /\ Wanted' = Wanted
BY DEF Line, Offset, RangeLength, Pattern, Wanted, TotalSize

\* An answer to a call that is what the call asked for; `out` is the output then.
AnswerTrue(r, out) ==
  LET q == session.lines[r.line]
  IN  q.kind = "call" /\ r.ok =>
        /\ q.tool = "read" => r.value = Range(q)
        /\ q.tool = "extract" => out = Range(q) /\ r.value = <<Len(out)>>
        /\ q.tool = "search" /\ Len(q.pattern) <= BufSize + 1 =>
             FirstOf(Asked(q), MatchesIn(q.pattern), r.value)
        /\ q.tool = "verify" => image.opens /\ image.bad = {}

Sequenced(s) == Len(s) \in Nat /\ s = [k \in 1..Len(s) |-> s[k]]

LEMMA AppendedTo ==
  ASSUME NEW s, Sequenced(s), NEW e
  PROVE  /\ Sequenced(Append(s, e)) /\ DOMAIN s = 1..Len(s)
         /\ Len(Append(s, e)) = Len(s) + 1 /\ DOMAIN Append(s, e) = 1..Len(s) + 1
         /\ Append(s, e)[Len(s) + 1] = e
         /\ \A k \in 1..Len(s) : Append(s, e)[k] = s[k]
<1> DEFINE S == {s[k] : k \in 1..Len(s)} \union {e}
<1>1. s \in Seq(S) /\ e \in S
  <2>1. \A k \in 1..Len(s) : s[k] \in S
    OBVIOUS
  <2>2. s = [k \in 1..Len(s) |-> s[k]] /\ Len(s) \in Nat
    BY DEF Sequenced
  <2> HIDE DEF S
  <2>3. s \in [1..Len(s) -> S]
    BY <2>1, <2>2
  <2> QED BY <2>2, <2>3 DEF S
<1> HIDE DEF S
<1> DEFINE t == Append(s, e)
<1>2. t \in Seq(S) /\ Len(t) = Len(s) + 1 /\ DOMAIN t = 1..Len(s) + 1 /\ DOMAIN s = 1..Len(s)
  BY <1>1
<1>3. t[Len(s) + 1] = e /\ \A k \in 1..Len(s) : t[k] = s[k]
  BY <1>1
<1> HIDE DEF t
<1>4. Sequenced(t)
  BY <1>2 DEF Sequenced
<1> QED BY <1>2, <1>3, <1>4 DEF t

LEMMA AnswerInv ==
  ASSUME IInv, session' = session, image' = image, position' \in 0..MaxI64,
         Mode \in {"cli", "mcp"}, line \in DOMAIN session.lines,
         Mode = "cli" => pc \in Serving,
         NEW r, replies' = Append(replies, r), r.line = line, AnswerTrue(r, output'),
         line' = line + 1,
         Mode = "cli" => pc' = "stopped" /\ (exit' = 0 => r.ok /\ (Line.tool = "verify" => ~VerifyFails)),
         Mode # "cli" => pc' = "idle",
         output' # output => Line.kind = "call" /\ Line.tool = "extract"
  PROVE  IInv'
<1>1. /\ Mode' = Mode /\ TotalSize' = TotalSize
      /\ \A q : Range(q)' = Range(q)
      /\ \A p : MatchesIn(p)' = MatchesIn(p)
  BY SameSession
<1>2. pc' \in {"idle", "stopped"} /\ (pc' = "idle" <=> Mode = "mcp")
  OBVIOUS
<1>3. ControlOK'
  BY <1>1, <1>2 DEF IInv, ControlOK, Serving, Ranged
<1>4. RangeOK' /\ SearchOK'
  BY <1>2, WordAssumption DEF RangeOK, SearchOK, MaxI64
<1> DEFINE n == Len(replies)
<1>5. PICK l \in Nat :
        /\ l = n + 1 /\ Len(replies') = l /\ Sequenced(replies') /\ n \in Nat
        /\ DOMAIN replies = 1..n /\ DOMAIN replies' = 1..l
        /\ replies'[l] = r /\ \A k \in 1..n : replies'[k] = replies[k]
  BY AppendedTo DEF IInv, Sequenced
<1>6. \A k \in 1..n : \A t : Replied(k, t)' = Replied(k, t) /\ Request(k)' = Request(k)
  BY <1>5 DEF Replied, Request
<1>7. Request(l)' = Line /\ \A t : Replied(l, t)' <=> Line.kind = "call" /\ Line.tool = t
  BY <1>5 DEF Replied, Request, Line
<1>8. pc = "extract" => Line.kind = "call" /\ Line.tool = "extract"
  BY DEF IInv, ControlOK, Serving, Ranged
<1> HIDE DEF n
<1>9. AnswersExact'
  <2>1. ASSUME NEW k \in 1..n, replies[k].ok
        PROVE  /\ Replied(k, "read")' => replies'[k].value = Range(Request(k))'
               /\ /\ Replied(k, "extract")'
                  /\ \A j \in k + 1..Len(replies') : ~Replied(j, "extract")'
                  /\ pc' # "extract"
                  => output' = Range(Request(k))' /\ replies'[k].value = <<Len(output')>>
    <3>1. Range(Request(k))' = Range(Request(k))
      BY <1>1, <1>6 DEF Range
    <3>2. Replied(k, "read") => replies[k].value = Range(Request(k))
      BY <2>1, <1>5 DEF IInv, AnswersExact
    <3>3. ASSUME Replied(k, "extract"), \A j \in k + 1..l : ~Replied(j, "extract")'
          PROVE  output' = Range(Request(k)) /\ replies[k].value = <<Len(output')>>
      <4>1. ~Replied(l, "extract")'
        BY <3>3, <1>5
      <4>2. pc # "extract" /\ output' = output
        BY <4>1, <1>7, <1>8
      <4>3. \A j \in k + 1..n : ~Replied(j, "extract")
        BY <3>3, <1>5, <1>6
      <4>4. output = Range(Request(k)) /\ replies[k].value = <<Len(output)>>
        BY <2>1, <3>3, <4>2, <4>3, <1>5 DEF IInv, AnswersExact, n
      <4> QED BY <4>2, <4>4
    <3> QED BY <3>1, <3>2, <3>3, <1>5, <1>6
  <2>2. ASSUME r.ok
        PROVE  /\ Replied(l, "read")' => r.value = Range(Request(l))'
               /\ Replied(l, "extract")' => output' = Range(Request(l))' /\ r.value = <<Len(output')>>
    <3>1. Range(Request(l))' = Range(Line)
      BY <1>1, <1>7 DEF Range
    <3> QED BY <2>2, <3>1, <1>7 DEF AnswerTrue, Line
  <2> QED BY <2>1, <2>2, <1>5 DEF AnswersExact
<1>10. SearchFindsAll'
  <2>1. ASSUME NEW k \in 1..n, Replied(k, "search"), replies[k].ok, Len(Request(k).pattern) <= BufSize + 1
        PROVE  FirstOf(Asked(Request(k)), MatchesIn(Request(k).pattern), replies[k].value)
    BY <2>1, <1>5 DEF IInv, SearchFindsAll
  <2>2. ASSUME Line.kind = "call", Line.tool = "search", r.ok, Len(Line.pattern) <= BufSize + 1
        PROVE  FirstOf(Asked(Line), MatchesIn(Line.pattern), r.value)
    BY <2>2 DEF AnswerTrue, Line
  <2>3. ASSUME NEW k \in 1..l, Replied(k, "search")', replies'[k].ok, Len(Request(k)'.pattern) <= BufSize + 1
        PROVE  FirstOf(Asked(Request(k)'), MatchesIn(Request(k)'.pattern), replies'[k].value)
    <3>1. CASE k \in 1..n
      BY <3>1, <2>1, <2>3, <1>5, <1>6
    <3>2. CASE k = l
      BY <3>2, <2>2, <2>3, <1>5, <1>7
    <3> QED BY <3>1, <3>2, <1>5
  <2>4. \A k \in 1..l :
          FirstOf(Asked(Request(k)), MatchesIn(Request(k).pattern), replies[k].value)'
            = FirstOf(Asked(Request(k)'), MatchesIn(Request(k)'.pattern), replies'[k].value)
    BY DEF FirstOf, Asked, MatchesIn, TotalSize
  <2> QED BY <2>3, <2>4, <1>5 DEF SearchFindsAll
<1>11. ExitTellsVerdict'
  <2>1. Mode' = "check" => FALSE
    BY <1>1
  <2>2. ASSUME Mode = "cli", exit' = 0, session.lines[1].tool = "verify"
        PROVE  image.opens /\ image.bad = {} /\ image.complete /\ "mismatch" \notin {image.md5, image.sha1}
    <3>1. line = 1 /\ Line.kind = "call"
      BY <2>2 DEF IInv, ControlOK
    <3>2. r.ok /\ ~VerifyFails /\ Line.tool = "verify"
      BY <2>2, <3>1 DEF Line
    <3>3. image.opens /\ image.bad = {}
      BY <3>1, <3>2 DEF AnswerTrue, Line
    <3> QED BY <3>2, <3>3 DEF VerifyFails
  <2> QED BY <2>1, <2>2, <1>1 DEF ExitTellsVerdict, Mode
<1> QED BY <1>2, <1>3, <1>4, <1>5, <1>9, <1>10, <1>11 DEF IInv, Sequenced

LEMMA ExitCodes ==
  ASSUME NEW ok \in BOOLEAN, ExitCode(ok) = 0
  PROVE  ok /\ (Line.tool = "verify" => ~VerifyFails)
BY DEF ExitCode

\* A call that fails promises nothing.
LEMMA RefuseInv ==
  ASSUME IInv, session' = session, image' = image, position' \in 0..MaxI64, pc \in Serving, Refuse,
         output' # output => Line.tool = "extract"
  PROVE  IInv'
<1> DEFINE r == [line |-> line, ok |-> FALSE, value |-> <<>>]
<1>1. /\ replies' = Append(replies, r) /\ line' = line + 1
      /\ IF Mode = "cli" THEN pc' = "stopped" /\ exit' = ExitCode(FALSE) ELSE pc' = "idle"
  BY DEF Refuse, Answer
<1>2. Mode \in {"cli", "mcp"} /\ line \in DOMAIN session.lines /\ Line.kind = "call"
  BY DEF IInv, ControlOK
<1>3. ExitCode(FALSE) # 0
  BY ExitCodes
<1>4. r.line = line /\ AnswerTrue(r, output')
  BY DEF AnswerTrue
<1> HIDE DEF r
<1> QED BY <1>1, <1>2, <1>3, <1>4, AnswerInv

LEMMA SucceedInv ==
  ASSUME IInv, session' = session, image' = image, position' \in 0..MaxI64, pc \in Serving,
         NEW value, Answer(TRUE, value), output' = output,
         Line.tool = "read" => value = Range(Line),
         Line.tool = "extract" => output = Range(Line) /\ value = <<Len(output)>>,
         Line.tool = "search" /\ Len(Pattern) <= BufSize + 1 => FirstOf(Wanted, MatchesIn(Pattern), value),
         Line.tool = "verify" => image.opens /\ image.bad = {}
  PROVE  IInv'
<1> DEFINE r == [line |-> line, ok |-> TRUE, value |-> value]
<1>1. /\ replies' = Append(replies, r) /\ line' = line + 1
      /\ IF Mode = "cli" THEN pc' = "stopped" /\ exit' = ExitCode(TRUE) ELSE pc' = "idle"
  BY DEF Answer
<1>2. Mode \in {"cli", "mcp"} /\ line \in DOMAIN session.lines /\ Line.kind = "call"
  BY DEF IInv, ControlOK
<1>3. ExitCode(TRUE) = 0 => (Line.tool = "verify" => ~VerifyFails)
  BY ExitCodes
<1>4. r.line = line /\ r.ok /\ r.value = value
  OBVIOUS
<1> HIDE DEF r
<1>5. AnswerTrue(r, output')
  BY <1>4 DEF AnswerTrue, Line, Pattern, Wanted
<1> QED BY <1>1, <1>2, <1>3, <1>4, <1>5, AnswerInv

\* A step that answers nothing keeps the answers true.
LEMMA KeptAnswers ==
  ASSUME IInv, session' = session, image' = image, replies' = replies,
         pc' # "extract" => pc # "extract" /\ output' = output
  PROVE  AnswersExact' /\ SearchFindsAll' /\ Sequenced(replies')
<1>1. \A k, t : Replied(k, t)' = Replied(k, t) /\ Request(k)' = Request(k)
  BY DEF Replied, Request
<1>2. \A k : Range(Request(k))' = Range(Request(k))
  BY DEF Range, TotalSize, Request
<1>3. AnswersExact'
  <2>1. AnswersExact
    BY DEF IInv
  <2> QED BY <1>1, <1>2, <2>1 DEF AnswersExact
<1>4. SearchFindsAll'
  <2>1. \A k : FirstOf(Asked(Request(k)), MatchesIn(Request(k).pattern), replies[k].value)'
                 = FirstOf(Asked(Request(k)), MatchesIn(Request(k).pattern), replies[k].value)
    BY DEF FirstOf, Asked, MatchesIn, TotalSize, Request
  <2>2. SearchFindsAll
    BY DEF IInv
  <2> QED BY <1>1, <2>1, <2>2 DEF SearchFindsAll
<1> QED BY <1>3, <1>4 DEF IInv, Sequenced

----------------------------------------------------------------------------
(* The steps that answer nothing, one after another.                       *)

\* Between two calls.
LEMMA IdleInv ==
  ASSUME IInv, SkipLine \/ StartCall \/ ServerStops PROVE IInv'
<1>1. /\ pc = "idle" /\ UNCHANGED <<session, image, output, position, replies>>
      /\ \/ pc' = "idle" /\ line' = line + 1
         \/ pc' = "call" /\ line' = line /\ line <= Len(session.lines) /\ Line.kind = "call"
         \/ pc' = "stopped" /\ line' = line
  BY DEF SkipLine, StartCall, ServerStops, Incoming, rest, cursor
<1>2. AnswersExact' /\ SearchFindsAll' /\ Sequenced(replies')
  BY <1>1, KeptAnswers
<1>3. Mode = "mcp" /\ Mode' = Mode /\ line \in Nat \ {0} /\ session \in Sessions /\ image = session.image
  BY <1>1, SameSession DEF IInv, ControlOK
<1>4. ControlOK'
  <2>1. CASE pc' = "call"
    <3>1. line \in DOMAIN session.lines /\ Line' = Line
      BY <2>1, <1>1, <1>3, ImageFacts, SameLine DEF IInv
    <3> QED BY <2>1, <3>1, <1>1, <1>3 DEF ControlOK, Serving, Ranged
  <2>2. CASE pc' \in {"idle", "stopped"}
    BY <2>2, <1>1, <1>3 DEF ControlOK, Serving, Ranged
  <2> QED BY <2>1, <2>2, <1>1
<1>5. RangeOK' /\ SearchOK' /\ ExitTellsVerdict'
  BY <1>1, <1>3 DEF IInv, RangeOK, SearchOK, ExitTellsVerdict, MaxI64
<1> QED BY <1>1, <1>2, <1>4, <1>5 DEF IInv, Sequenced

LEMMA PanicInv ==
  ASSUME IInv, Panic PROVE IInv'
<1>1. pc = "call" /\ pc' = "panicked" /\ UNCHANGED <<session, image, output, position, replies, line>>
  BY DEF Panic, Calls, rest, cursor
<1>2. AnswersExact' /\ SearchFindsAll' /\ Sequenced(replies')
  BY <1>1, KeptAnswers
<1>3. ControlOK' /\ RangeOK' /\ SearchOK' /\ ExitTellsVerdict'
  BY <1>1 DEF IInv, ControlOK, Serving, Ranged, RangeOK, SearchOK, ExitTellsVerdict, MaxI64
<1> QED BY <1>1, <1>2, <1>3 DEF IInv, Sequenced

LEMMA OpenForRangeInv ==
  ASSUME IInv, OpenForRange PROVE IInv'
<1>1. /\ pc = "call" /\ pc' = "seek" /\ UNCHANGED <<session, image, output, replies, line>>
      /\ Line.tool \in Ranged /\ ~Line.missing /\ ~Beyond /\ ~BadPattern /\ ~SplitPattern
      /\ OpenImage
  BY DEF OpenForRange, Opened, Calls, rest, Ranged
<1>2. AnswersExact' /\ SearchFindsAll' /\ Sequenced(replies')
  BY <1>1, KeptAnswers
<1>3. position' = 0 /\ 0 \in 0..MaxI64
  BY <1>1, WordAssumption DEF OpenImage, MaxI64
<1>4. IF Line.tool = "search" THEN Pattern # <<>> ELSE Offset < TotalSize
  <2>1. CASE Line.tool = "search"
    BY <2>1, <1>1 DEF BadPattern, SplitPattern, Pattern
  <2>2. CASE Line.tool # "search"
    <3>1. CallOK(Line) /\ TotalSize \in Nat
      BY <1>1, ImageFacts DEF IInv, ControlOK, Line, Serving, Ranged
    <3>2. Offset \in Nat
      BY <3>1, WordAssumption DEF CallOK, Offset, Given, None, Word
    <3> QED BY <2>2, <3>1, <3>2, <1>1 DEF Beyond
  <2> QED BY <2>1, <2>2
<1>5. Line' = Line /\ Pattern' = Pattern /\ Offset' = Offset /\ TotalSize' = TotalSize /\ Mode' = Mode
  BY <1>1, SameLine, SameSession
<1>6. ControlOK'
  BY <1>1, <1>4, <1>5 DEF IInv, ControlOK, Serving, Ranged
<1>7. RangeOK' /\ SearchOK' /\ ExitTellsVerdict'
  BY <1>1, <1>3 DEF RangeOK, SearchOK, ExitTellsVerdict, MaxI64
<1> QED BY <1>1, <1>2, <1>6, <1>7 DEF IInv, Sequenced

\* The chains of `sections`.
LEMMA SectionsInv ==
  ASSUME IInv, UNCHANGED <<session, image, output, position, replies, line>>,
         pc' = "sections", pc = "sections" \/ (pc = "call" /\ Line.tool = "sections" /\ ~Line.missing)
  PROVE  IInv'
<1>1. AnswersExact' /\ SearchFindsAll' /\ Sequenced(replies')
  BY KeptAnswers
<1>2. Line' = Line /\ Mode' = Mode
  BY SameLine, SameSession
<1>3. ControlOK'
  BY <1>2 DEF IInv, ControlOK, Serving, Ranged
<1>4. RangeOK' /\ SearchOK' /\ ExitTellsVerdict'
  BY DEF IInv, RangeOK, SearchOK, ExitTellsVerdict, MaxI64
<1> QED BY <1>1, <1>3, <1>4 DEF IInv, Sequenced

----------------------------------------------------------------------------
(* read and extract.                                                       *)

\* The range lies in the image.
LEMMA RangeFacts ==
  ASSUME ControlOK, pc \in Ranged \union {"seek"}, Line.tool \in {"read", "extract"}
  PROVE  /\ Offset \in Nat /\ Offset < TotalSize /\ TotalSize \in Nat /\ TotalSize <= MaxI64
         /\ RangeLength \in Nat /\ Offset + RangeLength <= TotalSize
         /\ Range(Line) = SubSeq(image.media, Offset + 1, Offset + RangeLength)
<1>1. CallOK(Line) /\ TotalSize \in Nat /\ TotalSize <= MaxI64 /\ ~Line.missing /\ Offset < TotalSize
  BY ImageFacts DEF ControlOK, Line, Serving, Ranged
<1>2. Offset \in Nat
  BY <1>1, WordAssumption DEF CallOK, Offset, Given, None, Word
<1> DEFINE len == IF Line.tool = "read" THEN SmallerOf(Given(Line.length, DefaultLength), MaxLength)
                                        ELSE Line.length
<1>3. len \in Nat
  <2>1. CASE Line.tool = "read"
    <3>1. Given(Line.length, DefaultLength) \in Nat /\ MaxLength \in Nat
      BY <1>1, WordAssumption, SessionAssumption DEF CallOK, Given, None, Word
    <3> QED BY <2>1, <3>1 DEF SmallerOf
  <2>2. CASE Line.tool = "extract"
    BY <2>2, <1>1, WordAssumption DEF CallOK, None, Word
  <2> QED BY <2>1, <2>2
<1>4. RangeLength = SmallerOf(len, TotalSize - Offset)
  BY DEF RangeLength
<1>5. Range(Line) = SubSeq(image.media, Offset + 1, SmallerOf(Offset + len, TotalSize))
  BY DEF Range, Offset
<1> HIDE DEF len
<1>6. RangeLength \in Nat /\ Offset + RangeLength <= TotalSize
      /\ SmallerOf(Offset + len, TotalSize) = Offset + RangeLength
  BY <1>1, <1>2, <1>3, <1>4 DEF SmallerOf
<1> QED BY <1>1, <1>2, <1>5, <1>6

LEMMA WantedIsNumber ==
  ASSUME ControlOK, pc \in Serving
  PROVE  Wanted \in Nat /\ Pattern \in Seq(0..255)
<1>1. CallOK(Line)
  BY ImageFacts DEF ControlOK, Line
<1>2. Given(Line.max, DefaultResults) \in Nat /\ MaxResults \in Nat
  BY <1>1, SessionAssumption, WordAssumption DEF CallOK, Given, None, Word
<1> QED BY <1>1, <1>2 DEF Wanted, Asked, SmallerOf, CallOK, Pattern

LEMMA SeekToStartInv ==
  ASSUME IInv, SeekToStart PROVE IInv' /\ Cursor!Next
<1> DEFINE t == IF Line.tool = "search" THEN 0 ELSE Offset
<1>1. /\ pc = "seek" /\ pc' = Line.tool /\ Seek("start", t)
      /\ job' = [NoJob EXCEPT !.left = IF Line.tool = "search" THEN 0 ELSE RangeLength]
      /\ output' = IF Line.tool = "extract" /\ session.room # None THEN <<>> ELSE output
      /\ UNCHANGED <<session, image, line, replies>>
  BY DEF SeekToStart
<1>2. ControlOK /\ position \in 0..MaxI64 /\ Line.tool \in Ranged
  BY <1>1 DEF IInv, RangeOK, ControlOK
<1>3. HalfWord \in Nat \ {0} /\ Word = 2 * HalfWord /\ MaxI64 = HalfWord - 1
  BY WordAssumption DEF Word, MaxI64
<1>4. t \in 0..MaxI64
  <2>1. CASE Line.tool = "search"
    BY <2>1, <1>3
  <2>2. CASE Line.tool \in {"read", "extract"}
    BY <2>2, <1>1, <1>2, <1>3, RangeFacts
  <2> QED BY <2>1, <2>2, <1>2 DEF Ranged
<1> HIDE DEF t
<1>5. t \in 0..Word - 1
  BY <1>3, <1>4
<1>6. Cursor!Next /\ position' \in 0..MaxI64
  <2>1. \/ "start" = "start" /\ t \in 0..Word - 1
        \/ "start" \in {"end", "current"} /\ t \in -HalfWord..MaxI64
    BY <1>5
  <2> QED BY <1>1, <1>2, <2>1, SeekStep
<1>7. position' = t
  <2>1. SeekTarget("start", t) = t
    <3>1. AsI64(t) = t
      BY <1>3, <1>4, AsI64Small
    <3> QED BY <3>1 DEF SeekTarget
  <2> QED BY <1>1, <1>3, <1>4, <2>1 DEF Seek
<1>8. AnswersExact' /\ SearchFindsAll' /\ Sequenced(replies')
  <2>1. pc' # "extract" => pc # "extract" /\ output' = output
    BY <1>1
  <2> QED BY <1>1, <2>1, KeptAnswers
<1>9. Line' = Line /\ Pattern' = Pattern /\ Offset' = Offset /\ TotalSize' = TotalSize /\ Mode' = Mode
      /\ RangeLength' = RangeLength /\ Wanted' = Wanted
  BY <1>1, SameLine, SameSession
<1>10. ControlOK'
  BY <1>1, <1>2, <1>9 DEF ControlOK, Serving, Ranged
<1>11. RangeOK'
  <2>1. CASE Line.tool = "search"
    BY <2>1, <1>1, <1>6 DEF RangeOK, MaxI64
  <2>2. CASE Line.tool \in {"read", "extract"}
    <3>1. RangeLength \in Nat /\ Offset \in Nat /\ TotalSize \in Nat /\ image.media \in Seq(0..255)
      BY <2>2, <1>1, <1>2, RangeFacts, ImageFacts
    <3>2. job'.left = RangeLength /\ position' = Offset /\ IsJob(job')
      BY <2>2, <1>1, <1>7 DEF t, NoJob, IsJob
    <3>3. CASE Line.tool = "read"
      BY <3>2, <3>3, <1>1, <1>6, <1>9 DEF RangeOK, MaxI64
    <3>4. CASE Line.tool = "extract" /\ session.room # None
      <4>1. output' = <<>> /\ session.room \in Nat
        BY <3>4, <1>1, <1>2, ImageFacts
      <4>2. Len(output') = 0 /\ output' \in Seq(0..255) /\ SubSeq(image.media, Offset + 1, Offset + 0) = <<>>
        BY <4>1, <3>1
      <4> QED BY <3>1, <3>2, <3>4, <4>1, <4>2, <1>1, <1>6, <1>9 DEF RangeOK, MaxI64
    <3>5. CASE Line.tool = "extract" /\ session.room = None
      BY <3>5, <1>1, <1>6 DEF RangeOK, MaxI64
    <3> QED BY <2>2, <3>3, <3>4, <3>5
  <2> QED BY <2>1, <2>2, <1>2 DEF Ranged
<1>12. SearchOK'
  <2> SUFFICES ASSUME Line.tool = "search" PROVE SearchOK'
    BY <1>1 DEF SearchOK
  <2>1. job'.offset = 0 /\ job'.carry = <<>> /\ job'.found = <<>> /\ position' = 0
        /\ IsJob(job')
    BY <1>1, <1>7 DEF NoJob, t, IsJob
  <2>2. Wanted \in Nat /\ Len(Pattern) \in Nat /\ Len(Pattern) # 0 /\ TotalSize \in Nat
    <3>1. Pattern \in Seq(0..255) /\ Pattern # <<>> /\ Wanted \in Nat
      BY <1>1, <1>2, WantedIsNumber DEF ControlOK, Serving, Ranged
    <3> QED BY <3>1, <1>2, ImageFacts
  <2>3. {m \in MatchesIn(Pattern) : m + Len(Pattern) <= 0} = {}
    BY <2>2 DEF MatchesIn
  <2>4. FirstOf(Wanted, {m \in MatchesIn(Pattern) : m + Len(Pattern) <= 0}, <<>>)
    BY <2>2, <2>3 DEF FirstOf
  <2>5. SubSeq(image.media, 0 - 0 + 1, 0) = <<>>
    BY <1>2, ImageFacts
  <2>6. MatchesIn(Pattern)' = MatchesIn(Pattern)
    BY <1>1, <1>9 DEF MatchesIn
  <2>7. FirstOf(Wanted, {m \in MatchesIn(Pattern) : m + Len(Pattern) <= job.offset}, job.found)'
    BY <2>1, <2>4, <2>6, <1>9 DEF FirstOf
  <2> QED BY <2>1, <2>2, <2>5, <2>7, <1>1, <1>9 DEF SearchOK
<1>13. ExitTellsVerdict'
  BY <1>1, <1>2 DEF ExitTellsVerdict, Ranged
<1> QED BY <1>1, <1>2, <1>6, <1>8, <1>10, <1>11, <1>12, <1>13 DEF IInv, Sequenced, Ranged

\* Two neighbouring slices make one.
LEMMA JoinSlices ==
  ASSUME NEW S, NEW s \in Seq(S), NEW a \in Nat, NEW b \in Nat, NEW c \in Nat,
         a <= b, b <= c, c <= Len(s)
  PROVE  SubSeq(s, a + 1, b) \o SubSeq(s, b + 1, c) = SubSeq(s, a + 1, c)
<1> DEFINE x == SubSeq(s, a + 1, b)
           y == SubSeq(s, b + 1, c)
           z == SubSeq(s, a + 1, c)
<1>1. /\ x \in Seq(S) /\ Len(x) = b - a /\ \A i \in 1..b - a : x[i] = s[a + i]
      /\ y \in Seq(S) /\ Len(y) = c - b /\ \A i \in 1..c - b : y[i] = s[b + i]
      /\ z \in Seq(S) /\ Len(z) = c - a /\ \A i \in 1..c - a : z[i] = s[a + i]
  <2>1. x \in Seq(S) /\ Len(x) = b - a /\ \A i \in 1..b - a : x[i] = s[a + i]
    <3> HIDE DEF y, z
    <3>1. b <= Len(s)
      OBVIOUS
    <3> QED BY <3>1, SliceIs
  <2>2. y \in Seq(S) /\ Len(y) = c - b /\ \A i \in 1..c - b : y[i] = s[b + i]
    BY SliceIs
  <2>3. z \in Seq(S) /\ Len(z) = c - a /\ \A i \in 1..c - a : z[i] = s[a + i]
    <3>1. a <= c
      OBVIOUS
    <3> QED BY <3>1, SliceIs
  <2> HIDE DEF x, y, z
  <2> QED BY <2>1, <2>2, <2>3
<1> HIDE DEF x, y, z
<1> DEFINE w == x \o y
<1>2. w \in Seq(S) /\ Len(w) = c - a
  BY <1>1
<1>3. \A i \in 1..c - a : w[i] = IF i <= b - a THEN x[i] ELSE y[i - (b - a)]
  <2>1. \A i \in 1..Len(x) + Len(y) : w[i] = IF i <= Len(x) THEN x[i] ELSE y[i - Len(x)]
    BY <1>1
  <2>2. Len(x) + Len(y) = c - a
    BY <1>1
  <2> QED BY <1>1, <2>1, <2>2
<1> HIDE DEF w
<1>4. ASSUME NEW i \in 1..c - a PROVE w[i] = z[i]
  <2>1. CASE i <= b - a
    <3>1. i \in 1..b - a
      BY <2>1
    <3>2. w[i] = x[i]
      BY <2>1, <1>3
    <3>3. x[i] = s[a + i] /\ z[i] = s[a + i]
      BY <3>1, <1>1
    <3> QED BY <3>2, <3>3
  <2>2. CASE i > b - a
    <3>1. i - (b - a) \in 1..c - b /\ b + (i - (b - a)) = a + i
      BY <2>2
    <3>2. y[i - (b - a)] = s[a + i]
      BY <3>1, <1>1
    <3> QED BY <2>2, <3>2, <1>1, <1>3
  <2> QED BY <2>1, <2>2
<1> QED BY <1>1, <1>2, <1>4 DEF w, x, y, z

LEMMA ReadSectorsInv ==
  ASSUME IInv, ReadSectors PROVE IInv' /\ Cursor!Next
<1>1. /\ pc = "read" /\ Read(job.left) /\ UNCHANGED <<session, image, output>>
      /\ IF result'.ok /\ Len(result'.data) = job.left THEN Answer(TRUE, result'.data) ELSE Refuse
  BY DEF ReadSectors, rest
<1>2. ControlOK /\ position \in 0..MaxI64 /\ Line.tool = "read" /\ position = Offset /\ job.left = RangeLength
  BY <1>1 DEF IInv, RangeOK, ControlOK, Ranged
<1>3. /\ Offset \in Nat /\ Offset < TotalSize /\ TotalSize \in Nat /\ TotalSize <= MaxI64
      /\ RangeLength \in Nat /\ Offset + RangeLength <= TotalSize
      /\ Range(Line) = SubSeq(image.media, Offset + 1, Offset + RangeLength)
  BY <1>1, <1>2, RangeFacts DEF Ranged
<1>4. RangeLength \in 0..Word - 1
  BY <1>3, WordAssumption DEF Word, MaxI64
<1>5. /\ Cursor!Next /\ position' \in 0..MaxI64
      /\ result'.ok \in BOOLEAN
      /\ result'.ok =>
           result'.data = SubSeq(image.media, position + 1,
                                 IF position + RangeLength < TotalSize THEN position + RangeLength ELSE TotalSize)
  BY <1>1, <1>2, <1>4, ReadStep
<1>6. result'.ok => result'.data = Range(Line)
  BY <1>2, <1>3, <1>5
<1>7. pc \in Serving
  BY <1>1 DEF Serving, Ranged
<1>8. CASE result'.ok /\ Len(result'.data) = job.left
  <2>1. PICK value : value = result'.data
    OBVIOUS
  <2>2. Answer(TRUE, value) /\ value = Range(Line)
    BY <1>1, <1>6, <1>8, <2>1 DEF Answer
  <2> QED BY <1>1, <1>2, <1>5, <1>7, <2>2, SucceedInv
<1>9. CASE ~(result'.ok /\ Len(result'.data) = job.left)
  BY <1>1, <1>5, <1>7, <1>9, RefuseInv
<1> QED BY <1>5, <1>8, <1>9

LEMMA ExtractBufferInv ==
  ASSUME IInv, ExtractBuffer PROVE IInv' /\ Cursor!Next
<1> DEFINE n == SmallerOf(job.left, BufSize)
           data == result'.data
           fits == SmallerOf(Len(data), session.room - Len(output))
<1>1. /\ pc = "extract" /\ session.room # None /\ job.left > 0 /\ Read(n)
      /\ output' = output \o SubSeq(data, 1, fits)
      /\ IF result'.ok /\ fits = Len(data)
         THEN job' = [job EXCEPT !.left = Left(data)] /\ UNCHANGED <<pc, line, replies, exit>>
         ELSE Refuse
      /\ UNCHANGED <<session, image>>
  BY DEF ExtractBuffer
<1>2. /\ ControlOK /\ position \in 0..MaxI64 /\ Line.tool = "extract" /\ pc \in Serving
      /\ output \in Seq(0..255) /\ Len(output) <= session.room
      /\ job.left = RangeLength - Len(output) /\ job.left >= 0
      /\ position = Offset + Len(output)
      /\ output = SubSeq(image.media, Offset + 1, Offset + Len(output))
      /\ IsJob(job)
  BY <1>1 DEF IInv, RangeOK, ControlOK, Ranged, Serving
<1>3. /\ Offset \in Nat /\ Offset < TotalSize /\ TotalSize \in Nat /\ TotalSize <= MaxI64
      /\ RangeLength \in Nat /\ Offset + RangeLength <= TotalSize
      /\ session.room \in Nat /\ image.media \in Seq(0..255) /\ Len(image.media) = TotalSize
  BY <1>1, <1>2, RangeFacts, ImageFacts DEF Ranged, TotalSize
<1>4. n \in Nat /\ n <= job.left /\ n \in 0..Word - 1 /\ position + n <= TotalSize
  <2>1. job.left \in Nat /\ BufSize \in Nat \ {0} /\ Len(output) \in Nat
    BY <1>2, <1>3, SessionAssumption
  <2>2. n \in Nat /\ n <= job.left
    BY <2>1 DEF SmallerOf
  <2> HIDE DEF n
  <2> QED BY <1>2, <1>3, <2>1, <2>2, WordAssumption DEF Word, MaxI64
<1> HIDE DEF n
<1>5. /\ Cursor!Next /\ position' \in 0..MaxI64
      /\ result'.ok \in BOOLEAN
      /\ result'.ok =>
           /\ data = SubSeq(image.media, position + 1,
                            IF position + n < TotalSize THEN position + n ELSE TotalSize)
           /\ position' = position + Len(data)
  BY <1>1, <1>2, <1>4, ReadStep
<1>6. CASE ~(result'.ok /\ fits = Len(data))
  BY <1>1, <1>2, <1>5, <1>6, RefuseInv
<1>7. CASE result'.ok /\ fits = Len(data)
  <2>1. data = SubSeq(image.media, position + 1, position + n) /\ Len(output) \in Nat
    BY <1>2, <1>3, <1>4, <1>5, <1>7
  <2> DEFINE Byte == 0..255
             a == Offset
             b == Offset + Len(output)
             c == Offset + Len(output) + n
  <2>2. a \in Nat /\ b \in Nat /\ c \in Nat /\ a <= b /\ b <= c /\ c <= Len(image.media)
        /\ image.media \in Seq(Byte)
    BY <1>2, <1>3, <1>4, <2>1
  <2> HIDE DEF Byte, a, b, c
  <2>3. data = SubSeq(image.media, b + 1, c) /\ output = SubSeq(image.media, a + 1, b)
    BY <2>1, <1>2 DEF a, b, c
  <2>4. SubSeq(image.media, a + 1, b) \o SubSeq(image.media, b + 1, c) = SubSeq(image.media, a + 1, c)
    BY <2>2, JoinSlices
  <2>5. data \in Seq(Byte) /\ Len(data) = c - b
    BY <2>2, <2>3, SliceIs
  <2> HIDE DEF data, fits
  <2>6. SubSeq(data, 1, Len(data)) = data
    BY <2>5
  <2>7. output' = SubSeq(image.media, a + 1, c)
    BY <1>1, <1>7, <2>3, <2>4, <2>6
  <2>8. output' \in Seq(Byte) /\ Len(output') = c - a
    BY <2>2, <2>7, SliceIs
  <2>9. c - a = Len(output) + n /\ c - b = n
    BY <1>3, <1>4, <2>1 DEF a, b, c
  <2>10. Len(output') = Len(output) + n /\ Len(output') <= session.room
    <3>1. n <= session.room - Len(output)
      BY <1>3, <1>4, <1>7, <2>1, <2>5, <2>9 DEF fits, SmallerOf
    <3> QED BY <2>8, <2>9, <3>1, <1>3, <1>4, <2>1
  <2>11. job'.left = job.left - n /\ IsJob(job')
    <3>1. job' = [job EXCEPT !.left = job.left - n]
      BY <1>1, <1>7, <2>5, <2>9 DEF Left
    <3> QED BY <3>1, <1>2 DEF IsJob
  <2>12. output' = SubSeq(image.media, Offset + 1, Offset + Len(output'))
    <3>1. Offset + Len(output') = c
      BY <1>3, <1>4, <2>1, <2>10 DEF c
    <3> QED BY <3>1, <2>7 DEF a
  <2>13. Line' = Line /\ Offset' = Offset /\ TotalSize' = TotalSize /\ Mode' = Mode
         /\ RangeLength' = RangeLength
    BY <1>1, <1>7, SameLine, SameSession
  <2>14. RangeOK'
    <3>1. position' = Offset + Len(output')
      <4>1. position' = position + Len(data)
        BY <1>5, <1>7
      <4>2. Len(data) = n
        BY <2>5, <2>9
      <4>3. position' = Offset + Len(output) + n
        BY <4>1, <4>2, <1>2
      <4> QED BY <4>3, <1>3, <1>4, <2>1, <2>10
    <3>2. job'.left = RangeLength - Len(output') /\ job'.left >= 0
      BY <1>2, <1>3, <1>4, <2>1, <2>10, <2>11
    <3>3. output' \in Seq(0..255)
      BY <2>8 DEF Byte
    <3> QED BY <1>1, <1>5, <1>7, <2>10, <2>11, <2>12, <2>13, <3>1, <3>2, <3>3 DEF RangeOK, MaxI64
  <2>15. ControlOK'
    BY <1>1, <1>2, <1>7, <2>13 DEF ControlOK, Serving, Ranged
  <2>16. AnswersExact' /\ SearchFindsAll' /\ Sequenced(replies')
    BY <1>1, <1>7, KeptAnswers
  <2>17. SearchOK' /\ ExitTellsVerdict'
    BY <1>1, <1>7 DEF SearchOK, ExitTellsVerdict
  <2> QED BY <1>1, <1>5, <1>7, <2>14, <2>15, <2>16, <2>17 DEF IInv, Sequenced
<1> QED BY <1>5, <1>6, <1>7

LEMMA ExtractDoneInv ==
  ASSUME IInv, ExtractDone PROVE IInv'
<1>1. /\ pc = "extract" /\ session.room # None /\ job.left <= 0
      /\ Answer(TRUE, <<RangeLength - job.left>>) /\ UNCHANGED <<session, image, output, position>>
  BY DEF ExtractDone, rest, cursor
<1>2. /\ ControlOK /\ position \in 0..MaxI64 /\ Line.tool = "extract" /\ pc \in Serving
      /\ output \in Seq(0..255)
      /\ job.left = RangeLength - Len(output) /\ job.left >= 0
      /\ output = SubSeq(image.media, Offset + 1, Offset + Len(output))
  BY <1>1 DEF IInv, RangeOK, ControlOK, Ranged, Serving
<1>3. RangeLength \in Nat /\ Range(Line) = SubSeq(image.media, Offset + 1, Offset + RangeLength)
  BY <1>1, <1>2, RangeFacts DEF Ranged
<1>4. Len(output) = RangeLength /\ RangeLength - job.left = Len(output)
  BY <1>1, <1>2, <1>3
<1>5. output = Range(Line) /\ <<RangeLength - job.left>> = <<Len(output)>>
  BY <1>2, <1>3, <1>4
<1>6. PICK value : value = <<RangeLength - job.left>>
  OBVIOUS
<1>7. Answer(TRUE, value) /\ position' \in 0..MaxI64
  BY <1>1, <1>2, <1>6
<1> QED BY <1>1, <1>2, <1>5, <1>6, <1>7, SucceedInv

----------------------------------------------------------------------------
(* The other answers.                                                      *)

LEMMA AnswerLineInv ==
  ASSUME IInv, AnswerLine PROVE IInv'
<1>1. /\ pc = "idle" /\ line <= Len(session.lines) /\ Line.kind # "call"
      /\ Answer(Line.kind \in {"initialize", "list"}, <<>>)
      /\ UNCHANGED <<session, image, output, position>>
  BY DEF AnswerLine, Incoming, rest, cursor
<1>2. Mode = "mcp" /\ line \in DOMAIN session.lines /\ position \in 0..MaxI64
  BY <1>1, ImageFacts DEF IInv, ControlOK, RangeOK
<1>3. PICK r : r = [line |-> line, ok |-> Line.kind \in {"initialize", "list"}, value |-> <<>>]
  OBVIOUS
<1>4. replies' = Append(replies, r) /\ line' = line + 1 /\ pc' = "idle"
  BY <1>1, <1>2, <1>3 DEF Answer
<1>5. r.line = line
  BY <1>3
<1>6. AnswerTrue(r, output')
  BY <1>1, <1>5 DEF AnswerTrue, Line
<1> QED BY <1>1, <1>2, <1>4, <1>5, <1>6, AnswerInv

LEMMA RefusalsInv ==
  ASSUME IInv, RefuseCall \/ NoOutput PROVE IInv'
<1>1. pc \in {"call", "extract"} /\ Refuse /\ UNCHANGED <<session, image, output, position>>
  BY DEF RefuseCall, NoOutput, rest, cursor
<1>2. pc \in Serving /\ position' \in 0..MaxI64
  BY <1>1 DEF IInv, RangeOK, Serving, Ranged
<1> QED BY <1>1, <1>2, RefuseInv

LEMMA InfoInv ==
  ASSUME IInv, Info PROVE IInv' /\ Cursor!Next
<1>1. /\ pc = "call" /\ Line.tool = "info" /\ OpenImage /\ Answer(TRUE, <<TotalSize>>)
      /\ UNCHANGED <<session, image, output>>
  BY DEF Info, Opened, Calls, rest
<1>2. Cursor!Next /\ position' = 0
  BY <1>1, OpenStep
<1>3. position' \in 0..MaxI64 /\ pc \in Serving
  BY <1>1, <1>2, WordAssumption DEF MaxI64, Serving
<1>4. PICK value : value = <<TotalSize>>
  OBVIOUS
<1>5. Answer(TRUE, value)
  BY <1>1, <1>4
<1> QED BY <1>1, <1>2, <1>3, <1>5, SucceedInv

LEMMA VerifyImageInv ==
  ASSUME IInv, VerifyImage PROVE IInv' /\ Cursor!Next
<1>1. /\ pc = "call" /\ Line.tool = "verify" /\ image.opens /\ OpenImage
      /\ IF image.bad = {} THEN Answer(TRUE, <<image.md5, image.sha1, image.complete>>) ELSE Refuse
      /\ UNCHANGED <<session, image, output>>
  BY DEF VerifyImage, Opened, Calls, rest
<1>2. Cursor!Next /\ position' = 0
  BY <1>1, OpenStep
<1>3. position' \in 0..MaxI64 /\ pc \in Serving
  BY <1>1, <1>2, WordAssumption DEF MaxI64, Serving
<1>4. CASE image.bad = {}
  <2>1. PICK value : value = <<image.md5, image.sha1, image.complete>>
    OBVIOUS
  <2>2. Answer(TRUE, value)
    BY <1>1, <1>4, <2>1
  <2> QED BY <1>1, <1>2, <1>3, <1>4, <2>2, SucceedInv
<1>5. CASE image.bad # {}
  BY <1>1, <1>2, <1>3, <1>5, RefuseInv
<1> QED BY <1>4, <1>5

LEMMA RefuseOffsetInv ==
  ASSUME IInv, RefuseOffset PROVE IInv' /\ Cursor!Next
<1>1. pc = "call" /\ OpenImage /\ Refuse /\ UNCHANGED <<session, image, output>>
  BY DEF RefuseOffset, Opened, Calls, rest
<1>2. Cursor!Next /\ position' = 0
  BY <1>1, OpenStep
<1>3. position' \in 0..MaxI64 /\ pc \in Serving
  BY <1>1, <1>2, WordAssumption DEF MaxI64, Serving
<1> QED BY <1>1, <1>2, <1>3, RefuseInv

LEMMA SectionStepsInv ==
  ASSUME IInv, StartSections \/ SectionsDone \/ ListSection \/ ChainLeavesFile PROVE IInv'
<1>1. UNCHANGED <<session, image, output, position>> /\ pc \in {"call", "sections"}
      /\ (pc = "call" => Line.tool = "sections" /\ ~Line.missing)
  BY DEF StartSections, SectionsDone, ListSection, ChainLeavesFile, rest, cursor, Calls
<1>2. pc \in Serving /\ position' \in 0..MaxI64 /\ Line.tool = "sections"
  BY <1>1 DEF IInv, RangeOK, ControlOK, Serving, Ranged
<1>3. CASE Refuse
  BY <1>1, <1>2, <1>3, RefuseInv
<1>4. CASE SectionsDone
  <2>1. Answer(TRUE, job.found)
    BY <1>4 DEF SectionsDone
  <2>2. PICK value : value = job.found
    OBVIOUS
  <2>3. Answer(TRUE, value)
    BY <2>1, <2>2
  <2> QED BY <1>1, <1>2, <2>3, SucceedInv
<1>5. CASE pc' = "sections" /\ UNCHANGED <<line, replies>>
  BY <1>1, <1>5, SectionsInv
<1>6. CASE StartSections
  BY <1>3, <1>5, <1>6 DEF StartSections
<1>7. CASE ListSection
  BY <1>3, <1>5, <1>7 DEF ListSection
<1>8. CASE ChainLeavesFile
  BY <1>5, <1>8 DEF ChainLeavesFile
<1> QED BY <1>4, <1>6, <1>7, <1>8

----------------------------------------------------------------------------
(* ewf-check.                                                              *)

\* An exit code that tells the truth ends the program well.
LEMMA ExitInv ==
  ASSUME IInv, pc = "arguments", NEW code, Exit(code),
         code = 1 => \E a \in Anomalies : a >= LevelOf(Len(session.lines)),
         code = 0 => \/ Kinds \intersect {"help", "version"} # {}
                     \/ image.opens /\ ~\E a \in Anomalies : a >= LevelOf(Len(session.lines))
  PROVE  IInv'
<1>1. pc' = "stopped" /\ exit' = code /\ UNCHANGED <<session, image, output, level, expected, position, line, replies>>
  BY DEF Exit, rest, cursor
<1>2. AnswersExact' /\ SearchFindsAll' /\ Sequenced(replies')
  BY <1>1, KeptAnswers
<1>3. ControlOK' /\ RangeOK' /\ SearchOK'
  BY <1>1 DEF IInv, ControlOK, Serving, Ranged, RangeOK, SearchOK, MaxI64
<1>4. ExitTellsVerdict'
  <2>1. Mode = "check" /\ Mode' = Mode
    BY <1>1, SameSession DEF IInv, ControlOK
  <2>2. Anomalies' = Anomalies /\ Kinds' = Kinds
    BY <1>1 DEF Anomalies, Kinds
  <2>3. LevelOf(Len(session.lines))' = LevelOf(Len(session.lines))
    BY <1>1 DEF LevelOf
  <2> QED BY <1>1, <2>1, <2>2, <2>3 DEF ExitTellsVerdict
<1> QED BY <1>1, <1>2, <1>3, <1>4 DEF IInv, Sequenced

\* When the arguments are read to the end, the level is the one given last.
LEMMA LevelRead ==
  ASSUME IInv, pc = "arguments", line > Len(session.lines)
  PROVE  level = LevelOf(Len(session.lines))
<1>1. line - 1 = Len(session.lines)
  BY ImageFacts DEF IInv, ControlOK
<1> QED BY <1>1 DEF IInv

LEMMA StopsInv ==
  ASSUME IInv, HelpOrNothing \/ BadArgument \/ NoPath \/ HashesFail PROVE IInv'
<1>1. pc = "arguments"
  BY DEF HelpOrNothing, BadArgument, NoPath, HashesFail, Parsing
<1>2. CASE HelpOrNothing /\ Kinds # {}
  <2>1. Exit(0) /\ Kinds \intersect {"help", "version"} # {}
    BY <1>1, <1>2 DEF HelpOrNothing, Parsing
  <2> QED BY <1>1, <2>1, ExitInv
<1>3. CASE ~(HelpOrNothing /\ Kinds # {})
  <2>1. Exit(2)
    BY <1>3 DEF HelpOrNothing, BadArgument, NoPath, HashesFail
  <2> QED BY <1>1, <2>1, ExitInv
<1> QED BY <1>2, <1>3

LEMMA AnalyseInv ==
  ASSUME IInv, Analyse PROVE IInv'
<1>1. /\ pc = "arguments" /\ line > Len(session.lines)
      /\ Exit(IF ~image.opens THEN 2 ELSE IF Visible = {} THEN 0 ELSE 1)
  BY DEF Analyse, Parsing
<1>2. PICK code : code = IF ~image.opens THEN 2 ELSE IF Visible = {} THEN 0 ELSE 1
  OBVIOUS
<1>3. Exit(code)
  BY <1>1, <1>2
<1>4. Visible = {a \in Anomalies : a >= LevelOf(Len(session.lines))}
  BY <1>1, LevelRead DEF Visible
<1>5. code = 1 => \E a \in Anomalies : a >= LevelOf(Len(session.lines))
  BY <1>2, <1>4
<1>6. code = 0 => image.opens /\ ~\E a \in Anomalies : a >= LevelOf(Len(session.lines))
  BY <1>2, <1>4
<1> QED BY <1>1, <1>3, <1>5, <1>6, ExitInv

\* The level that the last of some arguments gives.
Latest(levels) ==
  IF levels = {} THEN 0 ELSE session.lines[CHOOSE i \in levels : \A j \in levels : j <= i].value

\* One more argument: it sets the level or leaves it.
LEMMA LevelOfNext ==
  ASSUME NEW n \in Nat
  PROVE  LevelOf(n + 1) = IF session.lines[n + 1].kind = "level" THEN session.lines[n + 1].value ELSE LevelOf(n)
<1> DEFINE old == {i \in 1..n : session.lines[i].kind = "level"}
           new == {i \in 1..n + 1 : session.lines[i].kind = "level"}
           last == CHOOSE i \in new : \A j \in new : j <= i
<1>1. CASE session.lines[n + 1].kind = "level"
  <2>1. n + 1 \in new /\ \A j \in new : j <= n + 1 /\ j \in Int
    BY <1>1
  <2> HIDE DEF new
  <2>2. last \in new /\ \A j \in new : j <= last
    BY <2>1
  <2>3. last = n + 1
    <3>1. last <= n + 1 /\ n + 1 <= last /\ last \in Int
      BY <2>1, <2>2
    <3> QED BY <3>1
  <2>4. LevelOf(n + 1) = session.lines[last].value
    BY <2>1 DEF LevelOf, new
  <2> HIDE DEF last
  <2> QED BY <1>1, <2>3, <2>4
<1>2. CASE session.lines[n + 1].kind # "level"
  <2>1. old = new
    BY <1>2
  <2>2. LevelOf(n) = Latest(old) /\ LevelOf(n + 1) = Latest(new)
    BY DEF LevelOf, Latest
  <2> HIDE DEF old, new
  <2> QED BY <1>2, <2>1, <2>2
<1> QED BY <1>1, <1>2

LEMMA TakeArgumentInv ==
  ASSUME IInv, TakeArgument PROVE IInv'
<1>1. /\ pc = "arguments" /\ pc' = pc /\ line <= Len(session.lines) /\ line' = line + 1
      /\ level' = IF Line.kind = "level" THEN Line.value ELSE level
      /\ UNCHANGED <<session, image, output, position, replies, exit>>
  BY DEF TakeArgument, Parsing, cursor
<1>2. AnswersExact' /\ SearchFindsAll' /\ Sequenced(replies')
  BY <1>1, KeptAnswers
<1>3. line \in Nat \ {0} /\ Mode = "check" /\ Mode' = Mode /\ Len(session.lines) \in Nat
  BY <1>1, SameSession, ImageFacts DEF IInv, ControlOK
<1>4. ControlOK'
  BY <1>1, <1>3 DEF IInv, ControlOK, Serving, Ranged
<1>5. RangeOK' /\ SearchOK' /\ ExitTellsVerdict'
  BY <1>1 DEF IInv, RangeOK, SearchOK, ExitTellsVerdict, MaxI64
<1>6. level' = LevelOf(line - 1)'
  <2>1. PICK n \in Nat : n = line - 1
    BY <1>3
  <2>2. LevelOf(n + 1) = IF session.lines[n + 1].kind = "level" THEN session.lines[n + 1].value ELSE LevelOf(n)
    BY LevelOfNext
  <2>3. level = LevelOf(n)
    BY <2>1, <1>1 DEF IInv
  <2>4. n + 1 = line /\ line' - 1 = line
    BY <2>1, <1>1, <1>3
  <2>5. level' = LevelOf(line)
    BY <2>2, <2>3, <2>4, <1>1 DEF Line
  <2>6. LevelOf(line - 1)' = LevelOf(line)
    <3> DEFINE S == {i \in 1..line : session.lines[i].kind = "level"}
               T == {i \in 1..line' - 1 : session.lines[i].kind = "level"}
    <3>1. S = T
      BY <2>4
    <3>2. LevelOf(line) = Latest(S) /\ LevelOf(line - 1)' = Latest(T)
      BY <1>1 DEF LevelOf, Latest
    <3> HIDE DEF S, T
    <3> QED BY <3>1, <3>2
  <2> QED BY <2>5, <2>6
<1> QED BY <1>1, <1>2, <1>4, <1>5, <1>6 DEF IInv, Sequenced

LEMMA LibraryCallInv ==
  ASSUME IInv, LibraryCall PROVE IInv' /\ Cursor!Next
<1>1. /\ pc = "library" /\ line' = line + 1 /\ UNCHANGED <<session, image, output, pc, replies, exit>>
      /\ \E c \in LibraryCalls : IF c.op = "read" THEN Read(c.value) ELSE Seek(c.op, c.value)
  BY DEF LibraryCall, rest
<1>2. PICK c \in LibraryCalls : IF c.op = "read" THEN Read(c.value) ELSE Seek(c.op, c.value)
  BY <1>1
<1>3. \/ c.op \in {"start", "read"} /\ c.value \in 0..Word - 1
      \/ c.op \in {"end", "current"} /\ c.value \in -HalfWord..MaxI64
  BY SessionAssumption
<1>4. ControlOK /\ position \in 0..MaxI64
  BY DEF IInv, RangeOK
<1>5. Cursor!Next /\ position' \in 0..MaxI64
  <2>1. CASE c.op = "read"
    BY <2>1, <1>1, <1>2, <1>3, <1>4, ReadStep
  <2>2. CASE c.op # "read"
    <3>1. Seek(c.op, c.value)
      BY <1>2, <2>2
    <3>2. \/ c.op = "start" /\ c.value \in 0..Word - 1
          \/ c.op \in {"end", "current"} /\ c.value \in -HalfWord..MaxI64
      BY <1>3, <2>2
    <3> QED BY <3>1, <3>2, <1>1, <1>4, SeekStep
  <2> QED BY <2>1, <2>2
<1>6. AnswersExact' /\ SearchFindsAll' /\ Sequenced(replies')
  BY <1>1, KeptAnswers
<1>7. ControlOK' /\ RangeOK' /\ SearchOK' /\ ExitTellsVerdict'
  BY <1>1, <1>4, <1>5 DEF ControlOK, Serving, Ranged, RangeOK, SearchOK, ExitTellsVerdict, MaxI64
<1> QED BY <1>1, <1>5, <1>6, <1>7 DEF IInv, Sequenced

----------------------------------------------------------------------------
(* search.                                                                 *)

\* f holds the matches after each round of the loop over a window.
IsHits(f, n, w, p, o, c) ==
  f = [i \in 0..n |-> IF i = 0 THEN <<>>
                      ELSE IF SubSeq(w, i, i + Len(p) - 1) = p
                           THEN Append(f[i - 1], o - c + i - 1)
                           ELSE f[i - 1]]

LEMMA HitsDefined ==
  ASSUME NEW w, NEW p, NEW o, NEW c, NEW n \in Nat
  PROVE  \E f : IsHits(f, n, w, p, o, c)
<1> DEFINE P(acc, i) == IF SubSeq(w, i, i + Len(p) - 1) = p THEN Append(acc, o - c + i - 1) ELSE acc
           Scans(f, m) == f = [i \in 0..m |-> IF i = 0 THEN <<>> ELSE P(f[i - 1], i)]
           Bad == {m \in Nat : ~ \E f : Scans(f, m)}
<1>0. \A f, m : Scans(f, m) => IsHits(f, m, w, p, o, c)
  BY DEF IsHits
<1> HIDE DEF P
<1>1. SUFFICES Bad = {}
  <2>1. \E f : Scans(f, n)
    BY <1>1
  <2> HIDE DEF Scans
  <2> QED BY <2>1, <1>0
<1>2. SUFFICES ASSUME Bad # {} PROVE FALSE
  OBVIOUS
<1>3. PICK m \in Bad : \A j \in Bad : m <= j
  <2> HIDE DEF Bad
  <2>1. Bad \subseteq Nat
    BY DEF Bad
  <2> QED BY <1>2, <2>1, Least
<1>4. m \in Nat /\ m # 0
  <2>1. Scans([i \in 0..0 |-> <<>>], 0)
    OBVIOUS
  <2> QED BY <1>3, <2>1
<1>5. PICK f : Scans(f, m - 1)
  <2>1. m - 1 \in Nat
    BY <1>4
  <2>2. m - 1 \notin Bad
    <3> HIDE DEF Bad
    <3> QED BY <1>3, <1>4
  <2> HIDE DEF Scans
  <2> QED BY <2>1, <2>2
<1> DEFINE g == [i \in 0..m |-> IF i = m THEN P(f[m - 1], m) ELSE f[i]]
<1>6. Scans(g, m)
  <2>1. \A i \in 0..m : g[i] = IF i = 0 THEN <<>> ELSE P(g[i - 1], i)
    BY <1>4, <1>5
  <2> QED BY <2>1
<1> QED BY <1>3, <1>4, <1>6

\* v holds the places of a set H, counted from a + 1, in order.
Lists(v, H, a) ==
  /\ v \in Seq(Nat)
  /\ \A i, j \in DOMAIN v : i < j => v[i] < v[j]
  /\ \A k \in DOMAIN v : \E i \in H : v[k] = a + i - 1
  /\ \A i \in H : \E k \in DOMAIN v : v[k] = a + i - 1

\* The loop pushes the places of the matches in order.
LEMMA HitsList ==
  ASSUME NEW w, NEW p, NEW o \in Nat, NEW c \in Nat, c <= o, NEW n \in Nat,
         NEW f, IsHits(f, n, w, p, o, c)
  PROVE  Lists(f[n], {i \in 1..n : SubSeq(w, i, i + Len(p) - 1) = p}, o - c)
<1> DEFINE M(i) == SubSeq(w, i, i + Len(p) - 1) = p
           H(m) == {i \in 1..m : M(i)}
           a == o - c
           Fine(m) == Lists(f[m], H(m), a)
           Bad == {m \in 0..n : ~Fine(m)}
<1>0. a \in Nat
  OBVIOUS
<1> DEFINE b(i) == IF i = 0 THEN <<>> ELSE IF M(i) THEN Append(f[i - 1], a + i - 1) ELSE f[i - 1]
<1>a. f = [i \in 0..n |-> b(i)]
  BY DEF IsHits
<1> HIDE DEF M, a
<1>1. f[0] = <<>> /\ \A i \in 1..n : f[i] = IF M(i) THEN Append(f[i - 1], a + i - 1) ELSE f[i - 1]
  <2> HIDE DEF b
  <2>1. \A i \in 0..n : f[i] = b(i)
    BY <1>a
  <2>2. 0 \in 0..n /\ \A i \in 1..n : i \in 0..n /\ i # 0
    OBVIOUS
  <2>3. b(0) = <<>> /\ \A i \in 1..n : b(i) = IF M(i) THEN Append(f[i - 1], a + i - 1) ELSE f[i - 1]
    BY <2>2, Zenon DEF b
  <2> QED BY <2>1, <2>2, <2>3
<1>2. Fine(0)
  <2>1. H(0) = {}
    OBVIOUS
  <2> QED BY <1>1, <2>1 DEF Lists
<1>3. ASSUME NEW m \in 1..n, Fine(m - 1) PROVE Fine(m)
  <2> DEFINE v == f[m - 1]
             e == a + m - 1
  <2>1. /\ v \in Seq(Nat)
        /\ \A i, j \in DOMAIN v : i < j => v[i] < v[j]
        /\ \A k \in DOMAIN v : \E i \in H(m - 1) : v[k] = a + i - 1
        /\ \A i \in H(m - 1) : \E k \in DOMAIN v : v[k] = a + i - 1
    BY <1>3 DEF Lists
  <2>2. CASE ~M(m)
    <3>1. H(m) = H(m - 1) /\ f[m] = v
      BY <2>2, <1>1
    <3> QED BY <3>1, <1>3
  <2>3. CASE M(m)
    <3> DEFINE x == Append(v, e)
    <3>1. H(m) = H(m - 1) \union {m} /\ f[m] = x /\ e \in Nat
      <4>1. H(m) = H(m - 1) \union {m}
        BY <2>3
      <4>2. f[m] = x
        BY <2>3, <1>1
      <4>3. e \in Nat
        BY <1>0
      <4> QED BY <4>1, <4>2, <4>3
    <3>2. \A k \in DOMAIN v : v[k] < e
      <4>1. ASSUME NEW k \in DOMAIN v PROVE v[k] < e
        <5>1. PICK i \in H(m - 1) : v[k] = a + i - 1
          BY <2>1
        <5>2. i \in Nat /\ i < m
          OBVIOUS
        <5> QED BY <5>1, <5>2, <1>0
      <4> QED BY <4>1
    <3>3. /\ x \in Seq(Nat) /\ DOMAIN x = 1..Len(v) + 1 /\ DOMAIN v = 1..Len(v) /\ Len(v) \in Nat
          /\ x[Len(v) + 1] = e /\ \A k \in 1..Len(v) : x[k] = v[k]
      BY <2>1, <3>1
    <3> HIDE DEF x, e, v
    <3>4. ASSUME NEW i \in DOMAIN x, NEW j \in DOMAIN x, i < j PROVE x[i] < x[j]
      <4>1. i \in 1..Len(v) /\ x[i] = v[i]
        BY <3>3, <3>4
      <4>2. CASE j = Len(v) + 1
        BY <4>1, <4>2, <3>2, <3>3
      <4>3. CASE j \in 1..Len(v)
        <5>1. x[j] = v[j] /\ v[i] < v[j]
          BY <4>1, <4>3, <2>1, <3>3, <3>4
        <5> QED BY <4>1, <5>1
      <4> QED BY <4>2, <4>3, <3>3
    <3> HIDE DEF H
    <3>5. ASSUME NEW k \in DOMAIN x PROVE \E i \in H(m) : x[k] = a + i - 1
      <4>1. CASE k \in DOMAIN v
        BY <4>1, <2>1, <3>1, <3>3
      <4>2. CASE k = Len(v) + 1
        BY <4>2, <3>1, <3>3 DEF e
      <4> QED BY <4>1, <4>2, <3>3
    <3>6. ASSUME NEW i \in H(m) PROVE \E k \in DOMAIN x : x[k] = a + i - 1
      <4>1. CASE i = m
        BY <4>1, <3>3 DEF e
      <4>2. CASE i \in H(m - 1)
        <5>1. PICK k \in DOMAIN v : v[k] = a + i - 1
          BY <4>2, <2>1
        <5> QED BY <5>1, <3>3
      <4> QED BY <4>1, <4>2, <3>1
    <3> QED BY <3>1, <3>3, <3>4, <3>5, <3>6 DEF Lists
  <2> QED BY <2>2, <2>3
<1>4. Bad = {}
  <2> HIDE DEF Fine
  <2> SUFFICES ASSUME Bad # {} PROVE FALSE
    OBVIOUS
  <2>1. PICK m \in Bad : \A j \in Bad : m <= j
    <3>1. Bad \subseteq Nat
      OBVIOUS
    <3> HIDE DEF Bad
    <3> QED BY <3>1, Least
  <2>2. m \in 1..n /\ m - 1 \in 0..n
    BY <2>1, <1>2
  <2>3. Fine(m - 1)
    BY <2>1, <2>2
  <2> QED BY <2>1, <2>2, <2>3, <1>3
<1>5. Fine(n)
  <2> HIDE DEF Fine
  <2> QED BY <1>4
<1> QED BY <1>5 DEF M, a

Cut(u, h, n) == SubSeq(u \o h, 1, SmallerOf(Len(u \o h), n))
EndOf(w, p) == IF Len(w) >= Len(p) THEN Len(w) - Len(p) + 1 ELSE 0
Hits(w, p) == {i \in 1..EndOf(w, p) : SubSeq(w, i, i + Len(p) - 1) = p}
IsSlice(w, s, a, e) == w = SubSeq(s, a + 1, e)
Precedes(x, s, e, len) == Len(x) = len /\ Len(x) <= e /\ x = SubSeq(s, e - Len(x) + 1, e)
FoundIn(h, s, p, o, e, m) ==
  (\E k \in DOMAIN h : h[k] = m) <=>
    (m + Len(p) <= e /\ o < m + Len(p) /\ SubSeq(s, m + 1, m + Len(p)) = p)

\* More matches, all behind those found, up to the number that is wanted.
LEMMA FirstOfMore ==
  ASSUME NEW n \in Nat, NEW S \in SUBSET Nat, NEW T \in SUBSET Nat, NEW u \in Seq(Nat), NEW h \in Seq(Nat),
         FirstOf(n, S, u), Len(u) < n,
         \A i, j \in DOMAIN h : i < j => h[i] < h[j],
         \A k \in DOMAIN h : h[k] \in T,
         \A m \in T : \E k \in DOMAIN h : h[k] = m,
         \A l \in S, m \in T : l < m,
         NEW x, x = Cut(u, h, n)
  PROVE  FirstOf(n, S \union T, x) /\ x \in Seq(Nat)
<1> DEFINE v == u \o h
           q == SmallerOf(Len(v), n)
<1>0. PICK a \in Nat, b \in Nat, e \in Nat : a = Len(u) /\ b = Len(h) /\ e = a + b
  OBVIOUS
<1>1. /\ v \in Seq(Nat) /\ Len(v) = e /\ e = a + b /\ a < n
      /\ DOMAIN u = 1..a /\ DOMAIN h = 1..b
      /\ \A i \in 1..a : v[i] = u[i]
      /\ \A i \in 1..b : v[a + i] = h[i]
  BY <1>0
<1> HIDE DEF v
<1>2. q \in Nat /\ q <= n /\ q <= e /\ a <= q /\ (q < e => q = n)
  BY <1>1 DEF SmallerOf
<1> HIDE DEF q
<1>3. x \in Seq(Nat) /\ Len(x) = q /\ DOMAIN x = 1..q /\ \A i \in 1..q : x[i] = v[i]
  <2>0. PICK z \in Nat : z = 0
    OBVIOUS
  <2>1. x = SubSeq(v, z + 1, q)
    <3>1. x = SubSeq(v, 1, q)
      BY DEF v, q, Cut
    <3>2. z + 1 = 1
      BY <2>0
    <3> QED BY <3>1, <3>2
  <2>2. q = (IF q > z THEN q - z ELSE 0) /\ q <= Len(v) /\ \A i \in 1..q : z + i = i
    BY <2>0, <1>1, <1>2
  <2> DEFINE N == Nat
  <2>a. v \in Seq(N)
    BY <1>1
  <2> HIDE DEF N
  <2>3. /\ SubSeq(v, z + 1, q) \in Seq(N)
        /\ Len(SubSeq(v, z + 1, q)) = q /\ DOMAIN SubSeq(v, z + 1, q) = 1..q
        /\ \A i \in 1..q : SubSeq(v, z + 1, q)[i] = v[z + i]
    BY <2>2, <2>a, <1>2, SliceIs
  <2> QED BY <2>1, <2>2, <2>3 DEF N
<1>4. /\ \A i \in DOMAIN u : u[i] \in S
      /\ \A i, j \in DOMAIN u : i < j => u[i] < u[j]
      /\ \A m \in S : \E i \in DOMAIN u : u[i] = m
  BY DEF FirstOf
<1>5. ASSUME NEW i \in 1..e
      PROVE  \/ i \in 1..a /\ v[i] = u[i] /\ v[i] \in S
             \/ \E k \in 1..b : i = a + k /\ v[i] = h[k] /\ v[i] \in T
  <2>1. CASE i <= a
    <3>1. i \in 1..a
      BY <2>1
    <3>2. v[i] = u[i] /\ u[i] \in S
      BY <3>1, <1>1, <1>4
    <3> QED BY <3>1, <3>2
  <2>2. CASE i > a
    <3>1. PICK k \in Int : k = i - a
      BY <1>1
    <3>2. k \in 1..b /\ i = a + k
      BY <3>1, <2>2, <1>1
    <3> QED BY <3>2, <1>1
  <2> QED BY <2>1, <2>2, <1>1
<1>6. ASSUME NEW i \in 1..e, NEW j \in 1..e, i < j PROVE v[i] < v[j]
  <2>1. CASE j \in 1..a
    <3>1. i \in 1..a
      BY <2>1, <1>6
    <3>2. v[i] = u[i] /\ v[j] = u[j] /\ u[i] < u[j]
      BY <3>1, <2>1, <1>1, <1>4, <1>6
    <3> QED BY <3>2
  <2>2. CASE ~(j \in 1..a)
    <3>1. PICK k \in 1..b : j = a + k /\ v[j] = h[k] /\ v[j] \in T
      BY <2>2, <1>5
    <3>2. CASE i \in 1..a /\ v[i] = u[i] /\ v[i] \in S
      BY <3>1, <3>2
    <3>3. CASE \E l \in 1..b : i = a + l /\ v[i] = h[l] /\ v[i] \in T
      <4>1. PICK l \in 1..b : i = a + l /\ v[i] = h[l] /\ v[i] \in T
        BY <3>3
      <4>2. l < k
        BY <3>1, <4>1, <1>1, <1>6
      <4>3. h[l] < h[k]
        BY <4>2, <1>1
      <4> QED BY <3>1, <4>1, <4>3
    <3> QED BY <3>2, <3>3, <1>5
  <2> QED BY <2>1, <2>2
<1>7. \A i \in DOMAIN x : i \in 1..e /\ x[i] = v[i]
  BY <1>1, <1>2, <1>3
<1>8. \A i \in DOMAIN x : x[i] \in S \union T
  BY <1>5, <1>7
<1>9. \A i, j \in DOMAIN x : i < j => x[i] < x[j]
  BY <1>6, <1>7
<1>10. ASSUME NEW m \in S \union T
       PROVE  (\E i \in DOMAIN x : x[i] = m) \/ (Len(x) = n /\ \A i \in DOMAIN x : x[i] < m)
  <2>1. CASE m \in S
    <3>1. PICK i \in 1..a : u[i] = m
      BY <2>1, <1>1, <1>4
    <3>2. i \in 1..q /\ v[i] = m
      BY <3>1, <1>1, <1>2
    <3> QED BY <3>2, <1>3
  <2>2. CASE m \in T
    <3>1. PICK k \in 1..b : h[k] = m
      BY <2>2, <1>1
    <3>2. PICK i \in Int : i = a + k
      BY <1>1
    <3>3. i \in 1..e /\ v[i] = m
      BY <3>1, <3>2, <1>1
    <3>4. CASE i <= q
      <4>1. i \in 1..q
        BY <3>3, <3>4, <1>2
      <4>2. i \in DOMAIN x /\ x[i] = m
        BY <4>1, <3>3, <1>3
      <4> QED BY <4>2
    <3>5. CASE i > q
      <4>1. q = n
        BY <3>3, <3>5, <1>1, <1>2
      <4>2. \A j \in DOMAIN x : x[j] < m
        BY <3>3, <3>5, <1>1, <1>2, <1>3, <1>6, <1>7
      <4> QED BY <4>1, <4>2, <1>3
    <3> QED BY <3>3, <3>4, <3>5, <1>1, <1>2
  <2> QED BY <2>1, <2>2
<1> QED BY <1>2, <1>3, <1>8, <1>9, <1>10 DEF FirstOf

\* A part of a part.
LEMMA SliceOfSlice ==
  ASSUME NEW S, NEW s \in Seq(S), NEW a \in Nat, NEW e \in Nat, a <= e, e <= Len(s),
         NEW b \in Nat, NEW d \in Nat, d <= e - a
  PROVE  SubSeq(SubSeq(s, a + 1, e), b + 1, d) = SubSeq(s, (a + b) + 1, a + d)
<1> DEFINE w == SubSeq(s, a + 1, e)
           len == IF d > b THEN d - b ELSE 0
           x == SubSeq(w, b + 1, d)
           y == SubSeq(s, (a + b) + 1, a + d)
<1>1. w \in Seq(S) /\ Len(w) = e - a /\ \A i \in 1..e - a : w[i] = s[a + i]
  <2>1. PICK l : l = IF e > a THEN e - a ELSE 0
    OBVIOUS
  <2>2. l = e - a
    BY <2>1
  <2> QED BY <2>1, <2>2, SliceIs
<1> HIDE DEF w
<1>2. x \in Seq(S) /\ Len(x) = len /\ DOMAIN x = 1..len /\ \A i \in 1..len : x[i] = w[b + i]
  <2>1. PICK l : l = len
    OBVIOUS
  <2>2. d <= Len(w) /\ l = IF d > b THEN d - b ELSE 0
    BY <2>1, <1>1
  <2> HIDE DEF len
  <2> QED BY <2>1, <2>2, <1>1, SliceIs
<1>3. y \in Seq(S) /\ Len(y) = len /\ DOMAIN y = 1..len /\ \A i \in 1..len : y[i] = s[(a + b) + i]
  <2>1. PICK f \in Nat : f = a + b
    OBVIOUS
  <2>2. PICK t \in Nat : t = a + d
    OBVIOUS
  <2>3. t <= Len(s) /\ len = IF t > f THEN t - f ELSE 0
    BY <2>1, <2>2
  <2>4. y = SubSeq(s, f + 1, t)
    BY <2>1, <2>2
  <2> HIDE DEF y, len
  <2>5. /\ SubSeq(s, f + 1, t) \in Seq(S) /\ Len(SubSeq(s, f + 1, t)) = len /\ DOMAIN SubSeq(s, f + 1, t) = 1..len
        /\ \A i \in 1..len : SubSeq(s, f + 1, t)[i] = s[f + i]
    BY <2>3, SliceIs
  <2> QED BY <2>1, <2>4, <2>5
<1>4. \A i \in 1..len : w[b + i] = s[(a + b) + i]
  <2>1. ASSUME NEW i \in 1..len PROVE w[b + i] = s[(a + b) + i]
    <3>1. PICK j \in Int : j = b + i
      OBVIOUS
    <3>2. j \in 1..e - a /\ a + j = (a + b) + i
      BY <3>1
    <3> QED BY <3>1, <3>2, <1>1
  <2> QED BY <2>1
<1> HIDE DEF x, y, len
<1>5. x = y
  <2>1. \A i \in 1..len : x[i] = y[i]
    BY <1>2, <1>3, <1>4
  <2>2. x = [i \in 1..len |-> x[i]] /\ y = [i \in 1..len |-> y[i]]
    BY <1>2, <1>3
  <2> QED BY <2>1, <2>2
<1> QED BY <1>5 DEF x, y, w

\* What the loop finds in a window is what ends in the part that was just read.
LEMMA WindowHits ==
  ASSUME NEW S, NEW s \in Seq(S), NEW p \in Seq(S), Len(p) >= 1,
         NEW o \in Nat, NEW n \in Nat, NEW c \in Nat, c <= o, o + n <= Len(s),
         o = 0 => c = 0, o # 0 => c = Len(p) - 1,
         NEW w, IsSlice(w, s, o - c, o + n), NEW h, Lists(h, Hits(w, p), o - c), NEW m \in Nat
  PROVE  FoundIn(h, s, p, o, o + n, m)
<1> DEFINE H == Hits(w, p)
           end == EndOf(w, p)
<1> HIDE DEF H, end
<1>1. PICK a \in Nat : a = o - c
  OBVIOUS
<1>2. PICK e \in Nat : e = o + n
  OBVIOUS
<1>3. PICK P \in Nat : P = Len(p)
  OBVIOUS
<1>4. a <= e /\ e <= Len(s) /\ w = SubSeq(s, a + 1, e)
  BY <1>1, <1>2 DEF IsSlice
<1>5. Len(w) = e - a
  <2>1. PICK l : l = IF e > a THEN e - a ELSE 0
    OBVIOUS
  <2>2. l = e - a
    BY <2>1, <1>4
  <2> QED BY <2>1, <2>2, <1>4, SliceIs
<1>6. end = IF e - a >= P THEN e - a - P + 1 ELSE 0
  BY <1>3, <1>5 DEF end, EndOf
<1>e. end \in Nat
  BY <1>4, <1>6
<1>7. ASSUME NEW b \in Nat, b + P <= e - a
      PROVE  SubSeq(w, b + 1, b + P) = SubSeq(s, (a + b) + 1, (a + b) + P)
  <2>1. PICK d \in Nat : d = b + P
    BY <1>3
  <2>2. SubSeq(w, b + 1, d) = SubSeq(s, (a + b) + 1, a + d)
    BY <2>1, <1>4, <1>7, SliceOfSlice
  <2>3. a + d = (a + b) + P
    BY <2>1, <1>3
  <2> QED BY <2>1, <2>2, <2>3
<1>8. ASSUME NEW k \in DOMAIN h, h[k] = m
      PROVE  m + P <= e /\ o < m + P /\ SubSeq(s, m + 1, m + P) = p
  <2>1. PICK i \in H : m = a + i - 1
    BY <1>1, <1>8 DEF Lists, H
  <2>a. i \in 1..end /\ SubSeq(w, i, i + Len(p) - 1) = p
    BY DEF H, Hits, end
  <2>b. i \in Int
    <3>1. \A j \in 1..end : j \in Int
      BY <1>e
    <3> QED BY <2>a, <3>1, Zenon
  <2>2. PICK b \in Int : b = i - 1
    BY <2>b
  <2>3. b \in Nat /\ b + P <= e - a /\ i = b + 1 /\ m = a + b
    BY <1>3, <1>6, <2>a, <2>1, <2>2
  <2>4. SubSeq(w, b + 1, b + P) = p
    <3>1. SubSeq(w, i, i + Len(p) - 1) = p
      BY <2>a
    <3>2. i + Len(p) - 1 = b + P
      BY <2>3, <1>3
    <3> QED BY <2>3, <3>1, <3>2
  <2>5. SubSeq(s, m + 1, m + P) = p
    BY <2>3, <2>4, <1>7
  <2>6. m + P <= e /\ o < m + P
    BY <1>1, <1>3, <2>3
  <2> QED BY <2>5, <2>6
<1>9. ASSUME m + P <= e, o < m + P, SubSeq(s, m + 1, m + P) = p
      PROVE  \E k \in DOMAIN h : h[k] = m
  <2>1. PICK b \in Int : b = m - a
    OBVIOUS
  <2>2. b \in Nat /\ b + P <= e - a /\ m = a + b
    BY <2>1, <1>1, <1>3, <1>9
  <2>3. SubSeq(w, b + 1, b + P) = p
    BY <2>2, <1>7, <1>9
  <2>4. PICK i \in Int : i = b + 1
    OBVIOUS
  <2>5. i \in 1..end /\ i + Len(p) - 1 = b + P /\ m = a + i - 1
    BY <2>2, <2>4, <1>3, <1>6
  <2>6. i \in H
    BY <2>3, <2>4, <2>5 DEF H, Hits, end
  <2>7. \A j \in H : \E k \in DOMAIN h : h[k] = a + j - 1
    BY <1>1 DEF Lists, H
  <2> QED BY <2>5, <2>6, <2>7
<1>10. (\E k \in DOMAIN h : h[k] = m) <=> (m + P <= e /\ o < m + P /\ SubSeq(s, m + 1, m + P) = p)
  BY <1>8, <1>9
<1> QED BY <1>2, <1>3, <1>10 DEF FoundIn

LEMMA HitsInIs ==
  ASSUME Pattern \in Seq(0..255), NEW w, Len(w) \in Nat,
         job.offset \in Nat, Len(job.carry) \in Nat, Len(job.carry) <= job.offset
  PROVE  Lists(HitsIn(w), Hits(w, Pattern), job.offset - Len(job.carry))
<1> DEFINE n == EndOf(w, Pattern)
           o == job.offset
           c == Len(job.carry)
           f == CHOOSE g : IsHits(g, n, w, Pattern, o, c)
<1>1. n \in Nat
  BY DEF EndOf
<1>2. HitsIn(w) = f[n]
  BY DEF HitsIn, IsHits, EndOf
<1> HIDE DEF n
<1>3. o \in Nat /\ c \in Nat /\ c <= o
  OBVIOUS
<1> HIDE DEF o, c
<1>4. \E g : IsHits(g, n, w, Pattern, o, c)
  BY <1>1, HitsDefined
<1>5. IsHits(f, n, w, Pattern, o, c)
  BY <1>4, Zenon
<1> HIDE DEF f
<1>6. Lists(f[n], {i \in 1..n : SubSeq(w, i, i + Len(Pattern) - 1) = Pattern}, o - c)
  BY <1>1, <1>3, <1>5, HitsList
<1> QED BY <1>2, <1>6 DEF Hits, n, o, c

LEMMA SearchDoneInv ==
  ASSUME IInv, SearchDone PROVE IInv'
<1>1. /\ pc = "search" /\ ~SearchOn /\ Answer(TRUE, job.found)
      /\ UNCHANGED <<session, image, output, position>>
  BY DEF SearchDone, rest, cursor
<1>2. /\ ControlOK /\ position \in 0..MaxI64 /\ Line.tool = "search" /\ pc \in Serving
      /\ job.offset \in 0..TotalSize
      /\ Len(Pattern) <= BufSize + 1 =>
           /\ job.found \in Seq(Nat)
           /\ FirstOf(Wanted, {m \in MatchesIn(Pattern) : m + Len(Pattern) <= job.offset}, job.found)
  BY <1>1 DEF IInv, RangeOK, SearchOK, ControlOK, Ranged, Serving
<1>3. Wanted \in Nat /\ Pattern \in Seq(0..255) /\ TotalSize \in Nat
  BY <1>2, WantedIsNumber, ImageFacts
<1>4. ASSUME Len(Pattern) <= BufSize + 1 PROVE FirstOf(Wanted, MatchesIn(Pattern), job.found)
  <2> DEFINE S == {m \in MatchesIn(Pattern) : m + Len(Pattern) <= job.offset}
  <2>1. FirstOf(Wanted, S, job.found) /\ job.found \in Seq(Nat)
    BY <1>2, <1>4
  <2>2. CASE job.offset = TotalSize
    <3>1. S = MatchesIn(Pattern)
      BY <2>2 DEF MatchesIn
    <3> QED BY <2>1, <3>1
  <2>3. CASE job.offset # TotalSize
    <3>1. Len(job.found) >= Wanted
      BY <1>1, <1>2, <1>3, <2>1, <2>3 DEF SearchOn
    <3>2. Len(job.found) = Wanted
      BY <1>3, <2>1, <3>1 DEF FirstOf
    <3> DEFINE v == job.found
               M == MatchesIn(Pattern)
    <3>3. PICK P \in Nat, o \in Nat : P = Len(Pattern) /\ o = job.offset
      BY <1>2, <1>3
    <3>4. M \subseteq Nat /\ S = {m \in M : m + P <= o}
      BY <3>3 DEF MatchesIn
    <3>5. /\ Len(v) <= Wanted
          /\ \A i \in DOMAIN v : v[i] \in S
          /\ \A i, j \in DOMAIN v : i < j => v[i] < v[j]
          /\ \A m \in S : (\E i \in DOMAIN v : v[i] = m) \/ (Len(v) = Wanted /\ \A i \in DOMAIN v : v[i] < m)
      BY <2>1 DEF FirstOf
    <3> HIDE DEF v, M, S
    <3>6. \A i \in DOMAIN v : v[i] \in M /\ v[i] + P <= o
      BY <3>4, <3>5
    <3>7. ASSUME NEW m \in M, m \notin S PROVE \A i \in DOMAIN v : v[i] < m
      <4>1. m \in Nat /\ ~(m + P <= o)
        BY <3>4, <3>7
      <4>2. ASSUME NEW i \in DOMAIN v PROVE v[i] < m
        <5>1. v[i] \in Nat /\ v[i] + P <= o
          BY <3>4, <3>6
        <5> QED BY <5>1, <4>1
      <4> QED BY <4>2
    <3>8. \A m \in M : (\E i \in DOMAIN v : v[i] = m) \/ (Len(v) = Wanted /\ \A i \in DOMAIN v : v[i] < m)
      BY <3>2, <3>5, <3>7 DEF v
    <3>9. FirstOf(Wanted, M, v)
      BY <3>5, <3>6, <3>8 DEF FirstOf
    <3> QED BY <3>9 DEF M, v
  <2> QED BY <2>2, <2>3
<1>5. PICK value : value = job.found
  OBVIOUS
<1>6. Answer(TRUE, value) /\ position' \in 0..MaxI64
  BY <1>1, <1>2, <1>5
<1> QED BY <1>1, <1>2, <1>4, <1>5, <1>6, SucceedInv

\* What is carried over lies right in front of the next buffer.
LEMMA CarriedIs ==
  ASSUME NEW S, NEW s \in Seq(S), NEW a \in Nat, NEW e \in Nat, a <= e, e <= Len(s),
         NEW P \in Nat, P >= 1, P = Len(Pattern), P - 1 <= e - a,
         NEW w, IsSlice(w, s, a, e), NEW x, x = Carried(w)
  PROVE  Precedes(x, s, e, P - 1)
<1>1. PICK l \in Nat : l = e - a /\ P - 1 <= l
  OBVIOUS
<1>2. w = SubSeq(s, a + 1, e)
  BY DEF IsSlice
<1>3. w \in Seq(S) /\ Len(w) = l
  <2>1. l = IF e > a THEN e - a ELSE 0
    BY <1>1
  <2> QED BY <2>1, <1>1, <1>2, SliceIs
<1>4. PICK f \in Nat, b \in Nat : f = e - P + 1 /\ b = l - P + 1 /\ f = a + b
  BY <1>1
<1>5. SubSeq(s, f + 1, e) \in Seq(S) /\ Len(SubSeq(s, f + 1, e)) = P - 1
  <2>1. P - 1 = IF e > f THEN e - f ELSE 0
    BY <1>1, <1>4
  <2>2. PICK k : k = P - 1
    OBVIOUS
  <2> QED BY <2>1, <2>2, <1>4, SliceIs
<1>6. x = SubSeq(s, f + 1, e)
  <2>1. CASE P > 1
    <3>1. x = SubSeq(w, b + 1, l)
      <4>1. Len(w) - P + 2 = b + 1
        BY <1>1, <1>3, <1>4
      <4>2. Carried(w) = SubSeq(w, Len(w) - P + 2, Len(w))
        BY <1>1, <1>3, <2>1 DEF Carried
      <4> QED BY <4>1, <4>2, <1>3
    <3>2. SubSeq(w, b + 1, l) = SubSeq(s, (a + b) + 1, a + l)
      BY <1>1, <1>2, SliceOfSlice
    <3>3. a + l = e /\ a + b = f
      BY <1>1, <1>4
    <3> QED BY <3>1, <3>2, <3>3
  <2>2. CASE P = 1
    <3>1. x = <<>>
      <4>1. ~(Len(Pattern) > 1)
        BY <2>2
      <4> QED BY <4>1, Zenon DEF Carried
    <3>2. Len(SubSeq(s, f + 1, e)) = 0
      BY <2>2, <1>5
    <3>3. SubSeq(s, f + 1, e) = <<>>
      BY <3>2, <1>5
    <3> QED BY <3>1, <3>3
  <2> QED BY <1>1, <2>1, <2>2
<1>7. Len(x) = P - 1
  BY <1>5, <1>6
<1>8. e - Len(x) + 1 = f + 1
  BY <1>4, <1>7, <1>1
<1> QED BY <1>1, <1>6, <1>7, <1>8 DEF Precedes

ShortPattern == Len(Pattern) <= BufSize + 1
IsWindow(w, n) == w = job.carry \o SubSeq(image.media, job.offset + 1, job.offset + n)
FoundUpTo(e, v) ==
  v \in Seq(Nat) /\ FirstOf(Wanted, {m \in MatchesIn(Pattern) : m + Len(Pattern) <= e}, v)
CarriedTo(e, x) ==
  e < TotalSize => /\ Len(x) = Len(Pattern) - 1 /\ Len(x) <= e
                   /\ x = SubSeq(image.media, e - Len(x) + 1, e)

\* The state of the loop after a buffer: what was found before, and what ends in it.
LEMMA NextWindow ==
  ASSUME ControlOK, SearchOK, SearchOn, pc = "search", ShortPattern,
         NEW n \in Nat, n = SmallerOf(BufSize, TotalSize - job.offset),
         NEW w, IsWindow(w, n),
         NEW v, v = Cut(job.found, HitsIn(w), Wanted), NEW x, x = Carried(w)
  PROVE  FoundUpTo(job.offset + n, v) /\ CarriedTo(job.offset + n, x)
<1> DEFINE Byte == 0..255
           s == image.media
           M == MatchesIn(Pattern)
           u == job.found
           W == Wanted
           P == Len(Pattern)
           o == job.offset
           c == Len(job.carry)
           a == o - c
           e == o + n
           size == TotalSize
           h == HitsIn(w)
<1>1. /\ s \in Seq(Byte) /\ Len(s) = size /\ size \in Nat /\ pc \in Serving
      /\ W \in Nat /\ Pattern \in Seq(Byte) /\ Pattern # <<>>
  BY ImageFacts, WantedIsNumber DEF TotalSize, Serving, Ranged, ControlOK
<1>2. P \in Nat /\ P >= 1
  BY <1>1
<1>3. o \in Nat /\ o < size /\ Len(u) < W /\ FoundUpTo(o, u)
  BY <1>1 DEF SearchOK, SearchOn, FoundUpTo, ShortPattern
<1>4. /\ c = IF o = 0 THEN 0 ELSE P - 1
      /\ c <= o
      /\ job.carry = SubSeq(s, a + 1, o)
  BY <1>3 DEF SearchOK, ShortPattern
<1> HIDE DEF Byte, s, M, u, W, P, o, c, size, h
<1>5. c \in Nat /\ a \in Nat /\ (o = 0 => c = 0) /\ (o # 0 => c = P - 1)
  BY <1>2, <1>3, <1>4
<1>6. e \in Nat /\ a <= e /\ o <= e /\ e <= size /\ (e < size => P - 1 <= e - a)
  <2>1. BufSize \in Nat \ {0} /\ P <= BufSize + 1
    BY SessionAssumption DEF ShortPattern, P
  <2>2. n <= size - o /\ (n < size - o => n = BufSize)
    BY <2>1, <1>1, <1>3 DEF SmallerOf, size, o
  <2> QED BY <2>1, <2>2, <1>1, <1>2, <1>3, <1>5
<1> HIDE DEF a, e
<1>7. w = SubSeq(s, a + 1, e)
  <2>1. w = SubSeq(s, a + 1, o) \o SubSeq(s, o + 1, e)
    BY <1>4 DEF IsWindow, s, o, e
  <2>2. SubSeq(s, a + 1, o) \o SubSeq(s, o + 1, e) = SubSeq(s, a + 1, e)
    <3>1. a <= o
      BY <1>3, <1>5 DEF a
    <3> QED BY <3>1, <1>1, <1>3, <1>5, <1>6, JoinSlices
  <2> QED BY <2>1, <2>2
<1>8. Len(w) \in Nat
  <2>1. PICK l : l = IF e > a THEN e - a ELSE 0
    OBVIOUS
  <2>2. l \in Nat
    BY <2>1, <1>5, <1>6
  <2>3. Len(w) = l
    BY <2>1, <1>1, <1>5, <1>6, <1>7, SliceIs
  <2> QED BY <2>2, <2>3
<1>9. Lists(h, Hits(w, Pattern), o - c)
  BY <1>1, <1>3, <1>4, <1>5, <1>8, HitsInIs DEF Byte, h, o, c
<1> DEFINE In(m) == SubSeq(s, m + 1, m + P) = Pattern
<1>10. M = {m \in 0..size : m + P <= size /\ In(m)}
  BY DEF M, MatchesIn, s, P, size
<1>11. \A m \in Nat : (\E k \in DOMAIN h : h[k] = m) <=> (m + P <= e /\ o < m + P /\ In(m))
  <2>1. IsSlice(w, s, o - c, o + n)
    BY <1>7 DEF IsSlice, a, e
  <2>2. (o = 0 => c = 0) /\ (o # 0 => c = Len(Pattern) - 1) /\ Len(Pattern) >= 1 /\ o + n <= Len(s)
    BY <1>1, <1>2, <1>5, <1>6 DEF P, e
  <2>3. c <= o /\ s \in Seq(Byte) /\ Pattern \in Seq(Byte)
    BY <1>1, <1>4
  <2>4. ASSUME NEW m \in Nat PROVE FoundIn(h, s, Pattern, o, o + n, m)
    BY <2>1, <2>2, <2>3, <1>3, <1>5, <1>9, WindowHits
  <2> QED BY <2>4 DEF FoundIn, P, e
<1> HIDE DEF In
<1> DEFINE S == {m \in M : m + P <= o}
           T == {m \in M : o < m + P /\ m + P <= e}
<1>12. M \subseteq Nat
  BY <1>1, <1>10
<1>13. S \in SUBSET Nat /\ T \in SUBSET Nat /\ \A l \in S, m \in T : l < m
  <2>1. S \subseteq Nat /\ T \subseteq Nat
    BY <1>12
  <2>2. ASSUME NEW l \in S, NEW m \in T PROVE l < m
    <3>1. l \in Nat /\ m \in Nat /\ l + P <= o /\ o < m + P
      BY <1>12
    <3> QED BY <3>1, <1>2, <1>3
  <2> QED BY <2>1, <2>2
<1>14. S \union T = {m \in M : m + P <= e}
  <2>1. ASSUME NEW m \in M PROVE m \in S \union T <=> m + P <= e
    <3>1. m \in Nat
      BY <1>12
    <3> QED BY <3>1, <1>2, <1>3, <1>6
  <2>2. S \subseteq M /\ T \subseteq M
    OBVIOUS
  <2> HIDE DEF S, T
  <2> QED BY <2>1, <2>2
<1>15. \A m \in Nat : m \in T <=> (\E k \in DOMAIN h : h[k] = m)
  BY <1>1, <1>2, <1>6, <1>10, <1>11
<1>16. FirstOf(W, S, u) /\ u \in Seq(Nat)
  BY <1>3 DEF FoundUpTo, M, P, W
<1> HIDE DEF S, T
<1>17. h \in Seq(Nat) /\ \A i, j \in DOMAIN h : i < j => h[i] < h[j]
  BY <1>9 DEF Lists
<1>18. /\ \A k \in DOMAIN h : h[k] \in T
       /\ \A m \in T : \E k \in DOMAIN h : h[k] = m
  <2>1. \A k \in DOMAIN h : h[k] \in Nat
    BY <1>17
  <2> QED BY <2>1, <1>13, <1>15
<1>19. v = Cut(u, h, W)
  BY DEF u, h, W
<1>20. FirstOf(W, S \union T, v) /\ v \in Seq(Nat)
  BY <1>1, <1>3, <1>13, <1>16, <1>17, <1>18, <1>19, FirstOfMore
<1>21. FoundUpTo(e, v)
  BY <1>14, <1>20 DEF FoundUpTo, M, P, W
<1>22. ASSUME e < size
       PROVE  Precedes(x, s, e, P - 1)
  <2>1. IsSlice(w, s, a, e) /\ P = Len(Pattern) /\ P - 1 <= e - a /\ e <= Len(s)
    BY <1>1, <1>6, <1>7, <1>22 DEF IsSlice, P
  <2>2. s \in Seq(Byte) /\ a \in Nat /\ e \in Nat /\ a <= e /\ P \in Nat /\ P >= 1
    BY <1>1, <1>2, <1>5, <1>6
  <2> QED BY <2>1, <2>2, CarriedIs
<1>23. CarriedTo(e, x)
  BY <1>22 DEF CarriedTo, Precedes, size, P, s
<1> QED BY <1>21, <1>23 DEF e, o

LEMMA SearchBufferInv ==
  ASSUME IInv, SearchBuffer PROVE IInv' /\ Cursor!Next
<1> DEFINE n == SmallerOf(BufSize, TotalSize - job.offset)
           data == result'.data
           w == job.carry \o data
           v == Cut(job.found, HitsIn(w), Wanted)
           x == Carried(w)
           e == job.offset + Len(data)
<1>1. /\ pc = "search" /\ SearchOn /\ Read(n)
      /\ IF result'.ok
         THEN /\ job' = [job EXCEPT !.offset = e, !.carry = x, !.found = v]
              /\ UNCHANGED <<pc, line, replies, exit>>
         ELSE Refuse
      /\ UNCHANGED <<session, image, output>>
  BY DEF SearchBuffer, rest, Cut
<1>2. /\ ControlOK /\ SearchOK /\ position \in 0..MaxI64 /\ Line.tool = "search" /\ pc \in Serving
      /\ IsJob(job) /\ job.offset \in 0..TotalSize /\ position = job.offset
  BY <1>1 DEF IInv, RangeOK, SearchOK, ControlOK, Ranged, Serving
<1>3. /\ image.media \in Seq(0..255) /\ Len(image.media) = TotalSize /\ TotalSize \in Nat
      /\ TotalSize <= MaxI64 /\ job.offset < TotalSize
  BY <1>1, <1>2, ImageFacts DEF TotalSize, SearchOn
<1>4. n \in Nat /\ n >= 1 /\ job.offset + n <= TotalSize /\ n \in 0..Word - 1
  <2>1. BufSize \in Nat \ {0}
    BY SessionAssumption
  <2>2. n \in Nat /\ n >= 1 /\ n <= TotalSize - job.offset
    BY <1>2, <1>3, <2>1 DEF SmallerOf
  <2> HIDE DEF n
  <2> QED BY <1>2, <1>3, <2>2, WordAssumption DEF Word, MaxI64
<1>5. n = SmallerOf(BufSize, TotalSize - job.offset)
  OBVIOUS
<1> HIDE DEF n
<1>6. /\ Cursor!Next /\ position' \in 0..MaxI64
      /\ result'.ok \in BOOLEAN
      /\ result'.ok =>
           /\ data = SubSeq(image.media, position + 1,
                            IF position + n < TotalSize THEN position + n ELSE TotalSize)
           /\ position' = position + Len(data)
  BY <1>1, <1>2, <1>4, ReadStep
<1> HIDE DEF data, w, v, x, e
<1>7. CASE ~result'.ok
  BY <1>1, <1>2, <1>6, <1>7, RefuseInv
<1>8. CASE result'.ok
  <2>1. data = SubSeq(image.media, job.offset + 1, job.offset + n)
    BY <1>2, <1>3, <1>4, <1>6, <1>8
  <2>2. Len(data) = n
    <3> DEFINE Byte == 0..255
    <3>1. PICK b \in Nat, d \in Nat : b = job.offset /\ d = job.offset + n
      BY <1>2, <1>3, <1>4
    <3>2. n = (IF d > b THEN d - b ELSE 0) /\ d <= Len(image.media) /\ image.media \in Seq(Byte)
      BY <3>1, <1>3, <1>4
    <3> HIDE DEF Byte
    <3>3. data = SubSeq(image.media, b + 1, d)
      BY <3>1, <2>1
    <3>4. Len(SubSeq(image.media, b + 1, d)) = n
      BY <3>2, SliceIs
    <3> QED BY <3>3, <3>4
  <2>3. e = job.offset + n /\ e \in Nat /\ e > 0 /\ e <= TotalSize /\ position' = e
    BY <1>2, <1>3, <1>4, <1>6, <1>8, <2>2 DEF e
  <2>4. /\ job' = [job EXCEPT !.offset = e, !.carry = x, !.found = v]
        /\ UNCHANGED <<pc, line, replies, exit>>
    BY <1>1, <1>8
  <2>5. IsJob(job') /\ job'.offset = e /\ job'.carry = x /\ job'.found = v
    BY <1>2, <2>4 DEF IsJob
  <2>6. ShortPattern => FoundUpTo(e, v) /\ CarriedTo(e, x)
    <3>1. IsWindow(w, n)
      BY <2>1 DEF IsWindow, w
    <3>2. v = Cut(job.found, HitsIn(w), Wanted) /\ x = Carried(w)
      BY DEF v, x
    <3> QED BY <3>1, <3>2, <1>1, <1>2, <1>4, <1>5, <2>3, NextWindow
  <2>7. /\ Line' = Line /\ TotalSize' = TotalSize /\ Mode' = Mode /\ Offset' = Offset
        /\ Pattern' = Pattern /\ Wanted' = Wanted
    BY <1>1, <2>4, SameLine, SameSession
  <2>8. MatchesIn(Pattern)' = MatchesIn(Pattern)
    BY <1>1, <2>7 DEF MatchesIn
  <2>9. SearchOK'
    <3>1. (Len(Pattern) <= BufSize + 1)' => ShortPattern
      BY <2>7 DEF ShortPattern
    <3>2. ASSUME ShortPattern
          PROVE  /\ (job.found \in Seq(Nat))'
                 /\ FirstOf(Wanted, {m \in MatchesIn(Pattern) : m + Len(Pattern) <= job.offset}, job.found)'
      <4>1. v \in Seq(Nat) /\ FirstOf(Wanted, {m \in MatchesIn(Pattern) : m + Len(Pattern) <= e}, v)
        BY <2>6, <3>2 DEF FoundUpTo
      <4> DEFINE K == {m \in MatchesIn(Pattern) : m + Len(Pattern) <= job.offset}
      <4>2. K' = {m \in MatchesIn(Pattern) : m + Len(Pattern) <= e}
        BY <2>5, <2>7, <2>8
      <4>3. FirstOf(Wanted, K, job.found)' <=> FirstOf(Wanted', K', job'.found)
        <5> HIDE DEF K
        <5> QED BY DEF FirstOf
      <4> HIDE DEF K
      <4>4. FirstOf(Wanted, K, job.found)'
        BY <4>1, <4>2, <4>3, <2>5, <2>7
      <4> QED BY <4>1, <4>4, <2>5 DEF K
    <3>3. ASSUME ShortPattern, (job.offset < TotalSize)'
          PROVE  (/\ Len(job.carry) = IF job.offset = 0 THEN 0 ELSE Len(Pattern) - 1
                  /\ Len(job.carry) <= job.offset
                  /\ job.carry = SubSeq(image.media, job.offset - Len(job.carry) + 1, job.offset))'
      <4>1. Len(x) = Len(Pattern) - 1 /\ Len(x) <= e /\ x = SubSeq(image.media, e - Len(x) + 1, e)
        BY <2>5, <2>6, <2>7, <3>3 DEF CarriedTo
      <4> QED BY <4>1, <1>1, <2>3, <2>5, <2>7
    <3>4. (/\ IsJob(job) /\ job.offset \in 0..TotalSize /\ position = job.offset)'
      BY <2>3, <2>5, <2>7
    <3> QED BY <3>1, <3>2, <3>3, <3>4 DEF SearchOK
  <2>10. ControlOK'
    BY <1>1, <1>2, <2>4, <2>7 DEF ControlOK, Serving, Ranged
  <2>11. AnswersExact' /\ SearchFindsAll' /\ Sequenced(replies')
    BY <1>1, <2>4, KeptAnswers
  <2>12. RangeOK' /\ ExitTellsVerdict'
    BY <1>1, <1>6, <2>4 DEF RangeOK, ExitTellsVerdict, MaxI64
  <2> QED BY <1>1, <1>6, <2>4, <2>9, <2>10, <2>11, <2>12 DEF IInv, Sequenced
<1> QED BY <1>6, <1>7, <1>8

----------------------------------------------------------------------------
(* The whole specification.                                                *)

LEMMA InitInv ==
  ASSUME Init PROVE IInv /\ Cursor!Init
<1>1. /\ session \in Sessions /\ image = session.image /\ position = 0 /\ line = 1
      /\ replies = <<>> /\ level = 0 /\ call = [op |-> "open", arg |-> 0] /\ result = Error
      /\ pc = CASE Mode = "mcp" -> "idle" [] Mode = "cli" -> "call"
                [] Mode = "check" -> "arguments" [] Mode = "library" -> "library"
  BY DEF Init
<1>2. /\ Mode \in {"mcp", "cli", "check", "library"} /\ Len(session.lines) \in Nat
      /\ DOMAIN session.lines = 1..Len(session.lines)
      /\ Mode = "cli" => Len(session.lines) = 1 /\ session.lines[1].kind = "call"
  BY <1>1, SessionAssumption DEF Mode
<1>3. pc \in {"idle", "call", "arguments", "library"} /\ (pc = "idle" => Mode = "mcp")
      /\ (pc = "call" => Mode = "cli") /\ (pc = "arguments" => Mode = "check")
  BY <1>1, <1>2
<1>4. ControlOK
  BY <1>1, <1>2, <1>3 DEF ControlOK, Serving, Ranged, Line
<1>5. RangeOK /\ SearchOK /\ ExitTellsVerdict
  <2>1. position \in 0..MaxI64
    BY <1>1, WordAssumption DEF MaxI64
  <2>2. pc \notin {"read", "extract", "search", "stopped"}
    BY <1>3
  <2>3. RangeOK
    BY <2>1, <2>2 DEF RangeOK
  <2>4. SearchOK
    BY <2>2 DEF SearchOK
  <2>5. ExitTellsVerdict
    BY <2>2 DEF ExitTellsVerdict
  <2> QED BY <2>3, <2>4, <2>5
<1>6. Len(replies) \in Nat /\ replies = [k \in 1..Len(replies) |-> replies[k]] /\ DOMAIN replies = {}
  BY <1>1
<1>7. AnswersExact /\ SearchFindsAll
  BY <1>6 DEF AnswersExact, SearchFindsAll
<1>8. level = LevelOf(line - 1)
  <2>1. line - 1 = 0
    BY <1>1
  <2>2. LevelOf(0) = 0
    <3>1. {i \in 1..0 : session.lines[i].kind = "level"} = {}
      OBVIOUS
    <3> QED BY <3>1 DEF LevelOf
  <2> QED BY <1>1, <2>1, <2>2
<1>9. Cursor!Init
  BY <1>1 DEF Cursor!Init, Cursor!Error, Error
<1> QED BY <1>4, <1>5, <1>6, <1>7, <1>8, <1>9 DEF IInv

LEMMA CursorKept ==
  ASSUME UNCHANGED <<image, position, call, result>> PROVE UNCHANGED Cursor!vars
BY DEF Cursor!vars, ImageBytes, TotalSize

\* Every step keeps the invariant, and is a step of the cursor or leaves it alone.
LEMMA NextInv ==
  ASSUME IInv, [Next]_vars PROVE IInv' /\ [Cursor!Next]_(Cursor!vars)
<1>1. CASE SkipLine \/ StartCall \/ ServerStops
  BY <1>1, IdleInv, CursorKept DEF SkipLine, StartCall, ServerStops, rest, cursor
<1>2. CASE AnswerLine
  BY <1>2, AnswerLineInv, CursorKept DEF AnswerLine, rest, cursor
<1>3. CASE RefuseCall \/ NoOutput
  BY <1>3, RefusalsInv, CursorKept DEF RefuseCall, NoOutput, rest, cursor
<1>4. CASE Panic
  BY <1>4, PanicInv, CursorKept DEF Panic, rest, cursor
<1>5. CASE Info \/ VerifyImage \/ RefuseOffset
  BY <1>5, InfoInv, VerifyImageInv, RefuseOffsetInv
<1>6. CASE OpenForRange
  BY <1>6, OpenForRangeInv, OpenStep DEF OpenForRange, rest
<1>7. CASE SeekToStart \/ ReadSectors \/ SearchBuffer \/ ExtractBuffer \/ LibraryCall
  BY <1>7, SeekToStartInv, ReadSectorsInv, SearchBufferInv, ExtractBufferInv, LibraryCallInv
<1>8. CASE SearchDone \/ ExtractDone
  BY <1>8, SearchDoneInv, ExtractDoneInv, CursorKept DEF SearchDone, ExtractDone, rest, cursor
<1>9. CASE StartSections \/ SectionsDone \/ ListSection \/ ChainLeavesFile
  BY <1>9, SectionStepsInv, CursorKept
     DEF StartSections, SectionsDone, ListSection, ChainLeavesFile, rest, cursor
<1>10. CASE HelpOrNothing \/ BadArgument \/ NoPath \/ HashesFail
  BY <1>10, StopsInv, CursorKept DEF HelpOrNothing, BadArgument, NoPath, HashesFail, Exit, rest, cursor
<1>11. CASE TakeArgument
  BY <1>11, TakeArgumentInv, CursorKept DEF TakeArgument, cursor
<1>12. CASE Analyse
  BY <1>12, AnalyseInv, CursorKept DEF Analyse, Exit, rest, cursor
<1>13. CASE UNCHANGED vars
  <2>1. UNCHANGED <<session, image, output, level, expected, position, call, result, pc, line, job, replies, exit>>
    BY <1>13 DEF vars, rest, cursor
  <2>2. IInv'
    <3>1. /\ Line' = Line /\ TotalSize' = TotalSize /\ Mode' = Mode /\ Offset' = Offset
          /\ Pattern' = Pattern /\ Wanted' = Wanted /\ RangeLength' = RangeLength
      BY <2>1, SameLine, SameSession
    <3>2. AnswersExact' /\ SearchFindsAll' /\ Sequenced(replies')
      BY <2>1, KeptAnswers
    <3>3. ControlOK'
      BY <2>1, <3>1 DEF IInv, ControlOK
    <3>4. RangeOK'
      BY <2>1, <3>1 DEF IInv, RangeOK, MaxI64
    <3>5. SearchOK'
      BY <2>1, <3>1 DEF IInv, SearchOK, MatchesIn
    <3>6. ExitTellsVerdict'
      <4> DEFINE over == Len(session.lines)
                 serious == \E b \in Anomalies : b >= LevelOf(over)
      <4>1. serious' <=> serious
        BY <2>1 DEF LevelOf, Anomalies
      <4>2. Kinds' = Kinds
        BY <2>1 DEF Kinds
      <4> HIDE DEF serious
      <4>3. ExitTellsVerdict <=>
              (pc = "stopped" =>
                 /\ Mode = "cli" /\ exit = 0 /\ session.lines[1].tool = "verify" =>
                      image.opens /\ image.bad = {} /\ image.complete /\ "mismatch" \notin {image.md5, image.sha1}
                 /\ Mode = "check" =>
                      /\ exit = 1 => serious
                      /\ exit = 0 => Kinds \intersect {"help", "version"} # {} \/ (image.opens /\ ~serious))
        BY DEF ExitTellsVerdict, serious
      <4>4. ExitTellsVerdict' <=>
              (pc = "stopped" =>
                 /\ Mode = "cli" /\ exit = 0 /\ session.lines[1].tool = "verify" =>
                      image.opens /\ image.bad = {} /\ image.complete /\ "mismatch" \notin {image.md5, image.sha1}
                 /\ Mode = "check" =>
                      /\ exit = 1 => serious
                      /\ exit = 0 => Kinds \intersect {"help", "version"} # {} \/ (image.opens /\ ~serious))'
        BY DEF ExitTellsVerdict, serious
      <4>5. ExitTellsVerdict
        BY DEF IInv
      <4> QED BY <2>1, <3>1, <4>1, <4>2, <4>3, <4>4, <4>5
    <3>7. (pc = "arguments" => level = LevelOf(line - 1))'
      BY <2>1 DEF IInv, LevelOf
    <3> QED BY <3>2, <3>3, <3>4, <3>5, <3>6, <3>7 DEF IInv, Sequenced
  <2> QED BY <2>1, <2>2, CursorKept
<1> QED BY <1>1, <1>2, <1>3, <1>4, <1>5, <1>6, <1>7, <1>8, <1>9, <1>10, <1>11, <1>12, <1>13 DEF Next

\* Between any two steps of `ewf`, its server and ewf-check the loops of read, extract
\* and search are where they should be, and what was answered is right.
THEOREM Invariant == Spec => []IInv
<1>1. Init => IInv
  BY InitInv
<1>2. IInv /\ [Next]_vars => IInv'
  BY NextInv
<1> QED BY <1>1, <1>2, PTL DEF Spec

\* What read shows and extract writes is the range that was asked for, as far as it
\* lies in the image; an extract under way has written the beginning of it.
THEOREM RangesAreExact == Spec => []RangesExact
<1>1. ASSUME IInv PROVE RangesExact
  <2>1. AnswersExact /\ ControlOK /\ RangeOK
    BY <1>1 DEF IInv
  <2>2. ASSUME pc = "extract", session.room # None
        PROVE  output = SubSeq(Range(Line), 1, Len(output)) /\ Len(output) <= Len(Range(Line))
    <3> DEFINE Byte == 0..255
               s == image.media
    <3>1. Line.tool = "extract" /\ pc \in Ranged \union {"seek"}
      BY <2>1, <2>2 DEF ControlOK, Ranged
    <3>2. /\ Offset \in Nat /\ Offset < TotalSize /\ TotalSize \in Nat
          /\ RangeLength \in Nat /\ Offset + RangeLength <= TotalSize
          /\ Range(Line) = SubSeq(s, Offset + 1, Offset + RangeLength)
          /\ s \in Seq(Byte) /\ Len(s) = TotalSize
      BY <2>1, <3>1, RangeFacts, ImageFacts DEF TotalSize
    <3>3. /\ output \in Seq(0..255) /\ Len(output) \in Nat /\ Len(output) <= RangeLength
          /\ output = SubSeq(s, Offset + 1, Offset + Len(output))
      BY <2>1, <2>2, <3>2 DEF RangeOK
    <3>4. PICK a \in Nat, e \in Nat, d \in Nat, l \in Nat, z \in Nat :
            a = Offset /\ e = Offset + RangeLength /\ d = Len(output) /\ l = RangeLength /\ z = 0
      <4>1. Offset + RangeLength \in Nat /\ 0 \in Nat
        BY <3>2
      <4> QED BY <4>1, <3>2, <3>3, Zenon
    <3> HIDE DEF Byte, s
    <3>5. a <= e /\ e <= Len(s) /\ d <= e - a /\ l = (IF e > a THEN e - a ELSE 0)
      BY <3>2, <3>3, <3>4
    <3>6. SubSeq(SubSeq(s, a + 1, e), z + 1, d) = SubSeq(s, (a + z) + 1, a + d)
      BY <3>2, <3>5, SliceOfSlice
    <3>7. Len(SubSeq(s, a + 1, e)) = l
      BY <3>2, <3>5, SliceIs
    <3>8. z + 1 = 1 /\ (a + z) + 1 = a + 1
      BY <3>4
    <3>9. Range(Line) = SubSeq(s, a + 1, e) /\ output = SubSeq(s, a + 1, a + d)
      BY <3>2, <3>3, <3>4
    <3> QED BY <3>3, <3>4, <3>6, <3>7, <3>8, <3>9
  <2> QED BY <2>1, <2>2 DEF RangesExact, AnswersExact
<1> QED BY <1>1, Invariant, PTL

\* A search that is answered gives the first matches of the whole image, each once and
\* in order, wherever its buffers end.
THEOREM SearchesFindAll == Spec => []SearchFindsAll
<1>1. IInv => SearchFindsAll
  BY DEF IInv
<1> QED BY <1>1, Invariant, PTL

\* `ewf verify` succeeds only for an image that is whole; ewf-check exits with 1 exactly
\* if there is an anomaly of the level given last.
THEOREM ExitsTellVerdict == Spec => []ExitTellsVerdict
<1>1. IInv => ExitTellsVerdict
  BY DEF IInv
<1> QED BY <1>1, Invariant, PTL

\* Read and Seek on words of any size are those of a cursor with exact integers.
THEOREM CursorImplemented == Spec => CursorRefines
<1>1. Init => Cursor!Init
  BY InitInv
<1>2. IInv /\ [Next]_vars => [Cursor!Next]_(Cursor!vars)
  BY NextInv
<1> QED BY <1>1, <1>2, Invariant, PTL DEF Spec, CursorRefines, Cursor!Spec
=============================================================================
