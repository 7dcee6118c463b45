------------------------------ MODULE Commands ------------------------------
(***************************************************************************)
(* The programs that use the libraries: the commands of `ewf`              *)
(* (cli/src/main.rs) and its server (cli/src/mcp.rs), which share their    *)
(* handlers (cli/src/handlers.rs), and `ewf-check`                         *)
(* (forensic/src/bin/ewf_check.rs).  A session is                          *)
(* [mode, image, lines, room]: the command, the lines the server reads or  *)
(* the arguments of ewf-check; the image the path names; and how many      *)
(* bytes the disk takes for the output of `extract`.  The mode "library"   *)
(* is a program that makes up to MaxCalls seeks and reads.                 *)
(***************************************************************************)
EXTENDS EwfCursor, FiniteSets

CONSTANTS
  Sessions,
  BufSize,                              \* 64 KiB: what search and extract read at a time
  MaxLength, DefaultLength,             \* of `read`: 4096 and 512
  MaxResults, DefaultResults,           \* of `search`: 100 and 10
  LibraryCalls, MaxCalls,               \* what a program calls: [op, value]
  FileHeaderSize, DescriptorSize        \* 13 and 76: where `sections` walks

None == -1

\* What a call asks for.  A range is given in words; extract needs its length.
CallOK(r) ==
  /\ r.tool \in {"info", "verify", "read", "search", "extract", "sections", "unknown"}
  /\ {r.offset, r.length, r.max} \subseteq 0..Word - 1 \union {None}
  /\ r.tool = "extract" /\ ~r.missing => r.length # None
  /\ r.pattern \in Seq(0..255)

\* An image is smaller than 2^63 bytes.
ASSUME SessionAssumption ==
  /\ {MaxLength, DefaultLength, MaxResults, DefaultResults} \subseteq Nat
  /\ BufSize \in Nat \ {0}
  /\ \A s \in Sessions :
       /\ s.mode \in {"cli", "mcp", "check", "library"}
       /\ s.image.media \in Seq(0..255) /\ Len(s.image.media) <= MaxI64
       /\ s.room \in Nat \union {None}
       /\ Len(s.lines) \in Nat /\ DOMAIN s.lines = 1..Len(s.lines)
       /\ \A i \in DOMAIN s.lines : s.lines[i].kind = "call" => CallOK(s.lines[i])
       /\ s.mode = "cli" => Len(s.lines) = 1 /\ s.lines[1].kind = "call"
  /\ \A c \in LibraryCalls :
       \/ c.op \in {"start", "read"} /\ c.value \in 0..Word - 1
       \/ c.op \in {"end", "current"} /\ c.value \in -HalfWord..MaxI64

NoJob == [offset |-> 0, carry |-> <<>>, found |-> <<>>, left |-> 0, segment |-> 1]

VARIABLES
  session, pc,
  line,       \* the line or argument that is next
  job,        \* the loop of search, extract or sections
  output,     \* the file `extract` writes, empty as long as there is none
  replies,    \* what was answered: [line, ok, value]
  level,      \* ewf-check's --min-severity
  expected,   \* the digests it was given
  exit        \* the exit code

rest == <<session, image, output, level, expected>>
vars == <<rest, cursor, pc, line, job, replies, exit>>

Mode == session.mode
Line == session.lines[line]
SmallerOf(a, b) == IF a < b THEN a ELSE b
Given(value, default) == IF value = None THEN default ELSE value

Init ==
  /\ session \in Sessions
  /\ image = session.image
  /\ position = 0 /\ call = [op |-> "open", arg |-> 0] /\ result = Error
  /\ pc = CASE Mode = "mcp" -> "idle" [] Mode = "cli" -> "call"
            [] Mode = "check" -> "arguments" [] Mode = "library" -> "library"
  /\ line = 1 /\ job = NoJob /\ output = <<>>
  /\ replies = <<>> /\ level = 0 /\ expected = {} /\ exit = None

----------------------------------------------------------------------------
(* The end of a call: the server answers and reads on, the command exits.  *)

\* Mutant: an image whose table does not cover the media passes.
VerifyFailsHashesOnly == "mismatch" \in {image.md5, image.sha1}
VerifyFails == "mismatch" \in {image.md5, image.sha1} \/ ~image.complete

ExitCode(ok) ==
  CASE ~ok -> 1
    [] ok /\ Line.tool = "verify" /\ VerifyFails -> 2
    [] OTHER -> 0

Answer(ok, value) ==
  /\ replies' = Append(replies, [line |-> line, ok |-> ok, value |-> value])
  /\ line' = line + 1
  /\ job' = NoJob
  /\ IF Mode = "cli" THEN pc' = "stopped" /\ exit' = ExitCode(ok)
                     ELSE pc' = "idle" /\ UNCHANGED exit

Refuse == Answer(FALSE, <<>>)

----------------------------------------------------------------------------
(* mcp::run: one line after another.                                       *)

Incoming == pc = "idle" /\ line <= Len(session.lines)

\* An empty line and a notification that the client is ready get no answer.
SkipLine ==
  /\ Incoming
  /\ Line.kind \in {"empty", "initialized"}
  /\ line' = line + 1
  /\ UNCHANGED <<rest, cursor, pc, job, replies, exit>>

\* Mutant: a line that is no JSON ends the server.
AnswerLineOrStop ==
  /\ Incoming
  /\ Line.kind \in {"garbage", "initialize", "list", "other"}
  /\ IF Line.kind = "garbage" THEN pc' = "stopped" /\ UNCHANGED <<line, job, replies, exit>>
     ELSE Answer(Line.kind \in {"initialize", "list"}, <<>>)
  /\ UNCHANGED <<rest, cursor>>

\* initialize and tools/list; a line that is no JSON and an unknown method get an error.
AnswerLine ==
  /\ Incoming
  /\ Line.kind \in {"garbage", "initialize", "list", "other"}
  /\ Answer(Line.kind \in {"initialize", "list"}, <<>>)
  /\ UNCHANGED <<rest, cursor>>

StartCall ==
  /\ Incoming
  /\ Line.kind = "call"
  /\ pc' = "call"
  /\ UNCHANGED <<rest, cursor, line, job, replies, exit>>

\* The input ends, or has a line that is no UTF-8.
ServerStops ==
  /\ pc = "idle"
  /\ line > Len(session.lines) \/ (line <= Len(session.lines) /\ Line.kind = "unreadable")
  /\ pc' = "stopped"
  /\ UNCHANGED <<rest, cursor, line, job, replies, exit>>

----------------------------------------------------------------------------
(* dispatch_tool, and the handlers up to their loops.                      *)

Calls(tools) == pc = "call" /\ Line.tool \in tools /\ ~Line.missing
OnImage == {"info", "verify", "read", "search", "extract"}
\* Odd length, a digit that is none, or nothing.
BadPattern == Line.tool = "search" /\ Line.form # "split" /\ (Line.form = "bad" \/ Line.pattern = <<>>)
SplitPattern == Line.tool = "search" /\ Line.form = "split"

\* A required parameter is absent, the tool is unknown, the pattern is refused
\* before the image is opened, or the image does not open.
RefuseCall ==
  /\ pc = "call"
  /\ \/ Line.missing \/ Line.tool = "unknown"
     \/ BadPattern
     \/ Line.tool \in OnImage /\ ~SplitPattern /\ ~image.opens
  /\ Refuse
  /\ UNCHANGED <<rest, cursor>>

\* A pattern is cut every two bytes; a cut inside a character panics, and nothing
\* catches it.
Panic ==
  /\ Calls({"search"})
  /\ SplitPattern
  /\ pc' = "panicked"
  /\ exit' = 101
  /\ UNCHANGED <<rest, cursor, line, job, replies>>

Opened(tools) == Calls(tools) /\ ~BadPattern /\ ~SplitPattern /\ image.opens

Info ==
  /\ Opened({"info"})
  /\ OpenImage
  /\ Answer(TRUE, <<TotalSize>>)
  /\ UNCHANGED rest

\* verify() fails on a chunk it cannot read (module Verify).
VerifyImage ==
  /\ Opened({"verify"})
  /\ OpenImage
  /\ IF image.bad = {} THEN Answer(TRUE, <<image.md5, image.sha1, image.complete>>) ELSE Refuse
  /\ UNCHANGED rest

Offset == Given(Line.offset, 0)
Beyond == Line.tool # "search" /\ Offset >= TotalSize

RefuseOffset ==
  /\ Opened({"read", "extract"})
  /\ Beyond
  /\ OpenImage
  /\ Refuse
  /\ UNCHANGED rest

OpenForRange ==
  /\ Opened({"read", "search", "extract"})
  /\ ~Beyond
  /\ OpenImage
  /\ pc' = "seek"
  /\ UNCHANGED <<rest, line, job, replies, exit>>

\* The part of the range that lies in the image; read has a limit of its own.
RangeLength ==
  SmallerOf(IF Line.tool = "read" THEN SmallerOf(Given(Line.length, DefaultLength), MaxLength)
                                  ELSE Line.length,
            TotalSize - Offset)

\* `extract` creates its output as soon as the position is set.
SeekToStart ==
  /\ pc = "seek"
  /\ Seek("start", IF Line.tool = "search" THEN 0 ELSE Offset)
  /\ pc' = Line.tool
  /\ job' = [NoJob EXCEPT !.left = IF Line.tool = "search" THEN 0 ELSE RangeLength]
  /\ output' = IF Line.tool = "extract" /\ session.room # None THEN <<>> ELSE output
  /\ UNCHANGED <<session, image, level, expected, line, replies, exit>>

\* read_exact.
ReadSectors ==
  /\ pc = "read"
  /\ Read(job.left)
  /\ IF result'.ok /\ Len(result'.data) = job.left THEN Answer(TRUE, result'.data) ELSE Refuse
  /\ UNCHANGED rest

----------------------------------------------------------------------------
(* handle_ewf_search: a window of what was carried over and what is read.  *)

Asked(r) == SmallerOf(Given(r.max, DefaultResults), MaxResults)
Wanted == Asked(Line)
Pattern == Line.pattern

\* Where the window has the pattern, in order.
HitsIn(window) ==
  LET end == IF Len(window) >= Len(Pattern) THEN Len(window) - Len(Pattern) + 1 ELSE 0
      hits[i \in 0..end] ==
        IF i = 0 THEN <<>>
        ELSE IF SubSeq(window, i, i + Len(Pattern) - 1) = Pattern
             THEN Append(hits[i - 1], job.offset - Len(job.carry) + i - 1)
             ELSE hits[i - 1]
  IN  hits[end]

\* Mutant: one byte too few is carried over.
CarriedShort(window) ==
  IF Len(Pattern) > 1 /\ Len(window) >= Len(Pattern) - 1
  THEN SubSeq(window, Len(window) - Len(Pattern) + 3, Len(window)) ELSE <<>>
\* What a match that goes on in the next buffer can have begun with.
Carried(window) ==
  IF Len(Pattern) > 1 /\ Len(window) >= Len(Pattern) - 1
  THEN SubSeq(window, Len(window) - Len(Pattern) + 2, Len(window)) ELSE <<>>

SearchOn == job.offset < TotalSize /\ Len(job.found) < Wanted

SearchBuffer ==
  /\ pc = "search"
  /\ SearchOn
  /\ Read(SmallerOf(BufSize, TotalSize - job.offset))
  /\ IF result'.ok
     THEN LET window == job.carry \o result'.data
              found == job.found \o HitsIn(window)
          IN  /\ job' = [job EXCEPT !.offset = @ + Len(result'.data), !.carry = Carried(window),
                                    !.found = SubSeq(found, 1, SmallerOf(Len(found), Wanted))]
              /\ UNCHANGED <<pc, line, replies, exit>>
     ELSE Refuse
  /\ UNCHANGED rest

SearchDone ==
  /\ pc = "search"
  /\ ~SearchOn
  /\ Answer(TRUE, job.found)
  /\ UNCHANGED <<rest, cursor>>

----------------------------------------------------------------------------
(* handle_ewf_extract: the output is written buffer by buffer.             *)

\* The output cannot be created.
NoOutput ==
  /\ pc = "extract"
  /\ session.room = None
  /\ Refuse
  /\ UNCHANGED <<rest, cursor>>

\* Mutant: what was asked for is what has to be left.
LeftAsked(data) == job.left - BufSize
Left(data) == job.left - Len(data)

\* A full disk takes the part of a buffer for which it has room.
ExtractBuffer ==
  /\ pc = "extract" /\ session.room # None
  /\ job.left > 0
  /\ Read(SmallerOf(job.left, BufSize))
  /\ LET data == result'.data
         fits == SmallerOf(Len(data), session.room - Len(output))
     IN  /\ output' = output \o SubSeq(data, 1, fits)
         /\ IF result'.ok /\ fits = Len(data)
            THEN job' = [job EXCEPT !.left = Left(data)] /\ UNCHANGED <<pc, line, replies, exit>>
            ELSE Refuse
  /\ UNCHANGED <<session, image, level, expected>>

ExtractDone ==
  /\ pc = "extract" /\ session.room # None
  /\ job.left <= 0
  /\ Answer(TRUE, <<RangeLength - job.left>>)
  /\ UNCHANGED <<rest, cursor>>

----------------------------------------------------------------------------
(* handle_ewf_list_sections: the chains of the segments found.             *)

Segment == image.segments[job.segment]
Descriptor == Segment.next[job.offset]
\* The sum is one of words, too.
HasDescriptor == (job.offset + DescriptorSize) % Word <= Segment.len

StartSections ==
  /\ Calls({"sections"})
  /\ IF image.segments = <<>> THEN Refuse
     ELSE /\ pc' = "sections"
          /\ job' = [NoJob EXCEPT !.offset = FileHeaderSize]
          /\ UNCHANGED <<line, replies, exit>>
  /\ UNCHANGED <<rest, cursor>>

SectionsDone ==
  /\ pc = "sections"
  /\ job.segment > Len(image.segments)
  /\ Answer(TRUE, job.found)
  /\ UNCHANGED <<rest, cursor>>

ListSection ==
  /\ pc = "sections"
  /\ job.segment <= Len(image.segments)
  /\ HasDescriptor
  /\ IF job.offset > MaxI64 THEN Refuse   \* the file does not seek there
     ELSE /\ job' = LET found == Append(job.found, <<job.segment, job.offset>>)
                    IN  IF Descriptor <= job.offset
                        THEN [job EXCEPT !.found = found, !.segment = @ + 1, !.offset = FileHeaderSize]
                        ELSE [job EXCEPT !.found = found, !.offset = Descriptor]
          /\ UNCHANGED <<pc, line, replies, exit>>
  /\ UNCHANGED <<rest, cursor>>

ChainLeavesFile ==
  /\ pc = "sections"
  /\ job.segment <= Len(image.segments)
  /\ ~HasDescriptor
  /\ job' = [job EXCEPT !.segment = @ + 1, !.offset = FileHeaderSize]
  /\ UNCHANGED <<rest, cursor, pc, line, replies, exit>>

----------------------------------------------------------------------------
(* ewf-check.                                                              *)

Exit(code) == pc' = "stopped" /\ exit' = code /\ UNCHANGED <<rest, cursor, line, job, replies>>

Kinds == {session.lines[i].kind : i \in DOMAIN session.lines}
Parsing == pc = "arguments" /\ Kinds # {} /\ Kinds \intersect {"help", "version"} = {}

\* --help and --version come before everything else.
HelpOrNothing == pc = "arguments" /\ ~Parsing /\ Exit(IF Kinds = {} THEN 2 ELSE 0)

BadArgument ==
  /\ Parsing /\ line <= Len(session.lines)
  /\ Line.kind = "bad"    \* an unknown option or level, a digest of another length
  /\ Exit(2)

\* The last level given counts, and the last digest of each kind.
TakeArgument ==
  /\ Parsing /\ line <= Len(session.lines)
  /\ Line.kind # "bad"
  /\ level' = IF Line.kind = "level" THEN Line.value ELSE level
  /\ expected' = IF Line.kind = "digest"
                 THEN {d \in expected : d.digest # Line.digest} \union {[digest |-> Line.digest, value |-> Line.value]}
                 ELSE expected
  /\ line' = line + 1
  /\ UNCHANGED <<session, image, output, cursor, pc, job, replies, exit>>

NoPath == Parsing /\ line > Len(session.lines) /\ "path" \notin Kinds /\ Exit(2)

\* An image whose media is hashed is compared with the digests given; a mismatch is
\* critical.
Anomalies ==
  image.anomalies \union
  {4 : d \in {d \in expected : image.digests # {} /\ d \notin image.digests}}

Visible == {a \in Anomalies : a >= level}

\* The analysis, and for --print-hashes another opening of the files.
Analyse ==
  /\ Parsing /\ line > Len(session.lines) /\ "path" \in Kinds
  /\ Exit(IF ~image.opens THEN 2 ELSE IF Visible = {} THEN 0 ELSE 1)

\* A file that is gone when the digests are computed.
HashesFail ==
  /\ Parsing /\ line > Len(session.lines) /\ "path" \in Kinds /\ "hashes" \in Kinds
  /\ image.opens
  /\ Exit(2)

----------------------------------------------------------------------------
LibraryCall ==
  /\ pc = "library"
  /\ line <= MaxCalls
  /\ \E c \in LibraryCalls : IF c.op = "read" THEN Read(c.value) ELSE Seek(c.op, c.value)
  /\ line' = line + 1
  /\ UNCHANGED <<rest, pc, job, replies, exit>>

Next ==
  \/ SkipLine \/ AnswerLine \/ StartCall \/ ServerStops
  \/ RefuseCall \/ Panic \/ Info \/ VerifyImage \/ RefuseOffset \/ OpenForRange
  \/ SeekToStart \/ ReadSectors \/ SearchBuffer \/ SearchDone
  \/ NoOutput \/ ExtractBuffer \/ ExtractDone
  \/ StartSections \/ SectionsDone \/ ListSection \/ ChainLeavesFile
  \/ HelpOrNothing \/ BadArgument \/ TakeArgument \/ NoPath \/ Analyse \/ HashesFail
  \/ LibraryCall

\* Each program is one thread; its input is a file that ends.
Spec == Init /\ [][Next]_vars /\ WF_vars(Next)

----------------------------------------------------------------------------
(* Properties.                                                             *)

Replied(k, tool) ==
  session.lines[replies[k].line].kind = "call" /\ session.lines[replies[k].line].tool = tool
Request(k) == session.lines[replies[k].line]

MatchesIn(p) == {m \in 0..TotalSize : m + Len(p) <= TotalSize /\ SubSeq(image.media, m + 1, m + Len(p)) = p}

\* The first n elements of a set of numbers, in order.
FirstOf(n, S, v) ==
  /\ Len(v) <= n
  /\ \A i \in DOMAIN v : v[i] \in S
  /\ \A i, j \in DOMAIN v : i < j => v[i] < v[j]
  /\ \A m \in S : (\E i \in DOMAIN v : v[i] = m) \/ (Len(v) = n /\ \A i \in DOMAIN v : v[i] < m)

\* "Search for a byte pattern in the disk image": a search that is answered gives the
\* first matches of the whole image, those across the ends of its buffers included,
\* each once and in order.  The pattern is no longer than a buffer and one byte: a
\* longer one is never found (README).
SearchFindsAll ==
  \A k \in DOMAIN replies :
    Replied(k, "search") /\ replies[k].ok /\ Len(Request(k).pattern) <= BufSize + 1 =>
      FirstOf(Asked(Request(k)), MatchesIn(Request(k).pattern), replies[k].value)

Range(r) ==
  LET from == Given(r.offset, 0)
      n    == IF r.tool = "read" THEN SmallerOf(Given(r.length, DefaultLength), MaxLength) ELSE r.length
  IN  SubSeq(image.media, from + 1, SmallerOf(from + n, TotalSize))

\* What `read` shows is the range asked for, as far as it lies in the image.  The
\* output of `extract` is that range when it succeeds, with its size told, and the
\* beginning of it whenever it fails or is under way: never other bytes.
RangesExact ==
  /\ \A k \in DOMAIN replies : replies[k].ok =>
       /\ Replied(k, "read") => replies[k].value = Range(Request(k))
       /\ Replied(k, "extract") /\ (\A j \in k + 1..Len(replies) : ~Replied(j, "extract")) /\ pc = "stopped" =>
            output = Range(Request(k)) /\ replies[k].value = <<Len(output)>>
  /\ pc = "extract" /\ session.room # None =>
       output = SubSeq(Range(Line), 1, Len(output)) /\ Len(output) <= Len(Range(Line))

\* The server reads its input to the end, or to a line it cannot decode, and by then
\* has answered every line that asks for an answer, once and in order, whatever
\* calls failed in between.  Only a pattern cut inside a character ends it earlier.
EveryLineAnswered ==
  LET unreadable == {i \in DOMAIN session.lines : session.lines[i].kind = "unreadable"}
      due(i) == /\ \A u \in unreadable : i < u
                /\ session.lines[i].kind \notin {"empty", "initialized"}
  IN  Mode = "mcp" =>
        <>(\/ pc = "panicked"
           \/ /\ pc = "stopped"
              /\ [k \in DOMAIN replies |-> replies[k].line]
                   = SelectSeq([i \in DOMAIN session.lines |-> i], due))

\* The level that the last of the first n arguments with a level gives.
LevelOf(n) ==
  LET levels == {i \in 1..n : session.lines[i].kind = "level"}
  IN  IF levels = {} THEN 0
      ELSE session.lines[CHOOSE i \in levels : \A j \in levels : j <= i].value

\* The exit codes: `ewf verify` succeeds only for an image that was read completely
\* and has no other digest than those stored with it; `ewf-check` exits with 1 only
\* if there is an anomaly of the level given last (then it exits with 1, or with 2
\* when something failed, too), and with 0 only if it told how it is used or every
\* file was analysed and there is none.
ExitTellsVerdict ==
  pc = "stopped" =>
    /\ Mode = "cli" /\ exit = 0 /\ session.lines[1].tool = "verify" =>
         image.opens /\ image.bad = {} /\ image.complete /\ "mismatch" \notin {image.md5, image.sha1}
    /\ Mode = "check" =>
         LET serious == \E a \in Anomalies : a >= LevelOf(Len(session.lines))
         IN  /\ exit = 1 => serious
             /\ exit = 0 => Kinds \intersect {"help", "version"} # {} \/ (image.opens /\ ~serious)

ImageBytes ==
  [i \in 1..TotalSize |->
     [value |-> image.media[i], readable |-> (i - 1) \div ChunkSize \notin image.bad]]

Cursor == INSTANCE ByteCursor WITH
  Limit <- MaxI64, Arguments <- -HalfWord..Word - 1, bytes <- ImageBytes

\* Seeks and reads, in whatever order, are those of a cursor with exact integers, for
\* every distance an i64 or a u64 can have; the image is smaller than 2^63 bytes.
CursorRefines == Cursor!Spec

----------------------------------------------------------------------------
(* What holds between any two steps.                                       *)

Ranged == {"read", "search", "extract"}
Serving == {"call", "seek", "sections"} \union Ranged

\* Which program runs, and what the line is that it works on.
ControlOK ==
  /\ session \in Sessions /\ image = session.image
  /\ pc \in Serving \union {"idle", "arguments", "library", "stopped", "panicked"}
  /\ line \in Nat \ {0}
  /\ pc = "idle" => Mode = "mcp"
  /\ pc = "arguments" => Mode = "check" /\ line - 1 <= Len(session.lines)
  /\ pc \in Serving =>
       Mode \in {"cli", "mcp"} /\ line \in DOMAIN session.lines /\ Line.kind = "call"
  /\ pc \in Serving \ {"call"} => ~Line.missing
  /\ pc \in Ranged \union {"sections"} => Line.tool = pc
  /\ pc = "seek" => Line.tool \in Ranged
  /\ pc \in Ranged \union {"seek"} =>
       IF Line.tool = "search" THEN Pattern # <<>> ELSE Offset < TotalSize
  /\ Mode = "cli" /\ pc \in Serving => line = 1

IsJob(j) ==
  j = [offset |-> j.offset, carry |-> j.carry, found |-> j.found, left |-> j.left, segment |-> j.segment]

\* The loops of read and extract are where they should be in the range.
RangeOK ==
  /\ position \in 0..MaxI64
  /\ pc = "read" => position = Offset /\ job.left = RangeLength
  /\ pc = "extract" /\ session.room # None =>
       /\ IsJob(job)
       /\ output \in Seq(0..255) /\ Len(output) <= session.room
       /\ job.left = RangeLength - Len(output) /\ job.left >= 0
       /\ position = Offset + Len(output)
       /\ output = SubSeq(image.media, Offset + 1, Offset + Len(output))

\* Until the next extract begins, the output is what the last one wrote.
AnswersExact ==
  \A k \in DOMAIN replies : replies[k].ok =>
    /\ Replied(k, "read") => replies[k].value = Range(Request(k))
    /\ Replied(k, "extract") /\ (\A j \in k + 1..Len(replies) : ~Replied(j, "extract")) /\ pc # "extract" =>
         output = Range(Request(k)) /\ replies[k].value = <<Len(output)>>

\* The matches that end in front of the next buffer have been found, and what is
\* carried over is what lies there and can begin another one.
SearchOK ==
  pc = "search" =>
    /\ IsJob(job)
    /\ job.offset \in 0..TotalSize /\ position = job.offset
    /\ Len(Pattern) <= BufSize + 1 =>
         /\ job.found \in Seq(Nat)
         /\ FirstOf(Wanted, {m \in MatchesIn(Pattern) : m + Len(Pattern) <= job.offset}, job.found)
         /\ job.offset < TotalSize =>
              /\ Len(job.carry) = IF job.offset = 0 THEN 0 ELSE Len(Pattern) - 1
              /\ Len(job.carry) <= job.offset
              /\ job.carry = SubSeq(image.media, job.offset - Len(job.carry) + 1, job.offset)

IInv ==
  /\ ControlOK /\ RangeOK /\ SearchOK
  /\ Len(replies) \in Nat /\ replies = [k \in 1..Len(replies) |-> replies[k]]
  /\ pc = "arguments" => level = LevelOf(line - 1)
  /\ AnswersExact /\ SearchFindsAll /\ ExitTellsVerdict
=============================================================================
