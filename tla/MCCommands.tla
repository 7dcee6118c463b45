----------------------------- MODULE MCCommands -----------------------------
(***************************************************************************)
(* Sessions for Commands.  Words have 4 bits, an image up to 7 bytes in    *)
(* chunks of two, a buffer two bytes.                                      *)
(***************************************************************************)
EXTENDS Commands

Image(media, bad) ==
  [opens |-> TRUE, media |-> media, bad |-> bad, md5 |-> "match", sha1 |-> "absent", complete |-> TRUE,
   segments |-> <<>>, anomalies |-> {}, digests |-> {}]

Plain == Image(<<1, 2, 3, 4, 5, 6, 7>>, {})

Call(tool) ==
  [kind |-> "call", tool |-> tool, missing |-> FALSE, offset |-> None, length |-> None, form |-> "hex",
   pattern |-> <<>>, max |-> None]
Other(kind) == [kind |-> kind]

Session(mode, image_, lines, room) == [mode |-> mode, image |-> image_, lines |-> lines, room |-> room]

\* Every image of two values, and every pattern that begins with one of them: the
\* other patterns are found in the image with the values exchanged.
Binary == UNION {[1..n -> {0, 1}] : n \in {1, 7}}
Patterns == {p \in UNION {[1..n -> {0, 1}] : n \in 1..4} : p[1] = 1}
Search(p, m) == [Call("search") EXCEPT !.pattern = p, !.max = m]
Searches ==
  {Session("cli", Image(m, {}), <<Search(p, 9)>>, 0) : m \in Binary, p \in Patterns}
  \union {Session("cli", Image(m, b), <<Search(<<1, 0>>, n)>>, 0) :
            m \in {<<1, 0, 1, 0, 0, 1, 0>>, <<0, 1, 0, 0, 1, 0, 1>>}, b \in {{}, {1}, {3}},
            n \in {None, 0, 1, 2, 9}}

Reads ==
  {Session("cli", Image(Plain.media, b), <<[Call("read") EXCEPT !.offset = o, !.length = n]>>, 0) :
     b \in {{}, {1}}, o \in {None} \union 0..15, n \in {None, 0, 1, 3, 6, 15}}
Extracts ==
  {Session("cli", Image(Plain.media, b), <<[Call("extract") EXCEPT !.offset = o, !.length = n]>>, room) :
     b \in {{}, {1}, {3}}, o \in {0, 1, 3, 6, 7, 15}, n \in {0, 1, 3, 6, 15}, room \in {None, 0, 3, 9}}

Verdicts == {"match", "mismatch", "absent"}
Verifies ==
  {Session("cli", [Image(Plain.media, b) EXCEPT !.md5 = x, !.sha1 = y, !.complete = c, !.opens = o],
           <<Call("verify")>>, 0) :
     b \in {{}, {2}}, x \in Verdicts, y \in Verdicts, c \in BOOLEAN, o \in BOOLEAN}

\* Chains that end, come back, leave the file, or point to the end of the words.
Chain(len, a, b) == [len |-> len, next |-> [o \in 0..15 |-> IF o = 1 THEN a ELSE b]]
Chains ==
  {Session("cli", [Plain EXCEPT !.segments = s], <<Call("sections")>>, 0) :
     s \in {<<>>} \union {<<Chain(n, a, b), Chain(9, 4, 4)>> :
                           n \in {0, 2, 3, 9}, a \in {0, 1, 4, 14, 15}, b \in {0, 1, 4, 7, 15}}}

----------------------------------------------------------------------------
(* The server: three lines, one after another.                             *)

Lines ==
  {Other(k) : k \in {"empty", "initialized", "garbage", "initialize", "list", "other", "unreadable"}}
  \union {Call(t) : t \in {"info", "verify", "unknown", "sections"}}
  \union {[Call("read") EXCEPT !.offset = 1], [Call("read") EXCEPT !.missing = TRUE],
          [Call("extract") EXCEPT !.offset = 4, !.length = 9],
          [Call("extract") EXCEPT !.offset = 0, !.length = 3],
          Search(<<3, 4>>, 1), Search(<<>>, None),
          [Search(<<1>>, 1) EXCEPT !.form = "bad"], [Search(<<1>>, 1) EXCEPT !.form = "split"]}
Served ==
  {Session("mcp", i, <<a, b, c>>, 9) :
     i \in {Plain, Image(Plain.media, {1})}, a \in Lines, b \in Lines,
     c \in {Other("garbage"), [Call("extract") EXCEPT !.offset = 4, !.length = 2]}}
  \union {Session("mcp", [Plain EXCEPT !.opens = FALSE, !.segments = <<Chain(9, 4, 4)>>], <<a, b>>, 9) :
            a \in Lines, b \in Lines}

----------------------------------------------------------------------------
CheckArguments ==
  {Other(k) : k \in {"help", "bad", "path", "hashes", "flag"}}
  \union {[kind |-> "level", value |-> n] : n \in {0, 2, 4}}
  \union {[kind |-> "digest", digest |-> d, value |-> v] : d \in {"md5", "sha1"}, v \in {1, 2}}
Digests == {[digest |-> d, value |-> 1] : d \in {"md5", "sha1"}}
Checks ==
  {Session("check", [Plain EXCEPT !.anomalies = an, !.digests = g, !.opens = o], args, 0) :
     <<an, g, o>> \in ({{}, {2, 3}} \X {{}, Digests} \X {TRUE}) \union {<<{4}, Digests, FALSE>>},
     args \in UNION {[1..n -> CheckArguments] : n \in 0..2} \union {<<a, Other("path"), b>> : a, b \in CheckArguments}}

Moves ==
  {[op |-> "start", value |-> p] : p \in {0, 3, 7, 8, 15}}
  \union {[op |-> f, value |-> p] : f \in {"end", "current"}, p \in {-8, -7, -1, 0, 2, 7}}
  \union {[op |-> "read", value |-> n] : n \in {0, 2, 3, 9}}
Programs ==
  {Session("library", i, <<>>, 0) : i \in {Plain, Image(<<1, 2, 3, 4>>, {1}), Image(<<>>, {})}}

AllSessions ==
  UNION {Searches, Reads, Extracts, Verifies, Chains, Served, Checks, Programs}
=============================================================================
