-------------------------- MODULE SegmentDiscovery --------------------------
(***************************************************************************)
(* How the programs of the repository find the segment files of an image   *)
(* from the path of one of them.  There are five finders: `open` and       *)
(* `list` match the names of a directory against a pattern, `check`        *)
(* (forensic/src/integrity_path.rs), `recover` (forensic/src/recover.rs)   *)
(* and `logical` (core/src/logical.rs) probe one name after another.       *)
(*                                                                         *)
(* A name is [prefix, upper, v2, n]: the letter of its extension and that  *)
(* letter's case, whether it is of the 4-letter form (Ex01), and its place *)
(* in the scheme, 00, 01 .. 99 and then AA .. ZZ.  A directory gives the   *)
(* files it holds their segment numbers; 0 is a file that is no segment    *)
(* (stem.exe is one: its extension has the form of a letter segment).      *)
(***************************************************************************)
EXTENDS SegmentOrder

CONSTANTS
  Situations,   \* the directories and paths: [dir, path, bare]
  MaxNumeric,   \* 99: the last place written in digits
  MaxPlace      \* 775: ZZ

Finders == {"open", "list", "check", "recover", "logical"}

VARIABLES
  dir, path,
  bare,      \* the path has no directory part
  finder, phase,
  probe,     \* the place that is probed next
  out        \* the files found, then the files opened

findVars == <<dir, path, bare, finder, phase, probe, out>>

FileName == [prefix : {"E", "L"}, upper : BOOLEAN, v2 : BOOLEAN, n : 0..MaxPlace]

ASSUME DiscoveryAssumption ==
  /\ {MaxNumeric, MaxPlace} \subseteq Nat
  /\ \A s \in Situations :
       /\ s.path \in FileName
       /\ DOMAIN s.dir \subseteq FileName /\ IsFiniteSet(DOMAIN s.dir)

Exists(m) == m \in DOMAIN dir
Digits(n) == n <= MaxNumeric

\* parse_ewf_extension takes digits only, recover's finder the v1 `E` family only.
Recognised ==
  CASE finder = "check"   -> Digits(path.n)
    [] finder = "recover" -> Digits(path.n) /\ path.prefix = "E" /\ ~path.v2
    [] OTHER              -> TRUE

\* Mutant: the analysis starts at the segment it was given.
FirstProbeOwn == IF finder = "check" THEN path.n ELSE 2
FirstProbe == IF finder = "check" THEN 1 ELSE 2

FindInit ==
  /\ \E s \in Situations : dir = s.dir /\ path = s.path /\ bare = s.bare
  /\ finder \in Finders
  /\ phase = "find"
  /\ probe = FirstProbe
  /\ out = IF finder \in {"recover", "logical"} THEN <<path>> ELSE <<>>

Ends(status) == phase' = status /\ UNCHANGED <<dir, path, bare, finder, probe>>

----------------------------------------------------------------------------
(* open and list: all names of the pattern, sorted by their extension.     *)

\* `list` roots the pattern at "/" when the path is bare, and looks for E only.
Matching ==
  IF finder = "open"
  THEN {m \in DOMAIN dir : m.prefix = path.prefix /\ m.v2 = path.v2}
  ELSE {m \in DOMAIN dir : m.prefix = "E" /\ ~m.v2 /\ ~bare}

\* The sort is stable and ignores case; the pattern lists upper case first.
Before(a, b) == a.n < b.n \/ (a.n = b.n /\ a.upper /\ ~b.upper)

\* The i-th name has i - 1 before it.
Sorted(S) ==
  [i \in 1..Cardinality(S) |-> CHOOSE m \in S : Cardinality({x \in S : Before(x, m)}) = i - 1]

NothingMatches ==
  /\ phase = "find" /\ finder \in {"open", "list"}
  /\ Matching = {}
  /\ Ends("failed")
  /\ UNCHANGED out

Glob ==
  /\ phase = "find" /\ finder \in {"open", "list"}
  /\ Matching # {}
  /\ out' = Sorted(Matching)
  /\ Ends(IF finder = "open" THEN "validate" ELSE "returned")

Sources == [i \in DOMAIN out |-> [name |-> out[i], number |-> dir[out[i]]]]

Acceptable == (\A i \in DOMAIN out : dir[out[i]] # 0) /\ Sequential(Sources)

\* The reader opens what was found: header, order, gaps.
Validate ==
  /\ phase = "validate"
  /\ Acceptable
  /\ out' = [n \in DOMAIN out |-> Reordered(Sources)[n].name]
  /\ Ends("returned")

ValidateFails ==
  /\ phase = "validate"
  /\ ~Acceptable
  /\ Ends("failed")
  /\ UNCHANGED out

----------------------------------------------------------------------------
(* check, recover and logical: one name after another, until one is missing.*)

\* The name that is probed: the path's own case, and always an L for `logical`.
\* Only `logical` goes on from 99 to AA; the others look for E100, which no tool
\* writes (the analysis would follow such names up to E999).
NameAt(n) ==
  IF finder = "logical" THEN [path EXCEPT !.n = n, !.prefix = "L", !.v2 = FALSE]
                        ELSE [path EXCEPT !.n = n]

Candidate == NameAt(probe)

Named == probe <= (IF finder = "logical" THEN MaxPlace ELSE MaxNumeric)

Probing == phase = "find" /\ finder \notin {"open", "list"}
Hit == Recognised /\ Named /\ Exists(Candidate)

\* Mutant: a missing segment is skipped and the search goes on.
MissSkips ==
  /\ Probing /\ ~Hit
  /\ IF probe < MaxPlace /\ Recognised
     THEN probe' = probe + 1 /\ UNCHANGED <<phase, out>>
     ELSE phase' = "returned" /\ out' = (IF out = <<>> THEN <<path>> ELSE out) /\ UNCHANGED probe
  /\ UNCHANGED <<dir, path, bare, finder>>

\* The first missing name ends the search; the analysis then has at least its path.
Miss ==
  /\ Probing
  /\ ~Hit
  /\ out' = IF out = <<>> THEN <<path>> ELSE out
  /\ Ends("returned")

\* `logical` does not list its path twice; `recover` does when it is not the first.
Taken == IF finder = "logical" /\ Candidate = path THEN out ELSE Append(out, Candidate)

Found ==
  /\ Probing
  /\ Hit
  /\ out' = Taken
  /\ probe' = probe + 1
  /\ UNCHANGED <<dir, path, bare, finder, phase>>

FindNext == NothingMatches \/ Glob \/ Validate \/ ValidateFails \/ Found \/ Miss

FindSpec == FindInit /\ [][FindNext]_findVars

----------------------------------------------------------------------------
(* Properties.                                                             *)

\* The places that the directory has in the family and the case of the path.
Places == {m.n : m \in {x \in DOMAIN dir : [x EXCEPT !.n = 0] = [path EXCEPT !.n = 0]}}

\* A complete set 01 .. k of one case, each file with its number, and nothing else
\* that looks like one of its segments.
CompleteSet ==
  /\ Places = 1..Cardinality(Places)
  /\ \A m \in DOMAIN dir : m.prefix = path.prefix => m.upper = path.upper /\ dir[m] = m.n

WholeSet == [n \in 1..Cardinality(Places) |-> [path EXCEPT !.n = n]]

\* What each finder is made for: `list` and `recover` v1 evidence files, `logical` v1
\* logical files; the probing ones the first segment (the analysis any of them), and
\* the forensic ones sets without letters.
Covers ==
  CASE finder = "open"    -> TRUE
    [] finder = "list"    -> path.prefix = "E" /\ ~path.v2 /\ ~bare
    [] finder = "check"   -> Digits(Cardinality(Places))
    [] finder = "recover" -> path.prefix = "E" /\ ~path.v2 /\ path.n = 1 /\ Digits(Cardinality(Places))
    [] OTHER              -> path.prefix = "L" /\ ~path.v2 /\ path.n = 1

\* Five finders and two ways to search: on a complete set they return the same
\* files in the same order, whichever segment is named and wherever the numbers go
\* over from digits to letters.
WholeSetFound ==
  phase \in {"returned", "failed"} /\ CompleteSet /\ path.n \in Places /\ Covers =>
    phase = "returned" /\ out = WholeSet

\* A missing segment is not jumped: the reader opens 1, 2, 3, ... or nothing, and
\* the finders that probe one name after another return no file behind the hole
\* ("jumping the hole and continuing would assemble evidence from a discontiguous
\* run and report nothing wrong").  Exempt are `list`, which takes every name in the
\* directory that matches, and the named file itself, which is returned unprobed.
HoleNeverCrossed ==
  phase = "returned" =>
    /\ finder = "open" => \A i \in DOMAIN out : dir[out[i]] = i
    /\ finder \notin {"open", "list"} =>
         \A i \in DOMAIN out : out[i] # path =>
           \A n \in FirstProbe..out[i].n : Exists([out[i] EXCEPT !.n = n])

\* What holds between any two steps.  A probing finder has met every place before
\* the next one and holds nothing but its path and those; on a set it covers it
\* holds the set's first files.  `open` and `list` hold the names that match, in
\* order, until the reader has put them in the order of their numbers.
Wanted == CompleteSet /\ path.n \in Places /\ Covers

IInv ==
  /\ finder \in Finders /\ phase \in {"find", "validate", "returned", "failed"}
  /\ path \in FileName /\ DOMAIN dir \subseteq FileName /\ IsFiniteSet(DOMAIN dir)
  /\ probe \in Nat /\ probe >= FirstProbe
  /\ finder \notin {"open", "list"} =>
       /\ phase \in {"find", "returned"}
       /\ out \in Seq(FileName)
       /\ \A n \in FirstProbe..probe - 1 : Exists(NameAt(n))
       /\ \A i \in DOMAIN out : out[i] = path \/ \E n \in FirstProbe..probe - 1 : out[i] = NameAt(n)
  /\ finder \notin {"open", "list"} /\ phase = "find" /\ Wanted =>
       probe \in 1..Cardinality(Places) + 1 /\ out = [n \in 1..probe - 1 |-> [path EXCEPT !.n = n]]
  /\ phase = "validate" => finder = "open" /\ Matching # {} /\ out = Sorted(Matching)
  /\ WholeSetFound
  /\ HoleNeverCrossed
=============================================================================
