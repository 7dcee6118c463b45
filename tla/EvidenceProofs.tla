--------------------------- MODULE EvidenceProofs ---------------------------
(***************************************************************************)
(* How evidence is found and listed: SegmentDiscovery's safety properties  *)
(* for every directory, every path and every length of the numbering       *)
(* scheme; that what parse_entry_tree builds (LogicalTree) is a tree, for  *)
(* every text: nothing is assumed of the evidence, its lines or its        *)
(* counts; and that it is the tree that the text holds, if it holds one.   *)
(***************************************************************************)
EXTENDS SegmentDiscovery, LogicalTree, FiniteSetTheorems, WellFoundedInduction, TLAPS

\* A non-empty set of naturals has a least member.
LEMMA Least ==
  ASSUME NEW T, T \subseteq Nat, T # {}
  PROVE  \E i \in T : \A j \in T : i <= j
<1> DEFINE R == OpToRel(<, Nat)
<1>1. PICK x \in T : \A y \in T : ~(<<y, x>> \in R)
  <2>1. IsWellFoundedOn(R, Nat)
    BY NatLessThanWellFounded
  <2> HIDE DEF R
  <2> QED BY <2>1, WFMin
<1>2. \A a, b \in Nat : a < b => <<a, b>> \in R
  BY DEF OpToRel
<1> HIDE DEF R
<1>3. \A y \in T : ~(y < x)
  BY <1>1, <1>2
<1> QED BY <1>3

\* The name at place n of a family: the names of one set differ in n alone.
At(p, n) == [p EXCEPT !.n = n]

----------------------------------------------------------------------------
(* Names and places.                                                       *)

LEMMA AtFields ==
  ASSUME NEW p \in FileName, NEW n
  PROVE  /\ At(p, n).n = n
         /\ At(p, n).prefix = p.prefix /\ At(p, n).upper = p.upper /\ At(p, n).v2 = p.v2
         /\ n \in 0..MaxPlace => At(p, n) \in FileName
BY DEF At, FileName

\* A name is a place of the path's family exactly when it has the family's other fields.
LEMMA SameFamily ==
  ASSUME NEW p \in FileName, NEW m \in FileName
  PROVE  /\ [m EXCEPT !.n = 0] = [p EXCEPT !.n = 0] <=>
              m.prefix = p.prefix /\ m.upper = p.upper /\ m.v2 = p.v2
         /\ m.prefix = p.prefix /\ m.upper = p.upper /\ m.v2 = p.v2 => m = At(p, m.n)
BY DEF FileName, At

LEMMA PlacesAre ==
  ASSUME path \in FileName, DOMAIN dir \subseteq FileName
  PROVE  /\ Places \subseteq 0..MaxPlace
         /\ \A n \in 0..MaxPlace : n \in Places <=> At(path, n) \in DOMAIN dir
<1>1. ASSUME NEW n \in Places
      PROVE  n \in 0..MaxPlace /\ At(path, n) \in DOMAIN dir
  <2>1. PICK m \in DOMAIN dir : n = m.n /\ [m EXCEPT !.n = 0] = [path EXCEPT !.n = 0]
    BY <1>1 DEF Places
  <2>2. m = At(path, n) /\ m.n \in 0..MaxPlace
    BY <2>1, SameFamily DEF FileName
  <2> QED BY <2>1, <2>2
<1>2. ASSUME NEW n \in 0..MaxPlace, At(path, n) \in DOMAIN dir
      PROVE  n \in Places
  <2> DEFINE m == At(path, n)
  <2>1. m.n = n /\ m \in FileName /\ m.prefix = path.prefix /\ m.upper = path.upper /\ m.v2 = path.v2
    BY AtFields
  <2>2. [m EXCEPT !.n = 0] = [path EXCEPT !.n = 0]
    BY <2>1, SameFamily
  <2> QED BY <1>2, <2>1, <2>2 DEF Places
<1> QED BY <1>1, <1>2

LEMMA PlacesFinite ==
  ASSUME path \in FileName, DOMAIN dir \subseteq FileName
  PROVE  IsFiniteSet(Places) /\ Cardinality(Places) \in Nat
<1>1. IsFiniteSet(0..MaxPlace)
  BY FS_Interval, DiscoveryAssumption
<1>2. IsFiniteSet(Places)
  BY <1>1, PlacesAre, FS_Subset
<1> QED BY <1>2, FS_CardinalityType

\* On a complete set every place up to its size is in the scheme.
LEMMA SetInScheme ==
  ASSUME path \in FileName, DOMAIN dir \subseteq FileName, CompleteSet
  PROVE  /\ Cardinality(Places) \in Nat
         /\ 1..Cardinality(Places) \subseteq 0..MaxPlace
         /\ \A n \in Nat : n \in 1..Cardinality(Places) <=> n >= 1 /\ At(path, n) \in DOMAIN dir
<1>1. Cardinality(Places) \in Nat /\ Places = 1..Cardinality(Places)
  BY PlacesFinite DEF CompleteSet
<1>2. 1..Cardinality(Places) \subseteq 0..MaxPlace
  BY <1>1, PlacesAre
<1>3. ASSUME NEW n \in Nat, n >= 1, At(path, n) \in DOMAIN dir
      PROVE  n \in 1..Cardinality(Places)
  <2>1. At(path, n) \in FileName
    BY <1>3
  <2>2. n \in 0..MaxPlace
    BY <2>1, AtFields DEF FileName
  <2> QED BY <1>1, <1>3, <2>2, PlacesAre
<1>4. ASSUME NEW n \in 1..Cardinality(Places)
      PROVE  n >= 1 /\ At(path, n) \in DOMAIN dir
  BY <1>1, <1>2, PlacesAre
<1> QED BY <1>1, <1>2, <1>3, <1>4

----------------------------------------------------------------------------
(* Sorting the names that match.                                           *)

\* The names at the places 1 .. k.
Run(p, k) == {At(p, n) : n \in 1..k}

LEMMA RunSize ==
  ASSUME NEW p \in FileName, NEW k \in Nat
  PROVE  IsFiniteSet(Run(p, k)) /\ Cardinality(Run(p, k)) = k
<1> DEFINE f == [n \in 1..k |-> At(p, n)]
<1>1. f \in Bijection(1..k, Run(p, k))
  <2>1. f \in [1..k -> Run(p, k)]
    BY DEF Run
  <2>2. \A a, b \in 1..k : f[a] = f[b] => a = b
    BY AtFields
  <2>3. \A m \in Run(p, k) : \E a \in 1..k : f[a] = m
    BY DEF Run
  <2> HIDE DEF f
  <2> QED BY <2>1, <2>2, <2>3 DEF Bijection, Injection, Surjection, IsInjective
<1>2. ExistsBijection(1..k, Run(p, k))
  BY <1>1 DEF ExistsBijection
<1>3. IsFiniteSet(1..k) /\ Cardinality(1..k) = k
  BY FS_Interval
<1> QED BY <1>2, <1>3, FS_Bijection

\* Names of one family are sorted by their place.
LEMMA SortedRun ==
  ASSUME NEW p \in FileName, NEW k \in Nat
  PROVE  Sorted(Run(p, k)) = [n \in 1..k |-> At(p, n)]
<1> DEFINE S == Run(p, k)
           Earlier(m) == {x \in S : Before(x, m)}
<1>1. ASSUME NEW j \in 1..k
      PROVE  At(p, j) \in S /\ Cardinality(Earlier(At(p, j))) = j - 1
  <2>1. ASSUME NEW x \in S
        PROVE  Before(x, At(p, j)) <=> x \in Run(p, j - 1)
    <3>1. PICK n \in 1..k : x = At(p, n)
      BY <2>1 DEF Run
    <3>2. Before(x, At(p, j)) <=> n < j
      BY <3>1, AtFields DEF Before
    <3>3. x \in Run(p, j - 1) <=> n < j
      <4>1. ASSUME NEW i \in 1..(j - 1), x = At(p, i) PROVE n < j
        <5>1. At(p, n).n = n /\ At(p, i).n = i
          BY AtFields
        <5> QED BY <5>1, <4>1, <3>1
      <4>2. n < j => n \in 1..(j - 1)
        OBVIOUS
      <4> QED BY <4>1, <4>2, <3>1 DEF Run
    <3> QED BY <3>2, <3>3
  <2>2. Run(p, j - 1) \subseteq S
    BY DEF Run
  <2>3. Earlier(At(p, j)) = Run(p, j - 1)
    BY <2>1, <2>2
  <2>4. j - 1 \in Nat
    OBVIOUS
  <2>5. Cardinality(Run(p, j - 1)) = j - 1
    BY <2>4, RunSize
  <2>6. At(p, j) \in S
    BY DEF Run
  <2> HIDE DEF Earlier, S
  <2> QED BY <2>3, <2>5, <2>6
<1>2. Cardinality(S) = k
  BY RunSize
<1>3. ASSUME NEW i \in 1..k
      PROVE  (CHOOSE m \in S : Cardinality(Earlier(m)) = i - 1) = At(p, i)
  <2>1. ASSUME NEW m \in S, Cardinality(Earlier(m)) = i - 1
        PROVE  m = At(p, i)
    <3>1. PICK j \in 1..k : m = At(p, j)
      BY DEF Run
    <3> HIDE DEF Earlier, S
    <3>2. j - 1 = i - 1
      BY <1>1, <2>1, <3>1
    <3> QED BY <3>1, <3>2
  <2> HIDE DEF Earlier, S
  <2> QED BY <1>1, <2>1
<1>4. Sorted(S) = [i \in 1..Cardinality(S) |-> CHOOSE m \in S : Cardinality(Earlier(m)) = i - 1]
  BY DEF Sorted
<1> HIDE DEF Earlier, S
<1>5. Sorted(S) = [n \in 1..k |-> At(p, n)]
  BY <1>2, <1>3, <1>4
<1> QED BY <1>5 DEF S

\* On a complete set that the finder covers, the pattern matches the set's files and
\* no others, so `open` and `list` hold the whole set.
LEMMA MatchingWhole ==
  ASSUME path \in FileName, DOMAIN dir \subseteq FileName, Wanted, finder \in {"open", "list"}
  PROVE  Matching = Run(path, Cardinality(Places)) /\ Sorted(Matching) = WholeSet
<1> DEFINE k == Cardinality(Places)
<1>1. k \in Nat /\ Places = 1..k
      /\ \A n \in Nat : n \in 1..k <=> n >= 1 /\ At(path, n) \in DOMAIN dir
  BY SetInScheme DEF Wanted, CompleteSet
<1>2. \A m \in DOMAIN dir : m.prefix = path.prefix => m.upper = path.upper
  BY DEF Wanted, CompleteSet
<1>3. \A m \in DOMAIN dir : m \in Matching <=> m.prefix = path.prefix /\ m.v2 = path.v2
  <2>1. CASE finder = "open"
    BY <2>1 DEF Matching
  <2>2. CASE finder = "list"
    <3>1. path.prefix = "E" /\ ~path.v2 /\ ~bare
      BY <2>2 DEF Wanted, Covers
    <3>2. \A m \in DOMAIN dir : m.v2 \in BOOLEAN
      BY DEF FileName
    <3>3. path.v2 = FALSE
      BY <3>1 DEF FileName
    <3> QED BY <2>2, <3>1, <3>2, <3>3 DEF Matching
  <2> QED BY <2>1, <2>2
<1>4. ASSUME NEW m \in Matching PROVE m \in Run(path, k)
  <2>1. m \in DOMAIN dir
    BY DEF Matching
  <2>2. m.prefix = path.prefix /\ m.v2 = path.v2 /\ m.upper = path.upper /\ m \in FileName
    BY <2>1, <1>2, <1>3
  <2>3. [m EXCEPT !.n = 0] = [path EXCEPT !.n = 0] /\ m = At(path, m.n)
    BY <2>2, SameFamily
  <2>4. m.n \in Places
    BY <2>1, <2>3 DEF Places
  <2> QED BY <2>3, <2>4, <1>1 DEF Run
<1>5. ASSUME NEW m \in Run(path, k) PROVE m \in Matching
  <2>1. PICK n \in 1..k : m = At(path, n)
    BY DEF Run
  <2>2. m \in DOMAIN dir /\ m.prefix = path.prefix /\ m.v2 = path.v2
    BY <2>1, <1>1, AtFields
  <2> QED BY <2>2, <1>3
<1>6. Matching = Run(path, k)
  BY <1>4, <1>5
<1>7. Sorted(Run(path, k)) = [n \in 1..k |-> At(path, n)]
  BY <1>1, SortedRun
<1> QED BY <1>6, <1>7 DEF WholeSet, At

----------------------------------------------------------------------------
(* The reader's order.                                                     *)

\* The files that the reader accepts come out in the order of their numbers.
LEMMA ReorderedNumbers ==
  ASSUME NEW k \in Nat, DOMAIN out = 1..k, Acceptable
  PROVE  LET names == [n \in DOMAIN out |-> Reordered(Sources)[n].name]
         IN  \A n \in DOMAIN names : dir[names[n]] = n
<1> DEFINE names == [n \in DOMAIN out |-> Reordered(Sources)[n].name]
<1> SUFFICES ASSUME NEW n \in 1..k PROVE dir[names[n]] = n
  OBVIOUS
<1> DEFINE i == CHOOSE j \in DOMAIN Sources : Sources[j].number = n
<1>1. DOMAIN Sources = 1..k /\ Len(Sources) = k
  BY DEF Sources
<1>2. \E j \in DOMAIN Sources : Sources[j].number = n
  BY <1>1 DEF Acceptable, Sequential
<1>3. i \in 1..k /\ Sources[i].number = n
  BY <1>1, <1>2
<1>4. Reordered(Sources)[n] = Sources[i]
  BY <1>1 DEF Reordered
<1> HIDE DEF i
<1>5. Sources[i] = [name |-> out[i], number |-> dir[out[i]]]
  BY <1>1, <1>3 DEF Sources
<1>6. names[n] = out[i]
  BY <1>4, <1>5
<1> QED BY <1>3, <1>5, <1>6

\* A whole set is accepted, and it is in order already.
LEMMA WholeSetAccepted ==
  ASSUME path \in FileName, DOMAIN dir \subseteq FileName, Wanted, out = WholeSet
  PROVE  /\ Acceptable
         /\ [n \in DOMAIN out |-> Reordered(Sources)[n].name] = WholeSet
<1> DEFINE k == Cardinality(Places)
<1>1. k \in Nat /\ \A n \in Nat : n \in 1..k <=> n >= 1 /\ At(path, n) \in DOMAIN dir
  BY SetInScheme DEF Wanted
<1>2. WholeSet = [n \in 1..k |-> At(path, n)]
  BY DEF WholeSet, At
<1> HIDE DEF k
<1>3. ASSUME NEW n \in 1..k PROVE dir[out[n]] = n
  <2>1. out[n] = At(path, n) /\ At(path, n) \in DOMAIN dir
    BY <1>1, <1>2
  <2>2. At(path, n).prefix = path.prefix /\ At(path, n).n = n
    BY AtFields
  <2> QED BY <2>1, <2>2 DEF Wanted, CompleteSet
<1>4. DOMAIN out = 1..k /\ DOMAIN Sources = 1..k /\ Len(Sources) = k
  BY <1>1, <1>2 DEF Sources
<1>5. ASSUME NEW n \in 1..k
      PROVE  Sources[n].number = n /\ Sources[n].name = out[n]
  BY <1>3, <1>4 DEF Sources
<1>6. Acceptable
  <2>1. {Sources[i].number : i \in DOMAIN Sources} = 1..k
    BY <1>4, <1>5
  <2>2. \A i \in DOMAIN out : dir[out[i]] # 0
    BY <1>1, <1>3, <1>4
  <2> QED BY <2>1, <2>2, <1>4 DEF Acceptable, Sequential
<1>7. ASSUME NEW n \in 1..k PROVE Reordered(Sources)[n] = Sources[n]
  BY <1>4, <1>5 DEF Reordered
<1>8. [n \in DOMAIN out |-> Reordered(Sources)[n].name] = [n \in 1..k |-> out[n]]
  BY <1>4, <1>5, <1>7
<1>9. [n \in 1..k |-> out[n]] = WholeSet
  BY <1>2
<1> QED BY <1>6, <1>8, <1>9

----------------------------------------------------------------------------
(* The inductive invariant.                                                *)

LEMMA InitInv == FindInit => IInv
<1> SUFFICES ASSUME FindInit PROVE IInv
  OBVIOUS
<1>1. /\ finder \in Finders /\ phase = "find" /\ probe = FirstProbe
      /\ path \in FileName /\ DOMAIN dir \subseteq FileName /\ IsFiniteSet(DOMAIN dir)
  BY DiscoveryAssumption DEF FindInit
<1>2. probe \in {1, 2} /\ (finder = "check" <=> probe = 1)
  BY <1>1 DEF FirstProbe
<1>3. finder \notin {"open", "list"} => out \in Seq(FileName)
  BY <1>1 DEF FindInit
<1>4. \A i \in DOMAIN out : out[i] = path
  BY DEF FindInit
<1>5. ASSUME finder \notin {"open", "list"}, Wanted
      PROVE  /\ probe \in 1..Cardinality(Places) + 1
             /\ out = [n \in 1..probe - 1 |-> [path EXCEPT !.n = n]]
  <2>1. Cardinality(Places) \in Nat /\ path.n \in 1..Cardinality(Places)
    BY <1>1, <1>5, SetInScheme DEF Wanted, CompleteSet
  <2>2. CASE finder = "check"
    <3>1. probe = 1 /\ out = <<>>
      BY <2>2, <1>2 DEF FindInit
    <3> QED BY <3>1, <2>1
  <2>3. CASE finder # "check"
    <3>1. probe = 2 /\ out = <<path>> /\ path.n = 1
      BY <2>3, <1>1, <1>2, <1>5 DEF FindInit, Wanted, Covers, Finders
    <3>2. At(path, 1) = path
      BY <3>1, <1>1 DEF At, FileName
    <3>3. out = [n \in 1..1 |-> At(path, n)]
      BY <3>1, <3>2
    <3> QED BY <3>1, <3>3, <2>1 DEF At
  <2> QED BY <2>2, <2>3
<1>6. WholeSetFound /\ HoleNeverCrossed
  BY <1>1 DEF WholeSetFound, HoleNeverCrossed
<1>7. \A n \in FirstProbe..probe - 1 : Exists(NameAt(n))
  BY <1>1, <1>2
<1> QED BY <1>1, <1>2, <1>3, <1>4, <1>5, <1>6, <1>7 DEF IInv

\* What a step that leaves the directory, the path and the finder alone keeps of them.
LEMMA SameDirectory ==
  ASSUME UNCHANGED <<dir, path, bare, finder>>
  PROVE  /\ Places' = Places /\ Wanted' = Wanted /\ Matching' = Matching /\ WholeSet' = WholeSet
         /\ FirstProbe' = FirstProbe
         /\ \A n : NameAt(n)' = NameAt(n)
         /\ \A m : Exists(m)' = Exists(m)
BY DEF Places, Wanted, Matching, WholeSet, FirstProbe, NameAt, Exists, CompleteSet, Covers

LEMMA FailedInv ==
  ASSUME IInv, NothingMatches \/ ValidateFails PROVE IInv'
<1>1. /\ finder \in {"open", "list"} /\ phase' = "failed"
      /\ UNCHANGED <<dir, path, bare, finder, probe, out>>
  BY DEF IInv, NothingMatches, ValidateFails, Ends
<1>2. /\ Places' = Places /\ Wanted' = Wanted /\ Matching' = Matching /\ WholeSet' = WholeSet
      /\ FirstProbe' = FirstProbe
  BY <1>1, SameDirectory
<1>3. ASSUME Wanted PROVE FALSE
  <2>1. CASE NothingMatches
    <3> DEFINE k == Cardinality(Places)
    <3>1. k \in Nat /\ path.n \in 1..k
      BY <1>3, SetInScheme DEF IInv, Wanted, CompleteSet
    <3>2. Matching = Run(path, k)
      BY <1>1, <1>3, MatchingWhole DEF IInv
    <3> HIDE DEF k
    <3>3. Matching # {}
      BY <3>1, <3>2 DEF Run
    <3> QED BY <2>1, <3>3 DEF NothingMatches
  <2>2. CASE ValidateFails
    <3>1. finder = "open" /\ out = Sorted(Matching) /\ ~Acceptable
      BY <2>2 DEF ValidateFails, IInv
    <3>2. out = WholeSet
      BY <1>1, <1>3, <3>1, MatchingWhole DEF IInv
    <3> QED BY <1>3, <3>1, <3>2, WholeSetAccepted DEF IInv
  <2> QED BY <2>1, <2>2
<1>4. WholeSetFound'
  BY <1>2, <1>3 DEF WholeSetFound, Wanted
<1>5. HoleNeverCrossed'
  BY <1>1 DEF HoleNeverCrossed
<1> QED BY <1>1, <1>2, <1>4, <1>5 DEF IInv

LEMMA GlobInv == ASSUME IInv, Glob PROVE IInv'
<1>1. /\ finder \in {"open", "list"} /\ Matching # {} /\ out' = Sorted(Matching)
      /\ phase' = IF finder = "open" THEN "validate" ELSE "returned"
      /\ UNCHANGED <<dir, path, bare, finder, probe>>
  BY DEF Glob, Ends
<1>2. /\ Places' = Places /\ Wanted' = Wanted /\ Matching' = Matching /\ WholeSet' = WholeSet
      /\ FirstProbe' = FirstProbe
  BY <1>1, SameDirectory
<1>3. WholeSetFound'
  <2>1. Wanted => out' = WholeSet
    BY <1>1, MatchingWhole DEF IInv
  <2> QED BY <1>1, <1>2, <2>1 DEF WholeSetFound, Wanted
<1>4. HoleNeverCrossed'
  BY <1>1 DEF HoleNeverCrossed
<1>5. phase' = "validate" => finder' = "open" /\ Matching' # {} /\ out' = Sorted(Matching)'
  BY <1>1, <1>2 DEF Sorted, Before
<1> QED BY <1>1, <1>2, <1>3, <1>4, <1>5 DEF IInv

LEMMA ValidateInv == ASSUME IInv, Validate PROVE IInv'
<1> DEFINE names == [n \in DOMAIN out |-> Reordered(Sources)[n].name]
<1>1. /\ finder = "open" /\ out = Sorted(Matching) /\ Acceptable /\ out' = names
      /\ phase' = "returned" /\ UNCHANGED <<dir, path, bare, finder, probe>>
  BY DEF Validate, Ends, IInv
<1>2. /\ Places' = Places /\ Wanted' = Wanted /\ Matching' = Matching /\ WholeSet' = WholeSet
      /\ FirstProbe' = FirstProbe
  BY <1>1, SameDirectory
<1>3. WholeSetFound'
  <2>1. ASSUME Wanted PROVE out' = WholeSet
    <3>1. out = WholeSet
      BY <1>1, <2>1, MatchingWhole DEF IInv
    <3> QED BY <1>1, <2>1, <3>1, WholeSetAccepted DEF IInv
  <2> HIDE DEF names
  <2> QED BY <1>1, <1>2, <2>1 DEF WholeSetFound, Wanted
<1>4. HoleNeverCrossed'
  <2>1. IsFiniteSet(Matching)
    <3>1. Matching \subseteq DOMAIN dir
      BY DEF Matching
    <3> QED BY <3>1, FS_Subset DEF IInv
  <2>2. Cardinality(Matching) \in Nat
    BY <2>1, FS_CardinalityType
  <2>3. DOMAIN out = 1..Cardinality(Matching)
    BY <1>1 DEF Sorted
  <2>4. \A n \in DOMAIN names : dir[names[n]] = n
    BY <1>1, <2>2, <2>3, ReorderedNumbers
  <2> HIDE DEF names
  <2> QED BY <1>1, <2>4 DEF HoleNeverCrossed
<1> HIDE DEF names
<1> QED BY <1>1, <1>2, <1>3, <1>4 DEF IInv

\* The place of a probed name, and its neighbours: only the place changes.
LEMMA NameAtFields ==
  ASSUME path \in FileName, NEW n \in Nat
  PROVE  /\ NameAt(n).n = n
         /\ \A j \in Nat : [NameAt(n) EXCEPT !.n = j] = NameAt(j)
<1>1. CASE finder = "logical"
  <2> DEFINE no == FALSE
  <2>1. \A j \in Nat : NameAt(j) = [prefix |-> "L", upper |-> path.upper, v2 |-> no, n |-> j]
    BY <1>1 DEF NameAt, FileName
  <2> HIDE DEF no
  <2>2. NameAt(n).n = n
    BY <2>1
  <2>3. ASSUME NEW j \in Nat PROVE [NameAt(n) EXCEPT !.n = j] = NameAt(j)
    BY <2>1
  <2> QED BY <2>2, <2>3
<1>2. CASE finder # "logical"
  <2>1. \A j \in Nat : NameAt(j) = [prefix |-> path.prefix, upper |-> path.upper, v2 |-> path.v2, n |-> j]
    BY <1>2 DEF NameAt, FileName
  <2> QED BY <2>1
<1> QED BY <1>1, <1>2

\* On a set that it covers, a probing finder hits the set's places and no others.
LEMMA WantedHits ==
  ASSUME IInv, Probing, Wanted
  PROVE  /\ Candidate = At(path, probe)
         /\ Hit <=> probe <= Cardinality(Places)
         /\ finder = "logical" /\ Candidate = path => probe = 1
<1> DEFINE k == Cardinality(Places)
<1>1. /\ k \in Nat /\ path.n \in 1..k /\ 1..k \subseteq 0..MaxPlace
      /\ \A n \in Nat : n \in 1..k <=> n >= 1 /\ At(path, n) \in DOMAIN dir
  BY SetInScheme DEF IInv, Wanted, CompleteSet
<1>2. path \in FileName /\ probe \in Nat /\ probe >= 1 /\ finder \in {"check", "recover", "logical"}
  BY DEF IInv, Probing, Finders, FirstProbe
<1>3. Candidate = At(path, probe)
  <2>1. CASE finder = "logical"
    <3>1. path.prefix = "L" /\ path.v2 = FALSE
      <4>1. path.prefix = "L" /\ ~path.v2
        BY <2>1 DEF Wanted, Covers
      <4>2. path.v2 \in BOOLEAN
        BY <1>2 DEF FileName
      <4> QED BY <4>1, <4>2
    <3>2. NameAt(probe) = [prefix |-> "L", upper |-> path.upper, v2 |-> FALSE, n |-> probe]
      BY <2>1, <1>2 DEF NameAt, FileName
    <3>3. At(path, probe) = [prefix |-> path.prefix, upper |-> path.upper, v2 |-> path.v2, n |-> probe]
      BY <1>2 DEF At, FileName
    <3> QED BY <3>1, <3>2, <3>3 DEF Candidate
  <2>2. CASE finder # "logical"
    BY <2>2 DEF Candidate, NameAt, At
  <2> QED BY <2>1, <2>2
<1>4. finder # "logical" => k <= MaxNumeric /\ Recognised
  BY <1>1, <1>2, DiscoveryAssumption DEF Wanted, Covers, Recognised, Digits, FileName
<1>5. finder = "logical" => Recognised
  BY DEF Recognised
<1>6. Exists(Candidate) <=> probe <= k
  BY <1>1, <1>2, <1>3 DEF Exists
<1>7. probe <= k => Named
  BY <1>1, <1>2, <1>4, DiscoveryAssumption DEF Named
<1>8. finder = "logical" /\ Candidate = path => probe = 1
  <2>1. finder = "logical" => path.n = 1
    BY DEF Wanted, Covers
  <2>2. At(path, probe).n = probe
    BY <1>2, AtFields
  <2> QED BY <1>3, <2>1, <2>2
<1> QED BY <1>3, <1>4, <1>5, <1>6, <1>7, <1>8 DEF Hit

LEMMA MissInv == ASSUME IInv, Miss PROVE IInv'
<1>1. /\ Probing /\ ~Hit /\ phase' = "returned" /\ finder \notin {"open", "list"}
      /\ out' = (IF out = <<>> THEN <<path>> ELSE out)
      /\ UNCHANGED <<dir, path, bare, finder, probe>>
  BY DEF Miss, Ends, Probing
<1>2. /\ Places' = Places /\ Wanted' = Wanted /\ Matching' = Matching /\ WholeSet' = WholeSet
      /\ FirstProbe' = FirstProbe
      /\ \A n : NameAt(n)' = NameAt(n)
      /\ \A m : Exists(m)' = Exists(m)
  BY <1>1, SameDirectory
<1>3. /\ path \in FileName /\ out \in Seq(FileName) /\ probe \in Nat /\ FirstProbe \in {1, 2}
      /\ \A n \in FirstProbe..probe - 1 : Exists(NameAt(n))
      /\ \A i \in DOMAIN out : out[i] = path \/ \E n \in FirstProbe..probe - 1 : out[i] = NameAt(n)
  BY <1>1 DEF IInv, FirstProbe
<1>4. /\ out' \in Seq(FileName)
      /\ \A i \in DOMAIN out' : out'[i] = path \/ \E n \in FirstProbe..probe - 1 : out'[i] = NameAt(n)
  BY <1>1, <1>3
<1>5. HoleNeverCrossed'
  <2>1. ASSUME NEW i \in DOMAIN out', out'[i] # path, NEW n \in FirstProbe..out'[i].n
        PROVE  Exists([out'[i] EXCEPT !.n = n])
    <3>1. PICK j \in FirstProbe..probe - 1 : out'[i] = NameAt(j)
      BY <1>4, <2>1
    <3>2. j \in Nat /\ n \in Int
      BY <1>3
    <3>3. out'[i].n = j
      BY <3>1, <3>2, <1>3, NameAtFields
    <3>4. n \in Nat /\ n \in FirstProbe..probe - 1
      BY <3>1, <3>2, <3>3, <1>3
    <3>5. [out'[i] EXCEPT !.n = n] = NameAt(n)
      BY <3>1, <3>2, <3>4, <1>3, NameAtFields
    <3> QED BY <3>4, <3>5, <1>3
  <2> QED BY <1>1, <1>2, <2>1 DEF HoleNeverCrossed
<1>6. WholeSetFound'
  <2>1. ASSUME Wanted PROVE out' = WholeSet
    <3> DEFINE k == Cardinality(Places)
    <3>1. k \in Nat /\ path.n \in 1..k
      BY <2>1, SetInScheme DEF IInv, Wanted, CompleteSet
    <3>2. /\ probe \in 1..k + 1
          /\ out = [n \in 1..probe - 1 |-> [path EXCEPT !.n = n]]
      BY <1>1, <2>1 DEF IInv, Probing
    <3>3. probe = k + 1
      BY <1>1, <2>1, <3>1, <3>2, WantedHits
    <3>4. out = WholeSet
      BY <3>1, <3>2, <3>3 DEF WholeSet
    <3>5. out # <<>>
      <4>1. Len(out) = k
        BY <3>1, <3>4 DEF WholeSet
      <4> QED BY <4>1, <3>1
    <3> QED BY <1>1, <3>4, <3>5
  <2> QED BY <1>1, <1>2, <2>1 DEF WholeSetFound, Wanted
<1> QED BY <1>1, <1>2, <1>3, <1>4, <1>5, <1>6 DEF IInv

LEMMA FoundInv == ASSUME IInv, Found PROVE IInv'
<1>1. /\ Probing /\ Hit /\ phase = "find" /\ finder \notin {"open", "list"}
      /\ out' = Taken /\ probe' = probe + 1
      /\ UNCHANGED <<dir, path, bare, finder, phase>>
  BY DEF Found, Probing
<1>2. /\ Places' = Places /\ Wanted' = Wanted /\ Matching' = Matching /\ WholeSet' = WholeSet
      /\ FirstProbe' = FirstProbe
      /\ \A n : NameAt(n)' = NameAt(n)
      /\ \A m : Exists(m)' = Exists(m)
  BY <1>1, SameDirectory
<1>3. /\ path \in FileName /\ out \in Seq(FileName) /\ probe \in Nat /\ FirstProbe \in {1, 2}
      /\ FirstProbe <= probe /\ DOMAIN dir \subseteq FileName
      /\ \A n \in FirstProbe..probe - 1 : Exists(NameAt(n))
      /\ \A i \in DOMAIN out : out[i] = path \/ \E n \in FirstProbe..probe - 1 : out[i] = NameAt(n)
  BY <1>1 DEF IInv, FirstProbe
<1>4. Exists(NameAt(probe)) /\ NameAt(probe) \in FileName
  BY <1>1, <1>3 DEF Hit, Candidate, Exists
<1>5. \A n \in FirstProbe..probe' - 1 : Exists(NameAt(n))
  BY <1>1, <1>3, <1>4
<1>6. /\ out' \in Seq(FileName)
      /\ \A i \in DOMAIN out' : out'[i] = path \/ \E n \in FirstProbe..probe' - 1 : out'[i] = NameAt(n)
  <2>1. probe \in FirstProbe..probe' - 1
    BY <1>1, <1>3
  <2>2. CASE out' = out
    BY <2>2, <1>1, <1>3
  <2>3. CASE out' = Append(out, NameAt(probe))
    <3> DEFINE e == NameAt(probe)
    <3>1. e \in FileName
      BY <1>4
    <3>2. ASSUME NEW i \in DOMAIN out'
          PROVE  (i \in DOMAIN out /\ out'[i] = out[i]) \/ out'[i] = NameAt(probe)
      <4> HIDE DEF e
      <4> QED BY <2>3, <1>3, <3>1 DEF e
    <3>3. out' \in Seq(FileName)
      BY <2>3, <1>3, <3>1
    <3> QED BY <3>2, <3>3, <2>1, <1>1, <1>3
  <2> QED BY <2>2, <2>3, <1>1 DEF Taken, Candidate
<1>7. ASSUME Wanted
      PROVE  /\ probe' \in 1..Cardinality(Places) + 1
             /\ out' = [n \in 1..probe' - 1 |-> [path EXCEPT !.n = n]]
  <2> DEFINE k == Cardinality(Places)
  <2>1. k \in Nat
    BY <1>3, PlacesFinite
  <2>2. /\ probe \in 1..k + 1
        /\ out = [n \in 1..probe - 1 |-> [path EXCEPT !.n = n]]
    BY <1>1, <1>7 DEF IInv
  <2>3. probe <= k /\ Candidate = At(path, probe) /\ (finder = "logical" /\ Candidate = path => probe = 1)
    BY <1>1, <1>7, WantedHits
  <2>4. finder = "logical" => probe >= 2
    BY <1>3 DEF FirstProbe
  <2>5. out' = Append(out, At(path, probe))
    BY <1>1, <2>3, <2>4 DEF Taken
  <2>6. out = [n \in 1..probe - 1 |-> At(path, n)]
    BY <2>2 DEF At
  <2>7. out' = [n \in 1..probe |-> At(path, n)]
    BY <1>3, <2>5, <2>6
  <2> QED BY <2>1, <2>2, <2>3, <2>7, <1>1 DEF At
<1>8. WholeSetFound' /\ HoleNeverCrossed'
  BY <1>1 DEF WholeSetFound, HoleNeverCrossed
<1> QED BY <1>1, <1>2, <1>3, <1>5, <1>6, <1>7, <1>8 DEF IInv

\* The inductive invariant: what the finders hold between two steps, for every
\* directory (discover_segments, find_v1_segments and the three probing loops).
THEOREM Invariant == FindSpec => []IInv
<1>1. ASSUME IInv, [FindNext]_findVars PROVE IInv'
  <2>1. CASE FindNext
    BY <1>1, <2>1, FailedInv, GlobInv, ValidateInv, FoundInv, MissInv DEF FindNext
  <2>2. CASE UNCHANGED findVars
    <3>1. UNCHANGED <<dir, path, bare, finder, phase, probe, out>>
      BY <2>2 DEF findVars
    <3>2. /\ Wanted' = Wanted /\ Matching' = Matching /\ WholeSet' = WholeSet /\ Places' = Places
          /\ FirstProbe' = FirstProbe
          /\ \A n : NameAt(n)' = NameAt(n)
          /\ \A m : Exists(m)' = Exists(m)
      BY <3>1, SameDirectory
    <3>3. WholeSetFound' /\ HoleNeverCrossed'
      BY <1>1, <3>1, <3>2 DEF IInv, WholeSetFound, HoleNeverCrossed, Wanted
    <3>4. Sorted(Matching)' = Sorted(Matching)
      BY <3>2 DEF Sorted, Before
    <3> QED BY <1>1, <3>1, <3>2, <3>3, <3>4 DEF IInv
  <2> QED BY <1>1, <2>1, <2>2
<1> QED BY InitInv, <1>1, PTL DEF FindSpec

\* On a complete set that a finder covers, it returns the whole set in order: for
\* every directory, whichever segment is named, and at every boundary between digits
\* and letters (discover_segments, find_v1_segments, the probing loops).
THEOREM WholeSets == FindSpec => []WholeSetFound
<1>1. IInv => WholeSetFound
  BY DEF IInv
<1> QED BY Invariant, <1>1, PTL

\* No finder returns a file behind a missing one, and what the reader opens is
\* numbered 1, 2, 3, ... (the breaks of the probing loops and
\* validate_and_reorder_segments).
THEOREM HolesNeverCrossed == FindSpec => []HoleNeverCrossed
<1>1. IInv => HoleNeverCrossed
  BY DEF IInv
<1> QED BY Invariant, <1>1, PTL

----------------------------------------------------------------------------
(* The tree of a logical evidence file.                                    *)

Fields == {"name", "is_dir", "size", "md5", "be", "du", "parent", "children"}

\* s is a sequence, of whatever.
IsSeq(s) == \E S : s \in Seq(S)

\* TreeSound of the entries es.
Sound(es) ==
  /\ \A i \in DOMAIN es : es[i].parent \in 0..i - 1
  /\ \A i \in DOMAIN es : \A k \in DOMAIN es[i].children :
       LET c == es[i].children[k]
       IN  /\ c \in i + 1..Len(es) /\ es[c].parent = i
           /\ \A m \in DOMAIN es[i].children : m < k => es[i].children[m] < c
  /\ \A c \in DOMAIN es : es[c].parent # 0 =>
       \E k \in DOMAIN es[es[c].parent].children : es[es[c].parent].children[k] = c

EntriesTyped(es) ==
  /\ IsSeq(es)
  /\ \A i \in DOMAIN es : DOMAIN es[i] = Fields /\ es[i].children \in Seq(Nat)

\* Each call of parse_one has a parent that is already in the tree.
FramesTyped(st, n) ==
  /\ IsSeq(st)
  /\ \A k \in DOMAIN st : st[k].parent \in 0..n

Inv == EntriesTyped(entries) /\ Sound(entries) /\ FramesTyped(stack, Len(entries))

LEMMA SeqFacts ==
  ASSUME NEW s, IsSeq(s)
  PROVE  Len(s) \in Nat /\ DOMAIN s = 1..Len(s)
BY DEF IsSeq

LEMMA AppendFacts ==
  ASSUME NEW s, NEW x, IsSeq(s)
  PROVE  /\ IsSeq(Append(s, x)) /\ Len(Append(s, x)) = Len(s) + 1
         /\ DOMAIN Append(s, x) = 1..Len(s) + 1
         /\ \A i \in 1..Len(s) : Append(s, x)[i] = s[i]
         /\ Append(s, x)[Len(s) + 1] = x
<1>1. PICK S : s \in Seq(S)
  BY DEF IsSeq
<1> DEFINE T == S \union {x}
<1>2. s \in Seq(T) /\ x \in T
  BY <1>1
<1> HIDE DEF T
<1>3. Append(s, x) \in Seq(T)
  BY <1>2
<1>4. IsSeq(Append(s, x))
  BY <1>3 DEF IsSeq
<1>5. Len(Append(s, x)) = Len(s) + 1 /\ DOMAIN Append(s, x) = 1..Len(s) + 1
  BY <1>2
<1>6. ASSUME NEW i \in 1..Len(s) PROVE Append(s, x)[i] = s[i]
  BY <1>2
<1>7. Append(s, x)[Len(s) + 1] = x
  BY <1>2
<1> QED BY <1>4, <1>5, <1>6, <1>7

\* A function on 1..n is a sequence.
LEMMA FunctionIsSeq ==
  ASSUME NEW n \in Nat, NEW f, f = [i \in 1..n |-> f[i]]
  PROVE  IsSeq(f) /\ Len(f) = n
<1> DEFINE S == {f[i] : i \in 1..n}
<1>1. f \in [1..n -> S]
  OBVIOUS
<1> HIDE DEF S
<1>2. f \in Seq(S)
  BY <1>1
<1> QED BY <1>1, <1>2 DEF IsSeq

\* One entry more, listed with its parent.
LEMMA Grown ==
  ASSUME NEW es, NEW fs, NEW n \in Nat, NEW p \in 0..n,
         Len(es) = n, DOMAIN es = 1..n, Len(fs) = n + 1, DOMAIN fs = 1..n + 1,
         \A i \in 1..n : es[i].children \in Seq(Nat),
         \A i \in 1..n : fs[i].parent = es[i].parent,
         \A i \in 1..n : fs[i].children = IF i = p THEN Append(es[i].children, n + 1)
                                                   ELSE es[i].children,
         fs[n + 1].parent = p, fs[n + 1].children = <<>>,
         Sound(es)
  PROVE  Sound(fs)
<1>1. ASSUME NEW i \in DOMAIN fs PROVE fs[i].parent \in 0..i - 1
  <2>1. CASE i \in 1..n
    BY <2>1 DEF Sound
  <2>2. CASE i = n + 1
    BY <2>2
  <2> QED BY <2>1, <2>2
<1>2. ASSUME NEW i \in DOMAIN fs, NEW k \in DOMAIN fs[i].children
      PROVE  /\ fs[i].children[k] \in i + 1..Len(fs)
             /\ fs[fs[i].children[k]].parent = i
             /\ \A m \in DOMAIN fs[i].children : m < k => fs[i].children[m] < fs[i].children[k]
  <2>0. i \in 1..n /\ es[i].children \in Seq(Nat)
    BY <1>2
  <2> DEFINE ch == es[i].children
  <2>1. ASSUME NEW j \in DOMAIN ch
        PROVE  /\ ch[j] \in i + 1..n /\ es[ch[j]].parent = i
               /\ \A m \in DOMAIN ch : m < j => ch[m] < ch[j]
    BY <2>0, <2>1 DEF Sound
  <2>2. CASE i # p
    <3>1. fs[i].children = ch
      BY <2>0, <2>2
    <3>2. k \in DOMAIN ch
      BY <1>2, <3>1
    <3>3. ch[k] \in i + 1..n /\ es[ch[k]].parent = i
      BY <2>1, <3>2
    <3>4. ch[k] \in 1..n /\ ch[k] \in i + 1..n + 1
      BY <2>0, <3>3
    <3>5. fs[ch[k]].parent = i
      BY <3>3, <3>4
    <3>6. \A m \in DOMAIN ch : m < k => ch[m] < ch[k]
      BY <2>1, <3>2
    <3> HIDE DEF ch
    <3> QED BY <3>1, <3>4, <3>5, <3>6
  <2>3. CASE i = p
    <3> DEFINE new == Append(ch, n + 1)
    <3>1. fs[i].children = new
      BY <2>0, <2>3
    <3>2. /\ Len(ch) \in Nat /\ DOMAIN ch = 1..Len(ch) /\ DOMAIN new = 1..Len(ch) + 1
          /\ \A j \in 1..Len(ch) : new[j] = ch[j]
          /\ new[Len(ch) + 1] = n + 1
      BY <2>0
    <3> HIDE DEF new, ch
    <3>3. k \in 1..Len(ch) + 1
      BY <1>2, <3>1, <3>2
    <3>4. CASE k \in 1..Len(ch)
      <4>1. new[k] = ch[k] /\ ch[k] \in i + 1..n /\ es[ch[k]].parent = i
        BY <2>1, <3>2, <3>4
      <4>2. new[k] \in i + 1..n + 1 /\ fs[new[k]].parent = i
        <5>1. ch[k] \in 1..n
          BY <2>0, <4>1
        <5> QED BY <4>1, <5>1, <2>0
      <4>3. ASSUME NEW m \in DOMAIN new, m < k PROVE new[m] < new[k]
        <5>1. m \in 1..Len(ch)
          BY <3>2, <3>4, <4>3
        <5>2. ch[m] < ch[k]
          BY <2>1, <3>2, <3>4, <4>3, <5>1
        <5> QED BY <3>2, <4>1, <5>1, <5>2
      <4> QED BY <3>1, <4>2, <4>3
    <3>5. CASE k = Len(ch) + 1
      <4>1. new[k] = n + 1
        BY <3>2, <3>5
      <4>2. new[k] \in i + 1..n + 1 /\ fs[new[k]].parent = i
        BY <2>0, <2>3, <4>1
      <4>3. ASSUME NEW m \in DOMAIN new, m < k PROVE new[m] < new[k]
        <5>1. m \in 1..Len(ch)
          BY <3>2, <3>5, <4>3
        <5>2. new[m] = ch[m] /\ ch[m] \in i + 1..n
          BY <2>1, <3>2, <5>1
        <5> QED BY <2>0, <4>1, <5>2
      <4> QED BY <3>1, <4>2, <4>3
    <3> QED BY <3>2, <3>3, <3>4, <3>5
  <2> QED BY <2>2, <2>3
<1>3. ASSUME NEW c \in DOMAIN fs, fs[c].parent # 0
      PROVE  \E k \in DOMAIN fs[fs[c].parent].children : fs[fs[c].parent].children[k] = c
  <2>1. CASE c \in 1..n
    <3> DEFINE q == es[c].parent
    <3>1. fs[c].parent = q /\ q \in 1..n /\ q # 0
      BY <1>3, <2>1 DEF Sound
    <3>2. PICK k \in DOMAIN es[q].children : es[q].children[k] = c
      BY <2>1, <3>1 DEF Sound
    <3> HIDE DEF q
    <3>3. es[q].children \in Seq(Nat)
      BY <3>1
    <3>4. CASE q # p
      BY <3>1, <3>2, <3>4
    <3>5. CASE q = p
      <4>1. fs[q].children = Append(es[q].children, n + 1)
        BY <3>1, <3>5
      <4> DEFINE ch == es[q].children
      <4>2. k \in DOMAIN Append(ch, n + 1) /\ Append(ch, n + 1)[k] = ch[k]
        BY <3>2, <3>3
      <4> QED BY <3>1, <3>2, <4>1, <4>2
    <3> QED BY <3>4, <3>5
  <2>2. CASE c = n + 1
    <3>1. fs[c].parent = p /\ p \in 1..n
      BY <1>3, <2>2
    <3>2. es[p].children \in Seq(Nat) /\ fs[p].children = Append(es[p].children, n + 1)
      BY <3>1
    <3> DEFINE ch == es[p].children
    <3>3. Len(ch) + 1 \in DOMAIN Append(ch, n + 1) /\ Append(ch, n + 1)[Len(ch) + 1] = n + 1
      BY <3>2
    <3> HIDE DEF ch
    <3>4. fs[p].children = Append(ch, n + 1)
      BY <3>2 DEF ch
    <3> QED BY <2>2, <3>1, <3>3, <3>4
  <2> QED BY <2>1, <2>2
<1> HIDE DEF Sound
<1>4. \A i \in DOMAIN fs : \A k \in DOMAIN fs[i].children :
        LET c == fs[i].children[k]
        IN  /\ c \in i + 1..Len(fs) /\ fs[c].parent = i
            /\ \A m \in DOMAIN fs[i].children : m < k => fs[i].children[m] < c
  BY <1>2
<1> QED BY <1>1, <1>3, <1>4 DEF Sound

\* The fields of an entry that gets a child, but for its children.
LEMMA WithChild ==
  ASSUME NEW e, DOMAIN e = Fields, NEW v
  PROVE  /\ DOMAIN [e EXCEPT !.children = v] = Fields
         /\ [e EXCEPT !.children = v].parent = e.parent
         /\ [e EXCEPT !.children = v].name = e.name
         /\ [e EXCEPT !.children = v].children = v
BY DEF Fields

LEMMA LinkedFacts ==
  ASSUME EntriesTyped(entries), NEW index \in Nat
  PROVE  /\ IsSeq(Linked(index)) /\ Len(Linked(index)) = Len(entries)
         /\ \A i \in 1..Len(entries) :
              /\ DOMAIN Linked(index)[i] = Fields
              /\ Linked(index)[i].parent = entries[i].parent
              /\ Linked(index)[i].name = entries[i].name
              /\ Linked(index)[i].children \in Seq(Nat)
              /\ Linked(index)[i].children = IF i = Top.parent THEN Append(entries[i].children, index)
                                                               ELSE entries[i].children
<1>1. Len(entries) \in Nat /\ DOMAIN entries = 1..Len(entries)
  BY SeqFacts DEF EntriesTyped
<1> DEFINE f == Linked(index)
<1>2. f = [i \in 1..Len(entries) |-> f[i]]
  BY <1>1 DEF Linked
<1>3. ASSUME NEW i \in 1..Len(entries)
      PROVE  f[i] = IF i = Top.parent
                    THEN [entries[i] EXCEPT !.children = Append(entries[i].children, index)]
                    ELSE entries[i]
  BY <1>1 DEF Linked
<1> HIDE DEF f
<1>4. IsSeq(f) /\ Len(f) = Len(entries)
  BY <1>1, <1>2, FunctionIsSeq
<1>5. ASSUME NEW i \in 1..Len(entries)
      PROVE  /\ DOMAIN f[i] = Fields
             /\ f[i].parent = entries[i].parent
             /\ f[i].name = entries[i].name
             /\ f[i].children \in Seq(Nat)
             /\ f[i].children = IF i = Top.parent THEN Append(entries[i].children, index)
                                                  ELSE entries[i].children
  <2>1. DOMAIN entries[i] = Fields /\ entries[i].children \in Seq(Nat)
    BY <1>1 DEF EntriesTyped
  <2> DEFINE v == Append(entries[i].children, index)
  <2>2. v \in Seq(Nat)
    BY <2>1
  <2> HIDE DEF v
  <2>3. CASE i = Top.parent
    <3>1. f[i] = [entries[i] EXCEPT !.children = v]
      BY <1>3, <2>3 DEF v
    <3>2. /\ DOMAIN f[i] = Fields /\ f[i].parent = entries[i].parent
          /\ f[i].name = entries[i].name /\ f[i].children = v
      BY <2>1, <3>1, WithChild
    <3> QED BY <2>2, <2>3, <3>2 DEF v
  <2>4. CASE i # Top.parent
    BY <1>3, <2>1, <2>4
  <2> QED BY <2>3, <2>4
<1> QED BY <1>4, <1>5 DEF f

\* What is left of the frames when the loop of the innermost call makes a call.
LEMMA BelowFacts ==
  ASSUME NEW n \in Nat, FramesTyped(stack, n), stack # <<>>
  PROVE  FramesTyped(Below, n) /\ Top.parent \in 0..n
<1>1. Len(stack) \in Nat /\ DOMAIN stack = 1..Len(stack) /\ Len(stack) # 0
  <2>1. Len(stack) \in Nat /\ DOMAIN stack = 1..Len(stack)
    BY SeqFacts DEF FramesTyped
  <2>2. PICK S : stack \in Seq(S)
    BY DEF FramesTyped, IsSeq
  <2> QED BY <2>1, <2>2
<1>2. Top.parent \in 0..n
  BY <1>1 DEF Top, FramesTyped
<1> DEFINE f == Below
<1>3. f = [k \in 1..Len(stack) |-> f[k]]
  BY <1>1 DEF Below
<1>4. ASSUME NEW k \in 1..Len(stack) PROVE f[k].parent = stack[k].parent
  BY <1>1 DEF Below
<1> HIDE DEF f
<1>5. IsSeq(f) /\ Len(f) = Len(stack)
  BY <1>1, <1>3, FunctionIsSeq
<1>6. \A k \in DOMAIN f : f[k].parent \in 0..n
  BY <1>1, <1>4, <1>5, SeqFacts DEF FramesTyped
<1> QED BY <1>2, <1>5, <1>6 DEF FramesTyped, f

\* A frame more, and more entries.
LEMMA PushedFrames ==
  ASSUME NEW st, NEW n \in Nat, FramesTyped(st, n), NEW left
  PROVE  FramesTyped(Append(st, [left |-> left, parent |-> n + 1]), n + 1)
<1> DEFINE x == [left |-> left, parent |-> n + 1]
<1>0. x.parent = n + 1
  OBVIOUS
<1> HIDE DEF x
<1>1. Len(st) \in Nat /\ DOMAIN st = 1..Len(st) /\ IsSeq(st)
  BY SeqFacts DEF FramesTyped
<1> DEFINE f == Append(st, x)
<1>2. /\ IsSeq(f) /\ DOMAIN f = 1..Len(st) + 1
      /\ \A k \in 1..Len(st) : f[k] = st[k]
      /\ f[Len(st) + 1] = x
  BY <1>1, AppendFacts
<1> HIDE DEF f
<1>3. ASSUME NEW k \in DOMAIN f PROVE f[k].parent \in 0..n + 1
  <2>1. CASE k \in 1..Len(st)
    <3>1. f[k] = st[k] /\ st[k].parent \in 0..n
      BY <1>1, <1>2, <2>1 DEF FramesTyped
    <3> QED BY <3>1
  <2>2. CASE k = Len(st) + 1
    BY <1>0, <1>2, <2>2
  <2> QED BY <1>1, <1>2, <2>1, <2>2
<1> QED BY <1>2, <1>3 DEF FramesTyped, f, x

LEMMA ParseOneKeeps ==
  ASSUME Inv, ParseOne
  PROVE  Inv'
<1> DEFINE n == Len(entries)
           new == NewEntry(lines[cursor + 1])
           fs == Append(Linked(n + 1), new)
<1>1. /\ entries' = fs
      /\ stack' = Append(Below, [left |-> Subs(lines[cursor]), parent |-> n + 1])
      /\ stack # <<>>
  BY DEF ParseOne, Looping
<1>2. n \in Nat /\ DOMAIN entries = 1..n
  BY SeqFacts DEF Inv, EntriesTyped
<1>3. FramesTyped(Below, n) /\ Top.parent \in 0..n
  BY <1>1, <1>2, BelowFacts DEF Inv
<1>4. new.parent = Top.parent /\ new.children = <<>> /\ DOMAIN new = Fields
  BY DEF NewEntry, Fields
<1> HIDE DEF new
<1>5. /\ IsSeq(Linked(n + 1)) /\ Len(Linked(n + 1)) = n
      /\ \A i \in 1..n :
           /\ DOMAIN Linked(n + 1)[i] = Fields
           /\ Linked(n + 1)[i].parent = entries[i].parent
           /\ Linked(n + 1)[i].children \in Seq(Nat)
           /\ Linked(n + 1)[i].children = IF i = Top.parent THEN Append(entries[i].children, n + 1)
                                                            ELSE entries[i].children
  <2>1. EntriesTyped(entries) /\ n + 1 \in Nat
    BY <1>2 DEF Inv
  <2> QED BY <2>1, LinkedFacts, Zenon
<1> DEFINE ln == Linked(n + 1)
<1> HIDE DEF ln
<1>6. /\ IsSeq(fs) /\ Len(fs) = n + 1 /\ DOMAIN fs = 1..n + 1
      /\ \A i \in 1..n : fs[i] = ln[i]
      /\ fs[n + 1] = new
  BY <1>5, AppendFacts DEF ln
<1> HIDE DEF fs
<1>7. /\ \A i \in 1..n : fs[i].parent = entries[i].parent
      /\ \A i \in 1..n : fs[i].children = IF i = Top.parent THEN Append(entries[i].children, n + 1)
                                                             ELSE entries[i].children
      /\ \A i \in 1..n : DOMAIN fs[i] = Fields /\ fs[i].children \in Seq(Nat)
  BY <1>5, <1>6 DEF ln
<1>8. EntriesTyped(fs)
  <2>1. \A i \in DOMAIN fs : DOMAIN fs[i] = Fields /\ fs[i].children \in Seq(Nat)
    <3>1. DOMAIN fs[n + 1] = Fields /\ fs[n + 1].children \in Seq(Nat)
      <4>1. <<>> \in Seq(Nat)
        OBVIOUS
      <4> QED BY <1>4, <1>6, <4>1, Zenon
    <3>2. \A i \in DOMAIN fs : i \in 1..n \/ i = n + 1
      BY <1>2, <1>6
    <3> HIDE DEF n
    <3> QED BY <1>7, <3>1, <3>2, Zenon
  <2> QED BY <1>6, <2>1 DEF EntriesTyped
<1>9. Sound(fs)
  <2>1. \A i \in 1..n : entries[i].children \in Seq(Nat)
    BY <1>2 DEF Inv, EntriesTyped
  <2>2. fs[n + 1].parent = Top.parent /\ fs[n + 1].children = <<>>
    BY <1>4, <1>6
  <2>3. Sound(entries)
    BY DEF Inv
  <2>4. Len(fs) = n + 1 /\ DOMAIN fs = 1..n + 1 /\ n = Len(entries)
    BY <1>6
  <2> HIDE DEF n
  <2> QED BY <1>2, <1>3, <1>7, <2>1, <2>2, <2>3, <2>4, Grown
<1>10. FramesTyped(stack', n + 1)
  BY <1>1, <1>2, <1>3, PushedFrames
<1>11. entries' = fs /\ Len(entries') = n + 1
  BY <1>1, <1>6 DEF fs
<1> QED BY <1>8, <1>9, <1>10, <1>11 DEF Inv

LEMMA TreeInvariant == SafetySpec => []Inv
<1>1. Init => Inv
  <2> SUFFICES ASSUME Init PROVE Inv
    OBVIOUS
  <2>1. entries = <<>> /\ stack = <<>>
    BY DEF Init
  <2>2. IsSeq(<<>>) /\ Len(<<>>) = 0 /\ DOMAIN (<<>>) = {}
    <3>1. <<>> \in Seq({})
      OBVIOUS
    <3> QED BY <3>1 DEF IsSeq
  <2> QED BY <2>1, <2>2 DEF Inv, EntriesTyped, Sound, FramesTyped
<1>2. Inv /\ [Next]_vars => Inv'
  <2> SUFFICES ASSUME Inv, [Next]_vars PROVE Inv'
    OBVIOUS
  <2>1. CASE UNCHANGED <<entries, stack>>
    BY <2>1 DEF Inv
  <2>2. CASE ParseOne
    BY <2>2, ParseOneKeeps
  <2>3. CASE StartTree
    <3> DEFINE st == <<[left |-> lines[Category + 3].subs, parent |-> 0]>>
    <3>1. stack' = st /\ entries' = entries
      BY <2>3 DEF StartTree
    <3>2. st[1].parent = 0 /\ DOMAIN st = {1}
      OBVIOUS
    <3>3. st \in Seq({st[1]})
      OBVIOUS
    <3> HIDE DEF st
    <3>4. IsSeq(st)
      BY <3>3 DEF IsSeq
    <3>5. Len(entries) \in Nat
      BY SeqFacts DEF Inv, EntriesTyped
    <3>6. FramesTyped(st, Len(entries))
      BY <3>2, <3>4, <3>5 DEF FramesTyped
    <3> QED BY <3>1, <3>6 DEF Inv
  <2>4. CASE NoEntry
    <3>1. stack' = Below /\ entries' = entries /\ stack # <<>>
      BY <2>4 DEF NoEntry, Looping
    <3>2. Len(entries) \in Nat
      BY SeqFacts DEF Inv, EntriesTyped
    <3>3. FramesTyped(Below, Len(entries))
      BY <3>1, <3>2, BelowFacts DEF Inv
    <3> QED BY <3>1, <3>3 DEF Inv
  <2>5. CASE Return
    <3>1. stack' = SubSeq(stack, 1, Len(stack) - 1) /\ entries' = entries /\ stack # <<>>
      BY <2>5 DEF Return
    <3>2. PICK S : stack \in Seq(S)
      BY DEF Inv, FramesTyped, IsSeq
    <3> DEFINE st == SubSeq(stack, 1, Len(stack) - 1)
    <3>3. st \in Seq(S) /\ DOMAIN st = 1..Len(stack) - 1 /\ \A k \in DOMAIN st : st[k] = stack[k]
      BY <3>1, <3>2
    <3>4. DOMAIN st \subseteq DOMAIN stack
      BY <3>2, <3>3
    <3> HIDE DEF st
    <3>5. FramesTyped(st, Len(entries))
      BY <3>3, <3>4 DEF Inv, FramesTyped, IsSeq
    <3> QED BY <3>1, <3>5 DEF Inv, st
  <2>6. ASSUME Next, ~ParseOne, ~StartTree, ~NoEntry, ~Return PROVE UNCHANGED <<entries, stack>>
    BY <2>6 DEF Next, NotLogicalEvidence, InvalidSignature, ShortSegment, OpenSegment, WalkEnds,
       OtherSection, LtreeFails, LtreeAborts, FoundLtree, NoTree, List, ReadNext, ReadAborts,
       Finish, Fail, Leave, parse
  <2> QED BY <2>1, <2>2, <2>3, <2>4, <2>5, <2>6 DEF vars, parse
<1> QED BY <1>1, <1>2, PTL DEF SafetySpec

\* parse_entry_tree builds a tree: SafetySpec => []TreeSound, whatever the text
\* declares, with the invariant that every call in progress has a parent that is in
\* the tree already.
THEOREM TreeIsSound == SafetySpec => []TreeSound
<1>1. Inv => TreeSound
  BY DEF Inv, Sound, TreeSound
<1> QED BY <1>1, TreeInvariant, PTL

----------------------------------------------------------------------------
(* The tree that the text holds.                                           *)

\* The entries after the first m whose parent is q.
Rest(p, m, q) == {j \in m + 1..Len(p) : p[j] = q}

\* The calls of parse_one after m entries of a tree: each has as many to make as its
\* parent has sub-entries left, an inner call has a later parent, and the entries to
\* come belong to the calls or to entries to come.
Calls(p, m, st) ==
  /\ \A k \in DOMAIN st : st[k].left = Cardinality(Rest(p, m, st[k].parent))
  /\ \A k, l \in DOMAIN st : k < l => st[k].parent < st[l].parent
  /\ \A j \in m + 1..Len(p) : p[j] > m \/ \E k \in DOMAIN st : st[k].parent = p[j]

LEMMA PreorderFacts ==
  ASSUME NEW p, Preorder(p)
  PROVE  /\ Len(p) \in Nat /\ DOMAIN p = 1..Len(p)
         /\ \A i \in 1..Len(p) : p[i] \in Nat /\ p[i] < i /\ \A j \in p[i] + 1..i - 1 : p[j] >= p[i]
BY DEF Preorder

LEMMA RestFacts ==
  ASSUME NEW p, Preorder(p), NEW m \in Nat, NEW q
  PROVE  /\ IsFiniteSet(Rest(p, m, q)) /\ Cardinality(Rest(p, m, q)) \in Nat
         /\ Cardinality(Rest(p, m, q)) = 0 => Rest(p, m, q) = {}
<1>1. Len(p) \in Nat
  BY PreorderFacts
<1>2. IsFiniteSet(m + 1..Len(p))
  BY <1>1, FS_Interval
<1>3. Rest(p, m, q) \subseteq m + 1..Len(p)
  BY DEF Rest
<1>4. IsFiniteSet(Rest(p, m, q))
  BY <1>2, <1>3, FS_Subset
<1> QED BY <1>4, FS_CardinalityType, FS_EmptySet

\* Behind the m-th entry comes a sub-entry of the innermost call's parent: the calls
\* are the only parents it can have, and a later one would not be in preorder.
LEMMA NextEntry ==
  ASSUME NEW p, Preorder(p), NEW m \in Nat, NEW st, NEW n \in Nat, n = Len(st), n > 0,
         FramesTyped(st, m), Calls(p, m, st), st[n].left > 0
  PROVE  m + 1 \in 1..Len(p) /\ p[m + 1] = st[n].parent
<1>1. DOMAIN st = 1..n /\ \A k \in 1..n : st[k].parent \in 0..m
  BY SeqFacts DEF FramesTyped
<1>2. PICK q \in 0..m : q = st[n].parent
  BY <1>1
<1>3. Rest(p, m, q) # {}
  <2>1. Cardinality(Rest(p, m, q)) > 0
    BY <1>1, <1>2 DEF Calls
  <2>2. Cardinality({}) = 0
    BY FS_EmptySet
  <2>3. ASSUME Rest(p, m, q) = {} PROVE FALSE
    <3>1. Cardinality(Rest(p, m, q)) = 0
      BY <2>2, <2>3, Zenon
    <3> QED BY <2>1, <3>1
  <2> QED BY <2>3
<1>4. PICK j \in m + 1..Len(p) : p[j] = q
  BY <1>3 DEF Rest
<1>5. /\ Len(p) \in Nat
      /\ \A i \in 1..Len(p) : p[i] \in Nat /\ p[i] < i /\ \A x \in p[i] + 1..i - 1 : p[x] >= p[i]
  BY PreorderFacts
<1>6. m + 1 \in 1..Len(p) /\ m + 1 \in m + 1..Len(p)
  BY <1>4, <1>5
<1>7. PICK r \in Nat : r = p[m + 1] /\ r <= m
  BY <1>5, <1>6
<1>8. PICK k \in 1..n : st[k].parent = r
  <2>1. p[m + 1] > m \/ \E k \in DOMAIN st : st[k].parent = p[m + 1]
    BY <1>6 DEF Calls
  <2> QED BY <1>1, <1>7, <2>1
<1>9. r <= q
  <2>1. CASE k = n
    BY <1>2, <1>8, <2>1
  <2>2. CASE k # n
    <3>1. k < n /\ k \in DOMAIN st /\ n \in DOMAIN st
      BY <1>1, <2>2
    <3>2. st[k].parent < st[n].parent
      BY <3>1 DEF Calls
    <3> QED BY <1>2, <1>7, <1>8, <3>2
  <2> QED BY <2>1, <2>2
<1>10. r >= q
  <2>1. CASE j = m + 1
    BY <1>2, <1>4, <1>7, <2>1
  <2>2. CASE j # m + 1
    <3>1. m + 1 \in q + 1..j - 1 /\ j \in 1..Len(p)
      BY <1>4, <1>5, <2>2
    <3> QED BY <1>4, <1>5, <1>7, <3>1
  <2> QED BY <2>1, <2>2
<1> QED BY <1>2, <1>6, <1>7, <1>9, <1>10

\* The calls after one more entry.
LEMMA EntryCalled ==
  ASSUME NEW p, Preorder(p), NEW m \in Nat, NEW st, NEW n \in Nat, n = Len(st), n > 0,
         FramesTyped(st, m), Calls(p, m, st), st[n].left > 0,
         NEW su, DOMAIN su = 1..n + 1,
         \A k \in 1..n : su[k].parent = st[k].parent,
         \A k \in 1..n : k # n => su[k].left = st[k].left,
         su[n].left = st[n].left - 1,
         su[n + 1].parent = m + 1, su[n + 1].left = SubsOf(p, m + 1)
  PROVE  Calls(p, m + 1, su)
<1>1. DOMAIN st = 1..n /\ \A k \in 1..n : st[k].parent \in 0..m
  BY SeqFacts DEF FramesTyped
<1>2. m + 1 \in 1..Len(p) /\ p[m + 1] = st[n].parent
  <2>1. /\ Preorder(p) /\ m \in Nat /\ n \in Nat /\ n = Len(st) /\ n > 0
        /\ FramesTyped(st, m) /\ Calls(p, m, st) /\ st[n].left > 0
    OBVIOUS
  <2> QED BY ONLY <2>1, NextEntry
<1>3. /\ Len(p) \in Nat /\ DOMAIN p = 1..Len(p)
      /\ \A i \in 1..Len(p) : p[i] \in Nat /\ p[i] < i
  BY PreorderFacts
<1>4. ASSUME NEW k \in 1..n, k # n
      PROVE  su[k].left = Cardinality(Rest(p, m + 1, su[k].parent))
  <2>1. k < n /\ k \in DOMAIN st /\ n \in DOMAIN st
    BY <1>1, <1>4
  <2>2. st[k].parent < st[n].parent
    BY <2>1 DEF Calls
  <2>3. st[k].parent # p[m + 1]
    BY <1>1, <1>2, <2>2
  <2>4. Rest(p, m + 1, st[k].parent) = Rest(p, m, st[k].parent)
    <3>1. PICK q : q = st[k].parent
      OBVIOUS
    <3>2. \A j \in m + 1..Len(p) : j \in m + 1 + 1..Len(p) \/ j = m + 1
      BY <1>3
    <3>3. \A j \in m + 1 + 1..Len(p) : j \in m + 1..Len(p)
      BY <1>3
    <3> QED BY <2>3, <3>1, <3>2, <3>3 DEF Rest
  <2>5. st[k].left = Cardinality(Rest(p, m, st[k].parent))
    BY <2>1 DEF Calls
  <2> QED BY <1>4, <2>4, <2>5
<1>5. su[n].left = Cardinality(Rest(p, m + 1, su[n].parent))
  <2>1. PICK q : q = st[n].parent /\ q = su[n].parent
    BY <1>1
  <2> DEFINE A == Rest(p, m + 1, q)
  <2>2. Rest(p, m, q) = A \union {m + 1}
    <3>1. \A j \in m + 1..Len(p) : j \in m + 1 + 1..Len(p) \/ j = m + 1
      BY <1>3
    <3>2. (\A j \in m + 1 + 1..Len(p) : j \in m + 1..Len(p)) /\ m + 1 \in m + 1..Len(p)
      BY <1>2, <1>3
    <3> QED BY <1>2, <2>1, <3>1, <3>2 DEF Rest
  <2>3. m + 1 \notin A
    <3>1. m + 1 \notin m + 1 + 1..Len(p)
      BY <1>3
    <3> QED BY <3>1 DEF Rest
  <2>4. IsFiniteSet(A) /\ Cardinality(A) \in Nat
    <3>1. m + 1 \in Nat
      OBVIOUS
    <3> QED BY <3>1, RestFacts
  <2> HIDE DEF A
  <2>5. Cardinality(A \union {m + 1}) = Cardinality(A) + 1
    BY <2>3, <2>4, FS_AddElement
  <2>6. st[n].left = Cardinality(A) + 1
    <3>1. n \in DOMAIN st
      BY <1>1
    <3>2. st[n].left = Cardinality(Rest(p, m, q))
      BY <2>1, <3>1 DEF Calls
    <3> QED BY <2>2, <2>5, <3>2
  <2>7. st[n].left - 1 = Cardinality(A)
    BY <2>4, <2>6
  <2> QED BY <2>1, <2>7 DEF A
<1>6. su[n + 1].left = Cardinality(Rest(p, m + 1, su[n + 1].parent))
  <2>1. {j \in DOMAIN p : p[j] = m + 1} = Rest(p, m + 1, m + 1)
    <3>1. ASSUME NEW j \in 1..Len(p), p[j] = m + 1 PROVE j \in m + 1 + 1..Len(p)
      BY <1>3, <3>1
    <3>2. \A j \in m + 1 + 1..Len(p) : j \in 1..Len(p)
      BY <1>3
    <3> QED BY <1>3, <3>1, <3>2 DEF Rest
  <2> QED BY <2>1 DEF SubsOf
<1>7. ASSUME NEW k \in DOMAIN su PROVE su[k].left = Cardinality(Rest(p, m + 1, su[k].parent))
  <2>1. (k \in 1..n /\ k # n) \/ k = n \/ k = n + 1
    OBVIOUS
  <2> QED BY <1>4, <1>5, <1>6, <2>1
<1>8. ASSUME NEW k \in DOMAIN su, NEW l \in DOMAIN su, k < l
      PROVE  su[k].parent < su[l].parent
  <2>1. k \in 1..n
    BY <1>8
  <2>2. CASE l \in 1..n
    BY <1>1, <1>8, <2>1, <2>2 DEF Calls
  <2>3. CASE l = n + 1
    <3>1. st[k].parent \in 0..m
      BY <1>1, <2>1
    <3> QED BY <2>1, <2>3, <3>1
  <2> QED BY <2>2, <2>3
<1>9. ASSUME NEW j \in m + 1 + 1..Len(p)
      PROVE  p[j] > m + 1 \/ \E k \in DOMAIN su : su[k].parent = p[j]
  <2>1. j \in m + 1..Len(p) /\ p[j] \in Nat
    BY <1>3, <1>9
  <2>2. CASE p[j] = m + 1
    <3>1. n + 1 \in DOMAIN su
      OBVIOUS
    <3> QED BY <2>2, <3>1
  <2>3. CASE p[j] <= m
    <3>1. PICK k \in DOMAIN st : st[k].parent = p[j]
      BY <2>1, <2>3 DEF Calls
    <3>2. k \in 1..n /\ k \in DOMAIN su
      BY <1>1, <3>1
    <3> QED BY <3>1, <3>2
  <2> QED BY <2>1, <2>2, <2>3
<1> QED BY <1>7, <1>8, <1>9 DEF Calls

\* The innermost call returns when its parent has no sub-entries left.
LEMMA CallReturns ==
  ASSUME NEW p, Preorder(p), NEW m \in Nat, NEW st, NEW n \in Nat, n = Len(st), n > 0,
         FramesTyped(st, m), Calls(p, m, st), st[n].left = 0,
         NEW su, DOMAIN su = 1..n - 1, \A k \in 1..n - 1 : su[k] = st[k]
  PROVE  Calls(p, m, su)
<1>1. DOMAIN st = 1..n
  BY SeqFacts DEF FramesTyped
<1>2. Rest(p, m, st[n].parent) = {}
  <2>1. PICK q : q = st[n].parent
    OBVIOUS
  <2>2. Cardinality(Rest(p, m, q)) = 0
    BY <1>1, <2>1 DEF Calls
  <2> QED BY <2>1, <2>2, RestFacts
<1>3. \A k \in DOMAIN su : k \in DOMAIN st /\ su[k] = st[k]
  BY <1>1
<1>4. ASSUME NEW j \in m + 1..Len(p), ~(p[j] > m)
      PROVE  \E k \in DOMAIN su : su[k].parent = p[j]
  <2>1. PICK k \in DOMAIN st : st[k].parent = p[j]
    BY <1>4 DEF Calls
  <2>2. k # n
    BY <1>2, <2>1 DEF Rest
  <2>3. k \in DOMAIN su
    BY <1>1, <2>2
  <2> QED BY <1>3, <2>1, <2>3
<1>5. \A k \in DOMAIN su : su[k].left = Cardinality(Rest(p, m, su[k].parent))
  BY <1>3 DEF Calls
<1>6. \A k, l \in DOMAIN su : k < l => su[k].parent < su[l].parent
  BY <1>3 DEF Calls
<1> QED BY <1>4, <1>5, <1>6 DEF Calls

\* When every call has returned, every entry has been made.
LEMMA AllMade ==
  ASSUME NEW p, Preorder(p), NEW m \in Nat, m <= Len(p), Calls(p, m, <<>>)
  PROVE  m = Len(p)
<1>1. Len(p) \in Nat /\ \A i \in 1..Len(p) : p[i] \in Nat /\ p[i] < i
  BY PreorderFacts
<1>2. DOMAIN (<<>>) = {}
  OBVIOUS
<1>3. \A j \in m + 1..Len(p) : p[j] > m
  BY <1>2 DEF Calls
<1>4. ASSUME m < Len(p) PROVE FALSE
  <2>1. m + 1 \in 1..Len(p) /\ m + 1 \in m + 1..Len(p)
    BY <1>1, <1>4
  <2>2. p[m + 1] \in Nat /\ p[m + 1] < m + 1 /\ p[m + 1] > m
    BY <1>1, <1>3, <2>1
  <2> QED BY <2>2
<1> QED BY <1>1, <1>4

\* The calls when parse_entry_tree has read the root.
LEMMA RootCalled ==
  ASSUME NEW p, Preorder(p), NEW st, DOMAIN st = {1}, st[1].parent = 0, st[1].left = SubsOf(p, 0)
  PROVE  Calls(p, 0, st)
<1>1. Len(p) \in Nat /\ DOMAIN p = 1..Len(p) /\ \A i \in 1..Len(p) : p[i] \in Nat
  BY PreorderFacts
<1>2. {j \in DOMAIN p : p[j] = 0} = Rest(p, 0, 0)
  <2>1. 0 + 1 = 1
    OBVIOUS
  <2> QED BY <1>1, <2>1 DEF Rest
<1>3. \A k \in DOMAIN st : st[k].left = Cardinality(Rest(p, 0, st[k].parent))
  BY <1>2 DEF SubsOf
<1>4. ASSUME NEW j \in 0 + 1..Len(p)
      PROVE  p[j] > 0 \/ \E k \in DOMAIN st : st[k].parent = p[j]
  <2>1. p[j] \in Nat
    BY <1>1, <1>4
  <2> QED BY <2>1
<1>5. \A k, l \in DOMAIN st : k < l => st[k].parent < st[l].parent
  OBVIOUS
<1> QED BY <1>3, <1>4, <1>5 DEF Calls

----------------------------------------------------------------------------
(* The paths.                                                              *)

\* f gives the path of each of the first n entries, from their parents and the names
\* they add.
IsPaths(f, n, up, add) == f = [i \in 0..n |-> IF i = 0 THEN <<>> ELSE f[up[i]] \o add[i]]

\* Parents come first, so there are such paths.
LEMMA PathsExist ==
  ASSUME NEW n \in Nat, NEW up, NEW add, \A i \in 1..n : up[i] \in 0..i - 1
  PROVE  \E f : IsPaths(f, n, up, add)
<1> DEFINE Bad == {m \in 0..n : ~ \E f : IsPaths(f, m, up, add)}
<1>1. SUFFICES ASSUME Bad # {} PROVE FALSE
  <2>1. n \in 0..n
    OBVIOUS
  <2> QED BY <2>1
<1>2. PICK m \in Bad : \A j \in Bad : m <= j
  <2> HIDE DEF Bad
  <2>1. Bad \subseteq Nat
    BY DEF Bad
  <2> QED BY <1>1, <2>1, Least
<1>3. m \in 1..n
  <2> DEFINE f == [i \in 0..0 |-> <<>>]
  <2>1. IsPaths(f, 0, up, add)
    BY DEF IsPaths
  <2> HIDE DEF f
  <2> QED BY <1>2, <2>1
<1>4. PICK f : IsPaths(f, m - 1, up, add)
  <2>1. m - 1 \in 0..n /\ ~(m <= m - 1)
    BY <1>3
  <2>2. m - 1 \notin Bad
    <3> HIDE DEF Bad
    <3> QED BY <1>2, <2>1
  <2> QED BY <2>1, <2>2
<1> DEFINE last == f[up[m]] \o add[m]
<1> HIDE DEF last
<1> DEFINE g == [i \in 0..m |-> IF i = m THEN last ELSE f[i]]
<1>5. \A i \in 0..m - 1 : i \in 0..m /\ i # m /\ g[i] = f[i]
  BY <1>3
<1>6. m \in 0..m /\ g[m] = last
  BY <1>3
<1>7. g = [i \in 0..m |-> g[i]]
  OBVIOUS
<1> HIDE DEF g
<1>8. ASSUME NEW i \in 0..m PROVE g[i] = IF i = 0 THEN <<>> ELSE g[up[i]] \o add[i]
  <2>1. CASE i = m
    <3>1. up[m] \in 0..m - 1 /\ m # 0
      BY <1>3
    <3>2. g[up[m]] = f[up[m]]
      BY <1>5, <3>1
    <3> QED BY <1>6, <2>1, <3>1, <3>2 DEF last
  <2>2. CASE i # m
    <3>1. i \in 0..m - 1
      BY <1>3, <2>2
    <3>2. f[i] = IF i = 0 THEN <<>> ELSE f[up[i]] \o add[i]
      BY <1>4, <3>1 DEF IsPaths
    <3>3. CASE i = 0
      BY <1>5, <3>1, <3>2, <3>3
    <3>4. CASE i # 0
      <4>1. up[i] \in 0..i - 1
        BY <1>3, <3>1, <3>4
      <4>2. up[i] \in 0..m - 1
        BY <1>3, <3>1, <4>1
      <4>3. g[up[i]] = f[up[i]] /\ g[i] = f[i]
        BY <1>5, <3>1, <4>2
      <4> QED BY <3>2, <3>4, <4>3
    <3> QED BY <3>3, <3>4
  <2> QED BY <2>1, <2>2
<1>9. IsPaths(g, m, up, add)
  <2> DEFINE h == [i \in 0..m |-> IF i = 0 THEN <<>> ELSE g[up[i]] \o add[i]]
  <2>1. h = [i \in 0..m |-> h[i]] /\ \A i \in 0..m : h[i] = g[i]
    BY <1>8
  <2> HIDE DEF h
  <2>2. g = h
    BY <1>7, <2>1
  <2> QED BY <2>2 DEF IsPaths, h
<1> QED BY <1>2, <1>9

\* The paths that `ls` makes.
LEMMA PathsAre ==
  ASSUME EntriesTyped(entries), Sound(entries)
  PROVE  /\ Paths[0] = <<>>
         /\ \A i \in 1..Len(entries) :
              Paths[i] = Paths[entries[i].parent]
                         \o (IF entries[i].name = 0 THEN <<>> ELSE <<entries[i].name>>)
<1> DEFINE n == Len(entries)
           up == [i \in 1..n |-> entries[i].parent]
           add == [i \in 1..n |-> IF entries[i].name = 0 THEN <<>> ELSE <<entries[i].name>>]
           Is(f) == f = [i \in 0..n |->
                           IF i = 0 THEN <<>>
                           ELSE f[entries[i].parent]
                                \o (IF entries[i].name = 0 THEN <<>> ELSE <<entries[i].name>>)]
<1>1. n \in Nat /\ DOMAIN entries = 1..n
  BY SeqFacts DEF EntriesTyped
<1>2. \A i \in 1..n : up[i] \in 0..i - 1
  BY <1>1 DEF Sound
<1>3. PICK f : IsPaths(f, n, up, add)
  <2> HIDE DEF n, up, add
  <2> QED BY <1>1, <1>2, PathsExist
<1>4. Is(f)
  <2>1. \A i \in 0..n : i # 0 => i \in 1..n
    BY <1>1
  <2>2. [i \in 0..n |-> IF i = 0 THEN <<>> ELSE f[up[i]] \o add[i]]
        = [i \in 0..n |-> IF i = 0 THEN <<>>
                          ELSE f[entries[i].parent]
                               \o (IF entries[i].name = 0 THEN <<>> ELSE <<entries[i].name>>)]
    BY <2>1
  <2> QED BY <1>3, <2>2, Zenon DEF IsPaths
<1>5. Paths = CHOOSE g : Is(g)
  BY Zenon DEF Paths
<1>6. Is(Paths)
  <2> HIDE DEF Is
  <2> QED BY <1>4, <1>5, Zenon
<1> DEFINE v == Paths
<1> HIDE DEF v
<1>7. Is(v)
  BY <1>6 DEF v
<1>8. v[0] = <<>> /\ \A i \in 1..n : i \in 0..n /\ i # 0
  BY <1>1, <1>7
<1>9. ASSUME NEW i \in 1..n
      PROVE  v[i] = v[entries[i].parent]
                    \o (IF entries[i].name = 0 THEN <<>> ELSE <<entries[i].name>>)
  BY <1>7, <1>8
<1> QED BY <1>8, <1>9 DEF v

----------------------------------------------------------------------------
(* What the text holds is followed entry by entry.                         *)

Following(t) ==
  /\ Len(entries) <= Len(t.parents)
  /\ cursor = Category + 5 + 2 * Len(entries)
  /\ columns = lines[Category + 2].columns /\ warnings = 0
  /\ \A i \in DOMAIN entries : entries[i].parent = t.parents[i] /\ entries[i].name = t.names[i]
  /\ Calls(t.parents, Len(entries), stack)

TextInv ==
  /\ pc \in {"segment", "walk", "text"} => entries = <<>> /\ warnings = 0
  /\ pc = "tree" => \A t : Describes(t) => Following(t)
  /\ pc \in {"read", "done"} => \A t : Describes(t) => ListedAs(t)

LEMMA SameText ==
  ASSUME lines' = lines
  PROVE  Category' = Category /\ \A t : Describes(t)' <=> Describes(t)
<1>1. Category' = Category
  BY Zenon DEF Category, Categories
<1> QED BY <1>1 DEF Describes

LEMMA DescribesFacts ==
  ASSUME NEW t, Describes(t)
  PROVE  /\ Preorder(t.parents) /\ Category \in Nat /\ Len(lines) \in Nat
         /\ Category + 4 + 2 * Len(t.parents) <= Len(lines)
         /\ \A i \in 0..Len(t.parents) : lines[Category + 3 + 2 * i].subs = SubsOf(t.parents, i)
         /\ \A i \in 1..Len(t.parents) :
              /\ lines[Category + 4 + 2 * i].name = t.names[i]
              /\ lines[Category + 4 + 2 * i].alias_ok
              /\ lines[Category + 4 + 2 * i].columns = lines[Category + 2].columns
BY DEF Describes

LEMMA SubsOfType ==
  ASSUME NEW p, Preorder(p), NEW i
  PROVE  SubsOf(p, i) \in Nat
<1>1. Len(p) \in Nat /\ DOMAIN p = 1..Len(p)
  BY PreorderFacts
<1> DEFINE S == {j \in DOMAIN p : p[j] = i}
<1>2. IsFiniteSet(1..Len(p)) /\ S \subseteq 1..Len(p)
  BY <1>1, FS_Interval
<1> HIDE DEF S
<1>3. Cardinality(S) \in Nat
  BY <1>2, FS_Subset, FS_CardinalityType
<1> QED BY <1>3 DEF SubsOf, S

\* Where the loop goes on, the text has the entry that the tree has next.
LEMMA EntryComes ==
  ASSUME Inv, Looping, NEW t, Describes(t), Following(t), NEW m \in Nat, m = Len(entries)
  PROVE  /\ m + 1 \in 1..Len(t.parents) /\ t.parents[m + 1] = Top.parent
         /\ cursor < Len(lines)
         /\ cursor = Category + 3 + 2 * (m + 1) /\ cursor + 1 = Category + 4 + 2 * (m + 1)
<1>1. FramesTyped(stack, m) /\ stack # <<>> /\ Top.left > 0
  BY DEF Inv, Looping
<1>2. PICK n \in Nat : n = Len(stack) /\ n > 0 /\ Top = stack[n]
  <2>1. PICK S : stack \in Seq(S)
    BY <1>1 DEF FramesTyped, IsSeq
  <2> QED BY <1>1, <2>1 DEF Top
<1>3. PICK p : p = t.parents /\ Preorder(p) /\ Calls(p, m, stack)
  BY DescribesFacts DEF Following
<1>4. m + 1 \in 1..Len(p) /\ p[m + 1] = Top.parent
  <2>1. m \in Nat /\ n \in Nat /\ stack[n].left > 0
    BY <1>1, <1>2
  <2>2. m + 1 \in 1..Len(p) /\ p[m + 1] = stack[n].parent
    BY ONLY <1>1, <1>2, <1>3, <2>1, NextEntry
  <2> QED BY <1>2, <2>2
<1>5. PICK c \in Nat, l \in Nat : c = Category /\ l = Len(lines) /\ c + 4 + 2 * Len(p) <= l
  BY <1>3, DescribesFacts
<1>6. Len(p) \in Nat
  BY <1>3, PreorderFacts
<1>7. cursor = c + 5 + 2 * m
  BY <1>5 DEF Following
<1>8. PICK z \in Nat : z = Len(p) /\ m + 1 <= z /\ c + 4 + 2 * z <= l
  BY <1>4, <1>5, <1>6
<1>9. /\ c + 5 + 2 * m < l
      /\ c + 5 + 2 * m = c + 3 + 2 * (m + 1) /\ c + 5 + 2 * m + 1 = c + 4 + 2 * (m + 1)
  <2>1. c \in Nat /\ l \in Nat /\ m \in Nat /\ z \in Nat
    OBVIOUS
  <2> QED BY ONLY <1>8, <2>1
<1> QED BY <1>3, <1>4, <1>5, <1>7, <1>9

LEMMA ParseOneFollows ==
  ASSUME Inv, ParseOne, NEW t, Describes(t), Following(t)
  PROVE  Following(t)'
<1>1. PICK m \in Nat : m = Len(entries) /\ DOMAIN entries = 1..m
  BY SeqFacts DEF Inv, EntriesTyped
<1>2. Looping /\ lines' = lines /\ columns' = columns /\ cursor' = cursor + 2
  BY DEF ParseOne
<1>3. Category' = Category
  BY <1>2, SameText
<1>4. /\ m + 1 \in 1..Len(t.parents) /\ t.parents[m + 1] = Top.parent
      /\ cursor = Category + 3 + 2 * (m + 1) /\ cursor + 1 = Category + 4 + 2 * (m + 1)
  BY <1>1, <1>2, EntryComes
<1>5. PICK v : v = lines[cursor + 1]
  OBVIOUS
<1>6. v.name = t.names[m + 1] /\ v.alias_ok /\ v.columns = columns
  <2>1. PICK i : i = m + 1 /\ i \in 1..Len(t.parents) /\ v = lines[Category + 4 + 2 * i]
    BY <1>4, <1>5
  <2>2. v.name = t.names[i] /\ v.alias_ok /\ v.columns = lines[Category + 2].columns
    BY <2>1, DescribesFacts
  <2> QED BY <2>1, <2>2 DEF Following
<1>7. PICK w : w = lines[cursor]
  OBVIOUS
<1>8. Subs(w) = SubsOf(t.parents, m + 1)
  <2>1. m + 1 \in 0..Len(t.parents)
    BY <1>4
  <2>2. w.subs = SubsOf(t.parents, m + 1) /\ Preorder(t.parents)
    BY <1>4, <1>7, <2>1, DescribesFacts
  <2>3. SubsOf(t.parents, m + 1) \in Nat
    BY <2>2, SubsOfType
  <2> QED BY <2>2, <2>3 DEF Subs, None
<1>9. warnings' = 0
  <2>1. warnings' = warnings + (IF v.columns = columns THEN 0 ELSE 1) + (IF v.alias_ok THEN 0 ELSE 1)
    BY <1>5 DEF ParseOne
  <2>2. warnings = 0
    BY DEF Following
  <2> QED BY <1>6, <2>1, <2>2
<1>10. /\ Len(entries') = m + 1 /\ DOMAIN entries' = 1..m + 1
       /\ \A i \in 1..m : entries'[i].parent = entries[i].parent /\ entries'[i].name = entries[i].name
       /\ entries'[m + 1].parent = Top.parent /\ entries'[m + 1].name = v.name
  <2> DEFINE new == NewEntry(v)
             ln == Linked(m + 1)
  <2>1. entries' = Append(ln, new)
    BY <1>1, <1>5 DEF ParseOne
  <2>2. new.parent = Top.parent /\ new.name = v.name
    BY DEF NewEntry
  <2>3. EntriesTyped(entries) /\ m + 1 \in Nat
    BY DEF Inv
  <2>4. /\ IsSeq(ln) /\ Len(ln) = m
        /\ \A i \in 1..m : ln[i].parent = entries[i].parent /\ ln[i].name = entries[i].name
    BY <1>1, <2>3, LinkedFacts
  <2> HIDE DEF new, ln
  <2>5. /\ Len(entries') = m + 1 /\ DOMAIN entries' = 1..m + 1
        /\ \A i \in 1..m : entries'[i] = ln[i]
        /\ entries'[m + 1] = new
    BY <2>1, <2>4, AppendFacts
  <2> QED BY <2>2, <2>4, <2>5
<1>11. \A i \in DOMAIN entries' : entries'[i].parent = t.parents[i] /\ entries'[i].name = t.names[i]
  <2>1. \A i \in 1..m : entries[i].parent = t.parents[i] /\ entries[i].name = t.names[i]
    BY <1>1 DEF Following
  <2>2. \A i \in 1..m + 1 : i \in 1..m \/ i = m + 1
    BY <1>1
  <2> QED BY <1>4, <1>6, <1>10, <2>1, <2>2
<1>12. Calls(t.parents, m + 1, stack')
  <2>1. FramesTyped(stack, m) /\ stack # <<>> /\ Top.left > 0
    BY <1>1, <1>2 DEF Inv, Looping
  <2>2. PICK n \in Nat : n = Len(stack) /\ n > 0 /\ DOMAIN stack = 1..n /\ Top = stack[n]
    <3>1. PICK S : stack \in Seq(S)
      BY <2>1 DEF FramesTyped, IsSeq
    <3> QED BY <2>1, <3>1 DEF Top
  <2>3. PICK p : p = t.parents /\ Preorder(p) /\ Calls(p, m, stack)
    BY <1>1, DescribesFacts DEF Following
  <2> DEFINE x == [left |-> SubsOf(p, m + 1), parent |-> m + 1]
  <2>4. stack' = Append(Below, x)
    BY <1>1, <1>7, <1>8, <2>3 DEF ParseOne
  <2>5. x.left = SubsOf(p, m + 1) /\ x.parent = m + 1
    OBVIOUS
  <2> HIDE DEF x
  <2> DEFINE b == Below
  <2>6. /\ b = [k \in 1..n |-> b[k]]
        /\ \A k \in 1..n : b[k].parent = stack[k].parent
        /\ \A k \in 1..n : k # n => b[k].left = stack[k].left
        /\ b[n].left = stack[n].left - 1
    <3> DEFINE y == [left |-> stack[n].left - 1, parent |-> stack[n].parent]
    <3>1. b = [stack EXCEPT ![n] = y]
      BY <2>2, Zenon DEF Below
    <3>2. y.left = stack[n].left - 1 /\ y.parent = stack[n].parent
      OBVIOUS
    <3> HIDE DEF b, y
    <3>3. /\ b = [k \in 1..n |-> b[k]]
          /\ \A k \in 1..n : b[k] = IF k = n THEN y ELSE stack[k]
      BY <2>2, <3>1
    <3>4. n \in 1..n
      BY <2>2
    <3> QED BY <3>2, <3>3, <3>4
  <2> HIDE DEF b
  <2>7. IsSeq(b) /\ Len(b) = n
    BY <2>2, <2>6, FunctionIsSeq
  <2>8. PICK su : su = stack'
    OBVIOUS
  <2>9. /\ DOMAIN su = 1..n + 1 /\ \A k \in 1..n : su[k] = b[k]
        /\ su[n + 1] = x
    BY <2>4, <2>7, <2>8, AppendFacts DEF b
  <2>10. /\ \A k \in 1..n : su[k].parent = stack[k].parent
         /\ \A k \in 1..n : k # n => su[k].left = stack[k].left
         /\ su[n].left = stack[n].left - 1
         /\ su[n + 1].parent = m + 1 /\ su[n + 1].left = SubsOf(p, m + 1)
    BY <2>2, <2>5, <2>6, <2>9
  <2>11. m \in Nat /\ n \in Nat /\ stack[n].left > 0 /\ DOMAIN su = 1..n + 1
    BY <2>1, <2>2, <2>9
  <2>12. Calls(p, m + 1, su)
    BY ONLY <2>1, <2>2, <2>3, <2>10, <2>11, EntryCalled
  <2> QED BY <2>3, <2>8, <2>12
<1>13. Len(t.parents) \in Nat
  BY DescribesFacts, PreorderFacts
<1>14. cursor' = Category + 5 + 2 * (m + 1)
  <2>1. Category \in Nat
    BY DescribesFacts
  <2> QED BY <1>2, <1>4, <2>1
<1>15. columns' = lines'[Category' + 2].columns
  BY <1>2, <1>3 DEF Following
<1> QED BY <1>2, <1>3, <1>4, <1>9, <1>10, <1>11, <1>12, <1>13, <1>14, <1>15 DEF Following

LEMMA ReturnFollows ==
  ASSUME Inv, Return, NEW t, Describes(t), Following(t)
  PROVE  Following(t)'
<1>1. PICK m \in Nat : m = Len(entries)
  BY SeqFacts DEF Inv, EntriesTyped
<1>2. /\ UNCHANGED <<lines, cursor, columns, entries, warnings>>
      /\ stack # <<>> /\ Top.left = 0 /\ stack' = SubSeq(stack, 1, Len(stack) - 1)
  BY DEF Return
<1>3. Category' = Category
  BY <1>2, SameText
<1>4. FramesTyped(stack, m)
  BY <1>1 DEF Inv
<1>5. PICK S : stack \in Seq(S)
  BY <1>4 DEF FramesTyped, IsSeq
<1>6. PICK n \in Nat : n = Len(stack) /\ n > 0 /\ stack[n].left = 0
  BY <1>2, <1>5 DEF Top
<1>7. PICK su : su = stack' /\ DOMAIN su = 1..n - 1 /\ \A k \in 1..n - 1 : su[k] = stack[k]
  BY <1>2, <1>5, <1>6
<1>8. PICK p : p = t.parents /\ Preorder(p) /\ Calls(p, m, stack)
  BY <1>1, DescribesFacts DEF Following
<1>9. m \in Nat /\ n \in Nat
  OBVIOUS
<1>10. Calls(p, m, su)
  BY ONLY <1>4, <1>6, <1>7, <1>8, <1>9, CallReturns
<1> QED BY <1>1, <1>2, <1>3, <1>7, <1>8, <1>10 DEF Following

LEMMA StartFollows ==
  ASSUME TextInv, StartTree, NEW t, Describes(t)
  PROVE  Following(t)'
<1>1. /\ pc = "text" /\ UNCHANGED <<lines, entries, warnings>>
      /\ columns' = lines[Category + 2].columns /\ cursor' = Category + 5
      /\ stack' = <<[left |-> lines[Category + 3].subs, parent |-> 0]>>
  BY DEF StartTree
<1>2. Category' = Category
  BY <1>1, SameText
<1>3. entries = <<>> /\ warnings = 0
  BY <1>1 DEF TextInv
<1>4. PICK p : p = t.parents /\ Preorder(p) /\ Category \in Nat /\ Len(p) \in Nat
  BY DescribesFacts, PreorderFacts
<1>5. lines[Category + 3].subs = SubsOf(p, 0)
  <2>1. 0 \in 0..Len(p) /\ Category + 3 + 2 * 0 = Category + 3
    BY <1>4
  <2>2. lines[Category + 3 + 2 * 0].subs = SubsOf(p, 0)
    BY <1>4, <2>1, DescribesFacts
  <2> QED BY <2>1, <2>2
<1>6. Calls(p, 0, stack')
  <2>1. PICK st : st = stack'
    OBVIOUS
  <2>2. DOMAIN st = {1} /\ st[1].parent = 0 /\ st[1].left = SubsOf(p, 0)
    BY <1>1, <1>5, <2>1
  <2> QED BY <1>4, <2>1, <2>2, RootCalled
<1>7. Len(entries') = 0 /\ DOMAIN entries' = {} /\ Category + 5 = Category + 5 + 2 * 0
  BY <1>1, <1>3, <1>4
<1> QED BY <1>1, <1>2, <1>3, <1>4, <1>6, <1>7 DEF Following

LEMMA ListFollows ==
  ASSUME Inv, List, NEW t, Describes(t), Following(t)
  PROVE  ListedAs(t)'
<1>1. PICK m \in Nat : m = Len(entries) /\ DOMAIN entries = 1..m
  BY SeqFacts DEF Inv, EntriesTyped
<1>2. /\ stack = <<>> /\ warnings' = warnings
      /\ listing' = [i \in DOMAIN entries |->
           [path |-> Paths[i], is_dir |-> entries[i].is_dir, size |-> entries[i].size,
            md5 |-> entries[i].md5]]
  BY DEF List, parse
<1>3. PICK p : p = t.parents /\ Preorder(p) /\ Calls(p, m, <<>>) /\ m <= Len(p)
  BY <1>1, <1>2, DescribesFacts DEF Following
<1>4. m = Len(p) /\ DOMAIN p = 1..m
  BY <1>3, AllMade, PreorderFacts
<1>5. warnings' = 0
  BY <1>2 DEF Following
<1> DEFINE l == listing'
<1>6. l = [i \in 1..m |-> l[i]] /\ \A i \in 1..m : l[i].path = Paths[i]
  BY <1>1, <1>2
<1>7. Len(l) = m
  <2> HIDE DEF l
  <2> QED BY <1>6, FunctionIsSeq
<1>8. /\ Paths[0] = <<>>
      /\ \A i \in 1..m :
           Paths[i] = Paths[entries[i].parent]
                      \o (IF entries[i].name = 0 THEN <<>> ELSE <<entries[i].name>>)
  BY <1>1, PathsAre DEF Inv
<1>9. ASSUME NEW i \in 1..m
      PROVE  l[i].path = (IF p[i] = 0 THEN <<>> ELSE l[p[i]].path)
                         \o (IF t.names[i] = 0 THEN <<>> ELSE <<t.names[i]>>)
  <2> HIDE DEF l
  <2>1. entries[i].parent = p[i] /\ entries[i].name = t.names[i]
    BY <1>1, <1>3 DEF Following
  <2>2. PICK q \in Nat : q = p[i] /\ q < i
    BY <1>3, <1>4, PreorderFacts
  <2>3. (IF q = 0 THEN <<>> ELSE l[q].path) = Paths[q]
    <3>1. q # 0 => q \in 1..m
      BY <2>2
    <3> QED BY <1>6, <1>8, <3>1
  <2>4. Paths[i] = Paths[q] \o (IF t.names[i] = 0 THEN <<>> ELSE <<t.names[i]>>)
    BY <1>8, <2>1, <2>2
  <2> QED BY <1>6, <2>2, <2>3, <2>4
<1> QED BY <1>3, <1>4, <1>5, <1>7, <1>9 DEF ListedAs

\* What the text holds is what is listed: for every tree that the text holds, of any
\* size, parse_entry_tree makes an entry for each of its entries and no other, `ls`
\* gives it the path of its ancestors, and there is nothing to warn of.  With the
\* invariant that the calls of parse_one still have to make as many calls as their
\* parents have sub-entries to come, and that preorder leaves no choice of the next.
THEOREM TreeIsListed == SafetySpec => []WrittenTreeListed
<1>1. Init => TextInv
  BY DEF Init, TextInv
<1>2. Inv /\ TextInv /\ [Next]_vars => TextInv'
  <2> SUFFICES ASSUME Inv, TextInv, [Next]_vars PROVE TextInv'
    OBVIOUS
  <2>1. CASE UNCHANGED vars
    <3>1. UNCHANGED <<pc, lines, entries, warnings, cursor, columns, stack, listing>>
      BY <2>1 DEF vars, parse
    <3>2. Category' = Category /\ \A t : Describes(t)' <=> Describes(t)
      BY <3>1, SameText
    <3>3. \A t : (Following(t)' <=> Following(t)) /\ (ListedAs(t)' <=> ListedAs(t))
      BY <3>1, <3>2, Zenon DEF Following, ListedAs
    <3> QED BY <3>1, <3>2, <3>3 DEF TextInv
  <2>2. CASE ParseOne
    <3>1. pc = "tree" /\ pc' = "tree" /\ lines' = lines
      BY <2>2 DEF ParseOne, Looping
    <3>2. ASSUME NEW t, Describes(t)' PROVE Following(t)'
      BY <2>2, <3>1, <3>2, SameText, ParseOneFollows DEF TextInv
    <3> QED BY <3>1, <3>2 DEF TextInv
  <2>3. CASE Return
    <3>1. pc = "tree" /\ pc' = "tree" /\ lines' = lines
      BY <2>3 DEF Return
    <3>2. ASSUME NEW t, Describes(t)' PROVE Following(t)'
      BY <2>3, <3>1, <3>2, SameText, ReturnFollows DEF TextInv
    <3> QED BY <3>1, <3>2 DEF TextInv
  <2>4. CASE StartTree
    <3>1. pc' = "tree" /\ lines' = lines
      BY <2>4 DEF StartTree
    <3>2. ASSUME NEW t, Describes(t)' PROVE Following(t)'
      BY <2>4, <3>1, <3>2, SameText, StartFollows
    <3> QED BY <3>1, <3>2 DEF TextInv
  <2>5. CASE NoEntry
    <3>1. Looping /\ pc = "tree" /\ pc' = "tree" /\ lines' = lines /\ cursor >= Len(lines)
      BY <2>5 DEF NoEntry, Looping
    <3>2. ASSUME NEW t, Describes(t)' PROVE FALSE
      <4>1. Describes(t) /\ Following(t)
        BY <3>1, <3>2, SameText DEF TextInv
      <4>2. PICK m \in Nat : m = Len(entries)
        BY SeqFacts DEF Inv, EntriesTyped
      <4>3. /\ cursor < Len(lines) /\ cursor = Category + 3 + 2 * (m + 1)
            /\ Category \in Nat /\ Len(lines) \in Nat
        BY <3>1, <4>1, <4>2, EntryComes, DescribesFacts
      <4> QED BY <3>1, <4>3
    <3> QED BY <3>1, <3>2 DEF TextInv
  <2>6. CASE List
    <3>1. pc = "tree" /\ pc' = "read" /\ lines' = lines
      BY <2>6 DEF List, parse
    <3>2. ASSUME NEW t, Describes(t)' PROVE ListedAs(t)'
      BY <2>6, <3>1, <3>2, SameText, ListFollows DEF TextInv
    <3> QED BY <3>1, <3>2 DEF TextInv
  <2>7. CASE ReadNext \/ Finish
    <3>1. /\ pc = "read" /\ pc' \in {"read", "done"}
          /\ UNCHANGED <<lines, warnings, listing>>
      BY <2>7 DEF ReadNext, Reading, Finish, parse
    <3>2. \A t : Describes(t)' <=> Describes(t)
      BY <3>1, SameText
    <3>3. \A t : ListedAs(t)' <=> ListedAs(t)
      BY <3>1, Zenon DEF ListedAs
    <3> QED BY <3>1, <3>2, <3>3 DEF TextInv
  <2>8. CASE \/ NotLogicalEvidence \/ InvalidSignature \/ ShortSegment \/ OpenSegment
             \/ WalkEnds \/ OtherSection \/ LtreeFails \/ FoundLtree \/ NoTree
    <3>1. /\ pc \in {"segment", "walk", "text"} /\ pc' \in {"segment", "walk", "text", "failed"}
          /\ UNCHANGED <<entries, warnings>>
      BY <2>8 DEF NotLogicalEvidence, InvalidSignature, ShortSegment, OpenSegment, WalkEnds,
         OtherSection, LtreeFails, FoundLtree, NoTree, Fail, Leave, parse
    <3> QED BY <3>1 DEF TextInv
  <2>9. CASE LtreeAborts \/ ReadAborts
    <3>1. pc' = "aborted"
      BY <2>9 DEF LtreeAborts, ReadAborts, Leave
    <3> QED BY <3>1 DEF TextInv
  <2> QED BY <2>1, <2>2, <2>3, <2>4, <2>5, <2>6, <2>7, <2>8, <2>9 DEF Next
<1>3. TextInv => WrittenTreeListed
  BY DEF TextInv, WrittenTreeListed
<1> QED BY <1>1, <1>2, <1>3, TreeInvariant, PTL DEF SafetySpec
=============================================================================
