------------------------- MODULE MCSegmentDiscovery -------------------------
(***************************************************************************)
(* Directories for SegmentDiscovery: digits up to 02, then two letters.    *)
(***************************************************************************)
EXTENDS SegmentDiscovery

MCMaxNumeric == 2
MCMaxPlace == 4

Name(p, u, v, n) == [prefix |-> p, upper |-> u, v2 |-> v, n |-> n]

\* Any of the places of one family; one file may have another number.
Family(p, u, v, places, wrong) ==
  [m \in {Name(p, u, v, n) : n \in places} |-> IF m.n = wrong[1] THEN wrong[2] ELSE m.n]

\* Files next to them: nothing, a copy in the other case, or the other family.
Strays(p, u, v) ==
  {<<>>} \union {[m \in {Name(p, ~u, v, n)} |-> n] : n \in {1, 3}}
         \union {[m \in {Name(q, u, FALSE, 2)} |-> 2] : q \in {"E", "L"} \ {p}}

Merged(f, g) == [m \in DOMAIN f \union DOMAIN g |-> IF m \in DOMAIN f THEN f[m] ELSE g[m]]

MCSituations ==
  UNION {
    {[dir |-> Merged(Family(p, u, v, places, w), stray), path |-> Name(p, u, v, n), bare |-> ~u] :
       places \in SUBSET (1..4) \union {{0, 1, 2}}, w \in {<<0, 0>>, <<1, 0>>, <<1, 2>>, <<4, 2>>}, n \in 1..3,
       stray \in Strays(p, u, v)} :
    p \in {"E", "L"}, u \in BOOLEAN, v \in BOOLEAN}
=============================================================================
