-------------------------------- MODULE Ewf2 --------------------------------
(***************************************************************************)
(* One EWF v2 image under both of its programs: core opens it, and then    *)
(* forensic analyses it.                                                   *)
(***************************************************************************)
EXTENDS OpenV2, IntegrityV2

vars == <<image, openVars, checkVars>>

Init == OpenInit /\ CheckInit

Open == OpenNext /\ UNCHANGED <<image, checkVars>>
Check == pc = "closed" /\ CheckNext /\ UNCHANGED <<image, openVars>>

Next == Open \/ Check

\* Both run on their caller's thread and wait for nobody.
Spec == Init /\ [][Next]_vars /\ WF_vars(Next)

----------------------------------------------------------------------------
(* Properties.                                                             *)

HashSectionsOf(s) == {o \in Listed(image[s]) : image[s].at[o].type \in HashTypes}

\* Links that go back to another descriptor, at most one table in each segment, and
\* the hash sections, one of a kind, in the last segment.
Regular ==
  \A s \in DOMAIN image :
    /\ \A o \in Listed(image[s]) :
         LET prev == image[s].at[o].prev IN prev = 0 \/ (prev >= HeaderSize /\ prev < o)
    /\ \A o, q \in TablesOf(s) : o = q
    /\ s # Len(image) => HashSectionsOf(s) = {}
    /\ \A o, q \in HashSectionsOf(s) : image[s].at[o].type = image[s].at[q].type => o = q
    /\ Intact(s)

\* A chunk's data, in front of its checksum, and what it unpacks to.
DataOf(s, e) == SubSeq(image[s].bytes, e.off + 1, e.off + SatSub(e.size, CrcSize))
ContentOf(s, e) == IF e.comp THEN Inflate(DataOf(s, e)).bytes ELSE DataOf(s, e)

\* Compressed data ends before its checksum; every chunk but the last fills its page,
\* and the chunks hold what the media has.
Filled ==
  /\ \A s \in DOMAIN image : \A o \in TablesOf(s) : \A i \in 1..image[s].at[o].count :
       LET e == image[s].at[o].entries[i]
           n == Len(ContentOf(s, e))
       IN  /\ e.comp => Inflate(SubSeq(image[s].bytes, e.off + 1, e.off + e.size)) = Inflate(DataOf(s, e))
           /\ n <= opened.chunk_size
           /\ n = opened.chunk_size \/ (s = Len(image) /\ i = image[s].at[o].count)
  /\ opened.total_size = Len(hashed)

\* The reader and the analysis parse the image with code of their own, forward and
\* backward, 32 and 64 bits wide.  Of a regular image without findings they see the
\* same media: every chunk can be read, what the reader returns is what the analysis
\* hashed, and the MD5 and SHA-1 that the reader keeps for verify are the digests of
\* it.
ToolsAgree ==
  step = "done" /\ issues = {} /\ opened.ok /\ Regular /\ Filled =>
    /\ \A i \in DOMAIN opened.chunks : Page(opened.chunks[i]).ok
    /\ MediaRead = hashed
    /\ \A h \in {"md5", "sha1"} : found_chunks => opened.stored[h] \subseteq {hashed}

\* Cyclic, ascending and dangling lists keep neither program from returning.
BothReturn == <>(pc = "closed" /\ step = "done")
=============================================================================
