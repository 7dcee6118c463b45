------------------------------- MODULE MCEwf2 -------------------------------
(***************************************************************************)
(* Images for Ewf2.  A descriptor has one unit, as have a table's header,  *)
(* an entry, a checksum and an MD5; a file header has two, like a SHA-1    *)
(* and a SHA-256 (in the files, 32 for a header and for a SHA-256).        *)
(***************************************************************************)
EXTENDS Ewf2

\* A stream is 9, its length and its bytes; what follows is not looked at, and the
\* end of the data in the middle of it is not an error.
MCInflate(raw) ==
  IF raw = <<>> \/ raw[1] # 9 THEN [ok |-> raw = <<>>, bytes |-> <<>>]
  ELSE [ok |-> TRUE,
        bytes |-> IF Len(raw) = 1 THEN <<>> ELSE SubSeq(raw, 3, SmallerOf(Len(raw), 2 + raw[2]))]
MCAdler(raw) == <<IF Len(raw) < 2 THEN 1 ELSE (raw[1] + 2 * raw[2] + Len(raw)) % 8>>

Blank ==
  [type |-> 0, encrypted |-> FALSE, prev |-> 0, size |-> 0, hash |-> "none",
   text |-> "zlib", lines |-> TRUE, b |-> None, sc |-> None, ts |-> None, case |-> None,
   count |-> 0, high |-> 0, entries |-> <<>>, sum_ok |-> TRUE, digest |-> <<>>]

Part(type, body) == [sec |-> [Blank EXCEPT !.type = type], body |-> body]
Fill(n) == [i \in 1..n |-> 7]

\* `b` bytes in a sector, two of them in a chunk, `ts` in the media.
DevicePart(b, sc, ts) ==
  [Part(DeviceInfo, Fill(1)) EXCEPT !.sec.b = b, !.sec.sc = sc, !.sec.ts = ts]
CasePart == [Part(CaseData, Fill(1)) EXCEPT !.sec.case = 1, !.sec.hash = "match"]
TablePart(entries) ==
  [Part(SectorTable, Fill(2 + Len(entries))) EXCEPT
     !.sec.count = Len(entries), !.sec.entries = entries]
HashPart(type, media) ==
  [Part(type, Fill(2)) EXCEPT !.sec.digest = media]

\* A table has an entry for everything behind its header that the file holds.
Junk == [comp |-> FALSE, off |-> 0, size |-> 1]
Held(o, d, len) ==
  [d EXCEPT !.entries = [k \in 1..EntriesBetween(BodyStart(o, d), len) |->
     IF k \in DOMAIN d.entries THEN d.entries[k] ELSE Junk]]

\* Each body, then its descriptor, linked back to the descriptor before it.
Segment(number, parts) ==
  LET at[i \in 0..Len(parts)] ==
        IF i = 0 THEN 0
        ELSE Len(parts[i].body) + (IF i = 1 THEN HeaderSize ELSE at[i - 1] + 1)
      written[i \in 0..Len(parts)] ==
        IF i = 0 THEN Fill(HeaderSize) ELSE written[i - 1] \o parts[i].body \o <<7>>
      len == at[Len(parts)] + 1
      At(o) == IF \E i \in DOMAIN parts : at[i] = o
               THEN LET i == CHOOSE i \in DOMAIN parts : at[i] = o
                    IN  Held(o, [parts[i].sec EXCEPT !.prev = at[i - 1], !.size = Len(parts[i].body)], len)
               ELSE Held(o, Blank, len)
  IN  [kind |-> "evf2", method |-> 1, number |-> number, bytes |-> written[Len(parts)],
       at |-> [o \in 0..len - 1 |-> At(o)]]

\* Another size for a section; the entries of a table are then read from elsewhere.
Changed(s, o, d) == [s EXCEPT !.at[o] = Held(o, d, Len(s.bytes))]
Resized(s, o, size) == Changed(s, o, [s.at[o] EXCEPT !.size = size])

----------------------------------------------------------------------------
(* Two segments, and the damage of the anomaly catalogue done to them.     *)

Stored(a, b) == [comp |-> FALSE, bytes |-> <<a, b>> \o MCAdler(<<a, b>>)]
Packed(raw) == [comp |-> TRUE, bytes |-> raw \o MCAdler(raw)]

\* Sectors at `start`: the pieces one after another, and the entries for them.
Bytes(pieces) ==
  LET all[i \in 0..Len(pieces)] == IF i = 0 THEN <<>> ELSE all[i - 1] \o pieces[i].bytes
  IN  all[Len(pieces)]
Entries(start, pieces) ==
  [i \in 1..Len(pieces) |->
     [comp |-> pieces[i].comp, size |-> Len(pieces[i].bytes),
      off |-> start + Len(Bytes(SubSeq(pieces, 1, i - 1)))]]

\* The device at 3, the case at 5, the sectors at 6 and after.
First(device, pieces) ==
  Segment(1, <<device, CasePart, Part(3, Bytes(pieces)), TablePart(Entries(6, pieces)),
               Part(Done, <<>>)>>)
Second(number, pieces, media) ==
  Segment(number, <<Part(3, Bytes(pieces)), TablePart(Entries(2, pieces)),
                    HashPart(Md5Hash, media), HashPart(Sha1Hash, media),
                    HashPart(Sha256Hash, media), Part(Done, <<>>)>>)

Media == <<1, 2, 3, 4, 5>>
Device == DevicePart(1, 2, 5)
\* In the second segment the table's descriptor is at 16, the hashes' at 19, 22 and 25.
Sound == <<First(Device, <<Stored(1, 2)>>), Second(2, <<Packed(<<9, 2, 3, 4>>), Packed(<<9, 1, 5>>)>>, Media)>>

Kinds == {"InvalidSignature", "SegmentNumberZero", "SegmentOutOfOrder",
          "UnsupportedCompressionAlgorithm", "Ewf2EncryptedSection", "Ewf2SectionDataHashMismatch",
          "Ewf2MediaInfoParseFailed", "Ewf2MediaInfoMissing", "Ewf2HashSectionMissing",
          "Ewf2ChunkTableChecksumMismatch", "ChunkChecksumMismatch", "ChunkDecompressionError",
          "HashMismatch", "DigestSha1Mismatch", "DigestSha256Mismatch", "None"}

Damage(kind, img) ==
  CASE kind = "InvalidSignature"                -> [img EXCEPT ![2].kind = "other"]
    [] kind = "SegmentNumberZero"               -> [img EXCEPT ![2].number = 0]
    [] kind = "SegmentOutOfOrder"               -> [img EXCEPT ![1].number = 2, ![2].number = 1]
    [] kind = "UnsupportedCompressionAlgorithm" -> [img EXCEPT ![1].method = 2]
    [] kind = "Ewf2EncryptedSection"            -> [img EXCEPT ![1].at[3].encrypted = TRUE]
    [] kind = "Ewf2SectionDataHashMismatch"     -> [img EXCEPT ![1].at[5].hash = "differs"]
    [] kind = "Ewf2MediaInfoParseFailed"        -> [img EXCEPT ![1].at[5].text = "odd"]
    [] kind = "Ewf2MediaInfoMissing"            -> [img EXCEPT ![1].at[5].type = 0]
    [] kind = "Ewf2HashSectionMissing"          ->
         [img EXCEPT ![2].at[19].type = 0, ![2].at[22].type = 0, ![2].at[25].type = 0]
    [] kind = "Ewf2ChunkTableChecksumMismatch"  -> [img EXCEPT ![2].at[16].sum_ok = FALSE]
    [] kind = "ChunkChecksumMismatch"           -> [img EXCEPT ![1].bytes[9] = 0]
    [] kind = "ChunkDecompressionError"         -> [img EXCEPT ![2].bytes[3] = 8]
    [] kind = "HashMismatch"                    -> [img EXCEPT ![2].at[19].digest = <<6>>]
    [] kind = "DigestSha1Mismatch"              -> [img EXCEPT ![2].at[22].digest = <<6>>]
    [] kind = "DigestSha256Mismatch"            -> [img EXCEPT ![2].at[25].digest = <<6>>]
    [] OTHER                                    -> img

\* Damage that hides other damage.
Hides(kind) ==
  CASE kind = "Ewf2MediaInfoMissing" -> {"Ewf2MediaInfoParseFailed"}
    [] kind = "Ewf2HashSectionMissing" -> {"HashMismatch", "DigestSha1Mismatch", "DigestSha256Mismatch"}
    [] kind = "SegmentNumberZero" -> {"SegmentOutOfOrder"}
    [] kind = "SegmentOutOfOrder" -> {"SegmentNumberZero"}
    [] OTHER -> {}

Cases ==
  {[image |-> Damage(j, Damage(k, Sound)),
    kinds |-> {x \in {j, k} \ {"None"} : x \notin Hides(j) \union Hides(k)}] : j, k \in Kinds}

----------------------------------------------------------------------------
(* Other images.                                                           *)

Pieces == {Stored(1, 2), Packed(<<9, 2, 1, 2>>), Packed(<<9, 1, 5>>), Packed(<<9, 3, 1, 2, 4>>),
           Packed(<<9, 2, 1>>), [comp |-> FALSE, bytes |-> <<6>>]}

\* Any two chunks in the first segment, one in the second, in either order.
Orders ==
  {<<First(DevicePart(1, 2, ts), <<p, q>>), Second(2, <<r>>, <<1, 2, 1, 2, 5>>)>> :
     p, q, r \in Pieces, ts \in {None, 5}}
  \union
  {<<Second(2, <<r>>, <<1, 2>>), First(DevicePart(1, 2, 6), <<p, p>>)>> : p, r \in Pieces}

Devices ==
  {<<First([DevicePart(b, sc, ts) EXCEPT !.sec.text = t, !.sec.lines = (ts # 2)], <<Stored(1, 2)>>)>> :
     b \in {None, 0, 1, 8}, sc \in {None, 2, 8}, ts \in {None, 1, 2}, t \in Texts}

\* The links, sizes and counts of the descriptors replaced.
Bent ==
  {<<[Sound[1] EXCEPT !.at[o].prev = n], Sound[2]>> : o \in {3, 5, 9, 13, 14}, n \in {0, 1, 2, 3, 4, 5, 9, 13, 14, 15}}
  \union {<<Resized(Sound[1], o, n), Sound[2]>> : o \in {3, 5, 9, 13, 14}, n \in {0, 1, 2, 4, 15}}
  \union {<<Sound[1], Resized(Sound[2], o, n)>> : o \in {16, 19, 22, 25}, n \in {0, 1, 2, 20, 40}}
  \union {<<[Sound[1] EXCEPT !.at[13].count = c, !.at[13].high = h]>> : c \in 0..6, h \in {0, 1}}
  \union {<<Changed([Sound[1] EXCEPT !.at[14].prev = n], n,
                     [Blank EXCEPT !.type = t, !.size = 40])>> : t \in {8, 9, 10}, n \in {1, 2}}
  \union {<<[Sound[1] EXCEPT !.at[9].type = t]>> : t \in {1, 2, 8, 9, 10}}
  \union {<<[s EXCEPT !.bytes = SubSeq(s.bytes, 1, n),
                     !.at = [o \in 0..n - 1 |-> Held(o, Blank, n)]]>> : s \in {Sound[1]}, n \in {0, 1, 2}}
  \union {<<>>, <<Sound[1], [Sound[2] EXCEPT !.number = 3]>>, <<[Sound[1] EXCEPT !.method = 3]>>}

AllImages == {c.image : c \in Cases} \union Orders \union Devices \union Bent

MCExpectations ==
  {[md5 |-> {}, sha1 |-> {}, sha256 |-> {}],
   [md5 |-> {<<6>>}, sha1 |-> {<<6>>}, sha256 |-> {<<6>>}]}

\* Every kind of damage is reported under its own name, alone and together with any
\* other, except where Hides says otherwise; a sound image is accused of nothing but
\* a reference that differs.
DamageReported ==
  step = "done" =>
    /\ \A c \in Cases : c.image = image => c.kinds \subseteq Reported
    /\ image = Sound /\ expected.md5 = {} => issues = {}
=============================================================================
