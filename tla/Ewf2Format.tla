----------------------------- MODULE Ewf2Format -----------------------------
(***************************************************************************)
(* The EWF v2 container (core/src/ewf2.rs) as both its readers see it: the *)
(* opening of an image in core and the integrity analysis in forensic,     *)
(* which have parsers of their own.                                        *)
(*                                                                         *)
(* A segment is [kind, method, number, bytes, at]; `at` gives what the     *)
(* bytes at an offset say when they are parsed as a descriptor.  A         *)
(* section's body lies in FRONT of its descriptor, and the descriptor      *)
(* record also has what the body says, read in each of the ways that some  *)
(* section type is read; a body that would start before the file starts at *)
(* 0 (saturating).  A digest is the stream that was hashed.                *)
(***************************************************************************)
EXTENDS ChunkTable

CONSTANTS
  Images,            \* sequences of segments
  Byte,
  HeaderSize, DescriptorSize, TableHeaderSize, EntrySize, CrcSize,
  Md5Size, Sha1Size, Sha256Size,
  CountBit,          \* 2^32: weight of the upper half of the checker's chunk count
  Inflate(_),        \* zlib: [ok, bytes that come out before the end or the error]
  Adler(_)           \* adler32, as the CrcSize bytes stored behind the data

VARIABLE image       \* the segments, as the caller passed them

\* The section types: core names 2 CaseData and 10 RestartData, forensic names
\* 2 MEDIA_INFO and 10 SHA256_HASH.
DeviceInfo == 1
CaseData == 2
SectorTable == 4
Md5Hash == 8
Sha1Hash == 9
Sha256Hash == 10
Done == 15

\* How the text of a body is stored: a zlib stream of UTF-16, UTF-16 as it is, a
\* zlib stream of something else, or a damaged stream.
Texts == {"zlib", "plain", "odd", "corrupt"}

TableEntry == [comp : BOOLEAN, off : Nat, size : 0..SizeModulus - 1]

Descriptor ==
  [type : Nat, encrypted : BOOLEAN, prev : Nat, size : Nat,
   hash : {"none", "match", "differs"},   \* data_integrity_hash, compared with the body
   text : Texts, lines : BOOLEAN,         \* four lines of text
   b : Nat \union {None}, sc : Nat \union {None}, ts : Nat \union {None},
   case : Nat \union {None},
   count : Nat, high : Nat, entries : Seq(TableEntry), sum_ok : BOOLEAN,
   digest : Seq(Byte)]

\* What fits between two offsets behind a table's header.
EntriesBetween(start, end) == SatSub(end, start + TableHeaderSize) \div EntrySize
BodyStart(o, d) == SatSub(o, d.size)

\* The sizes that the format fixes: no digest is longer than a file's header.
ASSUME SizesAssumption ==
  /\ {HeaderSize, TableHeaderSize, CrcSize} \subseteq Nat
  /\ {Md5Size, Sha1Size, Sha256Size} \subseteq 0..HeaderSize
  /\ {DescriptorSize, EntrySize, CountBit} \subseteq Nat \ {0}

\* A segment is a file, shorter than an offset can say; what comes out of a stream in
\* it are bytes.
IsSegment(s) ==
  /\ s.kind \in {"evf2", "lef2", "other"} /\ {s.number, s.method} \subseteq Nat
  /\ s.bytes \in Seq(Byte) /\ Len(s.bytes) < OffsetBit
  /\ \A o \in 0..Len(s.bytes) - DescriptorSize :
       /\ s.at[o] \in Descriptor
       /\ Len(s.at[o].entries) = EntriesBetween(BodyStart(o, s.at[o]), Len(s.bytes))
  /\ \A a, b \in 0..Len(s.bytes) :
       Inflate(SubSeq(s.bytes, a + 1, b)) \in [ok : BOOLEAN, bytes : Seq(Byte)]

ASSUME ImagesAssumption ==
  \A img \in Images :
    /\ Len(img) \in Nat /\ img = [s \in 1..Len(img) |-> img[s]]
    /\ \A s \in DOMAIN img : IsSegment(img[s])

----------------------------------------------------------------------------
(* For the properties.                                                     *)

\* The offsets on a segment's list: the last descriptor, and those that links to
\* lower offsets lead to from there.
Listed(s) ==
  LET end == Len(s.bytes) - DescriptorSize
      met[o \in 0..end] ==
        o = end \/ (o # 0 /\ \E z \in o + 1..end : s.at[z].prev = o /\ met[z])
  IN  {o \in 0..end : met[o]}
=============================================================================
