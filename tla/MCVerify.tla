------------------------------ MODULE MCVerify ------------------------------
(***************************************************************************)
(* Five chunks of two bytes in batches of up to three, on two threads.     *)
(***************************************************************************)
EXTENDS Verify

MCPage(c) == <<c, 9 - c>>

\* The digest of the image whose last chunk is half used.
Digest == <<0, 9, 1, 8, 2, 7, 3, 6, 4>>

\* Media that end in the last chunk, at its end, before it and beyond it; up to two
\* broken chunks; with the right digest, another one and none.
MCImages ==
  [total_size : {6, 9, 10, 13}, broken : {{}, {1}, {4}, {0, 2}},
   stored_md5 : {Digest, <<7>>, NoDigest}, stored_sha1 : {Digest, NoDigest}]
=============================================================================
