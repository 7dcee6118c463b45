---------------------------- MODULE ByteCursor ----------------------------
(***************************************************************************)
(* What the Read and Seek implementations of an image promise their        *)
(* callers: a position in a fixed array of bytes, moved by what is asked   *)
(* for and by what is read, exactly, without regard to word sizes.         *)
(* EwfCursor implements it (Commands!CursorRefines).                       *)
(***************************************************************************)
EXTENDS Integers, Sequences

CONSTANTS
  Limit,      \* the largest position that can be asked for
  Arguments   \* distances and lengths

VARIABLES
  bytes,      \* the image: [value, readable] per byte
  position,
  call,       \* the call made last: [op, arg]
  result      \* what it returned: [ok, at, data]

vars == <<bytes, position, call, result>>

Error == [ok |-> FALSE, at |-> 0, data |-> <<>>]

Init == position = 0 /\ call = [op |-> "open", arg |-> 0] /\ result = Error

Open ==
  /\ position' = 0
  /\ call' = [op |-> "open", arg |-> 0]
  /\ result' = Error
  /\ UNCHANGED bytes

Seek(op, base, p) ==
  /\ call' = [op |-> op, arg |-> p]
  /\ IF base + p \in 0..Limit
     THEN position' = base + p /\ result' = [ok |-> TRUE, at |-> base + p, data |-> <<>>]
     ELSE UNCHANGED position /\ result' = Error
  /\ UNCHANGED bytes

\* As many bytes as are left, up to n; all of them can be read or nothing is.
Read(n) ==
  LET end  == IF position + n < Len(bytes) THEN position + n ELSE Len(bytes)
      span == SubSeq(bytes, position + 1, end)
  IN  /\ call' = [op |-> "read", arg |-> n]
      /\ IF \A i \in DOMAIN span : span[i].readable
         THEN /\ result' = [ok |-> TRUE, at |-> position, data |-> [i \in DOMAIN span |-> span[i].value]]
              /\ position' = position + Len(span)
         ELSE result' = Error /\ UNCHANGED position
      /\ UNCHANGED bytes

Next ==
  \/ Open
  \/ \E a \in Arguments :
       \/ Seek("start", 0, a) \/ Seek("end", Len(bytes), a) \/ Seek("current", position, a)
       \/ a >= 0 /\ Read(a)

Spec == Init /\ [][Next]_vars
=============================================================================
