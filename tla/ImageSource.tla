----------------------------- MODULE ImageSource -----------------------------
(***************************************************************************)
(* The contract of EwfReader::read_at, as its callers see it: the image is *)
(* a fixed array of bytes and a call is answered at once, by some step     *)
(* between the call and the return, with the bytes of its range or with a  *)
(* failure.  EwfReader implements it (EwfReader!Refinement).               *)
(***************************************************************************)
EXTENDS Integers, Sequences

CONSTANTS Threads, Requests,
          IoErrors,          \* a positioned read may fail
          Readable(_),       \* the chunk with this id can be decoded
          CoveredChunks(_),  \* ids of the chunks a request touches
          ImageBytes(_)      \* bytes of the image in a request's range

VARIABLES pending,  \* the thread is inside read_at
          req,      \* its request
          reply,    \* how its last call ended
          data      \* the bytes that call returned

vars == <<pending, req, reply, data>>

Init ==
  /\ pending = [t \in Threads |-> FALSE]
  /\ req = [t \in Threads |-> [off |-> 0, len |-> 0]]
  /\ reply = [t \in Threads |-> "none"]
  /\ data = [t \in Threads |-> <<>>]

Begin(t, r) ==
  /\ ~pending[t]
  /\ pending' = [pending EXCEPT ![t] = TRUE]
  /\ req' = [req EXCEPT ![t] = r]
  /\ reply' = [reply EXCEPT ![t] = "none"]
  /\ data' = [data EXCEPT ![t] = <<>>]

\* Ok: every chunk of the range is readable and the bytes are the image's.
Answer(t) ==
  /\ pending[t]
  /\ \A id \in CoveredChunks(req[t]) : Readable(id)
  /\ pending' = [pending EXCEPT ![t] = FALSE]
  /\ reply' = [reply EXCEPT ![t] = "ok"]
  /\ data' = [data EXCEPT ![t] = ImageBytes(req[t])]
  /\ UNCHANGED req

\* A failure has a reason in the range, or is an I/O error.
Fail(t, how) ==
  /\ pending[t]
  /\ \/ IoErrors /\ how = "err"
     \/ \E id \in CoveredChunks(req[t]) : ~Readable(id)
  /\ pending' = [pending EXCEPT ![t] = FALSE]
  /\ reply' = [reply EXCEPT ![t] = how]
  /\ UNCHANGED <<req, data>>

Finish(t) == Answer(t) \/ \E how \in {"err", "panic"} : Fail(t, how)

Next == \E t \in Threads : Finish(t) \/ \E r \in Requests : Begin(t, r)

SafetySpec == Init /\ [][Next]_vars
Spec == SafetySpec /\ \A t \in Threads : WF_vars(Finish(t))
=============================================================================
