---------------------------- MODULE RequestQueue ----------------------------
(***************************************************************************)
(* What http\Client promises its user: a request is idle, queued or        *)
(* answered, each enqueueing is answered at most once, and the responses   *)
(* can be taken back newest first.  HttpClient implements this             *)
(* specification although user code re-enters it in the middle of its own  *)
(* functions.                                                              *)
(***************************************************************************)
EXTENDS Sequences, Naturals

CONSTANT Requests

VARIABLES status, responses

Init ==
    /\ status = [r \in Requests |-> "idle"]
    /\ responses = <<>>

\* enqueue: only a request that is not in the queue.
Enqueue(r) ==
    /\ status[r] = "idle"
    /\ status' = [status EXCEPT ![r] = "queued"]
    /\ UNCHANGED responses

\* dequeue, requeue's first half, a closure returning TRUE.
Dequeue(r) ==
    /\ status[r] # "idle"
    /\ status' = [status EXCEPT ![r] = "idle"]
    /\ UNCHANGED responses

\* The transfer ended: its one response is added behind the others.
Answer(r) ==
    /\ status[r] = "queued"
    /\ status' = [status EXCEPT ![r] = "answered"]
    /\ responses' = Append(responses, r)

Pop ==
    /\ responses # <<>>
    /\ responses' = SubSeq(responses, 1, Len(responses) - 1)
    /\ UNCHANGED status

Reset == status' = [r \in Requests |-> "idle"] /\ responses' = <<>>

Next ==
    \/ \E r \in Requests : Enqueue(r) \/ Dequeue(r) \/ Answer(r)
    \/ Pop
    \/ Reset

Spec == Init /\ [][Next]_<<status, responses>>
=============================================================================
