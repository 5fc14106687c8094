----------------------------- MODULE HttpClient -----------------------------
(***************************************************************************)
(* The request queue of http\Client and its libcurl driver.                 *)
(*                                                                         *)
(* PHP is single threaded, so what makes the queue hard is re-entrancy: the *)
(* client calls user code (Request::getOptions, the response closure, the  *)
(* observers behind notify) in the middle of its own C functions, and that *)
(* code may call any method of the same client.  The state therefore holds *)
(* an explicit call stack: a frame per C function that is interrupted by    *)
(* user code, with the locals it uses after the interruption, and a frame  *)
(* per activation of user code.                                            *)
(*                                                                         *)
(* A "slot" is the memory of one php_http_client_curl_handler_t together   *)
(* with the element of h->requests that points to it (both are allocated   *)
(* in curl_enqueue and freed in queue_dtor).  Slots are reused, so a        *)
(* pointer kept across a callback may be dangling or refer to a later      *)
(* handler, as in the program.                                             *)
(***************************************************************************)
EXTENDS Integers, Sequences, FiniteSets

CONSTANTS
    Requests,       \* http\Client\Request objects
    Slots,          \* handler memory
    None,           \* no request / no slot / an unmatched pointer
    CallbackCalls,  \* the methods user code calls from inside a callback
    AddMayFail,     \* whether curl_multi_add_handle may fail
    MaxEnqueues,    \* bound: calls of enqueue and requeue in a behaviour
    MaxNesting,     \* bound: activations of user code on the stack
    MaxResponses    \* bound: responses kept before no new send is started

Methods == {"enqueue", "requeue", "dequeue", "reset", "send", "once", "pop"}

ASSUME NoneAssumption == None \notin Requests \cup Slots
ASSUME SlotsAssumption == IsFiniteSet(Slots)
ASSUME ConfigAssumption ==
    /\ CallbackCalls \subseteq Methods
    /\ AddMayFail \in BOOLEAN
    /\ MaxEnqueues \in Nat /\ MaxNesting \in Nat /\ MaxResponses \in Nat

VARIABLES
    mem,        \* the contents of each slot
    queue,      \* h->requests: the slots in the list
    multi,      \* libcurl: what the multi handle knows of a slot's easy handle
    unfinished, \* curl->unfinished
    responses,  \* h->responses: the request each response belongs to
    refs,       \* references the queue holds on each request object
    enqueues,   \* calls of enqueue and requeue so far (bounds the behaviour)
    stack       \* call stack, the running function first

vars == <<mem, queue, multi, unfinished, responses, refs, enqueues, stack>>

-----------------------------------------------------------------------------
(* Call stack *)

UserLabels == {"main", "getOptions", "closure", "notify"}
CodeLabels == {"join", "started", "exec", "polled", "once", "read", "closed", "progress"}

Frame == [at: UserLabels \cup CodeLabels, req: Requests \cup {None},
          slot: Slots \cup {None}, flag: BOOLEAN]

Top == Head(stack)
Callers == Tail(stack)

User(where) == [at |-> where, req |-> None, slot |-> None, flag |-> FALSE]
Code(where) == [at |-> where, req |-> None, slot |-> None, flag |-> FALSE]
ForRequest(where, r, closure) == [at |-> where, req |-> r, slot |-> None, flag |-> closure]
ForSlot(where, s) == [at |-> where, req |-> None, slot |-> s, flag |-> FALSE]

UserDepth == Cardinality({i \in DOMAIN stack : stack[i].at \in UserLabels})

-----------------------------------------------------------------------------
(* Handlers and the queue *)

Handler == [live: BOOLEAN, request: Requests \cup {None}, closure: BOOLEAN,
            response: BOOLEAN, started: BOOLEAN, finished: BOOLEAN]

EmptySlot == [live |-> FALSE, request |-> None, closure |-> FALSE,
              response |-> FALSE, started |-> FALSE, finished |-> FALSE]

\* A handler fresh from curl_enqueue: *response is the empty message.
NewHandler(r, closure) ==
    [live |-> TRUE, request |-> r, closure |-> closure,
     response |-> TRUE, started |-> FALSE, finished |-> FALSE]

Enqueued(r) == \E s \in queue : mem[s].request = r
SlotOf(r) == CHOOSE s \in queue : mem[s].request = r

\* What reading the request pointer of a slot may yield: a freed slot still
\* holds its old contents or anything else, which no queue element matches.
Readable(s) == IF mem[s].live THEN {mem[s].request} ELSE {mem[s].request, None}

Running == {s \in Slots : multi[s] = "running"}
Pending == {s \in Slots : multi[s] = "done"}

\* A mistake: the references are kept.
RemoveKeepingRefs(S) ==
    /\ multi' = [s \in Slots |-> IF s \in S THEN "none" ELSE multi[s]]
    /\ queue' = queue \ S
    /\ mem' = [s \in Slots |-> IF s \in S THEN [mem[s] EXCEPT !.live = FALSE] ELSE mem[s]]
    /\ UNCHANGED refs

\* Take the slots S out of the multi handle and out of the list; the list's
\* destructor gives the reference of the request back and frees the handler.
Remove(S) ==
    /\ multi' = [s \in Slots |-> IF s \in S THEN "none" ELSE multi[s]]
    /\ queue' = queue \ S
    /\ refs' = [r \in Requests |->
                  IF \E s \in S : mem[s].request = r THEN refs[r] - 1 ELSE refs[r]]
    /\ mem' = [s \in Slots |-> IF s \in S THEN [mem[s] EXCEPT !.live = FALSE] ELSE mem[s]]

Dequeue(r) == Remove({SlotOf(r)})

-----------------------------------------------------------------------------
Init ==
    /\ mem = [s \in Slots |-> EmptySlot]
    /\ queue = {}
    /\ multi = [s \in Slots |-> "none"]
    /\ unfinished = 0
    /\ responses = <<>>
    /\ refs = [r \in Requests |-> 0]
    /\ enqueues = 0
    /\ stack = <<User("main")>>

-----------------------------------------------------------------------------
(* Calls user code makes.  A method that throws on its first check changes *)
(* nothing and is left out.                                                *)

UserMay(method) ==
    /\ Top.at \in UserLabels
    /\ Top.at # "main" => method \in CallbackCalls
    /\ UserDepth <= MaxNesting

\* enqueue: rejected when the request is queued, then Request::getOptions runs.
CallEnqueue(r, closure) ==
    /\ UserMay("enqueue")
    /\ enqueues < MaxEnqueues
    /\ ~Enqueued(r)
    /\ enqueues' = enqueues + 1
    /\ stack' = <<User("getOptions"), ForRequest("join", r, closure)>> \o stack
    /\ UNCHANGED <<mem, queue, multi, unfinished, responses, refs>>

\* requeue: dequeues the request if it is queued and goes on like enqueue.
CallRequeue(r, closure) ==
    /\ UserMay("requeue")
    /\ enqueues < MaxEnqueues
    /\ IF Enqueued(r) THEN Dequeue(r) ELSE UNCHANGED <<mem, queue, multi, refs>>
    /\ enqueues' = enqueues + 1
    /\ stack' = <<User("getOptions"), ForRequest("join", r, closure)>> \o stack
    /\ UNCHANGED <<unfinished, responses>>

\* A mistake: dequeue counts a transfer down that may be finished already.
CallDequeueCounting(r) ==
    /\ UserMay("dequeue")
    /\ Enqueued(r)
    /\ Dequeue(r)
    /\ unfinished' = unfinished - 1
    /\ UNCHANGED <<responses, enqueues, stack>>

CallDequeue(r) ==
    /\ UserMay("dequeue")
    /\ Enqueued(r)
    /\ Dequeue(r)
    /\ UNCHANGED <<unfinished, responses, enqueues, stack>>

\* A mistake: reset keeps the responses.
CallResetKeeping ==
    /\ UserMay("reset")
    /\ Remove(queue)
    /\ UNCHANGED <<responses, unfinished, enqueues, stack>>

\* reset: every element is dequeued, then the response list is emptied.
CallReset ==
    /\ UserMay("reset")
    /\ Remove(queue)
    /\ responses' = <<>>
    /\ UNCHANGED <<unfinished, enqueues, stack>>

\* getResponse() without a request pops the response added last.
CallPop ==
    /\ UserMay("pop")
    /\ responses # <<>>
    /\ responses' = SubSeq(responses, 1, Len(responses) - 1)
    /\ UNCHANGED <<mem, queue, multi, unfinished, refs, enqueues, stack>>

CallSend ==
    /\ UserMay("send")
    /\ Len(responses) < MaxResponses
    /\ stack' = <<Code("exec")>> \o stack
    /\ UNCHANGED <<mem, queue, multi, unfinished, responses, refs, enqueues>>

CallOnce ==
    /\ UserMay("once")
    /\ Len(responses) < MaxResponses
    /\ stack' = <<Code("once")>> \o stack
    /\ UNCHANGED <<mem, queue, multi, unfinished, responses, refs, enqueues>>

\* getOptions or an observer returns.
CallbackReturns ==
    /\ Top.at \in {"getOptions", "notify"}
    /\ stack' = Callers
    /\ UNCHANGED <<mem, queue, multi, unfinished, responses, refs, enqueues>>

\* The closure returns; its result is the local retval of handle_response.
ClosureReturns(result) ==
    /\ Top.at = "closure"
    /\ stack' = <<[Head(Callers) EXCEPT !.flag = result]>> \o Tail(Callers)
    /\ UNCHANGED <<mem, queue, multi, unfinished, responses, refs, enqueues>>

-----------------------------------------------------------------------------
(* curl_enqueue, after the options were joined *)

\* The request was queued meanwhile, or the driver cannot prepare it (empty
\* URL or method): the reference just taken is dropped by msg_queue_dtor.
EnqueueRefused ==
    /\ Top.at = "join"
    /\ stack' = Callers
    /\ UNCHANGED <<mem, queue, multi, unfinished, responses, refs, enqueues>>

\* Mistakes: curl_enqueue relies on the check made before getOptions ran; it
\* does not count the new transfer.
EnqueueAddsUnchecked ==
    /\ Top.at = "join"
    /\ \E s \in Slots :
         /\ ~mem[s].live
         /\ mem' = [mem EXCEPT ![s] = NewHandler(Top.req, Top.flag)]
         /\ queue' = queue \cup {s}
         /\ multi' = [multi EXCEPT ![s] = "running"]
         /\ stack' = <<User("notify"), ForSlot("started", s)>> \o Callers
    /\ unfinished' = unfinished + 1
    /\ refs' = [refs EXCEPT ![Top.req] = @ + 1]
    /\ UNCHANGED <<responses, enqueues>>

EnqueueAddsUncounted ==
    /\ Top.at = "join"
    /\ ~Enqueued(Top.req)
    /\ \E s \in Slots :
         /\ ~mem[s].live
         /\ mem' = [mem EXCEPT ![s] = NewHandler(Top.req, Top.flag)]
         /\ queue' = queue \cup {s}
         /\ multi' = [multi EXCEPT ![s] = "running"]
         /\ stack' = <<User("notify"), ForSlot("started", s)>> \o Callers
    /\ refs' = [refs EXCEPT ![Top.req] = @ + 1]
    /\ UNCHANGED <<responses, enqueues, unfinished>>

\* getOptions returned, or the request had no options: it joins the queue.
EnqueueAdds ==
    /\ Top.at = "join"
    /\ ~Enqueued(Top.req)
    /\ \E s \in Slots :
         /\ ~mem[s].live
         /\ mem' = [mem EXCEPT ![s] = NewHandler(Top.req, Top.flag)]
         /\ queue' = queue \cup {s}
         /\ multi' = [multi EXCEPT ![s] = "running"]
         /\ stack' = <<User("notify"), ForSlot("started", s)>> \o Callers
    /\ unfinished' = unfinished + 1
    /\ refs' = [refs EXCEPT ![Top.req] = @ + 1]
    /\ UNCHANGED <<responses, enqueues>>

\* curl_multi_add_handle fails: q.opaque already is the handler, on which
\* msg_queue_dtor is called as if it were the request object; neither the
\* handler nor the reference is released.  If that call crashes, the behaviour
\* is over here.
EnqueueAddFails ==
    /\ AddMayFail
    /\ Top.at = "join"
    /\ ~Enqueued(Top.req)
    /\ \E s \in Slots :
         /\ ~mem[s].live
         /\ mem' = [mem EXCEPT ![s] = NewHandler(Top.req, Top.flag)]
    /\ refs' = [refs EXCEPT ![Top.req] = @ + 1]
    /\ stack' = Callers
    /\ UNCHANGED <<queue, multi, unfinished, responses, enqueues>>

\* A mistake: the other flag of the progress is written.
MarkStartedFinished ==
    /\ Top.at = "started"
    /\ mem' = IF mem[Top.slot].live THEN [mem EXCEPT ![Top.slot].finished = TRUE] ELSE mem
    /\ stack' = Callers
    /\ UNCHANGED <<queue, multi, unfinished, responses, refs, enqueues>>

\* The "start" observers ran; progress->started is written through the
\* pointer taken before, whatever lives there now.
MarkStarted ==
    /\ Top.at = "started"
    /\ mem' = IF mem[Top.slot].live THEN [mem EXCEPT ![Top.slot].started = TRUE] ELSE mem
    /\ stack' = Callers
    /\ UNCHANGED <<queue, multi, unfinished, responses, refs, enqueues>>

-----------------------------------------------------------------------------
(* exec, once and the response handler *)

\* A mistake: the count of running transfers is not stored.
PerformUncounted(D) ==
    /\ Top.at \in {"exec", "once"}
    /\ D \subseteq Running
    /\ multi' = [s \in Slots |-> IF s \in D THEN "done" ELSE multi[s]]
    /\ stack' = (IF Top.at = "exec" THEN <<Code("read"), Code("polled")>> ELSE <<Code("read")>>)
                  \o Callers
    /\ UNCHANGED <<mem, queue, responses, refs, enqueues, unfinished>>

\* curl_multi_perform finishes the transfers D and stores how many still run.
Perform(D) ==
    /\ Top.at \in {"exec", "once"}
    /\ D \subseteq Running
    /\ multi' = [s \in Slots |-> IF s \in D THEN "done" ELSE multi[s]]
    /\ unfinished' = Cardinality(Running \ D)
    /\ stack' = (IF Top.at = "exec" THEN <<Code("read"), Code("polled")>> ELSE <<Code("read")>>)
                  \o Callers
    /\ UNCHANGED <<mem, queue, responses, refs, enqueues>>

\* curl_multi_info_read has nothing.
ReadNothing ==
    /\ Top.at = "read"
    /\ Pending = {}
    /\ stack' = Callers
    /\ UNCHANGED <<mem, queue, multi, unfinished, responses, refs, enqueues>>

\* One DONE message; the loop goes on only if more messages remain.
ReadMessage(s) ==
    LET rest == IF Pending = {s} THEN Callers ELSE stack
        answer == IF mem[s].response /\ mem[s].closure
                  THEN <<User("closure"), ForSlot("closed", s)>>
                  ELSE <<ForSlot("progress", s)>>
    IN
    /\ Top.at = "read"
    /\ s \in Pending
    /\ multi' = [multi EXCEPT ![s] = "read"]
    /\ IF s \in queue
       THEN /\ mem' = [mem EXCEPT ![s].response = FALSE]
            /\ responses' = IF mem[s].response
                            THEN Append(responses, mem[s].request) ELSE responses
            /\ stack' = answer \o rest
       ELSE /\ stack' = rest
            /\ UNCHANGED <<mem, responses>>
    /\ UNCHANGED <<queue, unfinished, refs, enqueues>>

\* The closure returned; on TRUE the request e points to is dequeued.
ClosureDone ==
    /\ Top.at = "closed"
    /\ IF Top.flag
       THEN \E r \in Readable(Top.slot) :
              IF Enqueued(r) THEN Dequeue(r) ELSE UNCHANGED <<mem, queue, multi, refs>>
       ELSE UNCHANGED <<mem, queue, multi, refs>>
    /\ stack' = <<ForSlot("progress", Top.slot)>> \o Callers
    /\ UNCHANGED <<unfinished, responses, enqueues>>

\* handle_response ends: the progress of the request e points to is marked
\* finished and its observers are notified, if that request is queued.
MarkFinished ==
    /\ Top.at = "progress"
    /\ \E r \in Readable(Top.slot) :
         IF Enqueued(r)
         THEN /\ mem' = [mem EXCEPT ![SlotOf(r)].finished = TRUE]
              /\ stack' = <<User("notify")>> \o Callers
         ELSE /\ stack' = Callers
              /\ UNCHANGED mem
    /\ UNCHANGED <<queue, multi, unfinished, responses, refs, enqueues>>

SendReturns ==
    /\ Top.at = "polled"
    /\ unfinished = 0
    /\ stack' = Callers
    /\ UNCHANGED <<mem, queue, multi, unfinished, responses, refs, enqueues>>

WaitSucceeds ==
    /\ Top.at = "polled"
    /\ unfinished # 0
    /\ stack' = <<Code("exec")>> \o Callers
    /\ UNCHANGED <<mem, queue, multi, unfinished, responses, refs, enqueues>>

\* select failed: send gives up although transfers are running.
WaitFails ==
    /\ Top.at = "polled"
    /\ unfinished # 0
    /\ stack' = Callers
    /\ UNCHANGED <<mem, queue, multi, unfinished, responses, refs, enqueues>>

-----------------------------------------------------------------------------
UserCalls ==
    \/ \E r \in Requests, closure \in BOOLEAN : CallEnqueue(r, closure) \/ CallRequeue(r, closure)
    \/ \E r \in Requests : CallDequeue(r)
    \/ CallReset
    \/ CallPop
    \/ CallSend
    \/ CallOnce

UserReturns == CallbackReturns \/ \E result \in BOOLEAN : ClosureReturns(result)

Code_enqueue == EnqueueRefused \/ EnqueueAdds \/ EnqueueAddFails \/ MarkStarted

Code_respond ==
    \/ ReadNothing
    \/ \E s \in Slots : ReadMessage(s)
    \/ ClosureDone
    \/ MarkFinished

Code_send ==
    \/ \E D \in SUBSET Running : Perform(D)
    \/ SendReturns
    \/ WaitSucceeds
    \/ WaitFails

CodeStep == Code_enqueue \/ Code_respond \/ Code_send

Next == UserCalls \/ UserReturns \/ CodeStep

Spec == Init /\ [][Next]_vars

\* The process runs the C code it is in; callbacks return; the network
\* answers, so a perform that finishes something is not put off for ever.
Fairness ==
    /\ WF_vars(CodeStep)
    /\ SF_vars(UserReturns)
    /\ SF_vars(\E D \in SUBSET Running : D # {} /\ Perform(D))

FairSpec == Spec /\ Fairness

-----------------------------------------------------------------------------
(* Properties *)

\* Every variable has its type (php_http_client_t, php_http_client_curl_t and
\* the handlers).
TypeOK ==
    /\ mem \in [Slots -> Handler]
    /\ queue \in SUBSET Slots
    /\ multi \in [Slots -> {"none", "running", "done", "read"}]
    /\ unfinished \in Nat
    /\ responses \in Seq(Requests)
    /\ refs \in [Requests -> Int]
    /\ enqueues \in Nat
    /\ stack \in Seq(Frame)

\* "request; unique" (php_http_client.h): no two elements of the queue are for
\* the same request, although getOptions runs user code between the check of
\* HttpClient::enqueue and the insertion.
UniqueInQueue ==
    \A s, t \in queue : mem[s].request = mem[t].request => s = t

\* The multi handle knows exactly the easy handles of the queue, and a DONE
\* message is always for a queued handler whose response was not delivered yet:
\* no message is dropped by the response handler and none is answered twice.
MessagesMatchQueue ==
    /\ \A s \in Slots : multi[s] # "none" <=> s \in queue
    /\ \A s \in queue : multi[s] = "read" <=> ~mem[s].response

\* The queue has no request twice, and the multi handle just what the queue has.
QueueConsistent == UniqueInQueue /\ MessagesMatchQueue

\* Each reference the queue holds on a request object belongs to exactly one
\* handler that is alive, whatever path it is released on (dequeue, requeue,
\* reset, closure, refused enqueue).
Holders(r) == {s \in Slots : mem[s].live /\ mem[s].request = r}
RefsHeldByHandlers == \A r \in Requests : refs[r] = Cardinality(Holders(r))

\* When send returns successfully every queued request was answered, those
\* included that callbacks queued while send was running.
SendAnswersAll ==
    Top.at = "polled" /\ unfinished = 0 => \A s \in queue : multi[s] = "read"

\* Progress says finished only for a transfer whose response was delivered.
FinishedMeansAnswered == \A s \in queue : mem[s].finished => multi[s] = "read"

\* A send that started comes back, whatever its callbacks queue, as long as
\* they return and transfers end.
Sending == \E i \in DOMAIN stack : stack[i].at \in {"exec", "polled"}
SendTerminates == Sending ~> ~Sending

-----------------------------------------------------------------------------
(* The inductive invariant behind the properties above *)

\* A frame holds the pointers its function goes on with.
FrameOK(f) ==
    /\ f.at = "join" => f.req \in Requests
    /\ f.at \in {"started", "closed", "progress"} => f.slot \in Slots

\* The user's program is at the bottom and only there; a closure was called by
\* handle_response, which waits for its result.
StackOK(st) ==
    /\ st # <<>>
    /\ \A i \in DOMAIN st :
         /\ FrameOK(st[i])
         /\ st[i].at = "main" <=> i = Len(st)
         /\ st[i].at = "closure" => i < Len(st) /\ st[i + 1].at = "closed"

\* A response handler is active, with no waiting send above it.
Reading(st) ==
    \E i \in DOMAIN st : /\ st[i].at = "read"
                         /\ \A j \in 1 .. (i - 1) : st[j].at # "polled"

\* DONE messages are only left unread while a response handler is active.
PendingMeansReading == Pending # {} => Reading(stack)

\* The running count the loops of exec and once depend on never misses a
\* running transfer, even between two performs.
UnfinishedCoversRunning == Cardinality(Running) <= unfinished

QueuedIsLive == \A s \in queue : mem[s].live /\ mem[s].request \in Requests

IInv ==
    /\ TypeOK
    /\ StackOK(stack)
    /\ QueuedIsLive
    /\ UniqueInQueue
    /\ MessagesMatchQueue
    /\ UnfinishedCoversRunning
    /\ PendingMeansReading

-----------------------------------------------------------------------------
\* The queue seen by its user: what became of each request.
Status == [r \in Requests |->
             IF ~Enqueued(r) THEN "idle"
             ELSE IF multi[SlotOf(r)] = "read" THEN "answered" ELSE "queued"]

Promise == INSTANCE RequestQueue WITH status <- Status

\* Re-entrant user code never makes the client answer a request twice, answer
\* one that is not queued, lose a response, or queue a request it already has.
ImplementsRequestQueue == Promise!Spec
=============================================================================
