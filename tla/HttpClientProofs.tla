-------------------------- MODULE HttpClientProofs --------------------------
(***************************************************************************)
(* Proofs about HttpClient for any sets of requests and slots and any      *)
(* bounds.  IInv is the inductive invariant; the call stack is handled by  *)
(* three lemmas on pushing and popping a frame.  FInv, further on, is a    *)
(* second one over IInv: which of its frames may still requeue or dequeue  *)
(* an answered request.  Last, HttpClient implements RequestQueue: what    *)
(* the re-entrant functions do to the queue is, for their user, one of     *)
(* the atomic steps the abstract queue promises.                           *)
(***************************************************************************)
EXTENDS HttpClient, FiniteSetTheorems, SequenceTheorems, TLAPS

-----------------------------------------------------------------------------
(* The call stack *)

\* Calling a function: its frame comes first, the others follow.
LEMMA PushFrame ==
    ASSUME NEW st \in Seq(Frame), NEW f \in Frame
    PROVE  /\ <<f>> \o st \in Seq(Frame)
           /\ <<f>> \o st # <<>>
           /\ Len(<<f>> \o st) = Len(st) + 1
           /\ Head(<<f>> \o st) = f
           /\ Tail(<<f>> \o st) = st
           /\ \A i \in 1 .. Len(st) : (<<f>> \o st)[i + 1] = st[i]
           /\ (<<f>> \o st)[1] = f
<1>1. <<f>> \in Seq(Frame) /\ Len(<<f>>) = 1 /\ <<f>>[1] = f
  OBVIOUS
<1>2. /\ <<f>> \o st \in Seq(Frame)
      /\ Len(<<f>> \o st) = Len(st) + 1
      /\ \A i \in 1 .. Len(st) + 1 : (<<f>> \o st)[i] = IF i <= 1 THEN f ELSE st[i - 1]
  BY <1>1, ConcatProperties
<1>3. /\ \A i \in 1 .. Len(st) : (<<f>> \o st)[i + 1] = st[i]
      /\ (<<f>> \o st)[1] = f
  BY <1>2
<1>4. <<f>> \o st # <<>> /\ Head(<<f>> \o st) = f
  BY <1>2, <1>3
<1>5. Tail(<<f>> \o st) = st
  <2> DEFINE t == Tail(<<f>> \o st)
  <2>1. /\ t \in Seq(Frame) /\ Len(t) = Len(st)
        /\ \A i \in 1 .. Len(t) : t[i] = (<<f>> \o st)[i + 1]
    BY <1>2, <1>4, HeadTailProperties
  <2> HIDE DEF t
  <2>2. t = st
    BY <2>1, <1>3, SeqEqual
  <2> QED
    BY <2>2 DEF t
<1> QED
  BY <1>2, <1>3, <1>4, <1>5

\* A well-formed stack stays so when a function that is not the program
\* itself is called; a closure only by a handle_response that waits for it.
LEMMA PushOK ==
    ASSUME NEW st \in Seq(Frame), StackOK(st), NEW f \in Frame, FrameOK(f),
           f.at # "main", f.at = "closure" => st[1].at = "closed"
    PROVE  StackOK(<<f>> \o st)
<1> DEFINE u == <<f>> \o st
<1>1. /\ u \in Seq(Frame) /\ u # <<>> /\ Len(u) = Len(st) + 1 /\ u[1] = f
      /\ \A i \in 1 .. Len(st) : u[i + 1] = st[i]
  BY PushFrame
<1>2. Len(st) \in Nat /\ Len(st) >= 1 /\ DOMAIN st = 1 .. Len(st) /\ DOMAIN u = 1 .. Len(u)
  BY <1>1, EmptySeq, LenProperties DEF StackOK
<1> HIDE DEF u
<1>3. ASSUME NEW i \in DOMAIN u
      PROVE  /\ FrameOK(u[i])
             /\ u[i].at = "main" <=> i = Len(u)
             /\ u[i].at = "closure" => i < Len(u) /\ u[i + 1].at = "closed"
  <2>1. CASE i = 1
    BY <2>1, <1>1, <1>2
  <2>2. CASE i # 1
    <3> DEFINE j == i - 1
    <3>1. j \in DOMAIN st /\ i = j + 1
      BY <2>2, <1>1, <1>2
    <3>2. u[i] = st[j]
      BY <3>1, <1>1, <1>2
    <3>3. /\ FrameOK(st[j])
          /\ st[j].at = "main" <=> j = Len(st)
          /\ st[j].at = "closure" => j < Len(st) /\ st[j + 1].at = "closed"
      BY <3>1 DEF StackOK
    <3>4. j < Len(st) => u[i + 1] = st[j + 1]
      BY <3>1, <1>1, <1>2
    <3> HIDE DEF j
    <3> QED
      BY <3>1, <3>2, <3>3, <3>4, <1>1, <1>2
  <2> QED
    BY <2>1, <2>2
<1> QED
  BY <1>1, <1>3 DEF StackOK, u

\* A well-formed stack stays so when a function other than the program itself
\* returns.
LEMMA PopOK ==
    ASSUME NEW st \in Seq(Frame), StackOK(st), Head(st).at # "main"
    PROVE  /\ Tail(st) \in Seq(Frame)
           /\ StackOK(Tail(st))
           /\ Head(st) \in Frame /\ FrameOK(Head(st))
           /\ Head(st).at = "closure" => Head(Tail(st)).at = "closed"
<1> DEFINE u == Tail(st)
<1>1. /\ st # <<>> /\ u \in Seq(Frame) /\ Len(u) = Len(st) - 1 /\ Head(st) \in Frame
      /\ \A i \in 1 .. Len(u) : u[i] = st[i + 1]
  BY HeadTailProperties DEF StackOK
<1>2. Len(st) \in Nat /\ Len(st) >= 1 /\ DOMAIN st = 1 .. Len(st) /\ DOMAIN u = 1 .. Len(u)
  BY <1>1, EmptySeq, LenProperties
<1> HIDE DEF u
<1>3. Head(st) = st[1] /\ 1 \in DOMAIN st
  BY <1>1, <1>2
<1>4. Len(st) > 1
  BY <1>2, <1>3 DEF StackOK
<1>5. u # <<>> /\ Head(u) = st[2]
  BY <1>1, <1>2, <1>4
<1>6. ASSUME NEW i \in DOMAIN u
      PROVE  /\ FrameOK(u[i])
             /\ u[i].at = "main" <=> i = Len(u)
             /\ u[i].at = "closure" => i < Len(u) /\ u[i + 1].at = "closed"
  <2>1. i + 1 \in DOMAIN st /\ u[i] = st[i + 1]
    BY <1>1, <1>2
  <2>2. /\ FrameOK(st[i + 1])
        /\ st[i + 1].at = "main" <=> i + 1 = Len(st)
        /\ st[i + 1].at = "closure" => i + 1 < Len(st) /\ st[(i + 1) + 1].at = "closed"
    BY <2>1 DEF StackOK
  <2>3. i + 1 < Len(st) => u[i + 1] = st[(i + 1) + 1]
    BY <1>1, <1>2
  <2> QED
    BY <2>1, <2>2, <2>3, <1>1, <1>2
<1>7. FrameOK(Head(st)) /\ (Head(st).at = "closure" => st[2].at = "closed")
  BY <1>3 DEF StackOK
<1> QED
  BY <1>1, <1>5, <1>6, <1>7 DEF StackOK, u

\* An active response handler stays the one in charge unless a send starts to
\* wait above it, ...
LEMMA PushReading ==
    ASSUME NEW st \in Seq(Frame), NEW f \in Frame,
           f.at = "read" \/ (Reading(st) /\ f.at # "polled")
    PROVE  Reading(<<f>> \o st)
<1> DEFINE u == <<f>> \o st
<1>1. /\ u \in Seq(Frame) /\ Len(u) = Len(st) + 1 /\ u[1] = f
      /\ \A i \in 1 .. Len(st) : u[i + 1] = st[i]
  BY PushFrame
<1>2. Len(st) \in Nat /\ DOMAIN st = 1 .. Len(st) /\ DOMAIN u = 1 .. Len(u)
  BY <1>1, LenProperties
<1> HIDE DEF u
<1>3. CASE f.at = "read"
  <2>1. 1 \in DOMAIN u /\ u[1].at = "read"
    BY <1>1, <1>2, <1>3
  <2> QED
    BY <2>1 DEF Reading, u
<1>4. CASE Reading(st) /\ f.at # "polled"
  <2>1. PICK i \in DOMAIN st : st[i].at = "read" /\ \A j \in 1 .. (i - 1) : st[j].at # "polled"
    BY <1>4 DEF Reading
  <2>2. i + 1 \in DOMAIN u /\ u[i + 1].at = "read"
    BY <2>1, <1>1, <1>2
  <2>3. ASSUME NEW j \in 1 .. ((i + 1) - 1) PROVE u[j].at # "polled"
    <3>1. CASE j = 1
      BY <3>1, <1>1, <1>4
    <3>2. CASE j # 1
      <4>1. j - 1 \in 1 .. (i - 1) /\ j - 1 \in 1 .. Len(st) /\ (j - 1) + 1 = j
        BY <3>2, <1>2
      <4>2. u[j] = st[j - 1]
        BY <4>1, <1>1
      <4> QED
        BY <4>1, <4>2, <2>1
    <3> QED
      BY <3>1, <3>2
  <2> QED
    BY <2>2, <2>3 DEF Reading, u
<1> QED
  BY <1>3, <1>4

\* ... and when a function above it returns.
LEMMA PopReading ==
    ASSUME NEW st \in Seq(Frame), st # <<>>, Reading(st), Head(st).at # "read"
    PROVE  Reading(Tail(st)) /\ Head(st).at # "polled"
<1> DEFINE u == Tail(st)
<1>1. /\ u \in Seq(Frame) /\ Len(u) = Len(st) - 1
      /\ \A i \in 1 .. Len(u) : u[i] = st[i + 1]
  BY HeadTailProperties
<1>2. /\ Len(st) \in Nat /\ Len(st) >= 1 /\ DOMAIN st = 1 .. Len(st) /\ DOMAIN u = 1 .. Len(u)
      /\ Head(st) = st[1]
  BY <1>1, EmptySeq, LenProperties
<1> HIDE DEF u
<1>3. PICK i \in DOMAIN st : st[i].at = "read" /\ \A j \in 1 .. (i - 1) : st[j].at # "polled"
  BY DEF Reading
<1>4. i # 1
  BY <1>2, <1>3
<1>5. 1 \in 1 .. (i - 1)
  BY <1>2, <1>3, <1>4
<1>6. st[1].at # "polled"
  BY <1>3, <1>5
<1>7. i - 1 \in DOMAIN u /\ u[i - 1].at = "read"
  BY <1>1, <1>2, <1>3, <1>4
<1>8. ASSUME NEW j \in 1 .. ((i - 1) - 1) PROVE u[j].at # "polled"
  <2>1. j + 1 \in 1 .. (i - 1) /\ j \in 1 .. Len(u)
    BY <1>1, <1>2
  <2> QED
    BY <2>1, <1>1, <1>3
<1> QED
  BY <1>2, <1>6, <1>7, <1>8 DEF Reading, u

-----------------------------------------------------------------------------
(* Queue and handlers *)

DataTypeOK ==
    /\ mem \in [Slots -> Handler]
    /\ queue \in SUBSET Slots
    /\ multi \in [Slots -> {"none", "running", "done", "read"}]
    /\ unfinished \in Nat
    /\ refs \in [Requests -> Int]

DataOK ==
    /\ DataTypeOK
    /\ QueuedIsLive
    /\ UniqueInQueue
    /\ MessagesMatchQueue
    /\ UnfinishedCoversRunning

LEMMA RunningFinite ==
    ASSUME NEW S \in SUBSET Slots
    PROVE  IsFiniteSet(S) /\ Cardinality(S) \in Nat
BY SlotsAssumption, FS_Subset, FS_CardinalityType

\* Looking a queued request up finds the element of the queue that is for it.
LEMMA SlotOfQueued ==
    ASSUME NEW r, Enqueued(r)
    PROVE  SlotOf(r) \in queue /\ mem[SlotOf(r)].request = r
BY DEF Enqueued, SlotOf

\* Taking any set of queued slots out keeps queue, handlers and libcurl's
\* view of them consistent, and no running transfer escapes the count.
LEMMA RemoveOK ==
    ASSUME DataOK, NEW S \in SUBSET queue, Remove(S), unfinished' = unfinished
    PROVE  DataOK' /\ Pending' \subseteq Pending
<1> USE DEF DataOK, DataTypeOK
<1>1. DataTypeOK'
  <2>1. \A h \in Handler : [h EXCEPT !.live = FALSE] \in Handler
    BY DEF Handler
  <2>2. mem' \in [Slots -> Handler]
    BY <2>1 DEF Remove
  <2>3. queue' \in SUBSET Slots /\ unfinished' \in Nat
    BY DEF Remove
  <2>4. multi' \in [Slots -> {"none", "running", "done", "read"}]
    BY DEF Remove
  <2>5. refs' \in [Requests -> Int]
    BY DEF Remove
  <2> QED
    BY <2>2, <2>3, <2>4, <2>5
<1>2. \A s \in queue' : s \in queue /\ s \notin S /\ mem'[s] = mem[s] /\ multi'[s] = multi[s]
  BY DEF Remove
<1>3. QueuedIsLive' /\ UniqueInQueue'
  BY <1>2 DEF QueuedIsLive, UniqueInQueue
<1>4. MessagesMatchQueue'
  BY <1>2 DEF MessagesMatchQueue, Remove
<1>5. Running' \subseteq Running /\ Pending' \subseteq Pending
  BY DEF Running, Pending, Remove
<1>6. Cardinality(Running') <= Cardinality(Running)
  BY <1>5, RunningFinite, FS_Subset DEF Running
<1>7. UnfinishedCoversRunning'
  BY <1>6, RunningFinite, <1>1 DEF UnfinishedCoversRunning, Running
<1> QED
  BY <1>1, <1>3, <1>4, <1>5, <1>7
-----------------------------------------------------------------------------
(* Frames and the parts of the inductive invariant *)

\* A call stack that is well formed and, while the messages p are unread, has
\* a response handler in charge of them.
StackGood(st, p) ==
    /\ st \in Seq(Frame)
    /\ StackOK(st)
    /\ p # {} => Reading(st)

StackInv == StackGood(stack, Pending)

CountersOK == responses \in Seq(Requests) /\ enqueues \in Nat

LEMMA IInvParts == IInv <=> DataOK /\ StackInv /\ CountersOK
BY DEF IInv, TypeOK, DataOK, DataTypeOK, StackInv, StackGood, PendingMeansReading, CountersOK

LEMMA UserFrames ==
    ASSUME NEW where \in UserLabels
    PROVE  User(where) \in Frame /\ FrameOK(User(where)) /\ User(where).at = where
BY DEF User, Frame, FrameOK, UserLabels

LEMMA CodeFrames ==
    ASSUME NEW where \in {"exec", "once", "polled", "read"}
    PROVE  Code(where) \in Frame /\ FrameOK(Code(where)) /\ Code(where).at = where
BY DEF Code, Frame, FrameOK, CodeLabels

LEMMA RequestFrames ==
    ASSUME NEW r \in Requests, NEW closure \in BOOLEAN
    PROVE  /\ ForRequest("join", r, closure) \in Frame
           /\ FrameOK(ForRequest("join", r, closure))
           /\ ForRequest("join", r, closure).at = "join"
BY DEF ForRequest, Frame, FrameOK, CodeLabels

LEMMA SlotFrames ==
    ASSUME NEW s \in Slots, NEW where \in {"started", "closed", "progress"}
    PROVE  /\ ForSlot(where, s) \in Frame
           /\ FrameOK(ForSlot(where, s))
           /\ ForSlot(where, s).at = where
BY DEF ForSlot, Frame, FrameOK, CodeLabels

LEMMA TopFrame ==
    ASSUME StackInv
    PROVE  stack # <<>> /\ Top = stack[1] /\ Top \in Frame /\ FrameOK(Top)
<1>1. stack # <<>> /\ Len(stack) \in Nat \ {0} /\ DOMAIN stack = 1 .. Len(stack)
  BY EmptySeq, LenProperties DEF StackInv, StackGood, StackOK
<1>2. 1 \in DOMAIN stack /\ Top = stack[1]
  BY <1>1 DEF Top
<1>3. Top \in Frame
  BY <1>1, HeadTailProperties DEF StackInv, StackGood, Top
<1> QED
  BY <1>1, <1>2, <1>3 DEF StackInv, StackGood, StackOK

\* A function is called, or reads some of the messages p and goes on.
LEMMA PushGood ==
    ASSUME NEW st, NEW p, NEW q \in SUBSET p, StackGood(st, p),
           NEW f \in Frame, FrameOK(f), f.at # "main",
           f.at = "closure" => Head(st).at = "closed",
           f.at = "polled" => q = {}
    PROVE  StackGood(<<f>> \o st, q)
<1>1. st \in Seq(Frame) /\ StackOK(st) /\ st # <<>>
  BY DEF StackGood, StackOK
<1>2. Head(st) = st[1]
  BY <1>1
<1>3. <<f>> \o st \in Seq(Frame) /\ StackOK(<<f>> \o st)
  BY <1>1, <1>2, PushFrame, PushOK
<1>4. q # {} => Reading(<<f>> \o st)
  BY <1>1, PushReading DEF StackGood
<1> QED
  BY <1>3, <1>4 DEF StackGood

\* The response handler is called: it is in charge of whatever is unread.
LEMMA PushReader ==
    ASSUME NEW st, NEW p, NEW q, StackGood(st, p), NEW f \in Frame, f.at = "read"
    PROVE  StackGood(<<f>> \o st, q)
<1>1. st \in Seq(Frame) /\ StackOK(st)
  BY DEF StackGood
<1>2. FrameOK(f)
  BY DEF FrameOK
<1>3. <<f>> \o st \in Seq(Frame) /\ StackOK(<<f>> \o st)
  BY <1>1, <1>2, PushFrame, PushOK
<1> QED
  BY <1>1, <1>3, PushReading DEF StackGood

\* The running function returns, the response handler only after the last
\* message.
LEMMA PopGood ==
    ASSUME StackInv, Top.at # "main",
           NEW q \in SUBSET Pending, Top.at = "read" => q = {}
    PROVE  /\ StackGood(Callers, q)
           /\ Top.at = "closure" => Head(Callers).at = "closed"
           /\ Top.at = "polled" => Pending = {}
<1>1. stack \in Seq(Frame) /\ StackOK(stack) /\ stack # <<>>
  BY DEF StackInv, StackGood, StackOK
<1>2. /\ Callers \in Seq(Frame) /\ StackOK(Callers)
      /\ Top.at = "closure" => Head(Callers).at = "closed"
  BY <1>1, PopOK DEF Top, Callers
<1>3. Pending # {} => Reading(stack)
  BY DEF StackInv, StackGood
<1>4. Pending # {} /\ Top.at # "read" => Reading(Callers) /\ Top.at # "polled"
  BY <1>1, <1>3, PopReading DEF Top, Callers
<1> QED
  BY <1>2, <1>4 DEF StackGood

\* Two frames are pushed one after the other.
LEMMA PushTwo ==
    ASSUME NEW st \in Seq(Frame), NEW f \in Frame, NEW g \in Frame
    PROVE  <<f, g>> \o st = <<f>> \o (<<g>> \o st)
<1>1. <<f>> \in Seq(Frame) /\ <<g>> \in Seq(Frame)
  OBVIOUS
<1>2. <<f, g>> = <<f>> \o <<g>>
  <2> DEFINE u == <<f>> \o <<g>>
  <2>1. u \in Seq(Frame) /\ Len(u) = 2 /\ u[1] = f /\ u[2] = g
    BY <1>1, ConcatProperties
  <2>2. <<f, g>> \in Seq(Frame) /\ Len(<<f, g>>) = 2 /\ <<f, g>>[1] = f /\ <<f, g>>[2] = g
    OBVIOUS
  <2> HIDE DEF u
  <2>3. \A i \in 1 .. 2 : <<f, g>>[i] = u[i]
    BY <2>1, <2>2
  <2>4. <<f, g>> = u
    BY <2>1, <2>2, <2>3, SeqEqual
  <2> QED
    BY <2>4 DEF u
<1> QED
  BY <1>1, <1>2, ConcatAssociative

-----------------------------------------------------------------------------
(* Steps that leave the queue alone *)

DataSame == UNCHANGED <<mem, queue, multi, unfinished, refs>>

LEMMA DataSameOK ==
    ASSUME DataOK, DataSame
    PROVE  DataOK' /\ Pending' = Pending
BY DEF DataOK, DataTypeOK, DataSame, QueuedIsLive, UniqueInQueue, MessagesMatchQueue,
       UnfinishedCoversRunning, Running, Pending
\* A method entered by user code that may re-enter the client: getOptions runs
\* above the rest of the method.
LEMMA EnterOptions ==
    ASSUME StackInv, NEW q \in SUBSET Pending, NEW r \in Requests, NEW closure \in BOOLEAN
    PROVE  StackGood(<<User("getOptions"), ForRequest("join", r, closure)>> \o stack, q)
<1> DEFINE f == User("getOptions")
           g == ForRequest("join", r, closure)
<1>1. f \in Frame /\ FrameOK(f) /\ f.at = "getOptions"
  BY UserFrames DEF UserLabels
<1>2. g \in Frame /\ FrameOK(g) /\ g.at = "join"
  BY RequestFrames
<1> HIDE DEF f, g
<1>3. StackGood(<<g>> \o stack, q)
  BY <1>2, PushGood DEF StackInv
<1>4. StackGood(<<f>> \o (<<g>> \o stack), q)
  BY <1>1, <1>3, PushGood
<1>5. <<f, g>> \o stack = <<f>> \o (<<g>> \o stack)
  BY <1>1, <1>2, PushTwo DEF StackInv, StackGood
<1> QED
  BY <1>4, <1>5 DEF f, g

LEMMA CallEnqueueOK ==
    ASSUME IInv, NEW r \in Requests, NEW closure \in BOOLEAN, CallEnqueue(r, closure)
    PROVE  IInv'
<1>1. DataOK /\ StackInv /\ CountersOK
  BY IInvParts
<1>2. DataOK' /\ Pending' = Pending
  BY <1>1, DataSameOK DEF CallEnqueue, DataSame
<1>3. StackInv'
  BY <1>1, <1>2, EnterOptions DEF CallEnqueue, StackInv
<1>4. CountersOK'
  BY <1>1 DEF CallEnqueue, CountersOK
<1> QED
  BY <1>2, <1>3, <1>4, IInvParts, PTL

LEMMA CallRequeueOK ==
    ASSUME IInv, NEW r \in Requests, NEW closure \in BOOLEAN, CallRequeue(r, closure)
    PROVE  IInv'
<1>1. DataOK /\ StackInv /\ CountersOK
  BY IInvParts
<1>2. DataOK' /\ Pending' \subseteq Pending
  <2>1. CASE Enqueued(r)
    BY <2>1, <1>1, SlotOfQueued, RemoveOK DEF CallRequeue, Dequeue
  <2>2. CASE ~Enqueued(r)
    BY <2>2, <1>1, DataSameOK DEF CallRequeue, DataSame
  <2> QED
    BY <2>1, <2>2
<1>3. StackInv'
  BY <1>1, <1>2, EnterOptions DEF CallRequeue, StackInv
<1>4. CountersOK'
  BY <1>1 DEF CallRequeue, CountersOK
<1> QED
  BY <1>2, <1>3, <1>4, IInvParts, PTL
\* A method that returns at once leaves the call stack as it was.
LEMMA StayStep ==
    ASSUME StackInv, stack' = stack, Pending' \subseteq Pending
    PROVE  StackInv'
BY DEF StackInv, StackGood

LEMMA CallDequeueOK ==
    ASSUME IInv, NEW r \in Requests, CallDequeue(r)
    PROVE  IInv'
<1>1. DataOK /\ StackInv /\ CountersOK
  BY IInvParts
<1>2. DataOK' /\ Pending' \subseteq Pending
  BY <1>1, SlotOfQueued, RemoveOK DEF CallDequeue, Dequeue
<1>3. StackInv' /\ CountersOK'
  BY <1>1, <1>2, StayStep DEF CallDequeue, CountersOK
<1> QED
  BY <1>2, <1>3, IInvParts, PTL

LEMMA CallResetOK ==
    ASSUME IInv, CallReset
    PROVE  IInv'
<1>1. DataOK /\ StackInv /\ CountersOK
  BY IInvParts
<1>2. DataOK' /\ Pending' \subseteq Pending
  BY <1>1, RemoveOK DEF CallReset
<1>3. StackInv'
  BY <1>1, <1>2, StayStep DEF CallReset
<1>4. CountersOK'
  BY <1>1 DEF CallReset, CountersOK
<1> QED
  BY <1>2, <1>3, <1>4, IInvParts, PTL

LEMMA CallPopOK ==
    ASSUME IInv, CallPop
    PROVE  IInv'
<1>1. DataOK /\ StackInv /\ CountersOK
  BY IInvParts
<1>2. DataOK' /\ Pending' = Pending
  BY <1>1, DataSameOK DEF CallPop, DataSame
<1>3. StackInv'
  BY <1>1, <1>2, StayStep DEF CallPop
<1>4. responses' \in Seq(Requests)
  <2>1. responses \in Seq(Requests) /\ responses # <<>>
    BY <1>1 DEF CountersOK, CallPop
  <2>2. Len(responses) \in Nat /\ \A j \in 1 .. Len(responses) - 1 : responses[j] \in Requests
    BY <2>1, LenProperties, ElementOfSeq
  <2> QED
    BY <2>2, SubSeqProperties DEF CallPop
<1>5. CountersOK'
  BY <1>1, <1>4 DEF CallPop, CountersOK
<1> QED
  BY <1>2, <1>3, <1>5, IInvParts, PTL

\* send and once enter their loop.
LEMMA CallLoopOK ==
    ASSUME IInv, CallSend \/ CallOnce
    PROVE  IInv'
<1>1. DataOK /\ StackInv /\ CountersOK
  BY IInvParts
<1>2. DataOK' /\ Pending' = Pending
  BY <1>1, DataSameOK DEF CallSend, CallOnce, DataSame
<1>3. PICK where \in {"exec", "once"} : stack' = <<Code(where)>> \o stack
  BY DEF CallSend, CallOnce
<1>4. Code(where) \in Frame /\ FrameOK(Code(where)) /\ Code(where).at = where
  BY CodeFrames
<1>5. StackInv'
  BY <1>1, <1>2, <1>3, <1>4, PushGood DEF StackInv
<1>6. CountersOK'
  BY <1>1 DEF CallSend, CallOnce, CountersOK
<1> QED
  BY <1>2, <1>5, <1>6, IInvParts, PTL

\* Functions that only return: a callback, a refused enqueue, the end of the
\* messages, the end of send.
LEMMA ReturnOK ==
    ASSUME IInv,
           CallbackReturns \/ EnqueueRefused \/ ReadNothing \/ SendReturns \/ WaitFails
    PROVE  IInv'
<1>1. DataOK /\ StackInv /\ CountersOK
  BY IInvParts
<1>2. DataOK' /\ Pending' = Pending
  BY <1>1, DataSameOK
     DEF CallbackReturns, EnqueueRefused, ReadNothing, SendReturns, WaitFails, DataSame
<1>3. Top.at # "main" /\ (Top.at = "read" => Pending = {}) /\ stack' = Callers
  BY DEF CallbackReturns, EnqueueRefused, ReadNothing, SendReturns, WaitFails
<1>4. StackInv'
  BY <1>1, <1>2, <1>3, PopGood DEF StackInv
<1>5. CountersOK'
  BY <1>1 DEF CallbackReturns, EnqueueRefused, ReadNothing, SendReturns, WaitFails, CountersOK
<1> QED
  BY <1>2, <1>4, <1>5, IInvParts, PTL

\* The closure hands its result to the handle_response below it.
LEMMA ClosureReturnsOK ==
    ASSUME IInv, NEW result \in BOOLEAN, ClosureReturns(result)
    PROVE  IInv'
<1>1. DataOK /\ StackInv /\ CountersOK
  BY IInvParts
<1>2. DataOK' /\ Pending' = Pending
  BY <1>1, DataSameOK DEF ClosureReturns, DataSame
<1>3. StackGood(Callers, Pending) /\ Head(Callers).at = "closed"
  BY <1>1, PopGood DEF ClosureReturns
<1> DEFINE g == Head(Callers)
           f == [g EXCEPT !.flag = result]
<1>4. Callers \in Seq(Frame) /\ StackOK(Callers) /\ Callers # <<>>
  BY <1>3 DEF StackGood, StackOK
<1>5. g \in Frame /\ FrameOK(g) /\ Tail(Callers) \in Seq(Frame) /\ StackOK(Tail(Callers))
  BY <1>3, <1>4, PopOK
<1>6. f \in Frame /\ f.at = "closed" /\ f.slot = g.slot
  BY <1>3, <1>5 DEF Frame
<1>7. FrameOK(f)
  BY <1>3, <1>5, <1>6 DEF FrameOK
<1>8. StackGood(Tail(Callers), Pending)
  BY <1>3, <1>4, <1>5, PopReading DEF StackGood
<1> HIDE DEF f, g
<1>9. StackGood(<<f>> \o Tail(Callers), Pending)
  BY <1>6, <1>7, <1>8, PushGood
<1>10. StackInv'
  BY <1>2, <1>9 DEF StackInv, ClosureReturns, f, g
<1>11. CountersOK'
  BY <1>1 DEF ClosureReturns, CountersOK
<1> QED
  BY <1>2, <1>10, <1>11, IInvParts, PTL
-----------------------------------------------------------------------------
(* Steps of the C code *)

\* A fresh handler: its slot is in use by nothing else, its request not queued.
LEMMA EnqueueAddsOK ==
    ASSUME IInv, EnqueueAdds
    PROVE  IInv'
<1>1. DataOK /\ StackInv /\ CountersOK
  BY IInvParts
<1>2. PICK s \in Slots :
         /\ ~mem[s].live
         /\ mem' = [mem EXCEPT ![s] = NewHandler(Top.req, Top.flag)]
         /\ queue' = queue \cup {s}
         /\ multi' = [multi EXCEPT ![s] = "running"]
         /\ stack' = <<User("notify"), ForSlot("started", s)>> \o Callers
  BY DEF EnqueueAdds
<1> DEFINE h == NewHandler(Top.req, Top.flag)
<1>3. Top.at = "join" /\ Top.req \in Requests /\ Top.flag \in BOOLEAN
  BY <1>1, TopFrame DEF EnqueueAdds, FrameOK, Frame
<1>4. h \in Handler /\ h.live /\ h.request = Top.req /\ h.response
  BY <1>3 DEF NewHandler, Handler
<1> HIDE DEF h
<1>5. s \notin queue /\ multi[s] = "none"
  BY <1>1, <1>2 DEF DataOK, DataTypeOK, QueuedIsLive, MessagesMatchQueue
<1>6. /\ mem'[s] = h /\ multi'[s] = "running"
      /\ \A t \in Slots \ {s} : mem'[t] = mem[t] /\ multi'[t] = multi[t]
  BY <1>1, <1>2 DEF DataOK, DataTypeOK, h
<1>7. DataTypeOK'
  <2>1. mem' \in [Slots -> Handler]
    BY <1>1, <1>2, <1>4 DEF DataOK, DataTypeOK, h
  <2>2. multi' \in [Slots -> {"none", "running", "done", "read"}] /\ queue' \in SUBSET Slots
    BY <1>1, <1>2 DEF DataOK, DataTypeOK
  <2>3. unfinished' \in Nat /\ refs' \in [Requests -> Int]
    BY <1>1, <1>3 DEF DataOK, DataTypeOK, EnqueueAdds
  <2> QED
    BY <2>1, <2>2, <2>3 DEF DataTypeOK
<1>8. QueuedIsLive'
  BY <1>1, <1>2, <1>3, <1>4, <1>5, <1>6 DEF DataOK, DataTypeOK, QueuedIsLive
<1>9. UniqueInQueue'
  <2>1. \A t \in queue : mem[t].request # Top.req
    BY DEF EnqueueAdds, Enqueued
  <2>2. \A t \in queue : t # s /\ mem'[t] = mem[t]
    BY <1>1, <1>5, <1>6 DEF DataOK, DataTypeOK
  <2> QED
    BY <1>1, <1>2, <1>4, <1>6, <2>1, <2>2 DEF DataOK, UniqueInQueue
<1>10. MessagesMatchQueue'
  BY <1>1, <1>2, <1>4, <1>5, <1>6 DEF DataOK, DataTypeOK, MessagesMatchQueue
<1>11. Running' = Running \cup {s} /\ Pending' = Pending /\ s \notin Running
  BY <1>1, <1>2, <1>5, <1>6 DEF DataOK, DataTypeOK, Running, Pending
<1>12. UnfinishedCoversRunning'
  <2>1. IsFiniteSet(Running) /\ Cardinality(Running) \in Nat
    BY RunningFinite DEF Running
  <2>2. Cardinality(Running') = Cardinality(Running) + 1
    BY <1>11, <2>1, FS_AddElement
  <2> QED
    BY <1>1, <2>1, <2>2 DEF DataOK, DataTypeOK, UnfinishedCoversRunning, EnqueueAdds
<1>13. StackInv'
  <2> DEFINE f == User("notify")
             g == ForSlot("started", s)
  <2>1. f \in Frame /\ FrameOK(f) /\ f.at = "notify"
    BY UserFrames DEF UserLabels
  <2>2. g \in Frame /\ FrameOK(g) /\ g.at = "started"
    BY SlotFrames
  <2> HIDE DEF f, g
  <2>3. StackGood(Callers, Pending)
    BY <1>1, <1>3, PopGood
  <2>4. StackGood(<<f>> \o (<<g>> \o Callers), Pending)
    BY <2>1, <2>2, <2>3, PushGood
  <2>5. <<f, g>> \o Callers = <<f>> \o (<<g>> \o Callers)
    BY <2>1, <2>2, <2>3, PushTwo DEF StackGood
  <2> QED
    BY <1>2, <1>11, <2>4, <2>5 DEF StackInv, f, g
<1>14. CountersOK'
  BY <1>1 DEF EnqueueAdds, CountersOK
<1> QED
  BY <1>7, <1>8, <1>9, <1>10, <1>12, <1>13, <1>14, IInvParts, PTL DEF DataOK

\* A write to a slot that keeps what queue and libcurl depend on.
LEMMA TouchHandler ==
    ASSUME DataOK, NEW s \in Slots, NEW h \in Handler, mem' = [mem EXCEPT ![s] = h],
           s \in queue => /\ h.live = mem[s].live
                          /\ h.request = mem[s].request
                          /\ h.response = mem[s].response,
           UNCHANGED <<queue, multi, unfinished>>, refs' \in [Requests -> Int]
    PROVE  DataOK' /\ Pending' = Pending
<1>1. DataTypeOK'
  BY DEF DataOK, DataTypeOK
<1>2. \A t \in queue : /\ mem'[t].live = mem[t].live
                       /\ mem'[t].request = mem[t].request
                       /\ mem'[t].response = mem[t].response
  BY DEF DataOK, DataTypeOK
<1>3. QueuedIsLive' /\ UniqueInQueue' /\ MessagesMatchQueue'
  BY <1>2 DEF DataOK, QueuedIsLive, UniqueInQueue, MessagesMatchQueue
<1>4. UnfinishedCoversRunning' /\ Pending' = Pending
  BY DEF DataOK, UnfinishedCoversRunning, Running, Pending
<1> QED
  BY <1>1, <1>3, <1>4 DEF DataOK

LEMMA EnqueueAddFailsOK ==
    ASSUME IInv, EnqueueAddFails
    PROVE  IInv'
<1>1. DataOK /\ StackInv /\ CountersOK
  BY IInvParts
<1>2. PICK s \in Slots :
         ~mem[s].live /\ mem' = [mem EXCEPT ![s] = NewHandler(Top.req, Top.flag)]
  BY DEF EnqueueAddFails
<1>3. Top.at = "join" /\ Top.req \in Requests /\ Top.flag \in BOOLEAN
  BY <1>1, TopFrame DEF EnqueueAddFails, FrameOK, Frame
<1>4. NewHandler(Top.req, Top.flag) \in Handler
  BY <1>3 DEF NewHandler, Handler
<1>5. s \notin queue
  BY <1>1, <1>2 DEF DataOK, QueuedIsLive
<1>6. refs' \in [Requests -> Int]
  BY <1>1, <1>3 DEF EnqueueAddFails, DataOK, DataTypeOK
<1>7. DataOK' /\ Pending' = Pending
  BY <1>1, <1>2, <1>4, <1>5, <1>6, TouchHandler DEF EnqueueAddFails
<1>8. StackInv'
  BY <1>1, <1>3, <1>7, PopGood DEF EnqueueAddFails, StackInv
<1>9. CountersOK'
  BY <1>1 DEF EnqueueAddFails, CountersOK
<1> QED
  BY <1>7, <1>8, <1>9, IInvParts, PTL

LEMMA MarkStartedOK ==
    ASSUME IInv, MarkStarted
    PROVE  IInv'
<1>1. DataOK /\ StackInv /\ CountersOK
  BY IInvParts
<1> DEFINE s == Top.slot
           h == [mem[s] EXCEPT !.started = TRUE]
<1>2. Top.at = "started" /\ s \in Slots
  BY <1>1, TopFrame DEF MarkStarted, FrameOK
<1>3. /\ h \in Handler /\ h.live = mem[s].live
      /\ h.request = mem[s].request /\ h.response = mem[s].response
  BY <1>1, <1>2 DEF DataOK, DataTypeOK, Handler
<1>4. mem' = mem \/ mem' = [mem EXCEPT ![s] = h]
  BY DEF MarkStarted
<1> HIDE DEF s, h
<1>5. DataOK' /\ Pending' = Pending
  <2>1. CASE mem' = mem
    BY <2>1, <1>1, DataSameOK DEF MarkStarted, DataSame
  <2>2. CASE mem' = [mem EXCEPT ![s] = h]
    <3>1. refs' \in [Requests -> Int]
      BY <1>1 DEF MarkStarted, DataOK, DataTypeOK
    <3> QED
      BY <2>2, <3>1, <1>1, <1>2, <1>3, TouchHandler DEF MarkStarted
  <2> QED
    BY <1>4, <2>1, <2>2
<1>6. StackInv'
  BY <1>1, <1>2, <1>5, PopGood DEF MarkStarted, StackInv
<1>7. CountersOK'
  BY <1>1 DEF MarkStarted, CountersOK
<1> QED
  BY <1>5, <1>6, <1>7, IInvParts, PTL
\* libcurl moves transfers along and stores the count of those that still run.
LEMMA PerformOK ==
    ASSUME IInv, NEW D \in SUBSET Running, Perform(D)
    PROVE  IInv'
<1>1. DataOK /\ StackInv /\ CountersOK
  BY IInvParts
<1>2. D \subseteq Slots /\ \A s \in D : multi[s] = "running"
  BY DEF Running
<1>3. Running' = Running \ D
  BY <1>1, <1>2 DEF Perform, Running, DataOK, DataTypeOK
<1>4. Cardinality(Running \ D) \in Nat
  BY RunningFinite DEF Running
<1>5. DataTypeOK' /\ UnfinishedCoversRunning'
  <2>1. unfinished' = Cardinality(Running')
    BY <1>3 DEF Perform
  <2>2. unfinished' \in Nat
    BY <1>4 DEF Perform
  <2>3. multi' \in [Slots -> {"none", "running", "done", "read"}]
    BY <1>1 DEF Perform, DataOK, DataTypeOK
  <2> QED
    BY <1>1, <2>1, <2>2, <2>3 DEF Perform, DataOK, DataTypeOK, UnfinishedCoversRunning
<1>6. MessagesMatchQueue'
  <2>1. \A s \in Slots : multi'[s] = IF s \in D THEN "done" ELSE multi[s]
    BY DEF Perform
  <2> QED
    BY <1>1, <1>2, <2>1 DEF Perform, DataOK, DataTypeOK, MessagesMatchQueue
<1>7. QueuedIsLive' /\ UniqueInQueue'
  BY <1>1 DEF Perform, DataOK, QueuedIsLive, UniqueInQueue
<1>8. StackInv'
  <2> DEFINE f == Code("read")
             g == Code("polled")
  <2>1. f \in Frame /\ f.at = "read" /\ g \in Frame /\ FrameOK(g) /\ g.at = "polled"
    BY CodeFrames
  <2> HIDE DEF f, g
  <2>2. StackGood(Callers, {})
    BY <1>1, PopGood DEF Perform
  <2>3. StackGood(<<g>> \o Callers, {})
    BY <2>1, <2>2, PushGood
  <2>4. /\ StackGood(<<f>> \o Callers, Pending')
        /\ StackGood(<<f>> \o (<<g>> \o Callers), Pending')
    BY <2>1, <2>2, <2>3, PushReader
  <2>5. <<f, g>> \o Callers = <<f>> \o (<<g>> \o Callers)
    BY <2>1, <2>2, PushTwo DEF StackGood
  <2>6. stack' = <<f>> \o Callers \/ stack' = <<f, g>> \o Callers
    BY DEF Perform, f, g
  <2> QED
    BY <2>4, <2>5, <2>6 DEF StackInv
<1>9. CountersOK'
  BY <1>1 DEF Perform, CountersOK
<1> QED
  BY <1>5, <1>6, <1>7, <1>8, <1>9, IInvParts, PTL DEF DataOK

\* A DONE message is for a queued handler; reading it delivers the response.
LEMMA ReadMessageOK ==
    ASSUME IInv, NEW s \in Slots, ReadMessage(s)
    PROVE  IInv'
<1>1. DataOK /\ StackInv /\ CountersOK
  BY IInvParts
<1>2. s \in Pending /\ multi[s] = "done" /\ s \in queue
  BY <1>1 DEF ReadMessage, Pending, DataOK, DataTypeOK, MessagesMatchQueue
<1> DEFINE h == [mem[s] EXCEPT !.response = FALSE]
<1>3. /\ h \in Handler /\ h.live = mem[s].live /\ h.request = mem[s].request
      /\ ~h.response
  BY <1>1 DEF DataOK, DataTypeOK, Handler
<1>4. /\ mem' = [mem EXCEPT ![s] = h]
      /\ multi' = [multi EXCEPT ![s] = "read"]
      /\ UNCHANGED <<queue, unfinished, refs, enqueues>>
  BY <1>2 DEF ReadMessage
<1> HIDE DEF h
<1>5. /\ mem'[s] = h /\ multi'[s] = "read"
      /\ \A t \in Slots \ {s} : mem'[t] = mem[t] /\ multi'[t] = multi[t]
  BY <1>1, <1>4 DEF DataOK, DataTypeOK
<1>6. DataTypeOK'
  BY <1>1, <1>3, <1>4 DEF DataOK, DataTypeOK
<1>7. \A t \in queue : /\ t \in Slots
                       /\ mem'[t].live = mem[t].live
                       /\ mem'[t].request = mem[t].request
  BY <1>1, <1>3, <1>5 DEF DataOK, DataTypeOK
<1>8. QueuedIsLive' /\ UniqueInQueue'
  BY <1>1, <1>4, <1>7 DEF DataOK, QueuedIsLive, UniqueInQueue
<1>9. MessagesMatchQueue'
  BY <1>1, <1>2, <1>3, <1>4, <1>5 DEF DataOK, MessagesMatchQueue
<1>10. Running' = Running /\ Pending' = Pending \ {s}
  BY <1>1, <1>2, <1>5 DEF DataOK, DataTypeOK, Running, Pending
<1>11. UnfinishedCoversRunning'
  BY <1>1, <1>4, <1>10 DEF DataOK, UnfinishedCoversRunning
<1> DEFINE rest == IF Pending = {s} THEN Callers ELSE stack
<1>12. StackGood(rest, Pending')
  <2>1. CASE Pending = {s}
    BY <2>1, <1>1, <1>10, PopGood DEF ReadMessage
  <2>2. CASE Pending # {s}
    BY <2>2, <1>1, <1>10 DEF StackInv, StackGood
  <2> QED
    BY <2>1, <2>2
<1>13. stack' = <<User("closure"), ForSlot("closed", s)>> \o rest
       \/ stack' = <<ForSlot("progress", s)>> \o rest
  BY <1>2 DEF ReadMessage
<1> HIDE DEF rest
<1>14. StackInv'
  <2> DEFINE f == User("closure")
             g == ForSlot("closed", s)
             e == ForSlot("progress", s)
  <2>1. f \in Frame /\ FrameOK(f) /\ f.at = "closure"
    BY UserFrames DEF UserLabels
  <2>2. /\ g \in Frame /\ FrameOK(g) /\ g.at = "closed"
        /\ e \in Frame /\ FrameOK(e) /\ e.at = "progress"
    BY SlotFrames
  <2> HIDE DEF e, f, g
  <2>3. StackGood(<<e>> \o rest, Pending') /\ StackGood(<<g>> \o rest, Pending')
    BY <2>2, <1>12, PushGood
  <2>4. rest \in Seq(Frame)
    BY <1>12 DEF StackGood
  <2>5. Head(<<g>> \o rest).at = "closed"
    BY <2>2, <2>4, PushFrame
  <2>6. StackGood(<<f>> \o (<<g>> \o rest), Pending')
    BY <2>1, <2>3, <2>5, PushGood
  <2>7. <<f, g>> \o rest = <<f>> \o (<<g>> \o rest)
    BY <2>1, <2>2, <2>4, PushTwo
  <2> QED
    BY <1>13, <2>3, <2>6, <2>7 DEF StackInv, e, f, g
<1>15. responses' \in Seq(Requests)
  <2>1. mem[s].request \in Requests
    BY <1>1, <1>2 DEF DataOK, QueuedIsLive
  <2>2. responses' = responses \/ responses' = Append(responses, mem[s].request)
    BY <1>2 DEF ReadMessage
  <2>3. responses \in Seq(Requests)
    BY <1>1 DEF CountersOK
  <2> QED
    BY <2>1, <2>2, <2>3, AppendProperties
<1>16. CountersOK'
  BY <1>1, <1>4, <1>15 DEF CountersOK
<1> QED
  BY <1>6, <1>8, <1>9, <1>11, <1>14, <1>16, IInvParts, PTL DEF DataOK

LEMMA ClosureDoneOK ==
    ASSUME IInv, ClosureDone
    PROVE  IInv'
<1>1. DataOK /\ StackInv /\ CountersOK
  BY IInvParts
<1>2. Top.at = "closed" /\ Top.slot \in Slots
  BY <1>1, TopFrame DEF ClosureDone, FrameOK
<1>3. DataOK' /\ Pending' \subseteq Pending
  <2>1. CASE \E r : Enqueued(r) /\ Dequeue(r)
    BY <2>1, <1>1, SlotOfQueued, RemoveOK DEF ClosureDone, Dequeue
  <2>2. CASE UNCHANGED <<mem, queue, multi, refs>>
    BY <2>2, <1>1, DataSameOK DEF ClosureDone, DataSame
  <2> QED
    BY <2>1, <2>2 DEF ClosureDone
<1>4. StackInv'
  <2> DEFINE f == ForSlot("progress", Top.slot)
  <2>1. f \in Frame /\ FrameOK(f) /\ f.at = "progress"
    BY <1>2, SlotFrames
  <2> HIDE DEF f
  <2>2. StackGood(Callers, Pending')
    BY <1>1, <1>2, <1>3, PopGood
  <2>3. StackGood(<<f>> \o Callers, Pending')
    BY <2>1, <2>2, PushGood
  <2> QED
    BY <2>3 DEF StackInv, ClosureDone, f
<1>5. CountersOK'
  BY <1>1 DEF ClosureDone, CountersOK
<1> QED
  BY <1>3, <1>4, <1>5, IInvParts, PTL

LEMMA MarkFinishedOK ==
    ASSUME IInv, MarkFinished
    PROVE  IInv'
<1>1. DataOK /\ StackInv /\ CountersOK
  BY IInvParts
<1>2. DataOK' /\ Pending' = Pending
  <2>1. CASE mem' = mem
    BY <2>1, <1>1, DataSameOK DEF MarkFinished, DataSame
  <2>2. CASE mem' # mem
    <3>1. PICK r : Enqueued(r) /\ mem' = [mem EXCEPT ![SlotOf(r)].finished = TRUE]
      BY <2>2 DEF MarkFinished
    <3> DEFINE s == SlotOf(r)
               h == [mem[s] EXCEPT !.finished = TRUE]
    <3>2. s \in Slots
      BY <3>1, <1>1, SlotOfQueued DEF DataOK, DataTypeOK
    <3>3. /\ h \in Handler /\ h.live = mem[s].live
          /\ h.request = mem[s].request /\ h.response = mem[s].response
      BY <1>1, <3>2 DEF DataOK, DataTypeOK, Handler
    <3>4. mem' = [mem EXCEPT ![s] = h]
      BY <3>1
    <3>5. refs' \in [Requests -> Int]
      BY <1>1 DEF MarkFinished, DataOK, DataTypeOK
    <3> HIDE DEF s, h
    <3> QED
      BY <1>1, <3>2, <3>3, <3>4, <3>5, TouchHandler DEF MarkFinished
  <2> QED
    BY <2>1, <2>2
<1>3. StackInv'
  <2> DEFINE f == User("notify")
  <2>1. f \in Frame /\ FrameOK(f) /\ f.at = "notify"
    BY UserFrames DEF UserLabels
  <2> HIDE DEF f
  <2>2. StackGood(Callers, Pending)
    BY <1>1, PopGood DEF MarkFinished
  <2>3. StackGood(<<f>> \o Callers, Pending)
    BY <2>1, <2>2, PushGood
  <2>4. stack' = <<f>> \o Callers \/ stack' = Callers
    BY DEF MarkFinished, f
  <2> QED
    BY <1>2, <2>2, <2>3, <2>4 DEF StackInv
<1>4. CountersOK'
  BY <1>1 DEF MarkFinished, CountersOK
<1> QED
  BY <1>2, <1>3, <1>4, IInvParts, PTL

LEMMA WaitSucceedsOK ==
    ASSUME IInv, WaitSucceeds
    PROVE  IInv'
<1>1. DataOK /\ StackInv /\ CountersOK
  BY IInvParts
<1>2. DataOK' /\ Pending' = Pending
  BY <1>1, DataSameOK DEF WaitSucceeds, DataSame
<1>3. StackGood(Callers, Pending)
  BY <1>1, PopGood DEF WaitSucceeds
<1>4. Code("exec") \in Frame /\ FrameOK(Code("exec")) /\ Code("exec").at = "exec"
  BY CodeFrames
<1>5. StackInv'
  BY <1>2, <1>3, <1>4, PushGood DEF WaitSucceeds, StackInv
<1>6. CountersOK'
  BY <1>1 DEF WaitSucceeds, CountersOK
<1> QED
  BY <1>2, <1>5, <1>6, IInvParts, PTL
-----------------------------------------------------------------------------
(* Theorems *)

LEMMA InitOK == Init => IInv
<1> SUFFICES ASSUME Init PROVE IInv
  OBVIOUS
<1>1. DataTypeOK /\ CountersOK
  BY DEF Init, DataTypeOK, CountersOK, EmptySlot, Handler
<1>2. Running = {} /\ Pending = {}
  BY DEF Init, Running, Pending
<1>3. QueuedIsLive /\ UniqueInQueue /\ MessagesMatchQueue
  BY DEF Init, QueuedIsLive, UniqueInQueue, MessagesMatchQueue
<1>4. UnfinishedCoversRunning
  BY <1>2, FS_EmptySet DEF Init, UnfinishedCoversRunning
<1>5. StackInv
  <2>1. User("main") \in Frame /\ FrameOK(User("main")) /\ User("main").at = "main"
    BY UserFrames DEF UserLabels
  <2>2. stack \in Seq(Frame) /\ Len(stack) = 1 /\ stack[1] = User("main")
    BY <2>1 DEF Init
  <2>3. DOMAIN stack = {1} /\ stack # <<>>
    BY <2>2, LenProperties, EmptySeq, SMTT(30)
  <2>4. StackOK(stack)
    BY <2>1, <2>2, <2>3 DEF StackOK
  <2> QED
    BY <1>2, <2>2, <2>4 DEF StackInv, StackGood
<1> QED
  BY <1>1, <1>3, <1>4, <1>5, IInvParts DEF DataOK

LEMMA NextOK == IInv /\ [Next]_vars => IInv'
<1> SUFFICES ASSUME IInv, [Next]_vars PROVE IInv'
  OBVIOUS
<1>1. CASE UserCalls
  BY <1>1, CallEnqueueOK, CallRequeueOK, CallDequeueOK, CallResetOK, CallPopOK, CallLoopOK
     DEF UserCalls
<1>2. CASE UserReturns
  BY <1>2, ReturnOK, ClosureReturnsOK DEF UserReturns
<1>3. CASE Code_enqueue
  BY <1>3, ReturnOK, EnqueueAddsOK, EnqueueAddFailsOK, MarkStartedOK DEF Code_enqueue
<1>4. CASE Code_respond
  BY <1>4, ReturnOK, ReadMessageOK, ClosureDoneOK, MarkFinishedOK DEF Code_respond
<1>5. CASE Code_send
  BY <1>5, ReturnOK, PerformOK, WaitSucceedsOK DEF Code_send
<1>6. CASE UNCHANGED vars
  <2>1. DataOK /\ StackInv /\ CountersOK
    BY IInvParts
  <2>2. DataOK' /\ Pending' = Pending
    BY <2>1, <1>6, DataSameOK DEF vars, DataSame
  <2>3. StackInv' /\ CountersOK'
    BY <2>1, <2>2, <1>6, StayStep DEF vars, CountersOK
  <2> QED
    BY <2>2, <2>3, IInvParts, PTL
<1> QED
  BY <1>1, <1>2, <1>3, <1>4, <1>5, <1>6 DEF Next, CodeStep

\* The inductive invariant holds in every reachable state, whatever user code
\* does inside its callbacks.
THEOREM ClientInvariant == Spec => []IInv
BY InitOK, NextOK, PTL DEF Spec

\* Type correctness.
THEOREM ClientTypeOK == Spec => []TypeOK
<1>1. IInv => TypeOK
  BY DEF IInv
<1> QED
  BY <1>1, ClientInvariant, PTL

\* No request is in the queue twice.
THEOREM ClientUniqueInQueue == Spec => []UniqueInQueue
<1>1. IInv => UniqueInQueue
  BY DEF IInv
<1> QED
  BY <1>1, ClientInvariant, PTL

\* libcurl and the queue agree, and every message finds an unanswered handler.
THEOREM ClientMessagesMatchQueue == Spec => []MessagesMatchQueue
<1>1. IInv => MessagesMatchQueue
  BY DEF IInv
<1> QED
  BY <1>1, ClientInvariant, PTL

\* Both: queue and multi handle stay consistent.
THEOREM ClientQueueConsistent == Spec => []QueueConsistent
<1>1. UniqueInQueue /\ MessagesMatchQueue => QueueConsistent
  BY DEF QueueConsistent
<1> QED
  BY <1>1, ClientUniqueInQueue, ClientMessagesMatchQueue, PTL

\* A successful send left no queued request unanswered: nothing is pending when
\* it is about to return, because its own response handler ran to the end, and
\* nothing is running, because the count covers what callbacks queued.
THEOREM ClientSendAnswersAll == Spec => []SendAnswersAll
<1>1. ASSUME IInv PROVE SendAnswersAll
  <2> SUFFICES ASSUME Top.at = "polled", unfinished = 0, NEW s \in queue
               PROVE  multi[s] = "read"
    BY DEF SendAnswersAll
  <2>1. DataOK /\ StackInv
    BY <1>1, IInvParts
  <2>2. Pending = {}
    BY <2>1, PopGood
  <2>3. Running = {}
    <3>1. IsFiniteSet(Running) /\ Cardinality(Running) \in Nat
      BY RunningFinite DEF Running
    <3>2. Cardinality(Running) = 0
      BY <2>1, <3>1 DEF DataOK, UnfinishedCoversRunning
    <3> QED
      BY <3>1, <3>2, FS_EmptySet
  <2>4. s \in Slots /\ multi[s] # "none"
    BY <2>1 DEF DataOK, DataTypeOK, MessagesMatchQueue
  <2> QED
    BY <2>1, <2>2, <2>3, <2>4 DEF Pending, Running, DataOK, DataTypeOK
<1> QED
  BY <1>1, ClientInvariant, PTL
-----------------------------------------------------------------------------
(* References of the request objects *)

LEMMA HoldersFinite ==
    ASSUME NEW r
    PROVE  IsFiniteSet(Holders(r)) /\ Cardinality(Holders(r)) \in Nat
BY RunningFinite DEF Holders

\* Taking slots out of the queue gives exactly their references back: by
\* UniqueInQueue at most one of them is for any request.
LEMMA RemoveRefs ==
    ASSUME DataOK, RefsHeldByHandlers, NEW S \in SUBSET queue, Remove(S)
    PROVE  RefsHeldByHandlers'
<1> SUFFICES ASSUME NEW r \in Requests
             PROVE  refs'[r] = Cardinality(Holders(r)')
  BY DEF RefsHeldByHandlers
<1>1. \A s \in Slots : /\ mem'[s].live <=> mem[s].live /\ s \notin S
                       /\ mem'[s].request = mem[s].request
  BY DEF Remove, DataOK, DataTypeOK, Handler
<1>2. \A s \in S : s \in Slots /\ s \in queue /\ mem[s].live
  BY DEF DataOK, DataTypeOK, QueuedIsLive
<1>3. refs[r] = Cardinality(Holders(r))
  BY DEF RefsHeldByHandlers
<1>4. CASE \E s \in S : mem[s].request = r
  <2>1. PICK s \in S : mem[s].request = r
    BY <1>4
  <2>2. \A t \in S : mem[t].request = r => t = s
    BY <2>1, <1>2 DEF DataOK, UniqueInQueue
  <2>3. Holders(r)' = Holders(r) \ {s} /\ s \in Holders(r)
    BY <1>1, <1>2, <2>1, <2>2 DEF Holders
  <2>4. Cardinality(Holders(r)') = Cardinality(Holders(r)) - 1
    BY <2>3, HoldersFinite, FS_RemoveElement
  <2> QED
    BY <1>3, <1>4, <2>4 DEF Remove
<1>5. CASE ~ \E s \in S : mem[s].request = r
  <2>1. Holders(r)' = Holders(r)
    BY <1>1, <1>5 DEF Holders
  <2> QED
    BY <1>3, <1>5, <2>1 DEF Remove
<1> QED
  BY <1>4, <1>5

\* A new handler takes one reference of its request.
LEMMA NewHandlerRefs ==
    ASSUME DataOK, RefsHeldByHandlers, NEW s \in Slots, ~mem[s].live,
           NEW r \in Requests, NEW closure \in BOOLEAN,
           mem' = [mem EXCEPT ![s] = NewHandler(r, closure)],
           refs' = [refs EXCEPT ![r] = @ + 1]
    PROVE  RefsHeldByHandlers'
<1> DEFINE h == NewHandler(r, closure)
<1>1. h.live /\ h.request = r
  BY DEF NewHandler
<1> HIDE DEF h
<1>2. mem'[s] = h /\ \A t \in Slots \ {s} : mem'[t] = mem[t]
  BY DEF DataOK, DataTypeOK, h
<1>3. Holders(r)' = Holders(r) \cup {s} /\ s \notin Holders(r)
  BY <1>1, <1>2 DEF Holders
<1>4. \A q \in Requests \ {r} : Holders(q)' = Holders(q)
  BY <1>1, <1>2 DEF Holders
<1>5. Cardinality(Holders(r)') = Cardinality(Holders(r)) + 1
  BY <1>3, HoldersFinite, FS_AddElement
<1>6. refs'[r] = refs[r] + 1 /\ \A q \in Requests \ {r} : refs'[q] = refs[q]
  BY DEF DataOK, DataTypeOK
<1> QED
  BY <1>4, <1>5, <1>6 DEF RefsHeldByHandlers

\* Steps that neither create nor free a handler.
LEMMA SameHolders ==
    ASSUME RefsHeldByHandlers, refs' = refs,
           \A s \in Slots : mem'[s].live = mem[s].live /\ mem'[s].request = mem[s].request
    PROVE  RefsHeldByHandlers'
<1>1. \A r \in Requests : Holders(r)' = Holders(r)
  BY DEF Holders
<1> QED
  BY <1>1 DEF RefsHeldByHandlers

LEMMA TouchRefs ==
    ASSUME DataOK, RefsHeldByHandlers, refs' = refs, NEW s \in Slots, NEW h,
           h.live = mem[s].live, h.request = mem[s].request, mem' = [mem EXCEPT ![s] = h]
    PROVE  RefsHeldByHandlers'
<1>1. \A t \in Slots : mem'[t].live = mem[t].live /\ mem'[t].request = mem[t].request
  BY DEF DataOK, DataTypeOK
<1> QED
  BY <1>1, SameHolders

LEMMA RefsNext == IInv /\ RefsHeldByHandlers /\ [Next]_vars => RefsHeldByHandlers'
<1> SUFFICES ASSUME IInv, RefsHeldByHandlers, [Next]_vars PROVE RefsHeldByHandlers'
  OBVIOUS
<1>1. DataOK /\ StackInv
  BY IInvParts
<1>2. CASE mem' = mem /\ refs' = refs
  BY <1>2, SameHolders
<1>3. CASE \E S \in SUBSET queue : Remove(S)
  BY <1>1, <1>3, RemoveRefs
<1>4. CASE EnqueueAdds \/ EnqueueAddFails
  <2>1. Top.at = "join" /\ Top.req \in Requests /\ Top.flag \in BOOLEAN
    BY <1>1, <1>4, TopFrame DEF EnqueueAdds, EnqueueAddFails, FrameOK, Frame
  <2>2. PICK s \in Slots :
           ~mem[s].live /\ mem' = [mem EXCEPT ![s] = NewHandler(Top.req, Top.flag)]
    BY <1>4 DEF EnqueueAdds, EnqueueAddFails
  <2>3. refs' = [refs EXCEPT ![Top.req] = @ + 1]
    BY <1>4 DEF EnqueueAdds, EnqueueAddFails
  <2> QED
    BY <1>1, <2>1, <2>2, <2>3, NewHandlerRefs
<1>5. CASE MarkStarted \/ MarkFinished \/ \E s \in Slots : ReadMessage(s)
  <2>1. refs' = refs
    BY <1>5 DEF MarkStarted, MarkFinished, ReadMessage
  <2>2. CASE MarkStarted
    <3> DEFINE s == Top.slot
               h == [mem[s] EXCEPT !.started = TRUE]
    <3>1. s \in Slots
      BY <1>1, <2>2, TopFrame DEF MarkStarted, FrameOK
    <3>2. h.live = mem[s].live /\ h.request = mem[s].request
      BY <1>1, <3>1 DEF DataOK, DataTypeOK, Handler
    <3>3. mem' = mem \/ mem' = [mem EXCEPT ![s] = h]
      BY <2>2 DEF MarkStarted
    <3> HIDE DEF s, h
    <3> QED
      BY <1>1, <1>2, <2>1, <3>1, <3>2, <3>3, TouchRefs
  <2>3. CASE MarkFinished /\ mem' # mem
    <3>1. PICK r : Enqueued(r) /\ mem' = [mem EXCEPT ![SlotOf(r)].finished = TRUE]
      BY <2>3 DEF MarkFinished
    <3> DEFINE s == SlotOf(r)
               h == [mem[s] EXCEPT !.finished = TRUE]
    <3>2. s \in Slots
      BY <3>1, <1>1, SlotOfQueued DEF DataOK, DataTypeOK
    <3>3. h.live = mem[s].live /\ h.request = mem[s].request
      BY <1>1, <3>2 DEF DataOK, DataTypeOK, Handler
    <3>4. mem' = [mem EXCEPT ![s] = h]
      BY <3>1
    <3> HIDE DEF s, h
    <3> QED
      BY <1>1, <2>1, <3>2, <3>3, <3>4, TouchRefs
  <2>4. CASE \E s \in Slots : ReadMessage(s)
    <3>1. PICK s \in Slots : ReadMessage(s)
      BY <2>4
    <3> DEFINE h == [mem[s] EXCEPT !.response = FALSE]
    <3>2. h.live = mem[s].live /\ h.request = mem[s].request
      BY <1>1 DEF DataOK, DataTypeOK, Handler
    <3>3. mem' = mem \/ mem' = [mem EXCEPT ![s] = h]
      BY <3>1 DEF ReadMessage
    <3> HIDE DEF h
    <3> QED
      BY <1>1, <1>2, <2>1, <3>2, <3>3, TouchRefs
  <2> QED
    BY <1>2, <1>5, <2>1, <2>2, <2>3, <2>4
<1>6. CASE UserCalls
  <2>1. (\E S \in SUBSET queue : Remove(S)) \/ (mem' = mem /\ refs' = refs)
    BY <1>6, SlotOfQueued
       DEF UserCalls, CallEnqueue, CallRequeue, CallDequeue, CallReset, CallPop, CallSend,
           CallOnce, Dequeue
  <2> QED
    BY <2>1, <1>2, <1>3
<1>7. CASE ClosureDone
  <2>1. (\E S \in SUBSET queue : Remove(S)) \/ (mem' = mem /\ refs' = refs)
    BY <1>7, SlotOfQueued DEF ClosureDone, Dequeue
  <2> QED
    BY <2>1, <1>2, <1>3
<1>8. CASE UserReturns \/ EnqueueRefused \/ ReadNothing \/ Code_send \/ UNCHANGED vars
  BY <1>8, <1>2
     DEF UserReturns, CallbackReturns, ClosureReturns, EnqueueRefused, ReadNothing, Code_send,
         Perform, SendReturns, WaitSucceeds, WaitFails, vars
<1> QED
  BY <1>4, <1>5, <1>6, <1>7, <1>8 DEF Next, CodeStep, Code_enqueue, Code_respond

\* The queue never loses or doubles a reference of a request object.
THEOREM ClientRefsHeldByHandlers == Spec => []RefsHeldByHandlers
<1>1. Init => RefsHeldByHandlers
  <2> SUFFICES ASSUME Init, NEW r \in Requests PROVE refs[r] = Cardinality(Holders(r))
    BY DEF RefsHeldByHandlers
  <2>1. Holders(r) = {} /\ refs[r] = 0
    BY DEF Init, Holders, EmptySlot
  <2> QED
    BY <2>1, FS_EmptySet
<1> QED
  BY <1>1, RefsNext, ClientInvariant, PTL DEF Spec
-----------------------------------------------------------------------------
(* Progress is marked finished only for answered requests, unless callbacks *)
(* take requests out of the queue                                           *)

Answered == {s \in queue : multi[s] = "read"}

\* The frames of handle_response after it delivered a response.
Handling(f) == f.at \in {"closed", "progress"}

\* The handlers in A are answered; each activation of handle_response goes on
\* with one of them, and no two with the same.
HandlersWait(st, A) ==
    /\ \A i \in DOMAIN st : Handling(st[i]) => st[i].slot \in A
    /\ \A i, j \in DOMAIN st :
         Handling(st[i]) /\ Handling(st[j]) /\ st[i].slot = st[j].slot => i = j

\* The running handle_response just dequeued its own request, as the closure
\* asked: there is no progress left to mark.
HandlerGone ==
    /\ Top.at = "progress"
    /\ HandlersWait(Callers, Answered)
    /\ \A r \in Readable(Top.slot) : ~Enqueued(r)

FInv == /\ FinishedMeansAnswered
        /\ HandlersWait(stack, Answered) \/ HandlerGone

\* handle_response goes on with a handler no other activation has; other
\* functions are called freely.
LEMMA PushWait ==
    ASSUME NEW st \in Seq(Frame), NEW A, NEW B, HandlersWait(st, A), A \subseteq B,
           NEW f \in Frame, Handling(f) => f.slot \in B \ A
    PROVE  HandlersWait(<<f>> \o st, B)
<1> DEFINE u == <<f>> \o st
<1>1. /\ u \in Seq(Frame) /\ Len(u) = Len(st) + 1 /\ u[1] = f
      /\ \A i \in 1 .. Len(st) : u[i + 1] = st[i]
  BY PushFrame
<1>2. Len(st) \in Nat /\ DOMAIN st = 1 .. Len(st) /\ DOMAIN u = 1 .. Len(u)
  BY <1>1, LenProperties
<1> HIDE DEF u
<1>3. ASSUME NEW i \in DOMAIN u, i # 1
      PROVE  i - 1 \in DOMAIN st /\ u[i] = st[i - 1]
  BY <1>1, <1>2, <1>3
<1>4. ASSUME NEW i \in DOMAIN u, Handling(u[i])
      PROVE  u[i].slot \in IF i = 1 THEN B \ A ELSE A
  BY <1>1, <1>3, <1>4 DEF HandlersWait
<1>5. ASSUME NEW i \in DOMAIN u, NEW j \in DOMAIN u, Handling(u[i]), Handling(u[j]),
             u[i].slot = u[j].slot
      PROVE  i = j
  <2>1. i = 1 <=> j = 1
    BY <1>4, <1>5
  <2>2. CASE i # 1
    <3>1. /\ i - 1 \in DOMAIN st /\ u[i] = st[i - 1]
          /\ j - 1 \in DOMAIN st /\ u[j] = st[j - 1]
      BY <1>3, <2>1, <2>2
    <3>2. i - 1 = j - 1
      BY <3>1, <1>5 DEF HandlersWait
    <3> QED
      BY <3>2, <1>2
  <2> QED
    BY <2>1, <2>2
<1>6. HandlersWait(u, B)
  BY <1>4, <1>5 DEF HandlersWait
<1> QED
  BY <1>6 DEF u

\* The function on top returns: its handler is nobody else's.
LEMMA PopWait ==
    ASSUME NEW st \in Seq(Frame), st # <<>>, NEW A, HandlersWait(st, A)
    PROVE  /\ HandlersWait(Tail(st), A)
           /\ Handling(Head(st)) => /\ Head(st).slot \in A
                                    /\ HandlersWait(Tail(st), A \ {Head(st).slot})
<1> DEFINE u == Tail(st)
<1>1. /\ u \in Seq(Frame) /\ Len(u) = Len(st) - 1
      /\ \A i \in 1 .. Len(u) : u[i] = st[i + 1]
  BY HeadTailProperties
<1>2. /\ Len(st) \in Nat /\ Len(st) >= 1 /\ DOMAIN st = 1 .. Len(st) /\ DOMAIN u = 1 .. Len(u)
      /\ Head(st) = st[1]
  BY <1>1, EmptySeq, LenProperties
<1> HIDE DEF u
<1>3. \A i \in DOMAIN u : i + 1 \in DOMAIN st /\ u[i] = st[i + 1] /\ i + 1 # 1
  BY <1>1, <1>2
<1>4. 1 \in DOMAIN st
  BY <1>2
<1>5. HandlersWait(u, A)
  <2>1. ASSUME NEW i \in DOMAIN u, NEW j \in DOMAIN u, i + 1 = j + 1
        PROVE  i = j
    BY <1>2, <2>1
  <2> QED
    BY <1>3, <2>1 DEF HandlersWait
<1>6. ASSUME Handling(Head(st))
      PROVE  /\ Head(st).slot \in A
             /\ \A i \in DOMAIN u : Handling(u[i]) => u[i].slot # Head(st).slot
  BY <1>2, <1>3, <1>4, <1>6 DEF HandlersWait
<1>7. Handling(Head(st)) => HandlersWait(u, A \ {Head(st).slot})
  BY <1>5, <1>6 DEF HandlersWait
<1> QED
  BY <1>5, <1>6, <1>7 DEF u

LEMMA MoreWait ==
    ASSUME NEW st, NEW A, NEW B, HandlersWait(st, A), A \subseteq B
    PROVE  HandlersWait(st, B)
BY DEF HandlersWait

\* When the program itself runs, no handle_response does.
LEMMA MainWait ==
    ASSUME StackInv, Top.at = "main", NEW A
    PROVE  HandlersWait(stack, A)
<1>1. stack # <<>> /\ Top = stack[1] /\ StackOK(stack) /\ stack \in Seq(Frame)
  BY TopFrame DEF StackInv, StackGood
<1>2. Len(stack) \in Nat \ {0} /\ DOMAIN stack = 1 .. Len(stack)
  BY <1>1, EmptySeq, LenProperties
<1>3. DOMAIN stack = {1}
  BY <1>1, <1>2 DEF StackOK
<1> QED
  BY <1>1, <1>3 DEF HandlersWait, Handling

\* Progress stays right where no handler's progress or answer changes.
LEMMA FinishedKept ==
    ASSUME FinishedMeansAnswered,
           \A s \in queue' : /\ s \in queue
                             /\ mem'[s].finished = mem[s].finished
                             /\ multi'[s] = multi[s]
    PROVE  FinishedMeansAnswered'
BY DEF FinishedMeansAnswered

LEMMA RemoveFinished ==
    ASSUME DataOK, FinishedMeansAnswered, NEW S \in SUBSET queue, Remove(S)
    PROVE  FinishedMeansAnswered' /\ Answered' = Answered \ S
<1>1. queue' = queue \ S /\ \A s \in queue' : mem'[s] = mem[s] /\ multi'[s] = multi[s]
  BY DEF Remove, DataOK, DataTypeOK
<1>2. FinishedMeansAnswered'
  BY <1>1, FinishedKept
<1> QED
  BY <1>1, <1>2 DEF Answered

\* A function that is no handle_response calls one or two others of the kind.
LEMMA PushQuiet ==
    ASSUME NEW st \in Seq(Frame), NEW A, HandlersWait(st, A),
           NEW f \in Frame, ~Handling(f), NEW g \in Frame, ~Handling(g)
    PROVE  HandlersWait(<<f>> \o st, A) /\ HandlersWait(<<f, g>> \o st, A)
<1>1. HandlersWait(<<f>> \o st, A) /\ HandlersWait(<<g>> \o st, A)
  BY PushWait
<1>2. <<g>> \o st \in Seq(Frame)
  BY PushFrame
<1>3. HandlersWait(<<f>> \o (<<g>> \o st), A)
  BY <1>1, <1>2, PushWait
<1> QED
  BY <1>1, <1>3, PushTwo

LEMMA QuietFrames ==
    /\ \A where \in UserLabels : User(where) \in Frame /\ ~Handling(User(where))
    /\ \A where \in {"exec", "once", "polled", "read"} :
         Code(where) \in Frame /\ ~Handling(Code(where))
    /\ \A r \in Requests, closure \in BOOLEAN :
         /\ ForRequest("join", r, closure) \in Frame
         /\ ~Handling(ForRequest("join", r, closure))
    /\ \A s \in Slots : ForSlot("started", s) \in Frame /\ ~Handling(ForSlot("started", s))
<1>1. \A where \in UserLabels : where \notin {"closed", "progress"}
  BY DEF UserLabels
<1> QED
  BY <1>1, UserFrames, CodeFrames, RequestFrames, SlotFrames DEF Handling

\* The methods that take requests out of the queue.
Removing == {"requeue", "dequeue", "reset"}

LEMMA UserCallsFinish ==
    ASSUME CallbackCalls \cap Removing = {}, IInv, FInv, UserCalls
    PROVE  FInv'
<1>1. DataOK /\ StackInv
  BY IInvParts
<1>2. Top.at \in UserLabels
  BY DEF UserCalls, CallEnqueue, CallRequeue, CallDequeue, CallReset, CallPop, CallSend, CallOnce,
         UserMay
<1>3. HandlersWait(stack, Answered) /\ FinishedMeansAnswered
  BY <1>2 DEF FInv, HandlerGone, UserLabels
<1>4. FinishedMeansAnswered' /\ HandlersWait(stack, Answered')
  <2>1. CASE UNCHANGED <<mem, queue, multi>>
    <3>1. Answered' = Answered /\ FinishedMeansAnswered'
      BY <2>1, <1>3 DEF Answered, FinishedMeansAnswered
    <3> QED
      BY <3>1, <1>3
  <2>2. CASE ~UNCHANGED <<mem, queue, multi>>
    <3>1. \E S \in SUBSET queue : Remove(S)
      BY <2>2, SlotOfQueued
         DEF UserCalls, CallEnqueue, CallRequeue, CallDequeue, CallReset, CallPop, CallSend,
             CallOnce, Dequeue
    <3>2. Top.at = "main"
      <4>1. \E method \in Removing : UserMay(method)
        BY <2>2
           DEF UserCalls, CallEnqueue, CallRequeue, CallDequeue, CallReset, CallPop, CallSend,
               CallOnce, Removing
      <4> QED
        BY <4>1 DEF UserMay
    <3> QED
      BY <3>1, <3>2, <1>1, <1>3, RemoveFinished, MainWait
  <2> QED
    BY <2>1, <2>2
<1>5. stack \in Seq(Frame)
  BY <1>1 DEF StackInv, StackGood
<1>6. HandlersWait(stack', Answered')
  <2>1. \/ stack' = stack
        \/ \E where \in {"exec", "once"} : stack' = <<Code(where)>> \o stack
        \/ \E r \in Requests, closure \in BOOLEAN :
             stack' = <<User("getOptions"), ForRequest("join", r, closure)>> \o stack
    BY DEF UserCalls, CallEnqueue, CallRequeue, CallDequeue, CallReset, CallPop, CallSend, CallOnce
  <2>2. User("getOptions") \in Frame /\ ~Handling(User("getOptions"))
    BY QuietFrames DEF UserLabels
  <2> QED
    BY <2>1, <2>2, <1>4, <1>5, PushQuiet, QuietFrames
<1> QED
  BY <1>4, <1>6 DEF FInv

\* Functions other than handle_response that return, or make way for others.
LEMMA ReturnFinish ==
    ASSUME IInv, FInv,
           CallbackReturns \/ EnqueueRefused \/ ReadNothing \/ Code_send
    PROVE  FInv'
<1>1. DataOK /\ StackInv
  BY IInvParts
<1>2. /\ ~Handling(Top) /\ Top.at # "main"
      /\ queue' = queue /\ mem' = mem
      /\ \A s \in queue : multi[s] = "read" <=> multi'[s] = "read"
      /\ \/ stack' = Callers
         \/ \E where \in {"exec", "read"} : stack' = <<Code(where)>> \o Callers
         \/ stack' = <<Code("read"), Code("polled")>> \o Callers
  <2>1. CASE CallbackReturns \/ EnqueueRefused \/ ReadNothing \/ SendReturns \/ WaitFails
             \/ WaitSucceeds
    BY <2>1 DEF CallbackReturns, EnqueueRefused, ReadNothing, SendReturns, WaitFails,
                WaitSucceeds, Handling
  <2>2. CASE \E D \in SUBSET Running : Perform(D)
    <3>1. PICK D \in SUBSET Running : Perform(D)
      BY <2>2
    <3>2. \A s \in queue : s \in Slots /\ (s \in D => multi[s] = "running")
      BY <1>1 DEF Running, DataOK, DataTypeOK
    <3> QED
      BY <3>1, <3>2 DEF Perform, Handling
  <2> QED
    BY <2>1, <2>2 DEF Code_send
<1>3. Answered' = Answered /\ FinishedMeansAnswered'
  BY <1>2 DEF FInv, Answered, FinishedMeansAnswered
<1>4. HandlersWait(stack, Answered)
  BY <1>2 DEF FInv, HandlerGone, Handling
<1>5. stack \in Seq(Frame) /\ stack # <<>>
  BY <1>1, TopFrame DEF StackInv, StackGood
<1>6. HandlersWait(Callers, Answered) /\ Callers \in Seq(Frame)
  BY <1>4, <1>5, PopWait, HeadTailProperties DEF Callers
<1>7. HandlersWait(stack', Answered)
  BY <1>2, <1>6, PushQuiet, QuietFrames
<1> QED
  BY <1>3, <1>7 DEF FInv

\* The closure's result goes to the handle_response that waits for it.
LEMMA ClosureReturnsFinish ==
    ASSUME IInv, FInv, NEW result \in BOOLEAN, ClosureReturns(result)
    PROVE  FInv'
<1>1. DataOK /\ StackInv
  BY IInvParts
<1>2. Answered' = Answered /\ FinishedMeansAnswered'
  BY DEF ClosureReturns, FInv, Answered, FinishedMeansAnswered
<1>3. HandlersWait(stack, Answered)
  BY DEF ClosureReturns, FInv, HandlerGone
<1>4. stack \in Seq(Frame) /\ stack # <<>>
  BY <1>1, TopFrame DEF StackInv, StackGood
<1>5. HandlersWait(Callers, Answered)
  BY <1>3, <1>4, PopWait DEF Callers
<1>6. Callers \in Seq(Frame) /\ Callers # <<>> /\ Head(Callers).at = "closed"
  BY <1>1, PopGood DEF ClosureReturns, StackGood, StackOK
<1> DEFINE g == Head(Callers)
           f == [g EXCEPT !.flag = result]
<1>7. g \in Frame /\ Tail(Callers) \in Seq(Frame)
  BY <1>6, HeadTailProperties
<1>8. f \in Frame /\ f.slot = g.slot /\ Handling(g)
  BY <1>6, <1>7 DEF Frame, Handling
<1>9. g.slot \in Answered /\ HandlersWait(Tail(Callers), Answered \ {g.slot})
  BY <1>5, <1>6, <1>8, PopWait
<1>10. stack' = <<f>> \o Tail(Callers)
  BY DEF ClosureReturns
<1> HIDE DEF f, g
<1>11. HandlersWait(<<f>> \o Tail(Callers), Answered)
  <2> DEFINE A == Answered \ {g.slot}
  <2>1. A \subseteq Answered /\ f.slot \in Answered \ A
    BY <1>8, <1>9
  <2>2. HandlersWait(Tail(Callers), A)
    BY <1>9
  <2> HIDE DEF A
  <2> QED
    BY <1>7, <1>8, <2>1, <2>2, PushWait
<1> QED
  BY <1>2, <1>10, <1>11 DEF FInv

\* A request joins the queue, or fails to; a start is noted.
LEMMA EnqueueFinish ==
    ASSUME IInv, FInv, EnqueueAdds \/ EnqueueAddFails \/ MarkStarted
    PROVE  FInv'
<1>1. DataOK /\ StackInv
  BY IInvParts
<1>2. Top.at \in {"join", "started"}
  BY DEF EnqueueAdds, EnqueueAddFails, MarkStarted
<1>3. HandlersWait(stack, Answered)
  BY <1>2 DEF FInv, HandlerGone
<1>4. stack \in Seq(Frame) /\ stack # <<>>
  BY <1>1, TopFrame DEF StackInv, StackGood
<1>5. HandlersWait(Callers, Answered) /\ Callers \in Seq(Frame)
  BY <1>3, <1>4, PopWait, HeadTailProperties DEF Callers
<1>6. CASE EnqueueAdds
  <2>1. PICK s \in Slots :
           /\ ~mem[s].live
           /\ mem' = [mem EXCEPT ![s] = NewHandler(Top.req, Top.flag)]
           /\ queue' = queue \cup {s}
           /\ multi' = [multi EXCEPT ![s] = "running"]
           /\ stack' = <<User("notify"), ForSlot("started", s)>> \o Callers
    BY <1>6 DEF EnqueueAdds
  <2>2. s \notin queue
    BY <1>1, <2>1 DEF DataOK, QueuedIsLive
  <2>3. ~NewHandler(Top.req, Top.flag).finished
    BY DEF NewHandler
  <2>4. /\ ~mem'[s].finished /\ multi'[s] = "running"
        /\ \A t \in queue : mem'[t] = mem[t] /\ multi'[t] = multi[t]
    BY <1>1, <2>1, <2>2, <2>3 DEF DataOK, DataTypeOK
  <2>5. Answered' = Answered
    BY <2>1, <2>4 DEF Answered
  <2>6. FinishedMeansAnswered'
    BY <2>1, <2>4 DEF FInv, FinishedMeansAnswered
  <2>7. User("notify") \in Frame /\ ~Handling(User("notify"))
    BY QuietFrames DEF UserLabels
  <2>8. ForSlot("started", s) \in Frame /\ ~Handling(ForSlot("started", s))
    BY QuietFrames
  <2>9. HandlersWait(stack', Answered)
    BY <1>5, <2>1, <2>7, <2>8, PushQuiet
  <2> QED
    BY <2>5, <2>6, <2>9 DEF FInv
<1>7. CASE EnqueueAddFails \/ MarkStarted
  <2>1. UNCHANGED <<queue, multi>> /\ stack' = Callers
    BY <1>7 DEF EnqueueAddFails, MarkStarted
  <2>2. \A t \in queue : mem'[t].finished = mem[t].finished
    <3>1. CASE EnqueueAddFails
      <4>1. PICK s \in Slots :
               ~mem[s].live /\ mem' = [mem EXCEPT ![s] = NewHandler(Top.req, Top.flag)]
        BY <3>1 DEF EnqueueAddFails
      <4>2. s \notin queue
        BY <1>1, <4>1 DEF DataOK, QueuedIsLive
      <4> QED
        BY <1>1, <4>1, <4>2 DEF DataOK, DataTypeOK
    <3>2. CASE MarkStarted
      <4>1. mem' = mem \/ mem' = [mem EXCEPT ![Top.slot] = [mem[Top.slot] EXCEPT !.started = TRUE]]
        BY <3>2 DEF MarkStarted
      <4> QED
        BY <1>1, <4>1 DEF DataOK, DataTypeOK, Handler
    <3> QED
      BY <1>7, <3>1, <3>2
  <2>3. FinishedMeansAnswered'
    BY <2>1, <2>2, FinishedKept DEF FInv
  <2>4. Answered' = Answered
    BY <2>1 DEF Answered
  <2> QED
    BY <1>5, <2>1, <2>3, <2>4 DEF FInv
<1> QED
  BY <1>6, <1>7

\* The message is for a queued handler no activation of handle_response has.
LEMMA ReadMessageFinish ==
    ASSUME IInv, FInv, NEW s \in Slots, ReadMessage(s)
    PROVE  FInv'
<1>1. DataOK /\ StackInv
  BY IInvParts
<1>2. multi[s] = "done" /\ s \in queue
  BY <1>1 DEF ReadMessage, Pending, DataOK, DataTypeOK, MessagesMatchQueue
<1>3. HandlersWait(stack, Answered)
  BY DEF ReadMessage, FInv, HandlerGone
<1>4. stack \in Seq(Frame) /\ stack # <<>>
  BY <1>1, TopFrame DEF StackInv, StackGood
<1>5. HandlersWait(Callers, Answered) /\ Callers \in Seq(Frame)
  BY <1>3, <1>4, PopWait, HeadTailProperties DEF Callers
<1>6. /\ queue' = queue
      /\ \A t \in queue : mem'[t].finished = mem[t].finished
      /\ \A t \in queue : multi'[t] = IF t = s THEN "read" ELSE multi[t]
  <2> DEFINE h == [mem[s] EXCEPT !.response = FALSE]
  <2>1. h.finished = mem[s].finished
    BY <1>1 DEF DataOK, DataTypeOK, Handler
  <2>2. mem' = [mem EXCEPT ![s] = h] /\ multi' = [multi EXCEPT ![s] = "read"] /\ queue' = queue
    BY <1>2 DEF ReadMessage
  <2> HIDE DEF h
  <2> QED
    BY <1>1, <2>1, <2>2 DEF DataOK, DataTypeOK
<1>7. FinishedMeansAnswered'
  BY <1>6 DEF FInv, FinishedMeansAnswered
<1>8. Answered' = Answered \cup {s} /\ s \notin Answered
  BY <1>2, <1>6 DEF Answered
<1> DEFINE rest == IF Pending = {s} THEN Callers ELSE stack
           f == User("closure")
           g == ForSlot("closed", s)
           e == ForSlot("progress", s)
<1>9. HandlersWait(rest, Answered) /\ rest \in Seq(Frame)
  BY <1>3, <1>4, <1>5
<1>10. f \in Frame /\ ~Handling(f)
  BY QuietFrames DEF UserLabels
<1>11. /\ g \in Frame /\ g.slot = s
       /\ e \in Frame /\ e.slot = s
  BY SlotFrames DEF ForSlot
<1>12. stack' = <<f, g>> \o rest \/ stack' = <<e>> \o rest
  BY <1>2 DEF ReadMessage
<1> HIDE DEF rest, e, f, g
<1>13. HandlersWait(<<g>> \o rest, Answered') /\ HandlersWait(<<e>> \o rest, Answered')
  BY <1>8, <1>9, <1>11, PushWait, ZenonT(60)
<1>14. <<g>> \o rest \in Seq(Frame)
  BY <1>9, <1>11, PushFrame
<1>15. HandlersWait(<<f>> \o (<<g>> \o rest), Answered')
  BY <1>10, <1>13, <1>14, PushWait
<1>16. <<f, g>> \o rest = <<f>> \o (<<g>> \o rest)
  BY <1>9, <1>10, <1>11, PushTwo
<1> QED
  BY <1>7, <1>12, <1>13, <1>15, <1>16 DEF FInv

\* The handler of an activation of handle_response is alive and its request
\* finds it.
LEMMA AnsweredFound ==
    ASSUME DataOK, NEW s \in Answered
    PROVE  Readable(s) = {mem[s].request} /\ Enqueued(mem[s].request)
           /\ SlotOf(mem[s].request) = s
<1>1. s \in queue /\ mem[s].live
  BY DEF DataOK, QueuedIsLive, Answered
<1>2. Readable(s) = {mem[s].request} /\ Enqueued(mem[s].request)
  BY <1>1 DEF Readable, Enqueued
<1>3. SlotOf(mem[s].request) = s
  BY <1>1, <1>2, SlotOfQueued DEF DataOK, UniqueInQueue
<1> QED
  BY <1>2, <1>3

\* The closure may have handle_response dequeue its own request, no other.
LEMMA ClosureDoneFinish ==
    ASSUME IInv, FInv, ClosureDone
    PROVE  FInv'
<1>1. DataOK /\ StackInv
  BY IInvParts
<1>2. HandlersWait(stack, Answered) /\ FinishedMeansAnswered
  BY DEF ClosureDone, FInv, HandlerGone
<1>3. stack \in Seq(Frame) /\ stack # <<>> /\ Callers \in Seq(Frame)
  BY <1>1, TopFrame, HeadTailProperties DEF StackInv, StackGood, Callers
<1> DEFINE s == Top.slot
<1>4. s \in Answered /\ HandlersWait(Callers, Answered \ {s})
  BY <1>2, <1>3, PopWait DEF ClosureDone, Handling, Top, Callers
<1>5. s \in Slots
  BY <1>1, <1>4 DEF Answered, DataOK, DataTypeOK
<1>6. Readable(s) = {mem[s].request} /\ Enqueued(mem[s].request) /\ SlotOf(mem[s].request) = s
  BY <1>1, <1>4, AnsweredFound
<1> DEFINE f == ForSlot("progress", s)
<1>7. f \in Frame /\ f.at = "progress" /\ f.slot = s
  BY <1>5, SlotFrames DEF ForSlot
<1>8. stack' = <<f>> \o Callers
  BY DEF ClosureDone
<1> HIDE DEF f, s
<1>9. /\ Head(<<f>> \o Callers) = f
      /\ Tail(<<f>> \o Callers) = Callers
  BY <1>3, <1>7, PushFrame
<1>10. Top' = f /\ Callers' = Callers
  BY <1>8, <1>9 DEF Top, Callers
<1>11. CASE UNCHANGED <<mem, queue, multi, refs>>
  <2>1. Answered' = Answered /\ FinishedMeansAnswered'
    BY <1>2, <1>11 DEF Answered, FinishedMeansAnswered
  <2> DEFINE A == Answered \ {s}
  <2>2. A \subseteq Answered /\ f.slot \in Answered \ A /\ HandlersWait(Callers, A)
    BY <1>4, <1>7
  <2> HIDE DEF A
  <2>3. HandlersWait(<<f>> \o Callers, Answered)
    BY <1>3, <1>7, <2>2, PushWait
  <2> QED
    BY <1>8, <2>1, <2>3 DEF FInv
<1>12. CASE Remove({s})
  <2>1. FinishedMeansAnswered' /\ Answered' = Answered \ {s}
    BY <1>1, <1>2, <1>4, <1>12, RemoveFinished DEF Answered
  <2>2. /\ queue' = queue \ {s}
        /\ \A t \in Slots : mem'[t].request = mem[t].request
        /\ ~mem'[s].live
    BY <1>1, <1>5, <1>12 DEF Remove, DataOK, DataTypeOK, Handler
  <2>3. Readable(s)' = {mem[s].request, None}
    <3>1. s' = s
      BY <1>7, <1>10 DEF s
    <3> QED
      BY <1>5, <2>2, <3>1 DEF Readable
  <2>4. \A t \in queue' : mem'[t].request # mem[s].request /\ mem'[t].request # None
    BY <1>1, <1>4, <2>2, NoneAssumption
       DEF DataOK, DataTypeOK, UniqueInQueue, QueuedIsLive, Answered
  <2>5. \A r \in {mem[s].request, None} : ~Enqueued(r)'
    BY <2>4 DEF Enqueued
  <2>6. \A r \in Readable(Top.slot)' : ~Enqueued(r)'
    BY <1>7, <1>10, <2>3, <2>5 DEF s
  <2>7. HandlersWait(Callers', Answered')
    BY <1>4, <1>10, <2>1
  <2> QED
    BY <1>7, <1>10, <2>1, <2>6, <2>7 DEF FInv, HandlerGone
<1> QED
  BY <1>6, <1>11, <1>12 DEF ClosureDone, Dequeue, s

\* What is marked finished is the answered handler itself, or nothing.
LEMMA MarkFinishedFinish ==
    ASSUME IInv, FInv, MarkFinished
    PROVE  FInv'
<1>1. DataOK /\ StackInv
  BY IInvParts
<1>2. stack \in Seq(Frame) /\ stack # <<>> /\ Callers \in Seq(Frame)
  BY <1>1, TopFrame, HeadTailProperties DEF StackInv, StackGood, Callers
<1>3. queue' = queue /\ multi' = multi /\ Answered' = Answered
  BY DEF MarkFinished, Answered
<1>4. HandlersWait(Callers, Answered)
  BY <1>2, PopWait DEF FInv, HandlerGone, Callers
<1>5. FinishedMeansAnswered'
  <2>1. CASE mem' = mem
    BY <1>3, <2>1 DEF FInv, FinishedMeansAnswered
  <2>2. CASE mem' # mem
    <3>1. PICK r \in Readable(Top.slot) :
             Enqueued(r) /\ mem' = [mem EXCEPT ![SlotOf(r)].finished = TRUE]
      BY <2>2 DEF MarkFinished
    <3>2. Top.slot \in Answered
      BY <1>2, <3>1, PopWait DEF FInv, HandlerGone, MarkFinished, Handling, Top
    <3>3. SlotOf(r) = Top.slot
      BY <1>1, <3>1, <3>2, AnsweredFound
    <3>4. \A t \in queue : t # Top.slot => mem'[t] = mem[t]
      BY <1>1, <3>1, <3>3 DEF DataOK, DataTypeOK
    <3> QED
      BY <1>3, <3>2, <3>4 DEF FInv, FinishedMeansAnswered, Answered
  <2> QED
    BY <2>1, <2>2
<1>6. HandlersWait(stack', Answered)
  <2>1. User("notify") \in Frame /\ ~Handling(User("notify"))
    BY QuietFrames DEF UserLabels
  <2>2. stack' = <<User("notify")>> \o Callers \/ stack' = Callers
    BY DEF MarkFinished
  <2> QED
    BY <1>2, <1>4, <2>1, <2>2, PushQuiet
<1> QED
  BY <1>3, <1>5, <1>6 DEF FInv

LEMMA FinishNext ==
    ASSUME CallbackCalls \cap Removing = {}, IInv, FInv, [Next]_vars
    PROVE  FInv'
<1>1. CASE UNCHANGED vars
  BY <1>1 DEF vars, FInv, FinishedMeansAnswered, Answered, HandlerGone, Top, Callers, Readable,
              Enqueued
<1>2. CASE Next
  BY <1>2, UserCallsFinish, ReturnFinish, ClosureReturnsFinish, EnqueueFinish, ReadMessageFinish,
     ClosureDoneFinish, MarkFinishedFinish
     DEF Next, UserReturns, CodeStep, Code_enqueue, Code_respond
<1> QED
  BY <1>1, <1>2

\* Progress says finished only for answered requests, provided callbacks queue
\* requests but never take one out (a closure that requeues its own request
\* has the new handler marked finished); the program itself may do anything
\* between two calls.
THEOREM ClientFinishedMeansAnswered ==
    ASSUME CallbackCalls \cap Removing = {}
    PROVE  Spec => []FinishedMeansAnswered
<1>1. Init => FInv
  <2> SUFFICES ASSUME Init PROVE FInv
    OBVIOUS
  <2>1. queue = {} /\ FinishedMeansAnswered
    BY DEF Init, FinishedMeansAnswered
  <2>2. User("main") \in Frame /\ User("main").at = "main"
    BY UserFrames DEF UserLabels
  <2>3. stack # <<>> /\ Top.at = "main"
    BY <2>2 DEF Init, Top
  <2>4. IInv
    BY InitOK
  <2> QED
    BY <2>1, <2>3, <2>4, IInvParts, MainWait DEF FInv
<1>2. IInv /\ FInv /\ [Next]_vars => FInv'
  BY FinishNext
<1>3. FInv => FinishedMeansAnswered
  BY DEF FInv
<1> QED
  BY <1>1, <1>2, <1>3, ClientInvariant, PTL DEF Spec

-----------------------------------------------------------------------------
(* Status as a function of the handlers m, the queue q and the multi       *)
(* handle u, so that it can be compared before and after a step            *)

View(m, q, u) ==
    [r \in Requests |->
        IF ~\E s \in q : m[s].request = r THEN "idle"
        ELSE IF u[CHOOSE s \in q : m[s].request = r] = "read" THEN "answered" ELSE "queued"]

Distinct(m, q) == \A s, t \in q : m[s].request = m[t].request => s = t

LEMMA StatusIsView == Status = View(mem, queue, multi) /\ Status' = View(mem', queue', multi')
BY DEF Status, Enqueued, SlotOf, View

\* In a queue without duplicates the slot of a request tells its status.
LEMMA ViewOfQueued ==
    ASSUME NEW m, NEW q, NEW u, Distinct(m, q), NEW s \in q, m[s].request \in Requests
    PROVE  View(m, q, u)[m[s].request] = IF u[s] = "read" THEN "answered" ELSE "queued"
<1> DEFINE r == m[s].request
           c == CHOOSE t \in q : m[t].request = r
<1>1. c \in q /\ m[c].request = r
  OBVIOUS
<1>2. c = s
  BY <1>1 DEF Distinct
<1>3. View(m, q, u)[r] = IF u[c] = "read" THEN "answered" ELSE "queued"
  BY DEF View
<1> QED
  BY <1>2, <1>3

LEMMA ViewOfIdle ==
    ASSUME NEW m, NEW q, NEW u, NEW r \in Requests, \A s \in q : m[s].request # r
    PROVE  View(m, q, u)[r] = "idle"
BY DEF View

\* The request of a queued slot keeps its status when the slot stays in the queue
\* and the multi handle says the same of it.
LEMMA ViewKept ==
    ASSUME NEW m, NEW q, NEW u, Distinct(m, q), NEW n, NEW p, NEW v, Distinct(n, p),
           NEW r \in Requests,
           \A s \in q : m[s].request = r =>
               s \in p /\ n[s].request = r /\ (v[s] = "read" <=> u[s] = "read"),
           \A s \in p : n[s].request = r => s \in q /\ m[s].request = r
    PROVE  View(n, p, v)[r] = View(m, q, u)[r]
<1>1. CASE \E s \in q : m[s].request = r
  <2>1. PICK s \in q : m[s].request = r
    BY <1>1
  <2>2. View(m, q, u)[r] = IF u[s] = "read" THEN "answered" ELSE "queued"
    BY <2>1, ViewOfQueued
  <2>3. View(n, p, v)[r] = IF v[s] = "read" THEN "answered" ELSE "queued"
    BY <2>1, ViewOfQueued
  <2> QED
    BY <2>1, <2>2, <2>3
<1>2. CASE ~\E s \in q : m[s].request = r
  BY <1>2, ViewOfIdle
<1> QED
  BY <1>1, <1>2

\* Two functions on Requests are equal when they agree on every request.
LEMMA ViewEqual ==
    ASSUME NEW m, NEW q, NEW u, NEW n, NEW p, NEW v,
           \A r \in Requests : View(n, p, v)[r] = View(m, q, u)[r]
    PROVE  View(n, p, v) = View(m, q, u)
BY DEF View

\* One status changes, the others are kept.
LEMMA ViewExcept ==
    ASSUME NEW m, NEW q, NEW u, NEW n, NEW p, NEW v, NEW r \in Requests, NEW new,
           View(n, p, v)[r] = new,
           \A o \in Requests \ {r} : View(n, p, v)[o] = View(m, q, u)[o]
    PROVE  View(n, p, v) = [View(m, q, u) EXCEPT ![r] = new]
<1> DEFINE f == View(m, q, u)
           g == View(n, p, v)
<1>1. f = [o \in Requests |-> f[o]] /\ g = [o \in Requests |-> g[o]]
  BY DEF View
<1> HIDE DEF f, g
<1>2. g = [f EXCEPT ![r] = new]
  <2>1. g[r] = new /\ \A o \in Requests \ {r} : g[o] = f[o]
    BY DEF f, g
  <2> QED
    BY <1>1, <2>1
<1> QED
  BY <1>2 DEF f, g

-----------------------------------------------------------------------------
(* The steps *)

QueueDistinct == Distinct(mem, queue) /\ Distinct(mem', queue')

LEMMA BothDistinct == IInv /\ IInv' => QueueDistinct
BY DEF IInv, UniqueInQueue, QueueDistinct, Distinct

\* What touches no queued request and no message of one is not seen.
LEMMA StatusSame ==
    ASSUME QueueDistinct, queue' = queue,
           \A s \in queue : mem'[s].request = mem[s].request
                            /\ (multi'[s] = "read" <=> multi[s] = "read")
    PROVE  Status' = Status
<1>1. \A r \in Requests : View(mem', queue', multi')[r] = View(mem, queue, multi)[r]
  <2> TAKE r \in Requests
  <2> QED
    BY ViewKept DEF QueueDistinct
<1> QED
  BY <1>1, ViewEqual, StatusIsView

\* Dequeueing a request makes it idle and leaves the others alone.
LEMMA StatusDequeued ==
    ASSUME IInv, QueueDistinct, NEW r \in Requests, Enqueued(r), Dequeue(r)
    PROVE  Status[r] # "idle" /\ Status' = [Status EXCEPT ![r] = "idle"]
<1> DEFINE s == SlotOf(r)
<1>1. s \in queue /\ mem[s].request = r
  BY DEF Enqueued, SlotOf
<1> HIDE DEF s
<1>2. /\ queue' = queue \ {s}
      /\ \A t \in Slots \ {s} : mem'[t] = mem[t] /\ multi'[t] = multi[t]
  BY <1>1 DEF Dequeue, Remove, s
<1>3. queue \subseteq Slots
  BY DEF IInv, TypeOK
<1>4. \A t \in queue : mem[t].request = r => t = s
  BY <1>1 DEF QueueDistinct, Distinct
<1>5. View(mem', queue', multi')[r] = "idle"
  <2>1. \A t \in queue' : mem'[t].request # r
    BY <1>2, <1>3, <1>4
  <2> QED
    BY <2>1, ViewOfIdle
<1>6. ASSUME NEW o \in Requests \ {r}
      PROVE  View(mem', queue', multi')[o] = View(mem, queue, multi)[o]
  <2>1. \A t \in queue : mem[t].request = o =>
            t \in queue' /\ mem'[t].request = o /\ (multi'[t] = "read" <=> multi[t] = "read")
    BY <1>1, <1>2, <1>3
  <2>2. \A t \in queue' : mem'[t].request = o => t \in queue /\ mem[t].request = o
    BY <1>2, <1>3
  <2> QED
    BY <2>1, <2>2, ViewKept DEF QueueDistinct
<1>7. View(mem, queue, multi)[r] # "idle"
  BY <1>1, ViewOfQueued DEF QueueDistinct
<1> QED
  BY <1>5, <1>6, <1>7, ViewExcept, StatusIsView

LEMMA EnqueueAddsRefines ==
    ASSUME IInv, QueueDistinct, EnqueueAdds
    PROVE  \E r \in Requests : Promise!Enqueue(r)
<1> DEFINE r == Top.req
<1>1. PICK s \in Slots : /\ ~mem[s].live
                         /\ mem' = [mem EXCEPT ![s] = NewHandler(r, Top.flag)]
                         /\ queue' = queue \cup {s}
                         /\ multi' = [multi EXCEPT ![s] = "running"]
  BY DEF EnqueueAdds
<1>2. r \in Requests
  BY IInvParts, TopFrame DEF EnqueueAdds, FrameOK
<1>3. \A t \in queue : mem[t].request # r
  BY DEF EnqueueAdds, Enqueued
<1> HIDE DEF r
<1>4. /\ mem \in [Slots -> Handler] /\ queue \subseteq Slots
      /\ multi \in [Slots -> {"none", "running", "done", "read"}]
  BY DEF IInv, TypeOK
<1>5. s \notin queue
  BY <1>1 DEF IInv, QueuedIsLive
<1>6. mem'[s].request = r /\ multi'[s] = "running"
  BY <1>1, <1>4 DEF NewHandler
<1>7. \A t \in queue : mem'[t] = mem[t] /\ multi'[t] = multi[t]
  BY <1>1, <1>4, <1>5
<1>8. View(mem', queue', multi')[r] = "queued"
  <2>1. s \in queue'
    BY <1>1
  <2> QED
    BY <2>1, <1>2, <1>6, ViewOfQueued DEF QueueDistinct
<1>9. ASSUME NEW o \in Requests \ {r}
      PROVE  View(mem', queue', multi')[o] = View(mem, queue, multi)[o]
  <2>1. \A t \in queue : mem[t].request = o =>
            t \in queue' /\ mem'[t].request = o /\ (multi'[t] = "read" <=> multi[t] = "read")
    BY <1>1, <1>7
  <2>2. \A t \in queue' : mem'[t].request = o => t \in queue /\ mem[t].request = o
    BY <1>1, <1>6, <1>7
  <2> QED
    BY <2>1, <2>2, ViewKept DEF QueueDistinct
<1>10. View(mem, queue, multi)[r] = "idle"
  BY <1>2, <1>3, ViewOfIdle
<1>11. Status[r] = "idle" /\ Status' = [Status EXCEPT ![r] = "queued"]
  BY <1>2, <1>8, <1>9, <1>10, ViewExcept, StatusIsView
<1>12. UNCHANGED responses
  BY DEF EnqueueAdds
<1> QED
  BY <1>2, <1>11, <1>12 DEF Promise!Enqueue

LEMMA ReadMessageRefines ==
    ASSUME IInv, QueueDistinct, NEW s \in Slots, ReadMessage(s)
    PROVE  \E r \in Requests : Promise!Answer(r)
<1>1. /\ mem \in [Slots -> Handler] /\ queue \subseteq Slots
      /\ multi \in [Slots -> {"none", "running", "done", "read"}]
  BY DEF IInv, TypeOK
<1>2. multi[s] = "done"
  BY DEF ReadMessage, Pending
<1>3. s \in queue /\ mem[s].response
  BY <1>2 DEF IInv, MessagesMatchQueue
<1>4. PICK r \in Requests : mem[s].request = r
  BY <1>3 DEF IInv, QueuedIsLive
<1>5. /\ multi' = [multi EXCEPT ![s] = "read"] /\ queue' = queue
      /\ mem' = [mem EXCEPT ![s].response = FALSE]
      /\ responses' = Append(responses, r)
  BY <1>3, <1>4 DEF ReadMessage
<1>6. \A t \in queue : mem'[t].request = mem[t].request /\ (t # s => multi'[t] = multi[t])
  BY <1>1, <1>5 DEF Handler
<1>7. multi'[s] = "read"
  BY <1>1, <1>5
<1>8. mem[s].request = r /\ mem'[s].request = r
  BY <1>3, <1>4, <1>6
<1>9. View(mem', queue', multi')[r] = "answered"
  <2>1. s \in queue'
    BY <1>3, <1>5
  <2> QED
    BY <2>1, <1>4, <1>7, <1>8, ViewOfQueued DEF QueueDistinct
<1>10. View(mem, queue, multi)[r] = "queued"
  BY <1>2, <1>3, <1>4, <1>8, ViewOfQueued DEF QueueDistinct
<1>11. ASSUME NEW o \in Requests \ {r}
       PROVE  View(mem', queue', multi')[o] = View(mem, queue, multi)[o]
  <2>1. \A t \in queue : mem[t].request = o =>
            t \in queue' /\ mem'[t].request = o /\ (multi'[t] = "read" <=> multi[t] = "read")
    BY <1>5, <1>6, <1>8
  <2>2. \A t \in queue' : mem'[t].request = o => t \in queue /\ mem[t].request = o
    BY <1>5, <1>6
  <2> QED
    BY <2>1, <2>2, ViewKept DEF QueueDistinct
<1>12. Status[r] = "queued" /\ Status' = [Status EXCEPT ![r] = "answered"]
  <2>1. View(mem', queue', multi') = [View(mem, queue, multi) EXCEPT ![r] = "answered"]
    BY <1>4, <1>9, <1>11, ViewExcept
  <2> QED
    BY <2>1, <1>10, StatusIsView
<1> QED
  BY <1>4, <1>5, <1>12 DEF Promise!Answer

-----------------------------------------------------------------------------
(* The refinement *)

\* Reset, with the responses it empties.
LEMMA ResetRefines ==
    ASSUME IInv, CallReset
    PROVE  Promise!Reset
<1>1. queue' = {} /\ responses' = <<>>
  BY DEF CallReset, Remove
<1>2. View(mem', queue', multi') = [r \in Requests |-> "idle"]
  BY <1>1 DEF View
<1> QED
  BY <1>1, <1>2, StatusIsView DEF Promise!Reset

LEMMA DequeueRefines ==
    ASSUME IInv, QueueDistinct, NEW r \in Requests, Enqueued(r), Dequeue(r), UNCHANGED responses
    PROVE  Promise!Dequeue(r)
BY StatusDequeued DEF Promise!Dequeue

\* The queue, its handlers and the responses stay as they are.
LEMMA Unseen ==
    ASSUME UNCHANGED <<mem, queue, multi, responses>>
    PROVE  UNCHANGED <<Status, responses>>
BY StatusIsView

LEMMA TouchRefines ==
    ASSUME IInv, QueueDistinct, UNCHANGED <<queue, multi, responses>>,
           \A s \in queue : mem'[s].request = mem[s].request
    PROVE  UNCHANGED <<Status, responses>>
BY StatusSame

\* Every step of the client is a step of the abstract queue or is not seen.
LEMMA StepRefines ==
    IInv /\ IInv' /\ [Next]_vars => [Promise!Next]_<<Status, responses>>
<1> SUFFICES ASSUME IInv, IInv', [Next]_vars
             PROVE  Promise!Next \/ UNCHANGED <<Status, responses>>
  OBVIOUS
<1>a. QueueDistinct
  BY BothDistinct
<1>b. /\ mem \in [Slots -> Handler] /\ queue \subseteq Slots
      /\ multi \in [Slots -> {"none", "running", "done", "read"}]
  BY DEF IInv, TypeOK
<1>c. \A s \in queue : mem[s].live /\ mem[s].request \in Requests
  BY DEF IInv, QueuedIsLive
<1>1. ASSUME NEW r \in Requests, NEW closure \in BOOLEAN,
             CallEnqueue(r, closure) \/ CallRequeue(r, closure)
      PROVE  Promise!Next \/ UNCHANGED <<Status, responses>>
  <2>1. CASE CallRequeue(r, closure) /\ Enqueued(r)
    BY <1>a, <2>1, DequeueRefines DEF CallRequeue, Promise!Next
  <2>2. CASE UNCHANGED <<mem, queue, multi, responses>>
    BY <2>2, Unseen
  <2> QED
    BY <1>1, <2>1, <2>2 DEF CallEnqueue, CallRequeue
<1>2. ASSUME NEW r \in Requests, CallDequeue(r)
      PROVE  Promise!Next
  BY <1>2, <1>a, DequeueRefines DEF CallDequeue, Promise!Next
<1>3. CASE CallReset
  BY <1>3, ResetRefines DEF Promise!Next
<1>4. CASE CallPop
  <2>1. UNCHANGED Status
    BY <1>4, Unseen, StatusIsView DEF CallPop
  <2> QED
    BY <1>4, <2>1 DEF CallPop, Promise!Pop, Promise!Next
<1>5. CASE EnqueueAdds
  BY <1>5, <1>a, EnqueueAddsRefines DEF Promise!Next
<1>6. CASE EnqueueAddFails
  <2>1. \A s \in queue : mem'[s].request = mem[s].request
    BY <1>6, <1>b, <1>c DEF EnqueueAddFails
  <2> QED
    BY <1>6, <1>a, <2>1, TouchRefines DEF EnqueueAddFails
<1>7. CASE MarkStarted
  <2>1. \A s \in queue : mem'[s].request = mem[s].request
    BY <1>7, <1>b DEF MarkStarted, Handler
  <2> QED
    BY <1>7, <1>a, <2>1, TouchRefines DEF MarkStarted
<1>8. ASSUME NEW s \in Slots, ReadMessage(s) PROVE Promise!Next
  BY <1>8, <1>a, ReadMessageRefines DEF Promise!Next
<1>9. CASE ClosureDone
  <2>1. CASE UNCHANGED <<mem, queue, multi, responses>>
    BY <2>1, Unseen
  <2>2. ASSUME NEW r \in Readable(Top.slot), Enqueued(r), Dequeue(r) PROVE Promise!Next
    <3>1. r \in Requests
      BY <2>2, <1>c DEF Enqueued
    <3> QED
      BY <1>9, <1>a, <2>2, <3>1, DequeueRefines DEF ClosureDone, Promise!Next
  <2> QED
    BY <1>9, <2>1, <2>2 DEF ClosureDone
<1>10. CASE MarkFinished
  <2>1. CASE UNCHANGED mem
    BY <1>10, <2>1, Unseen DEF MarkFinished
  <2>2. ASSUME NEW t, mem' = [mem EXCEPT ![t].finished = TRUE]
        PROVE  UNCHANGED <<Status, responses>>
    <3>1. \A s \in queue : mem'[s].request = mem[s].request
      BY <2>2, <1>b DEF Handler
    <3> QED
      BY <1>10, <1>a, <3>1, TouchRefines DEF MarkFinished
  <2> QED
    BY <1>10, <2>1, <2>2 DEF MarkFinished
<1>11. ASSUME NEW D \in SUBSET Running, Perform(D)
       PROVE  UNCHANGED <<Status, responses>>
  <2>1. \A s \in queue : multi'[s] = "read" <=> multi[s] = "read"
    BY <1>11, <1>b DEF Perform, Running
  <2>2. UNCHANGED <<mem, queue, responses>>
    BY <1>11 DEF Perform
  <2> QED
    BY <1>a, <2>1, <2>2, StatusSame
<1>12. CASE UNCHANGED <<mem, queue, multi, responses>>
  BY <1>12, Unseen
<1>13. CallSend \/ CallOnce \/ UserReturns \/ EnqueueRefused \/ ReadNothing \/ SendReturns
         \/ WaitSucceeds \/ WaitFails \/ UNCHANGED vars
       => UNCHANGED <<mem, queue, multi, responses>>
  BY DEF CallSend, CallOnce, UserReturns, CallbackReturns, ClosureReturns, EnqueueRefused,
         ReadNothing, SendReturns, WaitSucceeds, WaitFails, vars
<1> QED
  BY <1>1, <1>2, <1>3, <1>4, <1>5, <1>6, <1>7, <1>8, <1>9, <1>10, <1>11, <1>12, <1>13
     DEF Next, UserCalls, CodeStep, Code_enqueue, Code_respond, Code_send

LEMMA InitRefines == Init => Promise!Init
<1> SUFFICES ASSUME Init PROVE Promise!Init
  OBVIOUS
<1>1. View(mem, queue, multi) = [r \in Requests |-> "idle"]
  BY DEF Init, View
<1> QED
  BY <1>1, StatusIsView DEF Init, Promise!Init

\* What the client does to its queue, in whatever order its callbacks call it back,
\* is what the abstract queue promises (php_http_client.c, php_http_client_curl.c).
THEOREM ClientImplementsRequestQueue == Spec => ImplementsRequestQueue
<1>1. Init => Promise!Init
  BY InitRefines
<1>2. IInv /\ IInv' /\ [Next]_vars => [Promise!Next]_<<Status, responses>>
  BY StepRefines
<1> QED
  BY <1>1, <1>2, ClientInvariant, PTL DEF Spec, ImplementsRequestQueue, Promise!Spec
=============================================================================
