------------------------ MODULE CurlTransfersProofs ------------------------
(***************************************************************************)
(* Proofs about easy handles: for all sets of requests, hosts and bodies    *)
(* and any number of transfers and easy handles, an easy handle has one     *)
(* user, what a request has reaches the easy handle of its transfer, options *)
(* it has not are at their defaults but for named exceptions, and a body    *)
(* that is not shared is sent from its first byte on.                       *)
(***************************************************************************)
EXTENDS CurlTransfers, SequenceTheorems, TLAPS

(* While a transfer has its body to itself, the stream is where the         *)
(* transfer is, and nothing else in the multi handle reads it.              *)
BodyRead(s) ==
    LET t == transfers[s]
        b == t.request.body
    IN  t.alone /\ b \in Seekable =>
            /\ easy[t.handle].reads = b /\ easy[t.handle].size = Size[b]
            /\ \A i \in 1..Len(t.sent) : t.sent[i] = i
            /\ pos[b] = Len(t.sent)
            /\ \A e \in Handles \ {t.handle} : easy[e].multi => easy[e].reads # b

IInv == TypeOK /\ OneUser /\ (\A s \in Running : BodyRead(s))

-----------------------------------------------------------------------------
(* What a handler does to an easy handle *)

(* Options the setters of the code know by name *)
LEMMA NamedSettings == {"autoreferer", "proxyauth", "httpauth", "timecondition"} \subseteq Settings
<1>1. /\ 4 \in DOMAIN Registry /\ Registry[4] = "proxyauth"
      /\ 20 \in DOMAIN Registry /\ Registry[20] = "httpauth"
      /\ 28 \in DOMAIN Registry /\ Registry[28] = "autoreferer"
  BY DEF Registry
<1> QED  BY <1>1 DEF Settings, Options, Internal, ToSet

(* An option that was applied has a value of the request, or its default. *)
LEMMA ApplyOptionsType ==
    ASSUME NEW r \in Requests, NEW opt \in [Settings -> Values]
    PROVE  ApplyOptions(opt, r) \in [Settings -> Values]
<1>1. \A o \in Settings : Given(o, r) \in Values
  BY DEF Given, Values
<1>2. TimeCondition(r) \in Values
  BY DEF TimeCondition, Values
<1> QED  BY <1>1, <1>2 DEF ApplyOptions

(* php_http_client_curl_handler_init takes the callbacks and leaves the body alone. *)
LEMMA HandlerInitKeeps ==
    ASSUME NEW h \in EasyHandle
    PROVE  LET i == HandlerInit(h)
           IN  /\ i \in EasyHandle /\ i.hooks /\ i.multi = h.multi
               /\ i.reads = h.reads /\ i.size = h.size /\ i.list = h.list
               /\ i.opt["httpauth"] = Default /\ i.opt["proxyauth"] = Default
<1>1. Default \in Values
  BY DEF Values
<1> QED  BY <1>1, NamedSettings DEF HandlerInit, HandlerReset, EasyHandle

(* php_http_client_curl_handler_prepare sets the body and the list of a request that *)
(* has them, and keeps the callbacks.                                       *)
LEMMA PrepareSets ==
    ASSUME NEW h \in EasyHandle, NEW r \in Requests
    PROVE  LET p == Prepare(h, r)
           IN  /\ p \in EasyHandle /\ p.hooks = h.hooks /\ p.multi = h.multi
               /\ IF r.method \in Kinds THEN p.kind = r.method ELSE p.custom = r.method
               /\ p.reads = (IF r.body = None THEN h.reads ELSE r.body)
               /\ p.size = (IF r.body = None THEN h.size ELSE Size[r.body])
               /\ p.list = (IF r.hdrs \/ r.body # None THEN "own" ELSE h.list)
               /\ p.opt = ApplyOptions(h.opt, r)
<1> DEFINE m == SetMethod(h, r.method)
           l == SetHeaders(m, r)
           b == SetBody(l, r)
<1>1. m \in EasyHandle /\ m.hooks = h.hooks /\ m.multi = h.multi /\ m.reads = h.reads
      /\ m.size = h.size /\ m.list = h.list /\ m.opt = h.opt
      /\ IF r.method \in Kinds THEN m.kind = r.method ELSE m.custom = r.method
  BY DEF SetMethod, EasyHandle
<1>2. l \in EasyHandle /\ l.hooks = h.hooks /\ l.multi = h.multi /\ l.reads = h.reads
      /\ l.size = h.size /\ l.opt = h.opt /\ l.kind = m.kind /\ l.custom = m.custom
      /\ l.list = (IF r.hdrs \/ r.body # None THEN "own" ELSE h.list)
  <2> HIDE DEF m
  <2> QED  BY <1>1 DEF SetHeaders, EasyHandle
<1>3. b \in EasyHandle /\ b.hooks = h.hooks /\ b.multi = h.multi /\ b.opt = h.opt
      /\ b.list = l.list /\ b.kind = l.kind /\ b.custom = l.custom
      /\ b.reads = (IF r.body = None THEN h.reads ELSE r.body)
      /\ b.size = (IF r.body = None THEN h.size ELSE Size[r.body])
  <2> HIDE DEF l
  <2> QED  BY <1>2, BodiesAssumption, RequestsAssumption DEF SetBody, EasyHandle
<1>4. Prepare(h, r) = [b EXCEPT !.opt = ApplyOptions(b.opt, r)]
  BY DEF Prepare
<1>5. ApplyOptions(h.opt, r) \in [Settings -> Values]
  BY ApplyOptionsType DEF EasyHandle
<1> HIDE DEF b, l, m
<1> QED  BY <1>1, <1>2, <1>3, <1>4, <1>5 DEF EasyHandle

(* A handle that is prepared for a request is one as before, with the length of its body. *)
LEMMA PreparedType ==
    ASSUME NEW h \in EasyHandle, Sized(h), NEW r \in Requests
    PROVE  /\ Prepare(HandlerInit(h), r) \in EasyHandle
           /\ Sized(Prepare(HandlerInit(h), r))
<1> DEFINE i == HandlerInit(h)
<1>1. i \in EasyHandle /\ Sized(i)
  BY HandlerInitKeeps DEF Sized
<1> HIDE DEF i
<1>2. Prepare(i, r) \in EasyHandle /\ Sized(Prepare(i, r))
  BY <1>1, PrepareSets DEF Sized
<1> QED  BY <1>2 DEF i

(* php_http_client_curl_handler_dtor leaves no callback and no list. *)
LEMMA HandlerDtorKeeps ==
    ASSUME NEW h \in EasyHandle
    PROVE  LET d == HandlerDtor(h)
           IN  /\ d \in EasyHandle /\ ~d.hooks /\ d.list # "own"
               /\ d.multi = h.multi /\ d.reads = h.reads /\ d.size = h.size
BY DEF HandlerDtor, EasyHandle

(* The easy handle of a new handler is idle or not created yet. *)
LEMMA AcquiredIsFree ==
    ASSUME TypeOK, NEW r \in Requests, r.host # None, NEW e \in Acquire(r.host)
    PROVE  /\ e \in Handles /\ r.host \in Hosts
           /\ e \in pool[r.host] \/ e \in unborn
<1>1. r.host \in Hosts
  BY RequestsAssumption
<1> QED  BY <1>1 DEF Acquire, TypeOK

(* A request of the program is one of all requests. *)
LEMMA ScriptRequests == ASSUME TypeOK, NEW r \in script  PROVE r \in Requests
BY DEF TypeOK, Requests

(* A transfer is a record with the fields it was given. *)
LEMMA RunningTransfer ==
    ASSUME TypeOK, NEW s \in Running
    PROVE  s \in Slots /\ transfers[s] \in Transfer
BY DEF TypeOK, Running

LEMMA ToSetConcat ==
    ASSUME NEW S, NEW p \in Seq(S), NEW q \in Seq(S)
    PROVE  ToSet(p \o q) = ToSet(p) \cup ToSet(q)
<1> DEFINE c == p \o q
<1>1. /\ c \in Seq(S) /\ Len(c) = Len(p) + Len(q)
      /\ \A i \in 1..Len(p) + Len(q) : c[i] = IF i <= Len(p) THEN p[i] ELSE q[i - Len(p)]
  BY ConcatProperties
<1>2. DOMAIN c = 1..Len(c) /\ DOMAIN p = 1..Len(p) /\ DOMAIN q = 1..Len(q)
      /\ Len(p) \in Nat /\ Len(q) \in Nat
  BY <1>1, LenProperties
<1> HIDE DEF c
<1>3. \A i \in DOMAIN p : i \in DOMAIN c /\ c[i] = p[i]
  BY <1>1, <1>2
<1>4. \A i \in DOMAIN q : Len(p) + i \in DOMAIN c /\ c[Len(p) + i] = q[i]
  BY <1>1, <1>2
<1>5. \A i \in DOMAIN c : \/ i \in DOMAIN p /\ c[i] = p[i]
                          \/ i - Len(p) \in DOMAIN q /\ c[i] = q[i - Len(p)]
  <2> SUFFICES ASSUME NEW i \in DOMAIN c
               PROVE  \/ i \in DOMAIN p /\ c[i] = p[i]
                      \/ i - Len(p) \in DOMAIN q /\ c[i] = q[i - Len(p)]
    OBVIOUS
  <2>1. i \in 1..Len(p) + Len(q)
    BY <1>1, <1>2
  <2>2. CASE i <= Len(p)
    BY <1>1, <1>2, <2>1, <2>2
  <2>3. CASE ~(i <= Len(p))
    <3>1. i - Len(p) \in DOMAIN q
      BY <1>2, <2>1, <2>3
    <3> QED  BY <1>1, <2>1, <2>3, <3>1
  <2> QED  BY <2>2, <2>3
<1>6. ToSet(c) \subseteq ToSet(p) \cup ToSet(q)
  BY <1>5 DEF ToSet
<1>7. ToSet(p) \subseteq ToSet(c) /\ ToSet(q) \subseteq ToSet(c)
  BY <1>3, <1>4 DEF ToSet
<1> QED  BY <1>6, <1>7 DEF c

(* The list of headers is put together of at most three. *)
LEMMA HeadersType ==
    ASSUME NEW r \in Requests
    PROVE  /\ Headers(r) \in Seq({"own", "If-Match", "If-None-Match", "Accept-Encoding"})
           /\ "own" \in ToSet(Headers(r)) => r.hdrs \/ r.body # None
           /\ "If-Match" \in ToSet(Headers(r)) <=>
                 /\ "etag" \in DOMAIN r.opts /\ Applied("etag", r)
                 /\ RangeRequest("etag", r)
<1> DEFINE own == IF r.hdrs \/ r.body # None THEN <<"own">> ELSE <<>>
           match == IF RangeRequest("etag", r) THEN "If-Match" ELSE "If-None-Match"
           etag == IF "etag" \in DOMAIN r.opts /\ Applied("etag", r) THEN <<match>> ELSE <<>>
           coded == IF "compress" \in DOMAIN r.opts /\ Applied("compress", r)
                    THEN <<"Accept-Encoding">> ELSE <<>>
           Name == {"own", "If-Match", "If-None-Match", "Accept-Encoding"}
<1>1. <<>> \in Seq(Name) /\ \A n \in Name : <<n>> \in Seq(Name)
  OBVIOUS
<1>2. own \in Seq(Name) /\ coded \in Seq(Name)
  <2>1. "own" \in Name /\ "Accept-Encoding" \in Name
    OBVIOUS
  <2> HIDE DEF Name
  <2> QED  BY <1>1, <2>1, Zenon
<1>3. etag \in Seq(Name)
  <2>1. match \in Name
    OBVIOUS
  <2> HIDE DEF match, Name
  <2> QED  BY <1>1, <2>1, Zenon
<1>4. Headers(r) = own \o etag \o coded
  BY DEF Headers
<1> HIDE DEF own, etag, coded, Name
<1>5. own \o etag \in Seq(Name) /\ own \o etag \o coded \in Seq(Name)
  BY <1>1, <1>2, <1>3
<1>6. ToSet(Headers(r)) = ToSet(own) \cup ToSet(etag) \cup ToSet(coded)
  <2>1. ToSet(own \o etag) = ToSet(own) \cup ToSet(etag)
    BY <1>2, <1>3, ToSetConcat, Zenon
  <2>2. ToSet((own \o etag) \o coded) = ToSet(own \o etag) \cup ToSet(coded)
    BY <1>2, <1>5, ToSetConcat, Zenon
  <2> QED  BY <1>4, <2>1, <2>2, Zenon
<1>7. ToSet(<<>>) = {} /\ \A n : ToSet(<<n>>) = {n}
  BY DEF ToSet
<1>8. "own" \in ToSet(own) => r.hdrs \/ r.body # None
  BY <1>7, Zenon DEF own
<1>9. "own" \notin ToSet(coded) /\ "If-Match" \notin ToSet(coded)
  BY <1>7 DEF coded
<1>10. "If-Match" \notin ToSet(own)
  BY <1>7 DEF own
<1>11. "own" \notin ToSet(etag)
  BY <1>7 DEF etag
<1>12. "If-Match" \in ToSet(etag) <=>
           "etag" \in DOMAIN r.opts /\ Applied("etag", r) /\ RangeRequest("etag", r)
  BY <1>7 DEF etag
<1> QED  BY <1>4, <1>5, <1>6, <1>8, <1>9, <1>10, <1>11, <1>12 DEF Name

(* Preparing a handle changes nothing in the other transfers but alone. *)
LEMMA DisturbedKeeps ==
    ASSUME TypeOK, NEW h \in EasyHandle
    PROVE  /\ Disturbed(h) \in [Slots -> Transfer \cup {None}]
           /\ \A s \in Slots : Disturbed(h)[s] = None <=> transfers[s] = None
           /\ \A s \in Running :
                LET d == Disturbed(h)[s]
                    t == transfers[s]
                IN  /\ d.handle = t.handle /\ d.request = t.request
                    /\ d.headers = t.headers /\ d.sent = t.sent
                    /\ d.alone => t.alone /\ t.handle \notin Reading(h.reads)
<1>1. \A s \in Running : [transfers[s] EXCEPT !.alone = FALSE] \in Transfer
  BY RunningTransfer DEF Transfer
<1>2. \A s \in Slots : s \notin Running => transfers[s] = None
  BY DEF Running
<1> QED  BY <1>1, <1>2, RunningTransfer, NoneAssumption DEF Disturbed, Transfer, TypeOK, Running

-----------------------------------------------------------------------------
(* Type correctness *)

LEMMA TypeOKInit == Init => TypeOK
<1> SUFFICES ASSUME Init PROVE TypeOK
  OBVIOUS
<1>1. Default \in Values
  BY DEF Values
<1>2. NewEasy \in EasyHandle
  BY <1>1 DEF NewEasy, EasyHandle, Kinds
<1>3. script \in Scripts /\ easy \in [Handles -> EasyHandle] /\ unborn \subseteq Handles
      /\ \A e \in Handles : Sized(easy[e])
  BY <1>2 DEF Init, NewEasy, Sized
<1>4. pool \in [Hosts -> SUBSET Handles] /\ transfers \in [Slots -> Transfer \cup {None}]
  BY DEF Init
<1>5. pos \in [Bodies -> Nat] /\ \A b \in Bodies : pos[b] <= Size[b]
  BY BodiesAssumption DEF Init
<1> QED  BY <1>3, <1>4, <1>5 DEF TypeOK

(* The stream of a body is rewound, or stays where it is. *)
LEMMA RewoundType ==
    ASSUME TypeOK, NEW r \in Requests
    PROVE  /\ Rewound(r) \in [Bodies -> Nat]
           /\ \A b \in Bodies : Rewound(r)[b] <= Size[b]
BY BodiesAssumption DEF Rewound, TypeOK

(* What was sent of a body is all that reading or restarting changes in a transfer. *)
LEMMA SentKeeps ==
    ASSUME TypeOK, NEW s \in Running, NEW sent \in Seq(Nat \ {0})
    PROVE  LET new == [transfers EXCEPT ![s].sent = sent]
           IN  /\ new \in [Slots -> Transfer \cup {None}]
               /\ new[s] \in Transfer /\ new[s].sent = sent
               /\ new[s].handle = transfers[s].handle /\ new[s].request = transfers[s].request
               /\ new[s].headers = transfers[s].headers /\ new[s].alone = transfers[s].alone
               /\ \A u \in Slots \ {s} : new[u] = transfers[u]
<1> DEFINE t == transfers[s]
           n == [t EXCEPT !.sent = sent]
<1>1. s \in Slots /\ t \in Transfer
  BY RunningTransfer
<1>2. /\ n \in Transfer /\ n.sent = sent /\ n.handle = t.handle /\ n.request = t.request
      /\ n.headers = t.headers /\ n.alone = t.alone
  <2> HIDE DEF t
  <2> QED  BY <1>1 DEF Transfer
<1>3. [transfers EXCEPT ![s].sent = sent] = [transfers EXCEPT ![s] = n]
  OBVIOUS
<1> HIDE DEF n
<1> QED  BY <1>1, <1>2, <1>3 DEF TypeOK

(* The read callback takes a byte that is there. *)
LEMMA ReadType ==
    ASSUME TypeOK, NEW b \in Bodies, pos[b] < Size[b]
    PROVE  LET p == [pos EXCEPT ![b] = @ + 1]
           IN  p \in [Bodies -> Nat] /\ \A c \in Bodies : p[c] <= Size[c]
<1>1. pos \in [Bodies -> Nat] /\ \A c \in Bodies : pos[c] <= Size[c] /\ Size[c] \in Nat
  BY BodiesAssumption DEF TypeOK
<1>2. pos[b] + 1 \in Nat /\ pos[b] + 1 <= Size[b]
  BY <1>1
<1> QED  BY <1>1, <1>2

LEMMA TypeOKStep == TypeOK /\ [Next]_vars => TypeOK'
<1> SUFFICES ASSUME TypeOK, [Next]_vars PROVE TypeOK'
  OBVIOUS
<1>0. CASE UNCHANGED vars
  BY <1>0 DEF vars, TypeOK
<1>1. ASSUME NEW r \in script, EnqueueNoUrl(r) PROVE TypeOK'
  BY <1>1 DEF EnqueueNoUrl, vars, TypeOK
<1>2. ASSUME NEW r \in script, EnqueueNoMethod(r) PROVE TypeOK'
  <2> r \in Requests
    BY ScriptRequests
  <2>1. PICK e \in Acquire(r.host) :
           /\ unborn' = unborn \ {e}
           /\ pool' = [pool EXCEPT ![r.host] = @ \cup {e}]
           /\ easy' = [easy EXCEPT ![e] = HandlerDtor(HandlerInit(@))]
    BY <1>2 DEF EnqueueNoMethod
  <2>2. e \in Handles /\ r.host \in Hosts
    BY <1>2, AcquiredIsFree DEF EnqueueNoMethod
  <2>3. /\ HandlerDtor(HandlerInit(easy[e])) \in EasyHandle
        /\ Sized(HandlerDtor(HandlerInit(easy[e])))
    BY <2>2, HandlerInitKeeps, HandlerDtorKeeps DEF TypeOK, Sized
  <2> QED  BY <1>2, <2>1, <2>2, <2>3 DEF EnqueueNoMethod, TypeOK
<1>3. ASSUME NEW r \in script, EnqueueNotAdded(r) PROVE TypeOK'
  <2> r \in Requests
    BY ScriptRequests
  <2>1. PICK e \in Acquire(r.host) :
           LET h == Prepare(HandlerInit(easy[e]), r)
           IN  /\ Take(e, r.host)
               /\ easy' = [easy EXCEPT ![e] = h]
               /\ transfers' = Disturbed(h)
    BY <1>3 DEF EnqueueNotAdded
  <2>2. e \in Handles /\ r.host \in Hosts
    BY <1>3, AcquiredIsFree DEF EnqueueNotAdded
  <2>3. Prepare(HandlerInit(easy[e]), r) \in EasyHandle
        /\ Sized(Prepare(HandlerInit(easy[e]), r))
    BY <2>2, PreparedType DEF TypeOK
  <2>4. transfers' \in [Slots -> Transfer \cup {None}]
    BY <2>1, <2>3, DisturbedKeeps
  <2> QED  BY <1>3, <2>1, <2>2, <2>3, <2>4, RewoundType DEF EnqueueNotAdded, Take, TypeOK
<1>4. ASSUME NEW s \in Slots, NEW r \in script, Enqueue(s, r) PROVE TypeOK'
  <2> r \in Requests
    BY ScriptRequests
  <2>1. PICK e \in Acquire(r.host) :
           LET h == Prepare(HandlerInit(easy[e]), r)
           IN  /\ Take(e, r.host)
               /\ easy' = [easy EXCEPT ![e] = [h EXCEPT !.multi = TRUE]]
               /\ transfers' = [Disturbed(h) EXCEPT ![s] =
                    [handle |-> e, request |-> r, headers |-> Headers(r),
                     sent |-> <<>>, alone |-> Reading(h.reads) = {}]]
    BY <1>4 DEF Enqueue
  <2>2. e \in Handles /\ r.host \in Hosts
    BY <1>4, AcquiredIsFree DEF Enqueue
  <2> DEFINE h == Prepare(HandlerInit(easy[e]), r)
  <2>3. h \in EasyHandle /\ Sized(h)
    BY <2>2, PreparedType DEF TypeOK
  <2>4. [handle |-> e, request |-> r, headers |-> Headers(r),
         sent |-> <<>>, alone |-> Reading(h.reads) = {}] \in Transfer
    BY <2>2, HeadersType DEF Transfer
  <2>5. Disturbed(h) \in [Slots -> Transfer \cup {None}]
    BY <2>3, DisturbedKeeps
  <2>6. [h EXCEPT !.multi = TRUE] \in EasyHandle /\ Sized([h EXCEPT !.multi = TRUE])
    <3> HIDE DEF h
    <3> QED  BY <2>3 DEF EasyHandle, Sized
  <2>7. transfers' \in [Slots -> Transfer \cup {None}]
    BY <2>1, <2>4, <2>5
  <2>8. easy' \in [Handles -> EasyHandle] /\ \A o \in Handles : Sized(easy'[o])
    BY <2>1, <2>2, <2>6 DEF TypeOK
  <2> QED  BY <1>4, <2>1, <2>2, <2>7, <2>8, RewoundType DEF Enqueue, Take, TypeOK
<1>5. ASSUME NEW s \in Slots, Read(s) PROVE TypeOK'
  <2> DEFINE t == transfers[s]
             b == easy[t.handle].reads
  <2>1. s \in Running /\ t \in Transfer /\ t.handle \in Handles /\ t.sent \in Seq(Nat \ {0})
    BY <1>5, RunningTransfer DEF Read, Transfer
  <2>2. b \in Bodies /\ pos[b] < Size[b]
    BY <1>5, <2>1 DEF Read, Uploads, TypeOK, EasyHandle
  <2>3. pos' = [pos EXCEPT ![b] = @ + 1]
        /\ transfers' = [transfers EXCEPT ![s].sent = Append(@, pos[b] + 1)]
    BY <1>5 DEF Read
  <2>4. pos[b] + 1 \in Nat \ {0} /\ pos[b] + 1 <= Size[b]
    BY <2>2, BodiesAssumption DEF TypeOK
  <2>5. Append(t.sent, pos[b] + 1) \in Seq(Nat \ {0})
    BY <2>1, <2>4
  <2>6. pos' \in [Bodies -> Nat] /\ \A c \in Bodies : pos'[c] <= Size[c]
    BY <2>2, <2>3, ReadType
  <2>7. transfers' \in [Slots -> Transfer \cup {None}]
    BY <2>1, <2>3, <2>5, SentKeeps
  <2> QED  BY <1>5, <2>6, <2>7 DEF Read, TypeOK
<1>6. ASSUME NEW s \in Slots, Restart(s) PROVE TypeOK'
  <2> DEFINE t == transfers[s]
             b == easy[t.handle].reads
  <2>1. t \in Transfer /\ b \in Bodies
    BY <1>6, RunningTransfer, BodiesAssumption DEF Restart
  <2>2. pos' = [pos EXCEPT ![b] = 0] /\ transfers' = [transfers EXCEPT ![s].sent = <<>>]
    BY <1>6 DEF Restart
  <2>3. s \in Running /\ <<>> \in Seq(Nat \ {0})
    BY <1>6 DEF Restart
  <2>4. transfers' \in [Slots -> Transfer \cup {None}]
    BY <2>2, <2>3, SentKeeps
  <2>5. pos' \in [Bodies -> Nat] /\ \A c \in Bodies : pos'[c] <= Size[c]
    <3>1. \A c \in Bodies : Size[c] \in Nat
      BY BodiesAssumption
    <3> QED  BY <2>1, <2>2, <3>1 DEF TypeOK
  <2> QED  BY <1>6, <2>4, <2>5 DEF Restart, TypeOK
<1>7. ASSUME NEW s \in Slots, NEW inMulti \in BOOLEAN, s \in Running, Release(s, inMulti)
      PROVE  TypeOK'
  <2> DEFINE t == transfers[s]
  <2>1. t.handle \in Handles
    BY <1>7, RunningTransfer DEF Transfer
  <2>2. /\ [HandlerDtor(easy[t.handle]) EXCEPT !.multi = inMulti] \in EasyHandle
        /\ Sized([HandlerDtor(easy[t.handle]) EXCEPT !.multi = inMulti])
    <3> DEFINE d == HandlerDtor(easy[t.handle])
    <3>1. d \in EasyHandle /\ Sized(d)
      BY <2>1, HandlerDtorKeeps DEF TypeOK, Sized
    <3> DEFINE n == [d EXCEPT !.multi = inMulti]
    <3>2. n \in EasyHandle /\ n.reads = d.reads /\ n.size = d.size
      <4> HIDE DEF d
      <4> QED  BY <1>7, <3>1 DEF EasyHandle
    <3> HIDE DEF d, n
    <3>3. n \in EasyHandle /\ Sized(n)
      BY <3>1, <3>2 DEF Sized
    <3> QED  BY <3>3 DEF n, d
  <2> QED  BY <1>7, <2>1, <2>2 DEF Release, TypeOK
<1>8. ASSUME NEW e \in Handles, ReadStray(e) PROVE TypeOK'
  <2>1. easy[e].reads \in Bodies /\ pos[easy[e].reads] < Size[easy[e].reads]
    BY <1>8 DEF ReadStray, Uploads, TypeOK, EasyHandle
  <2>2. pos' = [pos EXCEPT ![easy[e].reads] = @ + 1]
    BY <1>8 DEF ReadStray
  <2>3. pos' \in [Bodies -> Nat] /\ \A c \in Bodies : pos'[c] <= Size[c]
    BY <2>1, <2>2, ReadType
  <2> QED  BY <1>8, <2>3 DEF ReadStray, TypeOK
<1> QED  BY <1>0, <1>1, <1>2, <1>3, <1>4, <1>5, <1>6, <1>7, <1>8 DEF Next, Dequeue, ResetRefused

-----------------------------------------------------------------------------
(* One user *)

(* A transfer that is not new keeps its easy handle, its request and its headers. *)
Keeps(u) ==
    /\ transfers'[u] # None
    /\ transfers'[u].handle = transfers[u].handle
    /\ transfers'[u].request = transfers[u].request
    /\ transfers'[u].headers = transfers[u].headers

(* What Enqueue does, in terms of the easy handle it gets and of what is set on that *)
Enqueued(s, r, e, h) ==
    /\ r \in Requests /\ r.host \in Hosts
    /\ e \in pool[r.host] \/ e \in unborn
    /\ ~easy[e].multi
    /\ h = Prepare(HandlerInit(easy[e]), r)
    /\ unborn' = unborn \ {e} /\ pool' = [pool EXCEPT ![r.host] = @ \ {e}]
    /\ easy'[e] = [h EXCEPT !.multi = TRUE]
    /\ easy'[e] \in EasyHandle /\ easy'[e].multi /\ easy'[e].hooks
    /\ easy'[e].reads = h.reads /\ easy'[e].size = h.size
    /\ easy'[e].opt = h.opt /\ easy'[e].list = h.list
    /\ easy'[e].kind = h.kind /\ easy'[e].custom = h.custom
    /\ \A o \in Handles \ {e} : easy'[o] = easy[o]
    /\ s \notin Running /\ Running' = Running \cup {s}
    /\ transfers'[s] = [handle |-> e, request |-> r, headers |-> Headers(r),
                        sent |-> <<>>, alone |-> Reading(h.reads) = {}]
    /\ \A u \in Running : Keeps(u) /\ transfers'[u] = Disturbed(h)[u]

LEMMA EnqueueStep ==
    ASSUME TypeOK, NEW s \in Slots, NEW r \in script, Enqueue(s, r)
    PROVE  \E e \in Handles, h \in EasyHandle : Enqueued(s, r, e, h)
<1>1. r \in Requests
  BY ScriptRequests
<1>2. PICK e \in Acquire(r.host) :
         LET h == Prepare(HandlerInit(easy[e]), r)
         IN  /\ ~easy[e].multi
             /\ Take(e, r.host)
             /\ easy' = [easy EXCEPT ![e] = [h EXCEPT !.multi = TRUE]]
             /\ transfers' = [Disturbed(h) EXCEPT ![s] =
                    [handle |-> e, request |-> r, headers |-> Headers(r),
                     sent |-> <<>>, alone |-> Reading(h.reads) = {}]]
  BY DEF Enqueue
<1>3. e \in Handles /\ r.host \in Hosts /\ (e \in pool[r.host] \/ e \in unborn)
  BY <1>1, AcquiredIsFree DEF Enqueue
<1> DEFINE h == Prepare(HandlerInit(easy[e]), r)
           new == [handle |-> e, request |-> r, headers |-> Headers(r),
                   sent |-> <<>>, alone |-> Reading(h.reads) = {}]
<1>4. h \in EasyHandle /\ h.hooks
  BY <1>1, <1>3, HandlerInitKeeps, PrepareSets DEF TypeOK
<1>5. /\ easy'[e] = [h EXCEPT !.multi = TRUE]
      /\ \A o \in Handles \ {e} : easy'[o] = easy[o]
  BY <1>2, <1>3 DEF TypeOK
<1>6. /\ easy'[e] \in EasyHandle /\ easy'[e].multi /\ easy'[e].hooks
      /\ easy'[e].reads = h.reads /\ easy'[e].size = h.size
      /\ easy'[e].opt = h.opt /\ easy'[e].list = h.list
      /\ easy'[e].kind = h.kind /\ easy'[e].custom = h.custom
  <2> HIDE DEF h
  <2> QED  BY <1>4, <1>5 DEF EasyHandle
<1>7. /\ Disturbed(h) \in [Slots -> Transfer \cup {None}]
      /\ \A u \in Slots : Disturbed(h)[u] = None <=> transfers[u] = None
      /\ \A u \in Running : /\ Disturbed(h)[u].handle = transfers[u].handle
                            /\ Disturbed(h)[u].request = transfers[u].request
                            /\ Disturbed(h)[u].headers = transfers[u].headers
  BY <1>4, DisturbedKeeps
<1>8. new # None
  <2>1. new \in Transfer
    BY <1>1, <1>3, HeadersType DEF Transfer
  <2> QED  BY <2>1, NoneAssumption
<1>9. s \notin Running
  BY DEF Enqueue, Running
<1>10. transfers' = [Disturbed(h) EXCEPT ![s] = new]
  BY <1>2
<1> HIDE DEF h, new
<1>11. transfers'[s] = new /\ \A u \in Slots \ {s} : transfers'[u] = Disturbed(h)[u]
  BY <1>7, <1>10
<1>12. Running' = Running \cup {s}
  BY <1>7, <1>8, <1>11 DEF Running
<1>13. \A u \in Running : Keeps(u) /\ transfers'[u] = Disturbed(h)[u]
  BY <1>7, <1>9, <1>11 DEF Keeps, Running
<1>14. unborn' = unborn \ {e} /\ pool' = [pool EXCEPT ![r.host] = @ \ {e}]
  BY <1>2 DEF Take
<1>15. Enqueued(s, r, e, h)
  BY <1>1, <1>2, <1>3, <1>5, <1>6, <1>9, <1>11, <1>12, <1>13, <1>14, Zenon DEF Enqueued, h, new
<1> QED  BY <1>3, <1>4, <1>15

(* What an enqueue that fails behind the preparation does: the easy handle has no user *)
LEMMA EnqueueNotAddedStep ==
    ASSUME TypeOK, NEW r \in script, EnqueueNotAdded(r)
    PROVE  \E e \in Handles, h \in EasyHandle :
             /\ r \in Requests /\ r.host \in Hosts
             /\ e \in pool[r.host] \/ e \in unborn
             /\ h = Prepare(HandlerInit(easy[e]), r)
             /\ unborn' = unborn \ {e} /\ pool' = [pool EXCEPT ![r.host] = @ \ {e}]
             /\ easy'[e] = h /\ \A o \in Handles \ {e} : easy'[o] = easy[o]
             /\ Running' = Running
             /\ \A u \in Running : Keeps(u) /\ transfers'[u] = Disturbed(h)[u]
<1>1. r \in Requests
  BY ScriptRequests
<1>2. PICK e \in Acquire(r.host) :
         LET h == Prepare(HandlerInit(easy[e]), r)
         IN  /\ Take(e, r.host)
             /\ easy' = [easy EXCEPT ![e] = h]
             /\ transfers' = Disturbed(h)
  BY DEF EnqueueNotAdded
<1>3. e \in Handles /\ r.host \in Hosts /\ (e \in pool[r.host] \/ e \in unborn)
  BY <1>1, AcquiredIsFree DEF EnqueueNotAdded
<1> DEFINE h == Prepare(HandlerInit(easy[e]), r)
<1>4. h \in EasyHandle
  BY <1>1, <1>3, HandlerInitKeeps, PrepareSets DEF TypeOK
<1>5. easy'[e] = h /\ \A o \in Handles \ {e} : easy'[o] = easy[o]
  BY <1>2, <1>3 DEF TypeOK
<1>6. transfers' = Disturbed(h)
  BY <1>2
<1>7. Running' = Running
  BY <1>4, <1>6, DisturbedKeeps DEF Running
<1>8. \A u \in Running : Keeps(u) /\ transfers'[u] = Disturbed(h)[u]
  BY <1>4, <1>6, DisturbedKeeps DEF Keeps, Running
<1>9. unborn' = unborn \ {e} /\ pool' = [pool EXCEPT ![r.host] = @ \ {e}]
  BY <1>2 DEF Take
<1> HIDE DEF h
<1> QED  BY <1>1, <1>3, <1>4, <1>5, <1>7, <1>8, <1>9 DEF h

(* What the end of a transfer does *)
LEMMA ReleaseStep ==
    ASSUME TypeOK, NEW s \in Running, NEW inMulti \in BOOLEAN, Release(s, inMulti)
    PROVE  LET e == transfers[s].handle
           IN  /\ e \in Handles /\ easy'[e] \in EasyHandle
               /\ ~easy'[e].hooks /\ easy'[e].list # "own" /\ easy'[e].reads = easy[e].reads
               /\ \A o \in Handles \ {e} : easy'[o] = easy[o]
               /\ unborn' = unborn
               /\ pool' = [pool EXCEPT ![transfers[s].request.host] = @ \cup {e}]
               /\ Running' = Running \ {s}
               /\ \A u \in Slots \ {s} : transfers'[u] = transfers[u]
<1> DEFINE t == transfers[s]
           d == HandlerDtor(easy[t.handle])
<1>1. s \in Slots /\ t \in Transfer /\ t.handle \in Handles
  BY RunningTransfer DEF Transfer
<1>2. d \in EasyHandle /\ ~d.hooks /\ d.list # "own" /\ d.reads = easy[t.handle].reads
  BY <1>1, HandlerDtorKeeps DEF TypeOK
<1>3. easy' = [easy EXCEPT ![t.handle] = [d EXCEPT !.multi = inMulti]]
  BY DEF Release
<1>4. /\ [d EXCEPT !.multi = inMulti] \in EasyHandle
      /\ ~[d EXCEPT !.multi = inMulti].hooks /\ [d EXCEPT !.multi = inMulti].list # "own"
      /\ [d EXCEPT !.multi = inMulti].reads = d.reads
  <2> HIDE DEF d
  <2> QED  BY <1>2 DEF EasyHandle
<1>5. transfers'[s] = None /\ \A u \in Slots \ {s} : transfers'[u] = transfers[u]
  BY <1>1 DEF Release, TypeOK
<1>6. Running' = Running \ {s}
  BY <1>5 DEF Running
<1>7. /\ easy'[t.handle] = [d EXCEPT !.multi = inMulti]
      /\ \A o \in Handles \ {t.handle} : easy'[o] = easy[o]
  BY <1>1, <1>3 DEF TypeOK
<1> HIDE DEF d
<1> QED  BY <1>1, <1>2, <1>4, <1>5, <1>6, <1>7 DEF Release

(* Where easy handles, pools and the handles of transfers are left alone, users are *)
LEMMA SameUsers ==
    ASSUME OneUser, UNCHANGED <<easy, unborn, pool>>, Running' = Running,
           \A u \in Running : Keeps(u)
    PROVE  OneUser'
BY DEF OneUser, Keeps

(* Reading, restarting: the transfers go on *)
LEMMA ReadStep ==
    ASSUME TypeOK, NEW s \in Slots, Read(s) \/ Restart(s)
    PROVE  /\ s \in Running /\ Running' = Running /\ \A u \in Running : Keeps(u)
           /\ transfers'[s].alone = transfers[s].alone
           /\ \A u \in Slots \ {s} : transfers'[u] = transfers[u]
           /\ UNCHANGED <<script, easy, unborn, pool>>
           /\ LET b == easy[transfers[s].handle].reads
              IN  \/ /\ pos' = [pos EXCEPT ![b] = @ + 1] /\ b \in Bodies /\ pos[b] < Size[b]
                     /\ transfers'[s].sent = Append(transfers[s].sent, pos[b] + 1)
                  \/ /\ pos' = [pos EXCEPT ![b] = 0] /\ b \in Bodies
                     /\ transfers'[s].sent = <<>>
<1> DEFINE t == transfers[s]
           b == easy[t.handle].reads
<1>1. s \in Running /\ t \in Transfer /\ t.handle \in Handles /\ t.sent \in Seq(Nat \ {0})
  BY RunningTransfer DEF Read, Restart, Transfer
<1>2. CASE Read(s)
  <2>1. b \in Bodies /\ pos[b] < Size[b] /\ pos[b] + 1 \in Nat \ {0}
    BY <1>1, <1>2 DEF Read, Uploads, TypeOK, EasyHandle
  <2>2. /\ pos' = [pos EXCEPT ![b] = @ + 1]
        /\ transfers' = [transfers EXCEPT ![s].sent = Append(@, pos[b] + 1)]
        /\ UNCHANGED <<script, easy, unborn, pool>>
    BY <1>2 DEF Read
  <2> DEFINE sent == Append(t.sent, pos[b] + 1)
             new == [transfers EXCEPT ![s].sent = sent]
  <2>3. sent \in Seq(Nat \ {0})
    BY <1>1, <2>1
  <2>4. transfers' = new
    BY <2>2
  <2>5. /\ new[s] \in Transfer /\ new[s].sent = sent
        /\ new[s].handle = t.handle /\ new[s].request = t.request
        /\ new[s].headers = t.headers /\ new[s].alone = t.alone
        /\ \A u \in Slots \ {s} : new[u] = transfers[u]
    <3> HIDE DEF sent
    <3> QED  BY <1>1, <2>3, SentKeeps
  <2> HIDE DEF new
  <2>6. Running' = Running /\ \A u \in Running : Keeps(u)
    BY <1>1, <2>4, <2>5, NoneAssumption DEF Keeps, Running
  <2> QED  BY <1>1, <2>1, <2>2, <2>4, <2>5, <2>6
<1>3. CASE Restart(s)
  <2>1. b \in Bodies
    BY <1>3, BodiesAssumption DEF Restart
  <2>2. /\ pos' = [pos EXCEPT ![b] = 0]
        /\ transfers' = [transfers EXCEPT ![s].sent = <<>>]
        /\ UNCHANGED <<script, easy, unborn, pool>>
    BY <1>3 DEF Restart
  <2> DEFINE new == [transfers EXCEPT ![s].sent = <<>>]
  <2>3. <<>> \in Seq(Nat \ {0})
    OBVIOUS
  <2>4. /\ new[s] \in Transfer /\ new[s].sent = <<>>
        /\ new[s].handle = t.handle /\ new[s].request = t.request
        /\ new[s].headers = t.headers /\ new[s].alone = t.alone
        /\ \A u \in Slots \ {s} : new[u] = transfers[u]
    BY <1>1, <2>3, SentKeeps
  <2>5. transfers' = new
    BY <2>2
  <2> HIDE DEF new
  <2>6. Running' = Running /\ \A u \in Running : Keeps(u)
    BY <1>1, <2>4, <2>5, NoneAssumption DEF Keeps, Running
  <2> QED  BY <1>1, <2>1, <2>2, <2>4, <2>5, <2>6
<1> QED  BY <1>2, <1>3

LEMMA OneUserInit == Init => OneUser
BY DEF Init, OneUser, Running

LEMMA OneUserStep == TypeOK /\ OneUser /\ [Next]_vars => OneUser'
<1> SUFFICES ASSUME TypeOK, OneUser, [Next]_vars PROVE OneUser'
  OBVIOUS
<1>a. \A u \in Running : transfers[u].handle \in Handles
  BY RunningTransfer DEF Transfer
<1>b. unborn \subseteq Handles /\ \A host \in Hosts : pool[host] \subseteq Handles
  BY DEF TypeOK
<1>0. CASE UNCHANGED vars
  BY <1>0 DEF vars, OneUser, Running
<1>1. ASSUME NEW r \in script, EnqueueNoUrl(r) PROVE OneUser'
  BY <1>1 DEF EnqueueNoUrl, vars, OneUser, Running
<1>2. ASSUME NEW r \in script, EnqueueNoMethod(r) PROVE OneUser'
  <2>1. r \in Requests
    BY ScriptRequests
  <2>2. PICK e \in Acquire(r.host) :
           /\ unborn' = unborn \ {e}
           /\ pool' = [pool EXCEPT ![r.host] = @ \cup {e}]
           /\ easy' = [easy EXCEPT ![e] = HandlerDtor(HandlerInit(@))]
    BY <1>2 DEF EnqueueNoMethod
  <2>3. e \in Handles /\ r.host \in Hosts /\ (e \in pool[r.host] \/ e \in unborn)
    BY <1>2, <2>1, AcquiredIsFree DEF EnqueueNoMethod
  <2> DEFINE d == HandlerDtor(HandlerInit(easy[e]))
  <2>4. ~d.hooks /\ d.list # "own"
    BY <2>3, HandlerInitKeeps, HandlerDtorKeeps DEF TypeOK
  <2>5. easy'[e] = d /\ \A o \in Handles \ {e} : easy'[o] = easy[o]
    BY <2>2, <2>3 DEF TypeOK
  <2> HIDE DEF d
  <2>6. pool'[r.host] = pool[r.host] \cup {e}
        /\ \A host \in Hosts \ {r.host} : pool'[host] = pool[host]
    BY <2>2, <2>3 DEF TypeOK
  <2>7. \A u \in Running : transfers[u].handle # e
    BY <2>3 DEF OneUser
  <2>8. \A host \in Hosts \ {r.host} : e \notin pool[host]
    BY <2>3 DEF OneUser
  <2>9. transfers' = transfers /\ Running' = Running
    BY <1>2 DEF EnqueueNoMethod, Running
  <2> QED  BY <1>a, <1>b, <2>2, <2>3, <2>4, <2>5, <2>6, <2>7, <2>8, <2>9 DEF OneUser
<1>3. ASSUME NEW r \in script, EnqueueNotAdded(r) PROVE OneUser'
  <2>1. PICK e \in Handles, h \in EasyHandle :
             /\ r \in Requests /\ r.host \in Hosts
             /\ e \in pool[r.host] \/ e \in unborn
             /\ unborn' = unborn \ {e} /\ pool' = [pool EXCEPT ![r.host] = @ \ {e}]
             /\ \A o \in Handles \ {e} : easy'[o] = easy[o]
             /\ Running' = Running
             /\ \A u \in Running : Keeps(u)
    BY <1>3, EnqueueNotAddedStep
  <2>2. pool'[r.host] = pool[r.host] \ {e}
        /\ \A host \in Hosts \ {r.host} : pool'[host] = pool[host]
    BY <2>1 DEF TypeOK
  <2>3. \A u \in Running : transfers[u].handle # e
    BY <2>1 DEF OneUser
  <2>4. \A host \in Hosts : e \notin pool'[host]
    BY <2>1, <2>2 DEF OneUser
  <2> QED  BY <1>a, <1>b, <2>1, <2>2, <2>3, <2>4 DEF OneUser, Keeps
<1>4. ASSUME NEW s \in Slots, NEW r \in script, Enqueue(s, r) PROVE OneUser'
  <2>0. PICK e \in Handles, h \in EasyHandle : Enqueued(s, r, e, h)
    BY <1>4, EnqueueStep
  <2>1. transfers'[s].handle = e
    BY <2>0 DEF Enqueued
  <2>2. pool'[r.host] = pool[r.host] \ {e}
        /\ \A host \in Hosts \ {r.host} : pool'[host] = pool[host]
    BY <2>0 DEF Enqueued, TypeOK
  <2>3. \A u \in Running : transfers[u].handle # e
    BY <2>0 DEF Enqueued, OneUser
  <2>4. \A host \in Hosts : e \notin pool'[host]
    BY <2>0, <2>2 DEF Enqueued, OneUser
  <2>5. /\ unborn' = unborn \ {e} /\ easy'[e].multi /\ easy'[e].hooks
        /\ \A o \in Handles \ {e} : easy'[o] = easy[o]
        /\ s \notin Running /\ Running' = Running \cup {s}
        /\ \A u \in Running : transfers'[u].handle = transfers[u].handle
    BY <2>0 DEF Enqueued, Keeps
  <2> QED  BY <1>a, <1>b, <2>1, <2>2, <2>3, <2>4, <2>5 DEF OneUser
<1>5. ASSUME NEW s \in Slots, Read(s) \/ Restart(s) PROVE OneUser'
  BY <1>5, ReadStep, SameUsers
<1>6. ASSUME NEW s \in Slots, NEW inMulti \in BOOLEAN, s \in Running, Release(s, inMulti)
      PROVE  OneUser'
  <2> DEFINE e == transfers[s].handle
             home == transfers[s].request.host
  <2>1. /\ e \in Handles /\ ~easy'[e].hooks /\ easy'[e].list # "own"
        /\ \A o \in Handles \ {e} : easy'[o] = easy[o]
        /\ unborn' = unborn /\ pool' = [pool EXCEPT ![home] = @ \cup {e}]
        /\ Running' = Running \ {s}
        /\ \A u \in Slots \ {s} : transfers'[u] = transfers[u]
    BY <1>6, ReleaseStep
  <2>2. \A host \in Hosts : pool'[host] = IF host = home THEN pool[host] \cup {e} ELSE pool[host]
    BY <2>1 DEF TypeOK
  <2>3. /\ e \notin unborn /\ \A host \in Hosts : e \notin pool[host]
        /\ \A u \in Running \ {s} : transfers[u].handle # e
    BY <1>6 DEF OneUser
  <2> HIDE DEF e, home
  <2>4. \A u \in Running' : u \in Slots \ {s} /\ u \in Running
    BY <2>1 DEF Running
  <2> QED  BY <1>a, <1>b, <2>1, <2>2, <2>3, <2>4 DEF OneUser
<1>7. ASSUME NEW e \in Handles, ReadStray(e) PROVE OneUser'
  BY <1>7 DEF ReadStray, OneUser, Running
<1> QED  BY <1>0, <1>1, <1>2, <1>3, <1>4, <1>5, <1>6, <1>7 DEF Next, Dequeue, ResetRefused

-----------------------------------------------------------------------------
(* Bodies *)

(* Preparing handle h leaves the transfers it does not disturb alone: their body is *)
(* another one than what h reads, and is not rewound.                       *)
LEMMA PreparedElsewhere ==
    ASSUME IInv, NEW r \in Requests, NEW g \in EasyHandle, NEW h \in EasyHandle,
           h = Prepare(HandlerInit(g), r),
           NEW u \in Running, BodyRead(u),
           Disturbed(h)[u].alone, transfers[u].request.body \in Seekable
    PROVE  LET b == transfers[u].request.body
           IN  /\ transfers[u].alone /\ h.reads # b /\ b \in Bodies
               /\ Rewound(r)[b] = pos[b]
<1> DEFINE b == transfers[u].request.body
<1>1. transfers[u].alone /\ transfers[u].handle \notin Reading(h.reads)
  BY DisturbedKeeps DEF IInv
<1>2. transfers[u].handle \in Handles /\ easy[transfers[u].handle].multi
  BY RunningTransfer DEF IInv, OneUser, Transfer
<1>3. b \in Bodies /\ b # None
  BY BodiesAssumption
<1>4. easy[transfers[u].handle].reads = b
  BY <1>1 DEF BodyRead
<1>5. h.reads # b
  BY <1>1, <1>2, <1>3, <1>4 DEF Reading
<1>6. r.body # None => h.reads = r.body
  BY HandlerInitKeeps, PrepareSets
<1>7. Rewound(r)[b] = pos[b]
  BY <1>3, <1>5, <1>6 DEF Rewound, IInv, TypeOK
<1> QED  BY <1>1, <1>3, <1>5, <1>7

LEMMA BodyReadInit == Init => \A s \in Running : BodyRead(s)
BY DEF Init, Running

LEMMA BodyReadStep == IInv /\ [Next]_vars => (\A s \in Running : BodyRead(s))'
<1> SUFFICES ASSUME IInv, [Next]_vars, NEW u \in Running' PROVE BodyRead(u)'
  OBVIOUS
<1> USE DEF IInv
<1> DEFINE t == transfers[u]
           b == t.request.body
<1>a. ASSUME u \in Running
      PROVE  /\ t \in Transfer /\ t.handle \in Handles /\ t.sent \in Seq(Nat \ {0})
             /\ easy[t.handle].multi /\ BodyRead(u)
  BY <1>a, RunningTransfer DEF Transfer, OneUser
<1>b. ASSUME NEW c \in Seekable PROVE c \in Bodies /\ c # None
  BY BodiesAssumption
<1>0. CASE UNCHANGED vars
  <2> u \in Running
    BY <1>0 DEF vars, Running
  <2> QED  BY <1>0, <1>a DEF vars, BodyRead
<1>1. ASSUME NEW r \in script, EnqueueNoUrl(r) PROVE BodyRead(u)'
  <2> u \in Running
    BY <1>1 DEF EnqueueNoUrl, vars, Running
  <2> QED  BY <1>1, <1>a DEF EnqueueNoUrl, vars, BodyRead
<1>2. ASSUME NEW r \in script, EnqueueNoMethod(r) PROVE BodyRead(u)'
  <2>1. u \in Running /\ transfers' = transfers /\ pos' = pos
    BY <1>2 DEF EnqueueNoMethod, Running
  <2>2. PICK e \in Acquire(r.host) : easy' = [easy EXCEPT ![e] = HandlerDtor(HandlerInit(@))]
    BY <1>2 DEF EnqueueNoMethod
  <2>3. e \in Handles /\ r.host \in Hosts /\ (e \in pool[r.host] \/ e \in unborn)
    BY <1>2, ScriptRequests, AcquiredIsFree DEF EnqueueNoMethod
  <2> DEFINE d == HandlerDtor(HandlerInit(easy[e]))
  <2>4. d.multi = easy[e].multi /\ d.reads = easy[e].reads
    BY <2>3, HandlerInitKeeps, HandlerDtorKeeps DEF TypeOK
  <2>5. easy'[e] = d /\ \A o \in Handles \ {e} : easy'[o] = easy[o]
    BY <2>2, <2>3 DEF TypeOK
  <2>6. t.handle # e
    BY <2>1, <2>3 DEF OneUser
  <2> HIDE DEF d
  <2> QED  BY <1>a, <2>1, <2>4, <2>5, <2>6 DEF BodyRead
<1>3. ASSUME NEW r \in script, EnqueueNotAdded(r) PROVE BodyRead(u)'
  <2>1. PICK e \in Handles, h \in EasyHandle :
             /\ r \in Requests /\ r.host \in Hosts
             /\ e \in pool[r.host] \/ e \in unborn
             /\ h = Prepare(HandlerInit(easy[e]), r)
             /\ easy'[e] = h /\ \A o \in Handles \ {e} : easy'[o] = easy[o]
             /\ Running' = Running
             /\ \A v \in Running : Keeps(v) /\ transfers'[v] = Disturbed(h)[v]
    BY <1>3, EnqueueNotAddedStep
  <2>2. u \in Running /\ t.handle # e
    BY <2>1 DEF OneUser
  <2>3. /\ transfers'[u].handle = t.handle /\ transfers'[u].request = t.request
        /\ transfers'[u].sent = t.sent /\ transfers'[u].alone = Disturbed(h)[u].alone
    BY <2>1, <2>2, DisturbedKeeps
  <2>4. pos' = Rewound(r)
    BY <1>3 DEF EnqueueNotAdded
  <2> SUFFICES ASSUME transfers'[u].alone, b \in Seekable
               PROVE  BodyRead(u)'
    BY <2>3 DEF BodyRead
  <2>5. t.alone /\ h.reads # b /\ pos'[b] = pos[b]
    <3>1. easy[e] \in EasyHandle
      BY DEF TypeOK
    <3> QED  BY <1>a, <2>1, <2>2, <2>3, <2>4, <3>1, PreparedElsewhere
  <2> QED  BY <1>a, <2>1, <2>2, <2>3, <2>5 DEF BodyRead
<1>4. ASSUME NEW s \in Slots, NEW r \in script, Enqueue(s, r) PROVE BodyRead(u)'
  <2>1. PICK e \in Handles, h \in EasyHandle : Enqueued(s, r, e, h)
    BY <1>4, EnqueueStep
  <2>2. pos' = Rewound(r)
    BY <1>4 DEF Enqueue
  <2>3. r \in Requests /\ easy[e] \in EasyHandle
    BY <2>1 DEF Enqueued, TypeOK
  <2>4. CASE u = s
    <3>1. /\ transfers'[s] = [handle |-> e, request |-> r, headers |-> Headers(r),
                             sent |-> <<>>, alone |-> Reading(h.reads) = {}]
          /\ easy'[e].reads = h.reads /\ easy'[e].size = h.size
          /\ \A o \in Handles \ {e} : easy'[o] = easy[o]
          /\ h = Prepare(HandlerInit(easy[e]), r)
      BY <2>1 DEF Enqueued
    <3>2. /\ transfers'[s].handle = e /\ transfers'[s].request = r
          /\ transfers'[s].sent = <<>> /\ transfers'[s].alone = (Reading(h.reads) = {})
      BY <3>1
    <3> SUFFICES ASSUME Reading(h.reads) = {}, r.body \in Seekable
                 PROVE  BodyRead(s)'
      BY <2>4, <3>2 DEF BodyRead
    <3>3. r.body \in Bodies /\ r.body # None
      BY <1>b
    <3>4. h.reads = r.body /\ h.size = Size[r.body]
      BY <2>3, <3>1, <3>3, HandlerInitKeeps, PrepareSets
    <3>5. pos'[r.body] = 0
      BY <2>2, <3>3 DEF Rewound, TypeOK
    <3>6. \A o \in Handles \ {e} : easy'[o].multi => easy'[o].reads # r.body
      BY <3>1, <3>3, <3>4 DEF Reading
    <3> QED  BY <3>1, <3>2, <3>4, <3>5, <3>6 DEF BodyRead
  <2>5. CASE u # s
    <3>1. u \in Running /\ t.handle # e
      BY <2>1, <2>5 DEF Enqueued, OneUser
    <3>2. /\ transfers'[u].handle = t.handle /\ transfers'[u].request = t.request
          /\ transfers'[u].sent = t.sent /\ transfers'[u].alone = Disturbed(h)[u].alone
      BY <2>1, <3>1, DisturbedKeeps DEF Enqueued
    <3> SUFFICES ASSUME transfers'[u].alone, b \in Seekable
                 PROVE  BodyRead(u)'
      BY <3>2 DEF BodyRead
    <3>3. t.alone /\ h.reads # b /\ pos'[b] = pos[b]
      <4>1. h = Prepare(HandlerInit(easy[e]), r)
        BY <2>1 DEF Enqueued
      <4> QED  BY <1>a, <2>2, <2>3, <3>1, <3>2, <4>1, PreparedElsewhere
    <3>4. easy'[e].reads = h.reads /\ \A o \in Handles \ {e} : easy'[o] = easy[o]
      BY <2>1 DEF Enqueued
    <3> QED  BY <1>a, <3>1, <3>2, <3>3, <3>4 DEF BodyRead
  <2> QED  BY <2>4, <2>5
<1>5. ASSUME NEW s \in Slots, Read(s) \/ Restart(s) PROVE BodyRead(u)'
  <2> DEFINE c == easy[transfers[s].handle].reads
  <2>1. /\ s \in Running /\ Running' = Running /\ Keeps(u) /\ easy' = easy
        /\ transfers'[s].alone = transfers[s].alone
        /\ u # s => transfers'[u] = transfers[u]
        /\ c \in Bodies
        /\ \/ /\ pos' = [pos EXCEPT ![c] = @ + 1] /\ pos[c] < Size[c]
              /\ transfers'[s].sent = Append(transfers[s].sent, pos[c] + 1)
           \/ pos' = [pos EXCEPT ![c] = 0] /\ transfers'[s].sent = <<>>
    BY <1>5, ReadStep DEF Running
  <2>2. u \in Running /\ transfers'[u].handle = t.handle /\ transfers'[u].request = t.request
    BY <2>1 DEF Keeps
  <2> SUFFICES ASSUME transfers'[u].alone, b \in Seekable
               PROVE  BodyRead(u)'
    BY <2>2 DEF BodyRead
  <2>3. b \in Bodies /\ pos \in [Bodies -> Nat]
    BY <1>b DEF TypeOK
  <2>4. t.alone
    BY <2>1
  <2>5. CASE u # s
    <3>1. transfers[s].handle \in Handles \ {t.handle} /\ easy[transfers[s].handle].multi
      BY <2>1, <2>2, <2>5, RunningTransfer DEF OneUser, Transfer
    <3>2. c # b
      BY <1>a, <2>2, <2>4, <3>1 DEF BodyRead
    <3>3. pos'[b] = pos[b]
      BY <2>1, <2>3, <3>2
    <3> QED  BY <1>a, <2>1, <2>2, <2>4, <2>5, <3>3 DEF BodyRead
  <2>6. CASE u = s
    <3>1. c = b /\ pos[b] = Len(t.sent) /\ \A i \in 1..Len(t.sent) : t.sent[i] = i
      BY <1>a, <2>2, <2>4, <2>6 DEF BodyRead
    <3>2. t.sent \in Seq(Nat \ {0})
      BY <1>a, <2>2
    <3>3. /\ pos'[b] = Len(transfers'[u].sent)
          /\ \A i \in 1..Len(transfers'[u].sent) : transfers'[u].sent[i] = i
      <4>1. CASE /\ pos' = [pos EXCEPT ![c] = @ + 1]
                 /\ transfers'[s].sent = Append(transfers[s].sent, pos[c] + 1)
        <5> DEFINE sent == t.sent
        <5>1. pos'[b] = Len(sent) + 1
          BY <2>3, <3>1, <4>1
        <5>2. transfers'[u].sent = Append(sent, Len(sent) + 1)
          BY <2>6, <3>1, <4>1
        <5> HIDE DEF sent
        <5> QED  BY <3>1, <3>2, <5>1, <5>2 DEF sent
      <4>2. CASE pos' = [pos EXCEPT ![c] = 0] /\ transfers'[s].sent = <<>>
        BY <2>3, <2>6, <3>1, <4>2
      <4> QED  BY <2>1, <4>1, <4>2
    <3> QED  BY <1>a, <2>1, <2>2, <2>4, <3>3 DEF BodyRead
  <2> QED  BY <2>5, <2>6
<1>6. ASSUME NEW s \in Slots, NEW inMulti \in BOOLEAN, s \in Running, Release(s, inMulti)
      PROVE  BodyRead(u)'
  <2> DEFINE e == transfers[s].handle
  <2>1. /\ e \in Handles /\ easy'[e].reads = easy[e].reads
        /\ \A o \in Handles \ {e} : easy'[o] = easy[o]
        /\ Running' = Running \ {s}
        /\ \A v \in Slots \ {s} : transfers'[v] = transfers[v]
    BY <1>6, ReleaseStep
  <2>2. u \in Running \ {s} /\ transfers'[u] = transfers[u] /\ pos' = pos
    BY <1>6, <2>1 DEF Running, Release
  <2>3. t.handle # e /\ easy[e].multi
    BY <1>6, <2>2 DEF OneUser
  <2> HIDE DEF e
  <2> QED  BY <1>a, <2>1, <2>2, <2>3 DEF BodyRead
<1>7. ASSUME NEW e \in Handles, ReadStray(e) PROVE BodyRead(u)'
  <2>1. /\ u \in Running /\ UNCHANGED <<easy, transfers>>
        /\ easy[e].multi /\ t.handle # e /\ pos' = [pos EXCEPT ![easy[e].reads] = @ + 1]
    BY <1>7 DEF ReadStray, Uploads, Running
  <2> SUFFICES ASSUME t.alone, b \in Seekable PROVE BodyRead(u)'
    BY <2>1 DEF BodyRead
  <2>2. easy[e].reads # b
    BY <1>a, <2>1 DEF BodyRead
  <2>3. pos'[b] = pos[b]
    BY <1>b, <2>1, <2>2 DEF TypeOK
  <2> QED  BY <1>a, <2>1, <2>3 DEF BodyRead
<1> QED  BY <1>0, <1>1, <1>2, <1>3, <1>4, <1>5, <1>6, <1>7 DEF Next, Dequeue, ResetRefused

-----------------------------------------------------------------------------
(* Options *)

(* The registries are sequences of options. *)
LEMMA RegistriesType ==
    /\ Registry \in Seq(Options) /\ Len(Registry) = 46
    /\ SslRegistry \in Seq(Options) /\ Len(SslRegistry) = 17
<1>1. DOMAIN Registry = 1..46 /\ Len(Registry) = 46
  BY DEF Registry
<1>2. DOMAIN SslRegistry = 1..17 /\ Len(SslRegistry) = 17
  BY DEF SslRegistry
<1>3. /\ \A i \in 1..46 : Registry[i] \in Options
      /\ \A i \in 1..17 : SslRegistry[i] \in Options
  BY <1>1, <1>2 DEF Options, ToSet
<1>4. Registry = [i \in 1..46 |-> Registry[i]]
  BY SMTT(60) DEF Registry
<1>5. SslRegistry = [i \in 1..17 |-> SslRegistry[i]]
  BY SMTT(60) DEF SslRegistry
<1>6. [i \in 1..46 |-> Registry[i]] \in Seq(Options)
  BY <1>3, IsASeq
<1>7. [i \in 1..17 |-> SslRegistry[i]] \in Seq(Options)
  BY <1>3, IsASeq
<1> QED  BY <1>1, <1>2, <1>4, <1>5, <1>6, <1>7, Zenon

(* Every option has a place in the order of registration. *)
LEMMA PlaceOfOption ==
    ASSUME NEW o \in Options
    PROVE  Place[o] \in DOMAIN Order /\ Order[Place[o]] = o /\ Place[o] <= Len(Order)
<1>1. Registry \in Seq(Options) /\ SslRegistry \in Seq(Options)
  BY RegistriesType
<1>2. \E i \in DOMAIN Order : Order[i] = o
  <2>1. CASE o \in ToSet(Registry)
    <3>1. PICK i \in DOMAIN Registry : Registry[i] = o
      BY <2>1 DEF ToSet
    <3>2. i \in DOMAIN Order /\ Order[i] = o
      BY <1>1, <3>1, ConcatProperties DEF Order
    <3> QED  BY <3>2
  <2>2. CASE o \in ToSet(SslRegistry)
    <3>1. PICK i \in DOMAIN SslRegistry : SslRegistry[i] = o
      BY <2>2 DEF ToSet
    <3>2. Len(Registry) + i \in DOMAIN Order /\ Order[Len(Registry) + i] = o
      BY <1>1, <3>1, ConcatProperties DEF Order
    <3> QED  BY <3>2
  <2> QED  BY <2>1, <2>2 DEF Options
<1>3. Place[o] = CHOOSE i \in DOMAIN Order : Order[i] = o
  BY DEF Place
<1>4. Order \in Seq(Options)
  BY <1>1, ConcatProperties DEF Order
<1> QED  BY <1>2, <1>3, <1>4

(* Ranges are registered before what depends on them, and all of these are  *)
(* options of the first registry.                                           *)
LEMMA NamedPlaces ==
    /\ {"resume", "range", "etag", "lastmodified"} \subseteq Options \ SslOptions
    /\ \A p \in {"resume", "range"}, o \in {"etag", "lastmodified"} : Place[p] < Place[o]
<1>1. Len(Registry) = 46 /\ Len(SslRegistry) = 17
  BY RegistriesType
<1>2. /\ Registry[30] = "resume" /\ Registry[31] = "range"
      /\ Registry[32] = "etag" /\ Registry[34] = "lastmodified"
  BY DEF Registry
<1>3. \A i \in 1..46 : /\ Registry[i] = "resume" => i = 30
                       /\ Registry[i] = "range" => i = 31
                       /\ Registry[i] = "etag" => i = 32
                       /\ Registry[i] = "lastmodified" => i = 34
  BY SMTT(60) DEF Registry
<1>4. \A i \in 1..17 : SslRegistry[i] \notin {"resume", "range", "etag", "lastmodified"}
  BY SMTT(60) DEF SslRegistry
<1>5. Registry \in Seq(Options) /\ SslRegistry \in Seq(Options)
  BY RegistriesType
<1>6. {"resume", "range", "etag", "lastmodified"} \subseteq Options \ SslOptions
  BY <1>1, <1>2, <1>4, <1>5 DEF Options, SslOptions, ToSet
<1>7. \A i \in DOMAIN Order : /\ i \in 1..63
                              /\ i <= 46 => Order[i] = Registry[i]
                              /\ i > 46 => i - 46 \in 1..17 /\ Order[i] = SslRegistry[i - 46]
  <2>1. /\ Order \in Seq(Options) /\ Len(Order) = Len(Registry) + Len(SslRegistry)
        /\ \A i \in 1..Len(Registry) + Len(SslRegistry) :
             Order[i] = IF i <= Len(Registry) THEN Registry[i] ELSE SslRegistry[i - Len(Registry)]
    BY <1>5, ConcatProperties, Zenon DEF Order
  <2>2. /\ Len(Order) = 63
        /\ \A i \in 1..63 : Order[i] = IF i <= 46 THEN Registry[i] ELSE SslRegistry[i - 46]
    BY <1>1, <2>1
  <2>3. DOMAIN Order = 1..63
    <3>1. DOMAIN Order = 1..Len(Order)
      BY <2>1, LenProperties, Zenon
    <3> QED  BY <2>2, <3>1
  <2> QED  BY <2>2, <2>3
<1>8. Place["resume"] = 30 /\ Place["range"] = 31 /\ Place["etag"] = 32 /\ Place["lastmodified"] = 34
  <2>1. \A o \in {"resume", "range", "etag", "lastmodified"} :
           LET i == Place[o] IN i \in 1..46 /\ Registry[i] = o
    <3> SUFFICES ASSUME NEW o \in {"resume", "range", "etag", "lastmodified"}
                 PROVE  Place[o] \in 1..46 /\ Registry[Place[o]] = o
      OBVIOUS
    <3>1. o \in Options
      BY <1>6
    <3>2. Place[o] \in DOMAIN Order /\ Order[Place[o]] = o
      BY <3>1, PlaceOfOption
    <3>3. Place[o] \in 1..63 /\ ~(Place[o] > 46)
      BY <1>4, <1>7, <3>2
    <3> QED  BY <1>7, <3>2, <3>3
  <2> QED  BY <1>3, <2>1
<1> QED  BY <1>6, <1>8

(* php_http_options_apply on an easy handle without credentials: what is registered *)
(* before a refused option has the value of the request, or its default.    *)
LEMMA AppliedOptions ==
    ASSUME NEW r \in Requests, NEW opt \in [Settings -> Values],
           opt["httpauth"] = Default, opt["proxyauth"] = Default
    PROVE  LET a == ApplyOptions(opt, r)
           IN  /\ \A o \in (Settings \cap Options) \ KeptBy(r) :
                     Place[o] < Stop(r) => a[o] = Given(o, r)
               /\ \A o \in {"httpauth", "proxyauth"} : a[o] \in {Given(o, r), Default}
               /\ Place["lastmodified"] < Stop(r) => a["timecondition"] = TimeCondition(r)
<1> DEFINE a == ApplyOptions(opt, r)
<1>1. \A o \in Settings : a[o] =
          IF o = "timecondition"
          THEN IF Applied("lastmodified", r) THEN TimeCondition(r) ELSE opt[o]
          ELSE IF Sets(o, r) THEN Given(o, r) ELSE opt[o]
  BY DEF ApplyOptions
<1>2. "timecondition" \notin Options
  <2>1. \A i \in 1..46 : Registry[i] # "timecondition"
    BY SMTT(60) DEF Registry
  <2>2. \A i \in 1..17 : SslRegistry[i] # "timecondition"
    BY SMTT(60) DEF SslRegistry
  <2>3. DOMAIN Registry = 1..46 /\ DOMAIN SslRegistry = 1..17
    BY DEF Registry, SslRegistry
  <2> QED  BY <2>1, <2>2, <2>3 DEF Options, ToSet
<1>3. ASSUME NEW o \in (Settings \cap Options) \ KeptBy(r), Place[o] < Stop(r)
      PROVE  a[o] = Given(o, r)
  <2>1. a[o] = IF Sets(o, r) THEN Given(o, r) ELSE opt[o]
    BY <1>1, <1>2
  <2>2. /\ o \in CheckStrlen \ {"proxyauth", "httpauth"} => Given(o, r) \notin {Default, Barred}
        /\ o = "cookies" => o \in DOMAIN r.opts
        /\ o \in SslOptions => "ssl" \in DOMAIN r.opts
    BY DEF KeptBy
  <2>3. Applied(o, r)
    BY <1>3, <2>2 DEF Applied
  <2>4. CASE o \in {"proxyauth", "httpauth"}
    <3>1. o \notin CheckBasedir
      BY <2>4 DEF CheckBasedir
    <3>2. o \in DOMAIN r.opts => Sets(o, r)
      BY <2>3, <2>4, <3>1 DEF Sets
    <3> QED  BY <2>1, <2>4, <3>2 DEF Given
  <2>5. CASE o \notin {"proxyauth", "httpauth"}
    <3>1. o \in CheckStrlen => o \in DOMAIN r.opts /\ r.opts[o] # Barred
      BY <2>2, <2>5 DEF Given
    <3>2. o \in CheckBasedir => o \in CheckStrlen
      BY DEF CheckStrlen
    <3>3. Sets(o, r)
      BY <2>2, <2>3, <3>1, <3>2 DEF Sets
    <3> QED  BY <2>1, <3>3
  <2> QED  BY <2>4, <2>5
<1>4. \A o \in {"httpauth", "proxyauth"} : a[o] \in {Given(o, r), Default}
  BY <1>1, NamedSettings
<1>5. ASSUME Place["lastmodified"] < Stop(r) PROVE a["timecondition"] = TimeCondition(r)
  <2>1. Applied("lastmodified", r)
    BY <1>5, NamedPlaces DEF Applied
  <2> QED  BY <1>1, <2>1, NamedSettings
<1> QED  BY <1>3, <1>4, <1>5

(* Without a refused option all options are applied, and a range of the request is *)
(* known to what is registered behind it.                                   *)
LEMMA NothingRefused ==
    ASSUME NEW r \in Requests, r.refused = {}
    PROVE  /\ Applied("etag", r) /\ Place["lastmodified"] < Stop(r)
           /\ \A o \in {"etag", "lastmodified"} :
                RangeRequest(o, r) <=> {"resume", "range"} \cap DOMAIN r.opts # {}
<1>1. Stop(r) = Len(Order) + 1
  BY DEF Stop
<1>2. Len(Order) \in Nat
  <2>1. Registry \in Seq(Options) /\ SslRegistry \in Seq(Options)
    BY RegistriesType
  <2>2. Order \in Seq(Options)
    BY <2>1, ConcatProperties DEF Order
  <2> QED  BY <2>2
<1>3. ASSUME NEW o \in {"resume", "range", "etag", "lastmodified"}
      PROVE  Place[o] < Stop(r) /\ Applied(o, r)
  <2>1. o \in Options \ SslOptions
    BY NamedPlaces
  <2>2. Place[o] \in DOMAIN Order /\ Place[o] <= Len(Order)
    BY <2>1, PlaceOfOption
  <2>3. Order \in Seq(Options)
    <3>1. Registry \in Seq(Options) /\ SslRegistry \in Seq(Options)
      BY RegistriesType
    <3> QED  BY <3>1, ConcatProperties DEF Order
  <2>4. Place[o] \in Nat
    BY <2>2, <2>3, LenProperties
  <2>5. Place[o] < Stop(r)
    BY <1>1, <1>2, <2>2, <2>4
  <2> QED  BY <2>1, <2>5 DEF Applied
<1> QED  BY <1>3, NamedPlaces DEF RangeRequest

LEMMA RequestsApartInit == Init => RequestsApart
BY DEF Init, RequestsApart, NothingInherited, ConditionsAgree, SendsItsOwn, Running

(* Where the easy handles of the transfers are left alone, so is what is set on them. *)
LEMMA SameSettings ==
    ASSUME RequestsApart,
           \A u \in Running' : /\ u \in Running
                              /\ transfers'[u].handle = transfers[u].handle
                              /\ transfers'[u].request = transfers[u].request
                              /\ transfers'[u].headers = transfers[u].headers
                              /\ easy'[transfers[u].handle] = easy[transfers[u].handle]
    PROVE  RequestsApart'
BY DEF RequestsApart, NothingInherited, ConditionsAgree, SendsItsOwn

(* A transfer that starts has its own settings. *)
Own(u) ==
    LET t == transfers[u]
        r == t.request
        h == easy[t.handle]
        opt == h.opt
        partial == {"resume", "range"} \cap DOMAIN r.opts # {}
    IN  /\ \A o \in (Settings \cap Options) \ KeptBy(r) :
              Place[o] < Stop(r) => opt[o] = Given(o, r)
        /\ \A o \in {"httpauth", "proxyauth"} : opt[o] \in {Given(o, r), Default}
        /\ Place["lastmodified"] < Stop(r) /\ "lastmodified" \notin DOMAIN r.opts =>
              opt["timecondition"] = Default
        /\ "own" \in ToSet(t.headers) => easy[t.handle].list = "own"
        /\ r.refused = {} =>
              /\ "etag" \in DOMAIN r.opts => ("If-Match" \in ToSet(t.headers)) = partial
              /\ "lastmodified" \in DOMAIN r.opts =>
                   opt["timecondition"] = (IF partial THEN "IFUNMODSINCE" ELSE "IFMODSINCE")
        /\ IF r.method \in Kinds THEN h.kind = r.method ELSE h.custom = r.method
        /\ r.body # None => h.reads = r.body /\ h.size = Size[r.body]

LEMMA RequestsApartIsOwn == RequestsApart <=> \A u \in Running : Own(u)
BY DEF RequestsApart, NothingInherited, ConditionsAgree, SendsItsOwn, Own

LEMMA RequestsApartStep == IInv /\ RequestsApart /\ [Next]_vars => RequestsApart'
<1> SUFFICES ASSUME IInv, RequestsApart, [Next]_vars PROVE RequestsApart'
  OBVIOUS
<1> USE DEF IInv
<1>a. \A u \in Running : transfers[u].handle \in Handles
  BY RunningTransfer DEF Transfer
<1>0. CASE UNCHANGED vars
  BY <1>0, SameSettings DEF vars, Running
<1>1. ASSUME NEW r \in script, EnqueueNoUrl(r) PROVE RequestsApart'
  BY <1>1, SameSettings DEF EnqueueNoUrl, vars, Running
<1>2. ASSUME NEW r \in script, EnqueueNoMethod(r) PROVE RequestsApart'
  <2>1. PICK e \in Acquire(r.host) : easy' = [easy EXCEPT ![e] = HandlerDtor(HandlerInit(@))]
    BY <1>2 DEF EnqueueNoMethod
  <2>2. e \in Handles /\ r.host \in Hosts /\ (e \in pool[r.host] \/ e \in unborn)
    BY <1>2, ScriptRequests, AcquiredIsFree DEF EnqueueNoMethod
  <2>3. \A u \in Running : easy'[transfers[u].handle] = easy[transfers[u].handle]
    BY <1>a, <2>1, <2>2 DEF OneUser, TypeOK
  <2>4. transfers' = transfers /\ Running' = Running
    BY <1>2 DEF EnqueueNoMethod, Running
  <2> QED  BY <2>3, <2>4, SameSettings
<1>3. ASSUME NEW r \in script, EnqueueNotAdded(r) PROVE RequestsApart'
  <2>1. PICK e \in Handles, h \in EasyHandle :
             /\ r.host \in Hosts /\ (e \in pool[r.host] \/ e \in unborn)
             /\ \A o \in Handles \ {e} : easy'[o] = easy[o]
             /\ Running' = Running
             /\ \A v \in Running : Keeps(v)
    BY <1>3, EnqueueNotAddedStep
  <2>2. \A u \in Running : transfers[u].handle # e
    BY <2>1 DEF OneUser
  <2>3. \A u \in Running : easy'[transfers[u].handle] = easy[transfers[u].handle]
    BY <1>a, <2>1, <2>2
  <2> QED  BY <2>1, <2>3, SameSettings DEF Keeps
<1>4. ASSUME NEW s \in Slots, NEW r \in script, Enqueue(s, r) PROVE RequestsApart'
  <2>1. PICK e \in Handles, h \in EasyHandle : Enqueued(s, r, e, h)
    BY <1>4, EnqueueStep
  <2> SUFFICES ASSUME NEW u \in Running' PROVE Own(u)'
    BY DEF RequestsApart, NothingInherited, ConditionsAgree, SendsItsOwn, Own
  <2>2. CASE u # s
    <3>1. u \in Running /\ transfers[u].handle # e
      BY <2>1, <2>2 DEF Enqueued, OneUser
    <3>2. easy'[transfers[u].handle] = easy[transfers[u].handle]
      BY <1>a, <2>1, <3>1 DEF Enqueued
    <3>3. Keeps(u)
      BY <2>1, <3>1 DEF Enqueued
    <3>4. Own(u)
      BY <3>1, RequestsApartIsOwn
    <3> QED  BY <3>2, <3>3, <3>4 DEF Own, Keeps
  <2>3. CASE u = s
    <3>1. /\ transfers'[s] = [handle |-> e, request |-> r, headers |-> Headers(r),
                             sent |-> <<>>, alone |-> Reading(h.reads) = {}]
          /\ easy'[e].opt = h.opt /\ easy'[e].list = h.list
          /\ easy'[e].kind = h.kind /\ easy'[e].custom = h.custom
          /\ easy'[e].reads = h.reads /\ easy'[e].size = h.size
          /\ h = Prepare(HandlerInit(easy[e]), r) /\ r \in Requests
      BY <2>1 DEF Enqueued
    <3>2. /\ transfers'[s].handle = e /\ transfers'[s].request = r
          /\ transfers'[s].headers = Headers(r)
      BY <3>1
    <3> DEFINE i == HandlerInit(easy[e])
    <3>3. /\ i \in EasyHandle /\ i.opt["httpauth"] = Default /\ i.opt["proxyauth"] = Default
      BY HandlerInitKeeps DEF TypeOK
    <3>4. /\ h.opt = ApplyOptions(i.opt, r) /\ (r.hdrs \/ r.body # None => h.list = "own")
          /\ IF r.method \in Kinds THEN h.kind = r.method ELSE h.custom = r.method
          /\ r.body # None => h.reads = r.body /\ h.size = Size[r.body]
      BY <3>1, <3>3, PrepareSets
    <3>5. i.opt \in [Settings -> Values]
      <4> HIDE DEF i
      <4> QED  BY <3>3 DEF EasyHandle
    <3> HIDE DEF i
    <3>6. /\ \A o \in (Settings \cap Options) \ KeptBy(r) :
               Place[o] < Stop(r) => h.opt[o] = Given(o, r)
          /\ \A o \in {"httpauth", "proxyauth"} : h.opt[o] \in {Given(o, r), Default}
          /\ Place["lastmodified"] < Stop(r) => h.opt["timecondition"] = TimeCondition(r)
      BY <3>1, <3>3, <3>4, <3>5, AppliedOptions
    <3>7. "own" \in ToSet(Headers(r)) => h.list = "own"
      BY <3>1, <3>4, HeadersType
    <3>8. ASSUME r.refused = {}, "etag" \in DOMAIN r.opts
          PROVE  ("If-Match" \in ToSet(Headers(r))) = ({"resume", "range"} \cap DOMAIN r.opts # {})
      BY <3>1, <3>8, HeadersType, NothingRefused
    <3>9. ASSUME r.refused = {}, "lastmodified" \in DOMAIN r.opts
          PROVE  h.opt["timecondition"] = IF {"resume", "range"} \cap DOMAIN r.opts # {}
                                          THEN "IFUNMODSINCE" ELSE "IFMODSINCE"
      BY <3>1, <3>6, <3>9, NothingRefused DEF TimeCondition
    <3>10. "lastmodified" \notin DOMAIN r.opts => TimeCondition(r) = Default
      BY DEF TimeCondition
    <3> QED  BY <2>3, <3>1, <3>2, <3>4, <3>6, <3>7, <3>8, <3>9, <3>10 DEF Own
  <2> QED  BY <2>2, <2>3
<1>5. ASSUME NEW s \in Slots, Read(s) \/ Restart(s) PROVE RequestsApart'
  BY <1>5, ReadStep, SameSettings DEF Keeps
<1>6. ASSUME NEW s \in Slots, NEW inMulti \in BOOLEAN, s \in Running, Release(s, inMulti)
      PROVE  RequestsApart'
  <2> DEFINE e == transfers[s].handle
  <2>1. /\ \A o \in Handles \ {e} : easy'[o] = easy[o]
        /\ Running' = Running \ {s}
        /\ \A v \in Slots \ {s} : transfers'[v] = transfers[v]
    BY <1>6, ReleaseStep
  <2>2. \A v \in Running' : v \in Running /\ v \in Slots \ {s} /\ transfers[v].handle # e
    BY <1>6, <2>1 DEF OneUser, Running
  <2> HIDE DEF e
  <2> QED  BY <1>a, <2>1, <2>2, SameSettings
<1>7. ASSUME NEW e \in Handles, ReadStray(e) PROVE RequestsApart'
  BY <1>7, SameSettings DEF ReadStray, Running
<1> QED  BY <1>0, <1>1, <1>2, <1>3, <1>4, <1>5, <1>6, <1>7 DEF Next, Dequeue, ResetRefused

-----------------------------------------------------------------------------
(* The theorems *)

LEMMA Inductive == Spec => [](IInv /\ RequestsApart)
<1>1. Init => IInv /\ RequestsApart
  BY TypeOKInit, OneUserInit, BodyReadInit, RequestsApartInit DEF IInv
<1>2. IInv /\ RequestsApart /\ [Next]_vars => (IInv /\ RequestsApart)'
  BY TypeOKStep, OneUserStep, BodyReadStep, RequestsApartStep DEF IInv
<1> QED  BY <1>1, <1>2, PTL DEF Spec

(* The driver's variables keep their types, and the length a handle was given is *)
(* that of the body libcurl reads (php_http_client_curl.c).                 *)
THEOREM CurlTypeOK == Spec => []TypeOK
BY Inductive, PTL DEF IInv

(* An easy handle has one user, and one that is idle calls back into no     *)
(* handler: enqueue, dequeue and reset with all their failures.             *)
THEOREM CurlOneUser == Spec => []OneUser
BY Inductive, PTL DEF IInv

(* A transfer has the method, the headers, the body and the options of its  *)
(* request set, and options its request has not are at their defaults: those *)
(* registered before the first refused one, but for the settings of KeptBy; *)
(* the conditions of a request agree.  Of a method, headers or a body that  *)
(* an earlier request left on the easy handle and this one does not set,    *)
(* nothing is said: option setters, init, prepare and reset of a handler.   *)
THEOREM CurlRequestsApart == Spec => []RequestsApart
BY Inductive, PTL

(* A body that can be rewound and has one reader is sent from its first byte on: *)
(* prepare, the read and the ioctl callback.                                *)
THEOREM CurlBodySentWhole == Spec => []BodySentWhole
<1>1. ASSUME IInv PROVE BodySentWhole
  <2> SUFFICES ASSUME NEW s \in Running, transfers[s].alone,
                      transfers[s].request.body \in Seekable
               PROVE  LET t == transfers[s]
                      IN  /\ t.sent = [i \in 1..Len(t.sent) |-> i]
                          /\ easy[t.handle].size = Size[t.request.body]
                          /\ pos[t.request.body] = Len(t.sent)
    BY DEF BodySentWhole
  <2> DEFINE sent == transfers[s].sent
  <2>1. sent \in Seq(Nat \ {0})
    BY <1>1, RunningTransfer DEF IInv, Transfer
  <2>2. BodyRead(s)
    BY <1>1 DEF IInv
  <2>3. \A i \in 1..Len(sent) : sent[i] = i
    BY <2>2 DEF BodyRead
  <2>4. sent = [i \in 1..Len(sent) |-> i]
    <3> HIDE DEF sent
    <3> QED  BY <2>1, <2>3
  <2> QED  BY <2>2, <2>4 DEF BodyRead
<1> QED  BY <1>1, Inductive, PTL
=============================================================================
