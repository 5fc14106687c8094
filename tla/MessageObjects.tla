--------------------------- MODULE MessageObjects ---------------------------
(***************************************************************************)
(* http\Message objects, the php_http_message_t structs behind them, and   *)
(* their bodies.  Two structures must agree: messages are linked by        *)
(* message->parent, and the objects around them by obj->parent, where the  *)
(* link of an object holds a reference and the link of a message does not. *)
(* Likewise a message has a body, and its object may have a body object    *)
(* with that body.  Objects are freed when their last reference goes,      *)
(* and an object frees its own message only.                               *)
(*                                                                         *)
(* An action is a method a script calls, on objects it has a variable for,  *)
(* or what the client does with a response.  PHP code does not interrupt    *)
(* these, so each is one step.  Of the contents of a message only its type  *)
(* is kept, which a copy shares.                                           *)
(***************************************************************************)
EXTENDS Integers, Sequences, SequencesExt, FiniteSets

CONSTANTS
    Scenarios,      \* what a script does: [calls, parsed, responses,
                    \* requests, room, clientRoom, variables]
    MaxRoom,        \* bounds every room
    MaxLost         \* bounds the references on an object that prepend loses

Kinds == {"none", "request", "response"}

Calls == {"new", "newFromChain", "unserialize", "clone", "detach", "getParentMessage",
          "setParentMessage", "prepend", "prependBelow", "reverse", "serialize", "iterate",
          "bodies", "unusedBody", "respond", "history"}

\* room bounds how much is allocated at once when the script makes something, and
\* clientRoom when the client does; variables how many the script has for one object.
\* parsed are the chains the script parses, responses and requests those the client
\* does, types of messages with the newest first.

ASSUME BoundsAssumption == MaxRoom \in Nat /\ MaxLost \in Nat
ASSUME ScenariosAssumption ==
    \A s \in Scenarios : /\ s.calls \subseteq Calls
                         /\ s.parsed \cup s.responses \cup s.requests \subseteq Seq(Kinds) \ {<<>>}
                         /\ {s.room, s.clientRoom} \subseteq 1 .. MaxRoom /\ s.variables \in Nat

VARIABLES
    heap,           \* what is allocated: [obj, msg, body, bobj]
    held,           \* how many variables of the script refer to an object
    bheld,          \* and to a body object
    history,        \* the property "history" of the client: an object, or None
    crashed,        \* whether a NULL pointer was followed
    scenario        \* what the script does

vars == <<heap, held, bheld, history, crashed, scenario>>

-----------------------------------------------------------------------------
(* The heap *)

None == 0
Ids == 1 .. MaxRoom

\* php_http_message_object_t with the count of its handle, php_http_message_t,
\* and php_http_message_body_object_t; a body is the count it carries.
NoObject == [refs |-> 0, message |-> None, parent |-> None, body |-> None, iterator |-> None]
NoMessage == [kind |-> "free", parent |-> None, body |-> None]
NoBodyObject == [refs |-> 0, body |-> None]

Heap == [obj : [Ids -> [refs : Nat, message : Ids \cup {None}, parent : Ids \cup {None},
                        body : Ids \cup {None}, iterator : Ids \cup {None}]],
         msg : [Ids -> [kind : Kinds \cup {"free"}, parent : Ids \cup {None},
                        body : Ids \cup {None}]],
         body : [Ids -> Nat],
         bobj : [Ids -> [refs : Nat, body : Ids \cup {None}]]]

Objects(h) == {o \in Ids : h.obj[o].refs > 0}
Messages(h) == {m \in Ids : h.msg[m].kind # "free"}
Bodies(h) == {b \in Ids : h.body[b] > 0}
BodyObjects(h) == {c \in Ids : h.bobj[c].refs > 0}

\* The n-th id of which nothing is allocated.
Used(h) == Objects(h) \cup Messages(h) \cup Bodies(h) \cup BodyObjects(h)
Fresh(h, n) ==
    CHOOSE x \in Ids \ Used(h) : Cardinality({y \in Ids \ Used(h) : y <= x}) = n
HasRoom(h, n) == Cardinality(Used(h)) + n <= scenario.room
HasClientRoom(h, n) == Cardinality(Used(h)) + n <= scenario.clientRoom

\* The chain from x on, by its links; longer than there are ids if it is a circle.
Chain(link, x) ==
    LET upTo[n \in 0 .. MaxRoom] ==
          IF n = 0 THEN <<x>>
          ELSE LET chain == upTo[n - 1]
                   next == link[Last(chain)]
               IN IF next = None THEN chain ELSE Append(chain, next)
    IN upTo[MaxRoom]

MessageChain(h, m) == Chain([x \in Ids |-> h.msg[x].parent], m)
ObjectChain(h, o) == Chain([x \in Ids |-> h.obj[x].parent], o)
KindsOf(h, ms) == [i \in DOMAIN ms |-> h.msg[ms[i]].kind]
KindsFrom(h, o) == KindsOf(h, MessageChain(h, h.obj[o].message))

\* The position of x in a sequence without duplicates.
PositionIn(s, x) == CHOOSE i \in DOMAIN s : s[i] = x
After(s, i) == IF i < Len(s) THEN s[i + 1] ELSE None

-----------------------------------------------------------------------------
(* What is freed when references went *)

\* php_http_message_object_free of the objects S frees their messages, not the
\* parents of these, and the references on what they refer to.
Gone(h, S) ==
    [objects |-> S,
     messages |-> {h.obj[o].message : o \in S} \ {None},
     bobjs |-> {c \in Ids : h.bobj[c].refs <= Cardinality({o \in S : h.obj[o].body = c})}]

\* The references on an object that others hold.
References(h, S, o) ==
    Cardinality({p \in S : h.obj[p].parent = o}) + Cardinality({p \in S : h.obj[p].iterator = o})

\* The objects without a reference but those of others of them.
Unreferenced(h) ==
    LET live == {o \in Ids : h.obj[o] # NoObject}
        after[n \in 0 .. MaxRoom] ==
            IF n = 0 THEN {}
            ELSE LET before == after[n - 1]
                 IN {o \in live : h.obj[o].refs <= References(h, before, o)}
    IN after[MaxRoom]

\* The heap after all objects whose last reference went are freed.
Collected(h) ==
    LET gone == Gone(h, Unreferenced(h))
        dropped == gone.objects
    IN [obj |-> [o \in Ids |-> IF o \in dropped THEN NoObject
                               ELSE [h.obj[o] EXCEPT !.refs = @ - References(h, dropped, o)]],
        msg |-> [m \in Ids |-> IF m \in gone.messages THEN NoMessage ELSE h.msg[m]],
        body |-> [b \in Ids |-> h.body[b]
                     - Cardinality({m \in gone.messages : h.msg[m].body = b})
                     - Cardinality({c \in gone.bobjs : h.bobj[c].body = b})],
        bobj |-> [c \in Ids |-> IF c \in gone.bobjs THEN NoBodyObject
                     ELSE [h.bobj[c] EXCEPT !.refs =
                             @ - Cardinality({o \in dropped : h.obj[o].body = c})]]]

\* zend_objects_store_del_ref_by_handle
Release(h, o) == Collected([h EXCEPT !.obj[o].refs = @ - 1])
ReleaseBody(h, c) == Collected([h EXCEPT !.bobj[c].refs = @ - 1])
AddRef(h, o) == [h EXCEPT !.obj[o].refs = @ + 1]
AddBodyRef(h, c) == [h EXCEPT !.bobj[c].refs = @ + 1]

-----------------------------------------------------------------------------
(* php_http_message_t *)

\* A chain of new messages, each with a body of its own: what parsing makes,
\* and copying.  The first has the first fresh id.
WithMessages(h, kinds) ==
    LET ms == [i \in DOMAIN kinds |-> Fresh(h, i)]
    IN [h EXCEPT
         !.msg = [m \in Ids |->
             IF m \in ToSet(ms)
             THEN LET i == PositionIn(ms, m)
                  IN [kind |-> kinds[i], parent |-> After(ms, i), body |-> m]
             ELSE @[m]],
         !.body = [b \in Ids |-> IF b \in ToSet(ms) THEN 1 ELSE @[b]]]

\* php_http_message_reverse; the new head is the last of the chain.
Reversed(h, m) ==
    LET ms == MessageChain(h, m)
    IN [h EXCEPT !.msg = [x \in Ids |->
           IF x \notin ToSet(ms) THEN @[x]
           ELSE [@[x] EXCEPT !.parent = LET i == PositionIn(ms, x)
                                        IN IF i = 1 THEN None ELSE ms[i - 1]]]]

\* A mistake: what is left of the first chain gets lost.
ZippedShort(h, one, two) ==
    LET ds == MessageChain(h, one)
        ss == MessageChain(h, two)
        both == IF Len(ds) < Len(ss) THEN Len(ds) ELSE Len(ss)
    IN [h EXCEPT !.msg = [x \in Ids |->
          CASE \E i \in 1 .. both : ds[i] = x -> [@[x] EXCEPT !.parent = ss[PositionIn(ds, x)]]
            [] \E i \in 1 .. both : ss[i] = x ->
                 [@[x] EXCEPT !.parent = IF PositionIn(ss, x) < both THEN ds[PositionIn(ss, x) + 1] ELSE None]
            [] OTHER -> @[x]]]

\* The loop of php_http_message_zip: the i-th of two becomes the parent of the
\* i-th of one, and the next of one the parent of that, if there is a next.
Zipped(h, one, two) ==
    LET ds == MessageChain(h, one)
        ss == MessageChain(h, two)
        both == IF Len(ds) < Len(ss) THEN Len(ds) ELSE Len(ss)
    IN [h EXCEPT !.msg = [x \in Ids |->
          CASE \E i \in 1 .. both : ds[i] = x -> [@[x] EXCEPT !.parent = ss[PositionIn(ds, x)]]
            [] \E i \in 1 .. both : ss[i] = x /\ i < Len(ds) ->
                 [@[x] EXCEPT !.parent = ds[PositionIn(ss, x) + 1]]
            [] OTHER -> @[x]]]

-----------------------------------------------------------------------------
(* Objects *)

\* A mistake: the body object shares the body without counting.
WithObjectsUncounted(h, m) ==
    LET ms == ToSet(MessageChain(h, m))
    IN [h EXCEPT
         !.obj = [o \in Ids |->
             IF o \in ms THEN [NoObject EXCEPT !.refs = 1, !.message = o, !.body = o,
                                                !.parent = h.msg[o].parent]
             ELSE @[o]],
         !.bobj = [c \in Ids |-> IF c \in ms THEN [refs |-> 1, body |-> h.msg[c].body] ELSE @[c]]]

\* php_http_message_object_new_ex for a chain of new messages: an object for each,
\* and a body object for each, which take the ids of the messages.
WithObjects(h, m) ==
    LET ms == ToSet(MessageChain(h, m))
    IN [h EXCEPT
         !.obj = [o \in Ids |->
             IF o \in ms THEN [NoObject EXCEPT !.refs = 1, !.message = o, !.body = o,
                                                !.parent = h.msg[o].parent]
             ELSE @[o]],
         !.bobj = [c \in Ids |-> IF c \in ms THEN [refs |-> 1, body |-> h.msg[c].body] ELSE @[c]],
         !.body = [b \in Ids |-> @[b] + Cardinality({x \in ms : h.msg[x].body = b})]]

\* An object on its own, for a new message.
WithObject(h, m) == [h EXCEPT !.obj[m] = [NoObject EXCEPT !.refs = 1, !.message = m]]

\* The object that prepend links: the most parent one, or the given one.
Target(h, o, top) == IF top THEN Last(ObjectChain(h, o)) ELSE o

\* A mistake: the new parent is not referenced.
PrependedUncounted(h, o, p, top) ==
    LET at == Target(h, o, top)
        old == h.obj[o]
        h1 == [h EXCEPT !.obj[at].parent = p,
                        !.msg[h.obj[at].message].parent = h.obj[p].message]
    IN IF top THEN h1
       ELSE [h1 EXCEPT !.obj[p].parent = old.parent,
                       !.msg[h.obj[p].message].parent = h.msg[old.message].parent]

\* php_http_message_object_prepend.  Below the object, p loses its own parent,
\* with the reference on it.
Prepended(h, o, p, top) ==
    LET at == Target(h, o, top)
        old == h.obj[o]
        h1 == [AddRef(h, p) EXCEPT !.obj[at].parent = p,
                                   !.msg[h.obj[at].message].parent = h.obj[p].message]
    IN IF top THEN h1
       ELSE [h1 EXCEPT !.obj[p].parent = old.parent,
                       !.msg[h.obj[p].message].parent = h.msg[old.message].parent]

\* A mistake: only the objects are relinked.
ObjectsReversedOnly(h, o) ==
    LET os == ObjectChain(h, o)
    IN [AddRef(h, o) EXCEPT
         !.obj = [x \in Ids |->
             IF x \notin ToSet(os) THEN @[x]
             ELSE [@[x] EXCEPT !.parent = LET i == PositionIn(os, x)
                                          IN IF i = 1 THEN None ELSE os[i - 1]]]]

\* php_http_message_object_reverse of a chain of several messages.
ObjectsReversed(h, o) ==
    LET os == ObjectChain(h, o)
        before(x) == LET i == PositionIn(os, x) IN IF i = 1 THEN None ELSE os[i - 1]
    IN [AddRef(h, o) EXCEPT
         !.obj = [x \in Ids |-> IF x \in ToSet(os) THEN [@[x] EXCEPT !.parent = before(x)] ELSE @[x]],
         !.msg = [m \in Ids |->
             IF \E x \in ToSet(os) : h.obj[x].message = m
             THEN LET x == CHOOSE y \in ToSet(os) : h.obj[y].message = m
                  IN [@[m] EXCEPT !.parent = IF before(x) = None THEN None ELSE h.obj[before(x)].message]
             ELSE @[m]]]

-----------------------------------------------------------------------------
Init ==
    /\ heap = [obj |-> [o \in Ids |-> NoObject], msg |-> [m \in Ids |-> NoMessage],
               body |-> [b \in Ids |-> 0], bobj |-> [c \in Ids |-> NoBodyObject]]
    /\ held = [o \in Ids |-> 0] /\ bheld = [c \in Ids |-> 0]
    /\ history = None
    /\ crashed = FALSE
    /\ scenario \in Scenarios

May(call) == ~crashed /\ call \in scenario.calls

\* The script gets another variable for o, or gives one up.
Gets(o) ==
    /\ held[o] < scenario.variables
    /\ held' = [held EXCEPT ![o] = @ + 1]
    /\ UNCHANGED bheld
GetsBody(c) ==
    /\ bheld[c] < scenario.variables
    /\ bheld' = [bheld EXCEPT ![c] = @ + 1]
    /\ UNCHANGED held
GetsNothing == UNCHANGED <<held, bheld>>

Goes == UNCHANGED <<history, crashed, scenario>>

Crash == crashed' = TRUE /\ UNCHANGED <<heap, held, bheld, history, scenario>>

\* new http\Message, of a string or stream with these messages.  The parents
\* get body objects, the object itself does not.
Construct(kinds) ==
    /\ May("new") /\ HasRoom(heap, Len(kinds))
    /\ LET o == Fresh(heap, 1)
           h1 == WithObject(WithMessages(heap, kinds), o)
           rest == h1.msg[o].parent
       IN /\ heap' = IF rest = None THEN h1
                     ELSE [WithObjects(h1, rest) EXCEPT !.obj[o].parent = rest]
          /\ Gets(o)
    /\ Goes

\* The object of a chain the C code made: splitMultipartBody.
NewFromChain(kinds) ==
    /\ May("newFromChain") /\ HasRoom(heap, Len(kinds))
    /\ heap' = WithObjects(WithMessages(heap, kinds), Fresh(heap, 1))
    /\ Gets(Fresh(heap, 1))
    /\ Goes

\* unserialize() makes an object and calls its method.  No objects are made for
\* the parents of the message.
Unserialize(kinds) ==
    /\ May("unserialize") /\ HasRoom(heap, Len(kinds))
    /\ heap' = WithObject(WithMessages(heap, kinds), Fresh(heap, 1))
    /\ Gets(Fresh(heap, 1))
    /\ Goes

\* The copy of a message with its parents.
Clone(o) ==
    /\ May("clone") /\ held[o] > 0
    /\ LET ms == MessageChain(heap, heap.obj[o].message)
       IN /\ HasRoom(heap, Len(ms))
          /\ heap' = WithObjects(WithMessages(heap, KindsOf(heap, ms)), Fresh(heap, 1))
    /\ Gets(Fresh(heap, 1))
    /\ Goes

\* The copy of a message without its parents.
Detach(o) ==
    /\ May("detach") /\ held[o] > 0
    /\ HasRoom(heap, 1)
    /\ heap' = WithObjects(WithMessages(heap, <<heap.msg[heap.obj[o].message].kind>>), Fresh(heap, 1))
    /\ Gets(Fresh(heap, 1))
    /\ Goes

GetParentMessage(o) ==
    /\ May("getParentMessage") /\ held[o] > 0
    /\ heap.msg[heap.obj[o].message].parent # None
    /\ IF heap.obj[o].parent = None THEN Crash
       ELSE /\ heap' = AddRef(heap, heap.obj[o].parent)
            /\ Gets(heap.obj[o].parent)
            /\ Goes

\* A class that extends http\Message may assign its parentMessage.  Nothing
\* checks that this does not close a circle; the script takes care of it.
SetParentMessage(o, p) ==
    /\ May("setParentMessage") /\ held[o] > 0 /\ held[p] > 0
    /\ o \notin ToSet(ObjectChain(heap, p))
    /\ LET old == heap.obj[o].parent
           had == heap.msg[heap.obj[o].message].parent # None
           h1 == [AddRef(heap, p) EXCEPT !.obj[o].parent = p,
                                         !.msg[heap.obj[o].message].parent = heap.obj[p].message]
       IN IF had /\ old = None THEN Crash
          ELSE /\ heap' = IF had THEN Release(h1, old) ELSE h1
               /\ GetsNothing /\ Goes

\* The safety check of prepend.
Apart(h, o, p) ==
    ToSet(MessageChain(h, h.obj[o].message)) \cap ToSet(MessageChain(h, h.obj[p].message)) = {}

\* The references on an object that nobody has any more.
Lost(o) ==
    IF o = None THEN 0
    ELSE heap.obj[o].refs - References(heap, Ids, o) - held[o] - (IF history = o THEN 1 ELSE 0)

Prepend(o, p, top) ==
    /\ May(IF top THEN "prepend" ELSE "prependBelow") /\ held[o] > 0 /\ held[p] > 0
    /\ top \/ Lost(heap.obj[p].parent) < MaxLost
    /\ Apart(heap, o, p)
    /\ heap' = Prepended(heap, o, p, top)
    /\ GetsNothing /\ Goes

\* Returns the object that is the first now.
ReverseChain(o) ==
    /\ May("reverse") /\ held[o] > 0
    /\ IF Len(MessageChain(heap, heap.obj[o].message)) > 1
       THEN heap' = ObjectsReversed(heap, o) /\ Gets(Last(ObjectChain(heap, o)))
       ELSE heap' = AddRef(heap, o) /\ Gets(o)
    /\ Goes

\* serialize, and toString with parents: the chain of messages is reversed,
\* written, and reversed again.
Serialize(o) ==
    /\ May("serialize") /\ held[o] > 0
    /\ LET m == heap.obj[o].message
       IN heap' = Reversed(Reversed(heap, m), Last(MessageChain(heap, m)))
    /\ GetsNothing /\ Goes

Unset(o) ==
    /\ ~crashed /\ held[o] > 0
    /\ heap' = Release(heap, o)
    /\ held' = [held EXCEPT ![o] = @ - 1] /\ UNCHANGED bheld
    /\ Goes

-----------------------------------------------------------------------------
(* Iterator: the object refers to where its iteration is *)

Rewind(o) ==
    /\ May("iterate") /\ held[o] > 0
    /\ LET old == heap.obj[o].iterator
           h1 == [AddRef(heap, o) EXCEPT !.obj[o].iterator = o]
       IN heap' = IF old = None THEN h1 ELSE Release(h1, old)
    /\ GetsNothing /\ Goes

NextMessage(o) ==
    /\ May("iterate") /\ held[o] > 0
    /\ heap.obj[o].iterator # None
    /\ LET old == heap.obj[o].iterator
           next == heap.obj[old].parent
           h1 == [heap EXCEPT !.obj[o].iterator = next]
       IN heap' = Release(IF next = None THEN h1 ELSE AddRef(h1, next), old)
    /\ GetsNothing /\ Goes

Current(o) ==
    /\ May("iterate") /\ held[o] > 0
    /\ heap.obj[o].iterator # None
    /\ heap' = AddRef(heap, heap.obj[o].iterator)
    /\ Gets(heap.obj[o].iterator)
    /\ Goes

-----------------------------------------------------------------------------
(* Bodies *)

WithBodyObject(h, b) ==
    [h EXCEPT !.bobj[Fresh(h, 1)] = [refs |-> 1, body |-> b], !.body[b] = @ + 1]

\* A body object is made when it is first asked for.
GetBody(o) ==
    /\ May("bodies") /\ held[o] > 0
    /\ LET c == heap.obj[o].body
       IN IF c # None
          THEN heap' = AddBodyRef(heap, c) /\ GetsBody(c)
          ELSE LET made == Fresh(heap, 1)
               IN /\ HasRoom(heap, 1)
                  /\ heap' = [AddBodyRef(WithBodyObject(heap, heap.msg[heap.obj[o].message].body), made)
                                EXCEPT !.obj[o].body = made]
                  /\ GetsBody(made)
    /\ Goes

\* new http\Message\Body, with a stream or without: then there is no body until
\* the object is used.
NewBody(stream) ==
    /\ May("bodies") /\ HasRoom(heap, 1)
    /\ heap' = [heap EXCEPT
                  !.bobj[Fresh(heap, 1)] = [refs |-> 1, body |-> IF stream THEN Fresh(heap, 1) ELSE None],
                  !.body = IF stream THEN [@ EXCEPT ![Fresh(heap, 1)] = 1] ELSE @]
    /\ GetsBody(Fresh(heap, 1))
    /\ Goes

\* append and all other methods of a body object make the body it lacks.
UseBody(c) ==
    /\ May("bodies") /\ bheld[c] > 0 /\ HasRoom(heap, 1)
    /\ heap.bobj[c].body = None
    /\ heap' = [heap EXCEPT !.bobj[c].body = Fresh(heap, 1), !.body[Fresh(heap, 1)] = 1]
    /\ GetsNothing /\ Goes

CloneBody(c) ==
    /\ May("bodies") /\ bheld[c] > 0 /\ HasRoom(heap, 1)
    /\ heap' = [heap EXCEPT
                  !.bobj[Fresh(heap, 1)] =
                      [refs |-> 1, body |-> IF heap.bobj[c].body = None THEN None ELSE Fresh(heap, 1)],
                  !.body = IF heap.bobj[c].body = None THEN @ ELSE [@ EXCEPT ![Fresh(heap, 1)] = 1]]
    /\ GetsBody(Fresh(heap, 1))
    /\ Goes

\* php_http_message_object_set_body.  A body object without a body leaves the
\* message with a new body of its own.
BodySet(h, o, c) ==
    LET m == h.obj[o].message
        old == h.obj[o].body
        h1 == [h EXCEPT !.body[h.msg[m].body] = @ - 1]
        b == IF h.bobj[c].body = None THEN Fresh(h1, 1) ELSE h.bobj[c].body
        h2 == [AddBodyRef(h1, c) EXCEPT !.body[b] = @ + 1, !.msg[m].body = b, !.obj[o].body = c]
    IN IF old = None THEN h2 ELSE ReleaseBody(h2, old)

SetBody(o, c) ==
    /\ May("bodies") /\ held[o] > 0 /\ bheld[c] > 0 /\ HasRoom(heap, 1)
    /\ heap.bobj[c].body = None => May("unusedBody")
    /\ heap' = BodySet(heap, o, c)
    /\ GetsNothing /\ Goes

\* Without a body there is no stream to add from.
AddBody(o, c) ==
    /\ May("bodies") /\ held[o] > 0 /\ bheld[c] > 0
    /\ heap.bobj[c].body = None /\ May("unusedBody")
    /\ Crash

UnsetBody(c) ==
    /\ ~crashed /\ bheld[c] > 0
    /\ heap' = ReleaseBody(heap, c)
    /\ bheld' = [bheld EXCEPT ![c] = @ - 1] /\ UNCHANGED held
    /\ Goes

-----------------------------------------------------------------------------
(* What the client does with a response *)

\* handle_history: copies of both chains, zipped, before what was recorded.
Recorded(h, responses, requests) ==
    LET one == Fresh(h, 1)
        h1 == WithMessages(h, responses)
        two == Fresh(h1, 1)
        h2 == WithObjects(Zipped(WithMessages(h1, requests), one, two), one)
    IN IF history = None THEN h2 ELSE Release(Prepended(h2, one, history, TRUE), history)

\* handle_response: the newest response becomes an object, whose parent is the
\* request object of the script.  The older ones, of redirects, are in the
\* history only.
Respond(q, responses, requests, record) ==
    /\ May("respond") /\ held[q] > 0
    /\ HasClientRoom(heap, 1 + IF record THEN Len(responses) + Len(requests) ELSE 0)
    /\ LET h1 == IF record THEN Recorded(heap, responses, requests) ELSE heap
           o == Fresh(h1, 1)
           h2 == WithObjects(WithMessages(h1, <<Head(responses)>>), o)
       IN /\ heap' = Prepended(h2, o, q, TRUE)
          /\ history' = IF record THEN Fresh(heap, 1) ELSE history
          /\ Gets(o)
    /\ UNCHANGED <<crashed, scenario>>

GetHistory ==
    /\ May("history") /\ history # None
    /\ heap' = AddRef(heap, history)
    /\ Gets(history)
    /\ Goes

-----------------------------------------------------------------------------
Next ==
    \/ \E chain \in scenario.parsed : Construct(chain) \/ NewFromChain(chain) \/ Unserialize(chain)
    \/ \E o \in Ids : \/ Clone(o) \/ Detach(o) \/ GetParentMessage(o) \/ ReverseChain(o) \/ Serialize(o)
                      \/ Unset(o) \/ Rewind(o) \/ NextMessage(o) \/ Current(o) \/ GetBody(o)
                      \/ UseBody(o) \/ CloneBody(o) \/ UnsetBody(o)
    \/ \E o, p \in Ids : SetParentMessage(o, p) \/ SetBody(o, p) \/ AddBody(o, p)
    \/ \E o, p \in Ids, top \in BOOLEAN : Prepend(o, p, top)
    \/ \E stream \in BOOLEAN : NewBody(stream)
    \/ \E q \in Ids, responses \in scenario.responses, requests \in scenario.requests, record \in BOOLEAN :
          Respond(q, responses, requests, record)
    \/ GetHistory

Spec == Init /\ [][Next]_vars

-----------------------------------------------------------------------------
(* Properties *)

\* What the heap holds, and the types of everything; a count below zero would
\* be a reference dropped twice.
TypeOK ==
    /\ heap \in Heap
    /\ held \in [Ids -> 0 .. scenario.variables] /\ bheld \in [Ids -> 0 .. scenario.variables]
    /\ history \in Ids \cup {None}
    /\ crashed \in BOOLEAN
    /\ scenario \in Scenarios

\* unserialize of a chain makes no objects for the parents.
WithoutOrphans == "unserialize" \in scenario.calls => \A chain \in scenario.parsed : Len(chain) = 1

\* Both structures say the same: the parent of an object's message is the
\* message of its parent (php_http_message_object_reverse, _prepend and
\* the property parentMessage each change both).
ParentsAgree ==
    WithoutOrphans =>
        \A o \in Objects(heap) :
            LET p == heap.obj[o].parent
            IN heap.msg[heap.obj[o].message].parent = IF p = None THEN None ELSE heap.obj[p].message

\* The body object of a message's object is about the body of the message, so
\* that what is written to one is sent with the other, unless setBody was given
\* an object that had no body yet.
BodiesAgree ==
    "unusedBody" \notin scenario.calls =>
        \A o \in Objects(heap) :
            LET c == heap.obj[o].body
            IN c # None => heap.bobj[c].body = heap.msg[heap.obj[o].message].body

\* Nothing refers to what was freed, in whatever order a script gives up its
\* variables, relinks chains that share parents, and iterates.
NoDangling ==
    /\ \A o \in Ids : held[o] > 0 => o \in Objects(heap)
    /\ \A c \in Ids : bheld[c] > 0 => c \in BodyObjects(heap)
    /\ history \in Objects(heap) \cup {None}
    /\ \A o \in Objects(heap) :
          /\ heap.obj[o].message \in Messages(heap)
          /\ {heap.obj[o].parent, heap.obj[o].iterator} \subseteq Objects(heap) \cup {None}
          /\ heap.obj[o].body \in BodyObjects(heap) \cup {None}
    /\ \A m \in Messages(heap) :
          /\ heap.msg[m].parent \in Messages(heap) \cup {None}
          /\ heap.msg[m].body \in Bodies(heap)
    /\ \A c \in BodyObjects(heap) : heap.bobj[c].body \in Bodies(heap) \cup {None}

\* php_http_message_object_free frees its message but not the parents, so each
\* message has one object.
OneOwner ==
    \A m \in Messages(heap) :
        LET owners == {o \in Objects(heap) : heap.obj[o].message = m}
        IN Cardinality(owners) <= 1 /\ (WithoutOrphans => owners # {})

\* A body counts its messages and body objects, a body object its variables and objects.
BodiesCounted ==
    /\ \A b \in Ids : heap.body[b] = Cardinality({m \in Messages(heap) : heap.msg[m].body = b})
                                     + Cardinality({c \in BodyObjects(heap) : heap.bobj[c].body = b})
    /\ \A c \in Ids : heap.bobj[c].refs = bheld[c] + Cardinality({o \in Objects(heap) : heap.obj[o].body = c})

\* Whatever lives has those that will free it, each message one object and each
\* body as many holders as it counts: nothing is freed twice, and nothing never
\* (php_http_message_object_free, php_http_message_body_free).
Owned == OneOwner /\ BodiesCounted

\* A message that is prepended below another one loses its parent, and with it
\* the reference (php_http_message_object_prepend overwrites it).  No other call
\* loses a reference, so that nothing is left when the script has ended.
NoLeak ==
    [][\A o \in Ids :
          \/ Lost(o)' <= Lost(o)
          \/ \E above, p \in Ids : heap.obj[p].parent = o /\ Prepend(above, p, FALSE)]_vars

\* No chain is a circle, of objects or of messages: count, reverse and the
\* search for the topmost object come to an end.  The safety check of prepend
\* is what it takes, also when chains share their parents.
NoCircle ==
    \A o \in Objects(heap) :
        /\ Len(ObjectChain(heap, o)) <= MaxRoom
        /\ Len(MessageChain(heap, heap.obj[o].message)) <= MaxRoom

\* The two structures say the same and have an end.
Linked == ParentsAgree /\ BodiesAgree /\ NoCircle

\* What is referred to lives, and what lives will be freed once.
MemorySafe == NoDangling /\ Owned

\* What a call does to the chains: prepend joins both, or puts one message in;
\* reverse returns the same chain from its other end; no other call changes the
\* chain of an object that lives on, cloning, serializing and freeing among them.
ChainsKept ==
    [][\/ \A o \in Objects(heap) \cap Objects(heap') : ObjectChain(heap', o) = ObjectChain(heap, o)
       \/ \E o, p \in Ids :
             \/ /\ Prepend(o, p, TRUE)
                /\ ObjectChain(heap', o) = ObjectChain(heap, o) \o ObjectChain(heap, p)
             \/ /\ Prepend(o, p, FALSE)
                /\ ObjectChain(heap', o) = <<o, p>> \o Tail(ObjectChain(heap, o))
             \/ /\ SetParentMessage(o, p)
                /\ ObjectChain(heap', o) = <<o>> \o ObjectChain(heap, p)
       \/ \E o \in Ids :
             /\ ReverseChain(o)
             /\ ObjectChain(heap', Last(ObjectChain(heap, o))) = Reverse(ObjectChain(heap, o))]_vars

\* The history has each response before its request, what one of both has more
\* behind these, and then what was recorded before; nothing of either is lost.
HistoryInterleaved ==
    [][history' # history =>
          \E q \in Ids, responses \in scenario.responses, requests \in scenario.requests :
             /\ Respond(q, responses, requests, TRUE)
             /\ LET both == IF Len(responses) < Len(requests) THEN Len(responses) ELSE Len(requests)
                IN KindsFrom(heap', history') =
                     [i \in 1 .. 2 * both |-> IF i % 2 = 1 THEN "response" ELSE "request"]
                     \o SubSeq(responses, both + 1, Len(responses))
                     \o SubSeq(requests, both + 1, Len(requests))
                     \o (IF history = None THEN <<>> ELSE KindsFrom(heap, history))]_vars

\* No call loses a reference or a message, or puts one where it should not be.
CallsMeant == NoLeak /\ ChainsKept /\ HistoryInterleaved
=============================================================================
