---------------------------- MODULE EnvResponse ----------------------------
(***************************************************************************)
(* http\Env\Response: a script answers requests for one resource, with a   *)
(* response object per request or one for all, over the server API ("sapi") *)
(* or over a stream.  php_http_env_response_send decides on ranges, sends  *)
(* the head and then the body, in pieces of what it reads.  On the other   *)
(* end is a client that keeps what it received and asks again, with the    *)
(* validators it was given.                                                *)
(*                                                                         *)
(* A version of the body stands for its bytes and for its time; two        *)
(* versions of a file have different times.                                *)
(***************************************************************************)
EXTENDS RequestRanges

CONSTANTS
    Setups,         \* how scripts use the class, see Setup
    Wires,          \* the ranges clients ask for
    Resumed,        \* those they ask for with a condition
    ReadSize,       \* what php_http_message_body_to_callback reads at once
    PointerSize,    \* sizeof(buf) there
    SendBufSize,    \* PHP_HTTP_SENDBUF_SIZE
    Sizes,          \* of the body
    MaxVersion, MaxExchanges

ASSUME SizesAssumption ==
    /\ {ReadSize, PointerSize, SendBufSize} \subseteq Nat \ {0}
    /\ PointerSize <= ReadSize
    /\ {MaxVersion, MaxExchanges} \subseteq Nat
    /\ Sizes # {} /\ IsFiniteSet(Sizes) /\ Sizes \subseteq Nat

MaxSize == Max(Sizes)

Setup ==
    [ops : {"sapi", "stream"},
     kind : {"file", "temp", "none"},   \* the stream of the body
     short : BOOLEAN,                   \* its reads may give less than there is
     code : {200, 404},                 \* responseCode
     gzip : BOOLEAN,                    \* contentEncoding is CONTENT_ENCODING_GZIP
     vary : BOOLEAN,                    \* headers has a Vary
     chunk : 0 .. SendBufSize,          \* throttleChunk
     tagged : BOOLEAN,                  \* etag and lastModified are set
     echoed : BOOLEAN]                  \* the script printed something before

ASSUME SetupsAssumption == Setups \subseteq Setup

ASSUME WiresAssumption == Wires \subseteq Seq(STRING) /\ Resumed \subseteq Wires

VARIABLES
    setup,
    body,       \* the resource
    options,    \* etag and lastModified of the response object
    request,
    r,          \* php_http_env_response_t
    conn,       \* php_http_env_response_stream_ctx_t, or the state of the SAPI
    copy,       \* what the client has
    exchanges,
    at, ret

vars == <<setup, body, options, request, r, conn, copy, exchanges, at, ret>>
outside == <<setup, body, request, copy, exchanges>>

-----------------------------------------------------------------------------
NoEtag == [ver |-> 0, size |-> 0]

\* php_http_message_body_etag and php_http_message_body_mtime
EtagOf(b) == [ver |-> b.ver, size |-> b.size]
MtimeOf(b) == IF setup.kind = "file" THEN b.ver ELSE 0

\* A conditional header: an entity tag, or a date, which is 0 if it is not one.
Absent == [given |-> FALSE, tag |-> NoEtag, date |-> 0]
ByEtag(tag) == [given |-> TRUE, tag |-> tag, date |-> 0]
ByDate(date) == [given |-> TRUE, tag |-> NoEtag, date |-> date]

Get == [method |-> "GET", auth |-> FALSE, accept |-> "absent", range |-> NoRange,
        ifRange |-> Absent, ifMatch |-> Absent, ifNoneMatch |-> Absent,
        ifModifiedSince |-> Absent, ifUnmodifiedSince |-> Absent]

NoResponse == [done |-> FALSE, status |-> "RANGE_NO", values |-> <<>>, length |-> 0,
               encoder |-> "none", held |-> <<>>, chunk |-> SendBufSize, buffer |-> <<>>,
               todo |-> <<>>, pos |-> 0, forlen |-> 0]

NewConn == [started |-> FALSE, finished |-> FALSE, status |-> 200, headers |-> <<>>, out |-> <<>>]

NoCopy == [whole |-> FALSE, etag |-> NoEtag, date |-> 0, bytes |-> {}]

NewOptions ==
    IF setup.tagged THEN [etag |-> EtagOf(body), lastModified |-> body.ver]
                    ELSE [etag |-> NoEtag, lastModified |-> 0]

Init ==
    /\ setup \in Setups
    /\ \E n \in Sizes : body = [ver |-> 1, size |-> n]
    /\ options = NewOptions
    /\ request = Get /\ r = NoResponse /\ conn = NewConn /\ copy = NoCopy
    /\ exchanges = 0 /\ at = "script" /\ ret = FALSE

-----------------------------------------------------------------------------
(* The client and the script *)

\* Conditions need something to compare with.
Tags == {Absent} \cup (IF copy.etag = NoEtag THEN {} ELSE {ByEtag(copy.etag)})
Dates == {Absent} \cup (IF copy.date = 0 THEN {} ELSE {ByDate(copy.date)})

ForRange(wire) == [Get EXCEPT !.range = wire]
Revalidation(tag, date) == [Get EXCEPT !.ifNoneMatch = tag, !.ifModifiedSince = date]

Asks ==
    LET ranges == {ForRange(w) : w \in Wires}
        kinds == {Get, [Get EXCEPT !.method = "POST"], [Get EXCEPT !.auth = TRUE]}
        encodings == {[Get EXCEPT !.accept = a] : a \in {"none", "gzip", "deflate"}}
        revalidations == {Revalidation(t, d) : t \in Tags, d \in Dates}
        rest == {ForRange(w) : w \in Resumed}
        resumptions == {[ask EXCEPT !.ifRange = c] : ask \in rest, c \in Tags \cup Dates}
                       \cup {[ask EXCEPT !.ifMatch = t] : ask \in rest, t \in Tags}
                       \cup {[ask EXCEPT !.ifUnmodifiedSince = d] : ask \in rest, d \in Dates}
    IN ranges \cup kinds \cup revalidations \cup resumptions
       \cup (IF setup.gzip THEN encodings ELSE {})

\* A script is started, or a running one goes on with the same object.
Ask ==
    /\ at = "script"
    /\ exchanges < MaxExchanges
    /\ exchanges' = exchanges + 1
    /\ request' \in Asks
    /\ \/ options' = NewOptions
       \/ setup.ops = "stream" /\ ~setup.tagged /\ options' = options
    /\ conn' = [conn EXCEPT !.started = setup.echoed /\ setup.ops = "sapi"]
    /\ at' = "send"
    /\ UNCHANGED <<setup, body, r, copy, ret>>

\* The resource changes between two requests.
Change ==
    /\ at = "script" /\ exchanges > 0
    /\ body.ver < MaxVersion
    /\ \E n \in Sizes : body' = [ver |-> body.ver + 1, size |-> n]
    /\ UNCHANGED <<setup, options, request, r, conn, copy, exchanges, at, ret>>

-----------------------------------------------------------------------------
(* The operations of php_http_env_response_ops_t *)

\* A mistake: only looks at the end.
CanSetUntilFinished == ~conn.finished

CanSet == ~conn.started /\ ~conn.finished

SetHeader(c, name, value) ==
    [c EXCEPT !.headers = [n \in DOMAIN @ \cup {name} |-> IF n = name THEN value ELSE @[n]]]

AddHeader(c, name, value) ==
    SetHeader(c, name, IF name \in DOMAIN c.headers THEN c.headers[name] \o value ELSE value)

DelHeader(c, name) ==
    [c EXCEPT !.headers = [n \in DOMAIN @ \ {name} |-> @[n]]]

\* php_http_env_response_stream_header, given the array of a header that was
\* added twice, starts over with all headers, and never ends.
Overflows(c) ==
    /\ setup.ops = "stream" /\ ~c.started
    /\ "Vary" \in DOMAIN c.headers /\ Len(c.headers["Vary"]) > 1

Written(c, writes) ==
    IF writes = <<>> THEN c ELSE [c EXCEPT !.started = TRUE, !.out = @ \o writes]

Write(writes, next) ==
    IF writes # <<>> /\ Overflows(conn)
    THEN at' = "crashed" /\ UNCHANGED conn
    ELSE at' = next /\ conn' = Written(conn, writes)

Return(result) == ret' = result /\ at' = "returned"

-----------------------------------------------------------------------------
(* Validators *)

\* get_option or, if there is none, the etag of the body, which is kept as option
EtagIn(o) == IF o.etag # NoEtag THEN o.etag ELSE EtagOf(body)
ModifiedIn(o) == IF o.lastModified > 0 THEN o.lastModified ELSE MtimeOf(body)
KeepEtag(o) == [o EXCEPT !.etag = EtagIn(o)]
KeepModified(o) == [o EXCEPT !.lastModified = ModifiedIn(o)]

CachedByEtag(header) ==
    IF ~header.given THEN "CACHE_NO" ELSE IF header.tag = EtagIn(options) THEN "CACHE_HIT" ELSE "CACHE_MISS"

CachedByLastModified(header) ==
    IF ~header.given THEN "CACHE_NO"
    ELSE IF header.date > 0 /\ header.date >= ModifiedIn(options) THEN "CACHE_HIT" ELSE "CACHE_MISS"

\* isCachedByEtag and isCachedByLastModified, called by the script before send.
Compare ==
    /\ at = "send" /\ setup.kind # "none"
    /\ options' \in {KeepEtag(options), KeepModified(options)}
    /\ UNCHANGED <<outside, r, conn, at, ret>>

IsCacheable(c) == c.status < 400 /\ ~request.auth /\ request.method \in {"GET", "HEAD"}

-----------------------------------------------------------------------------
(* php_http_env_response_send: ranges *)

BodyPresent == setup.kind # "none"

WithoutBody ==
    /\ at = "send" /\ ~BodyPresent
    /\ at' = "head"
    /\ UNCHANGED <<outside, options, r, conn, ret>>

AcceptRangesRefused ==
    /\ at = "send" /\ BodyPresent /\ ~CanSet
    /\ Return(FALSE)
    /\ UNCHANGED <<outside, options, r, conn>>

\* php_http_env_get_request_ranges, for the headers there are
Ranges == [wire \in Wires \cup {NoRange} |-> [length \in Sizes |-> GetRequestRanges(wire, length)]]

IfRangeFails ==
    \/ CachedByEtag(request.ifRange) = "CACHE_MISS"
    \/ CachedByLastModified(request.ifRange) = "CACHE_MISS"

\* A mistake: dates are not looked at.
PreconditionFailsByEtag == CachedByEtag(request.ifMatch) = "CACHE_MISS"

PreconditionFails ==
    \/ CachedByEtag(request.ifMatch) = "CACHE_MISS"
    \/ CachedByLastModified(request.ifUnmodifiedSince) = "CACHE_MISS"

CheckRanges ==
    /\ at = "send" /\ BodyPresent /\ CanSet
    /\ LET ranges == Ranges[request.range][body.size]
           found == [r EXCEPT !.length = body.size, !.status = ranges.status, !.values = ranges.values]
           none == [found EXCEPT !.status = "RANGE_NO", !.values = <<>>]
           finished == [found EXCEPT !.done = TRUE]
           accepting == SetHeader(conn, "Accept-Ranges", <<"bytes">>)
       IN \/ /\ ranges.status = "RANGE_NO"
             /\ r' = none /\ conn' = accepting /\ UNCHANGED options
          \/ /\ ranges.status = "RANGE_ERR"
             /\ IF request.ifRange.given
                THEN r' = none /\ conn' = accepting
                ELSE /\ r' = finished
                     /\ conn' = SetHeader([accepting EXCEPT !.status = 416], "Content-Range", <<body.size>>)
             /\ UNCHANGED options
          \/ /\ ranges.status = "RANGE_OK"
             /\ options' = IF CachedByEtag(request.ifRange) = "CACHE_MISS"
                           THEN KeepEtag(options) ELSE KeepModified(KeepEtag(options))
             /\ IF IfRangeFails THEN r' = none /\ conn' = accepting
                ELSE IF PreconditionFails THEN r' = finished /\ conn' = [accepting EXCEPT !.status = 412]
                ELSE r' = found /\ conn' = accepting
    /\ at' = "head"
    /\ UNCHANGED <<outside, ret>>

-----------------------------------------------------------------------------
(* php_http_env_response_send_head *)

Partial == r.status = "RANGE_OK"
Multipart == Partial /\ Len(r.values) # 1

HeadDone ==
    /\ at = "head" /\ r.done
    /\ at' = "body"
    /\ UNCHANGED <<outside, options, r, conn, ret>>

HeadRefused ==
    /\ at = "head" /\ ~r.done /\ ~CanSet
    /\ Return(FALSE)
    /\ UNCHANGED <<outside, options, r, conn>>

\* responseCode and headers
HeadStart ==
    /\ at = "head" /\ ~r.done /\ CanSet
    /\ LET c == [conn EXCEPT !.status = setup.code]
       IN conn' = IF setup.vary THEN SetHeader(c, "Vary", <<"Cookie">>) ELSE c
    /\ at' = IF Partial THEN "ranges" ELSE "encoding"
    /\ UNCHANGED <<outside, options, r, ret>>

HeadRanges ==
    /\ at = "ranges"
    /\ LET c == [conn EXCEPT !.status = 206]
       IN conn' = IF Multipart THEN SetHeader(c, "Content-Type", <<"multipart/byteranges">>)
                  ELSE SetHeader(c, "Content-Range", <<r.values[1].begin, r.values[1].end, r.length>>)
    /\ at' = "body"
    /\ UNCHANGED <<outside, options, r, ret>>

\* php_http_negotiate_encoding gives nothing without an Accept-Encoding.
HeadEncoding ==
    /\ at = "encoding"
    /\ \/ /\ setup.gzip /\ request.accept \in {"gzip", "deflate"}
          /\ r' = [r EXCEPT !.encoder = request.accept]
          /\ conn' = AddHeader(SetHeader(conn, "Content-Encoding", <<request.accept>>),
                               "Vary", <<"Accept-Encoding">>)
       \/ /\ setup.gzip /\ request.accept = "none"
          /\ conn' = AddHeader(DelHeader(conn, "Content-Encoding"), "Vary", <<"Accept-Encoding">>)
          /\ UNCHANGED r
       \/ /\ setup.gzip /\ request.accept = "absent"
          /\ UNCHANGED <<r, conn>>
       \/ /\ ~setup.gzip
          /\ conn' = DelHeader(conn, "Content-Encoding")
          /\ UNCHANGED r
    /\ at' = "caching"
    /\ UNCHANGED <<outside, options, ret>>

NotModified ==
    LET byEtag == CachedByEtag(request.ifNoneMatch)
    IN \/ byEtag = "CACHE_HIT"
       \/ byEtag = "CACHE_NO" /\ CachedByLastModified(request.ifModifiedSince) = "CACHE_HIT"

\* Without a body nothing is compared, and the etag is empty.
HeadCaching ==
    /\ at = "caching"
    /\ IF ~IsCacheable(conn) THEN UNCHANGED <<options, r, conn>>
       ELSE LET byEtag == CachedByEtag(request.ifNoneMatch)
                o == IF ~BodyPresent THEN options
                     ELSE IF byEtag = "CACHE_NO" THEN KeepModified(KeepEtag(options))
                     ELSE KeepEtag(options)
                hit == BodyPresent /\ NotModified
                tagged == SetHeader(IF hit THEN [conn EXCEPT !.status = 304] ELSE conn,
                                    "ETag", <<o.etag>>)
            IN /\ options' = o
               /\ r' = [r EXCEPT !.done = hit]
               /\ conn' = IF o.lastModified = 0 THEN tagged
                          ELSE SetHeader(tagged, "Last-Modified", <<o.lastModified>>)
    /\ at' = "body"
    /\ UNCHANGED <<outside, ret>>

-----------------------------------------------------------------------------
(* php_http_env_response_send_body *)

\* What is sent: a byte of the body, the head of a part, the last boundary,
\* the trailer of the encoder.
Byte(n) == [t |-> "byte", no |-> n, ver |-> body.ver]
PartHead(range) == [t |-> "part", begin |-> range.begin, end |-> range.end]
Close == [t |-> "close"]
Trailer == [t |-> "trailer"]

Bytes(from, n) == [i \in 1 .. n |-> Byte(from + i - 1)]

\* php_http_buffer_chunked_output: full chunks are passed on, the rest is kept.
FullChunks(data, chunk) ==
    [i \in 1 .. Len(data) \div chunk |-> SubSeq(data, (i - 1) * chunk + 1, i * chunk)]

\* Mistakes: nothing is cut from the buffer, or the buffer is emptied.
RestUncut(data, chunk) == data
RestEmptied(data, chunk) == <<>>

Rest(data, chunk) == SubSeq(data, (Len(data) \div chunk) * chunk + 1, Len(data))

BodyDone ==
    /\ at = "body" /\ (r.done \/ ~BodyPresent)
    /\ at' = "finish"
    /\ UNCHANGED <<outside, options, r, conn, ret>>

\* A length of 0 is no limit; more than the body has is none either.
Limit(range) ==
    LET n == range.end - range.begin + 1 IN IF n <= 0 THEN MaxSize + 1 ELSE n

BodyStart ==
    /\ at = "body" /\ ~r.done /\ BodyPresent
    /\ r' = [r EXCEPT !.chunk = IF setup.chunk > 0 THEN setup.chunk ELSE SendBufSize,
                      !.todo = IF Partial THEN r.values ELSE <<[begin |-> 0, end |-> -1]>>]
    /\ at' = "part"
    /\ UNCHANGED <<outside, options, conn, ret>>

\* Seeking before the beginning fails, and leaves the stream anywhere.
NextPart ==
    /\ at = "part" /\ r.todo # <<>>
    /\ LET range == Head(r.todo)
       IN \E p \in 0 .. body.size :
             /\ range.begin >= 0 => p = Lesser(range.begin, body.size)
             /\ r' = [r EXCEPT !.todo = Tail(@), !.pos = p, !.forlen = Limit(range),
                               !.buffer = IF Multipart THEN Append(@, PartHead(range)) ELSE @]
    /\ at' = "read"
    /\ UNCHANGED <<outside, options, conn, ret>>

\* A mistake: only the limit ends the loop.
PartEndsAtLimit(k) == k = r.forlen

\* Less was read than a pointer has bytes, and than may still come; or all of it.
PartEnds(k) == k < Lesser(r.forlen, PointerSize) \/ k = r.forlen

\* A turn of the loop of php_http_message_body_to_callback.  At the end of the
\* stream nothing is read, which ends the loop as php_stream_eof does.
ReadBody ==
    /\ at = "read"
    /\ LET most == Lesser(Lesser(r.forlen, ReadSize), body.size - r.pos)
       IN \E k \in 0 .. most :
             /\ k = most \/ (setup.short /\ k > 0)
             /\ LET data == r.held \o Bytes(r.pos, k)
                    next == IF PartEnds(k) THEN "part" ELSE "read"
                IN \E n \in 0 .. Len(data) :
                      /\ r.encoder = "none" => n = Len(data)
                      /\ LET output == r.buffer \o SubSeq(data, 1, n)
                         IN /\ Write(IF k = 0 THEN <<>> ELSE FullChunks(output, r.chunk), next)
                            /\ r' = IF k = 0 THEN r
                                    ELSE [r EXCEPT !.pos = @ + k, !.forlen = @ - k,
                                                   !.held = SubSeq(data, n + 1, Len(data)),
                                                   !.buffer = Rest(output, r.chunk)]
    /\ UNCHANGED <<outside, options, ret>>

SendDone ==
    /\ at = "part" /\ r.todo = <<>>
    /\ LET output == r.buffer \o (IF Multipart THEN <<Close>> ELSE <<>>)
                              \o (IF r.encoder = "none" THEN <<>> ELSE Append(r.held, Trailer))
       IN Write(IF output = <<>> THEN <<>> ELSE <<output>>, "finish")
    /\ r' = [r EXCEPT !.buffer = <<>>, !.held = <<>>]
    /\ UNCHANGED <<outside, options, ret>>

\* php_http_env_response_stream_finish starts the head if nothing did.
Finish ==
    /\ at = "finish"
    /\ IF Overflows(conn) THEN at' = "crashed" /\ UNCHANGED <<conn, ret>>
       ELSE /\ conn' = IF setup.ops = "stream"
                       THEN [conn EXCEPT !.started = TRUE, !.finished = TRUE] ELSE conn
            /\ Return(TRUE)
    /\ UNCHANGED <<outside, options, r>>

-----------------------------------------------------------------------------
(* The client receives the response *)

Sent == FlattenSeq(conn.out)

\* Where an item of a partial response belongs.
PlaceOf(i) ==
    IF "Content-Range" \in DOMAIN conn.headers THEN conn.headers["Content-Range"][1] + i - 1
    ELSE LET part == SelectLastInSubSeq(Sent, 1, i, LAMBDA item : item.t = "part")
         IN IF part = 0 THEN -1 ELSE Sent[part].begin + i - part - 1

Received(place) ==
    {[as |-> place[i], no |-> Sent[i].no, ver |-> Sent[i].ver] :
        i \in {j \in DOMAIN Sent : Sent[j].t = "byte"}}

HeaderOr(name, default) == IF name \in DOMAIN conn.headers THEN conn.headers[name][1] ELSE default

\* A part goes with the rest of the copy if the server was asked to check that.
NewCopy ==
    CASE conn.status = 200 ->
           [whole |-> TRUE, etag |-> HeaderOr("ETag", NoEtag), date |-> HeaderOr("Last-Modified", 0),
            bytes |-> Received([i \in DOMAIN Sent |-> i - 1])]
      [] conn.status = 206 ->
           LET new == Received([i \in DOMAIN Sent |-> PlaceOf(i)])
           IN IF request.ifMatch.given \/ request.ifUnmodifiedSince.given \/ request.ifRange.given
              THEN [copy EXCEPT !.bytes = new \cup {b \in @ : \A n \in new : n.as # b.as}]
              ELSE [NoCopy EXCEPT !.bytes = new]
      [] OTHER -> copy

ValidRange(range) == 0 <= range.begin /\ range.begin <= range.end /\ range.end < body.size
InRange == \A i \in DOMAIN r.values : ValidRange(r.values[i])

\* Where reads may be short a body may be too, and the client keeps nothing;
\* nor does it combine parts whose Content-Range is invalid.
Usable == ret /\ ~setup.short /\ (conn.status = 206 => InRange)

Receive ==
    /\ at = "returned"
    /\ copy' = IF Usable THEN NewCopy ELSE copy
    /\ request' = Get /\ r' = NoResponse /\ conn' = NewConn /\ ret' = FALSE
    /\ at' = "script"
    /\ UNCHANGED <<setup, body, options, exchanges>>

Send ==
    \/ WithoutBody \/ AcceptRangesRefused \/ CheckRanges
    \/ HeadDone \/ HeadRefused \/ HeadStart \/ HeadRanges \/ HeadEncoding \/ HeadCaching
    \/ BodyDone \/ BodyStart \/ NextPart \/ ReadBody \/ SendDone
    \/ Finish

Next == Ask \/ Change \/ Compare \/ Send \/ Receive

Spec == Init /\ [][Next]_vars
FairSpec == Spec /\ WF_vars(Send)
-----------------------------------------------------------------------------
(* Properties *)

\* Types; and the output buffer never keeps a whole chunk, but for heads of
\* parts that turned out empty (php_http_buffer_chunked_output).
TypeOK ==
    /\ setup \in Setup
    /\ body \in [ver : Nat \ {0}, size : Sizes]
    /\ at \in {"script", "send", "head", "ranges", "encoding", "caching", "body", "part", "read",
               "finish", "returned", "crashed"}
    /\ ret \in BOOLEAN
    /\ r.status \in {"RANGE_NO", "RANGE_OK", "RANGE_ERR"}
    /\ r.done \in BOOLEAN /\ r.encoder \in {"none", "gzip", "deflate"}
    /\ r.pos \in 0 .. MaxSize /\ r.forlen \in Nat
    /\ Len(r.buffer) < r.chunk + Len(r.values)
    /\ conn.status \in {200, 206, 304, 404, 412, 416}
    /\ exchanges \in 0 .. MaxExchanges

\* The ranges that are sent are those the header of the request means, in its
\* order: digit by digit accumulation with -1 for an empty field and -10 for
\* zero (php_http_env.c:301-328) tells "0-5" from "-5" and "5-0" from "5-".
RangesMeant ==
    (at = "head" /\ HasMeaning(request.range, body.size)) =>
        LET meant == MeantRanges(request.range, body.size)
        IN /\ r.status = "RANGE_OK" => meant.status = "RANGE_OK" /\ r.values = meant.values
           /\ conn.status = 416 => meant.status = "RANGE_ERR"
           /\ meant.status = "RANGE_NO" => r.status = "RANGE_NO"

Answered == at = "returned" /\ ret /\ ~setup.short

\* A response that was sent has the body its head announces: nothing behind
\* 304, 412 and 416, the bytes of Content-Range, each part behind its own head
\* and the last boundary, or the whole body, with the trailer of the encoder if
\* and only if the head names an encoding.  Nothing stays behind in the output
\* buffer or in the encoder, whatever the pieces in which they pass it on.
BodyMatchesHead ==
    (Answered /\ InRange) =>
        CASE conn.status \in {304, 412, 416} -> Sent = <<>>
          [] conn.status = 206 ->
               IF Multipart
               THEN Sent = FlattenSeq([i \in DOMAIN r.values |->
                               <<PartHead(r.values[i])>>
                               \o Bytes(r.values[i].begin, r.values[i].end - r.values[i].begin + 1)])
                           \o <<Close>>
               ELSE LET range == conn.headers["Content-Range"]
                    IN Sent = Bytes(range[1], range[2] - range[1] + 1) /\ range[3] = body.size
          [] OTHER ->
               Sent = (IF BodyPresent THEN Bytes(0, body.size) ELSE <<>>)
                      \o (IF BodyPresent /\ "Content-Encoding" \in DOMAIN conn.headers
                          THEN <<Trailer>> ELSE <<>>)

\* The bytes that were asked for, under the head that announces them.
AnswersRequest == RangesMeant /\ BodyMatchesHead

\* The response object goes by an etag or a time it found at an earlier body.
Stale ==
    \/ options.etag \notin {NoEtag, EtagOf(body)}
    \/ options.lastModified \notin {0, body.ver}

\* Whatever a client asks with the validators it was given, and however the
\* resource changed in between: what it has after 200, 206 or 304 is of the
\* current version, every byte in its place, and complete if it takes it to be.
CopyCurrent ==
    (Answered /\ InRange /\ BodyPresent /\ ~Stale /\ conn.status \in {200, 206, 304}) =>
        LET new == NewCopy
        IN /\ \A b \in new.bytes : b.as = b.no /\ b.ver = body.ver
           /\ new.whole => {b.no : b \in new.bytes} = 0 .. body.size - 1

\* A client that has the current version and asks with its etag, or with the
\* time it was given, is not sent the body again.
RevalidationSaves ==
    ( /\ Answered /\ BodyPresent /\ ~Stale /\ setup.code < 400
      /\ request.range = NoRange
      /\ \/ request.ifNoneMatch.tag = EtagOf(body)
         \/ ~request.ifNoneMatch.given /\ request.ifModifiedSince.date = body.ver )
    => conn.status = 304

\* A cache is neither given a wrong copy nor sent again what it has.
CacheCoherent == CopyCurrent /\ RevalidationSaves

\* Once the head is out, nothing in it changes: all that sets a header or the
\* status comes before the first write, or is refused.
HeadFrozen ==
    [][(at \notin {"script", "returned"} /\ conn.started)
         => conn'.status = conn.status /\ conn'.headers = conn.headers]_vars

\* send returns, except when the head has a header twice over a stream.
SendReturns ==
    (at = "send" /\ ~(setup.ops = "stream" /\ setup.vary /\ setup.gzip)) ~> (at = "returned")
=============================================================================
