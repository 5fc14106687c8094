-------------------------- MODULE EncodingStreams --------------------------
(***************************************************************************)
(* http\Encoding\Stream\Deflate and Inflate (php_http_encoding.c): what    *)
(* the operations of a stream do with its context, the z_stream and the    *)
(* buffer for input that was not taken yet, and the objects that scripts   *)
(* update, flush, finish and clone.  An operation gives the set of its      *)
(* results, for zlib decides how much it keeps.                            *)
(***************************************************************************)
EXTENDS Zlib

CONSTANTS
    Slack,          \* what GUESS adds to the length of the data
    BufferSize,     \* PHP_HTTP_DEFLATE_BUFFER_SIZE
    Streams,        \* objects
    Compressed,     \* what scripts inflate
    Flags,          \* the flags scripts construct streams with
    Text,           \* what scripts deflate
    MaxOut          \* bound: output of a stream that still is updated or flushed

ASSUME FlagsAssumption == Flags \subseteq [raw : BOOLEAN, flush : {NoFlush, SyncFlush, FullFlush}]

\* PHP_HTTP_DEFLATE_BUFFER_SIZE_GUESS
Guess(n) == n + Slack

\* flush is the stream's flag; raw is set by inflate_update as well.
NewContext(kind, raw, flush) ==
    [kind |-> kind, raw |-> raw, flush |-> flush, buffer |-> <<>>,
     z |-> IF kind = "deflate" THEN NewDeflate(raw) ELSE NewInflate(raw)]

\* stream_reset: dtor and init, with the flags the stream has by now.
Reset(ctx) == NewContext(ctx.kind, ctx.raw, ctx.flush)

\* stream_copy, deflate_copy and inflate_copy
Copy(ctx) == ctx

Result(ctx, status, out) == [ctx |-> ctx, status |-> status, out |-> out]

Succeeded(ctx, r) == Result([ctx EXCEPT !.z = r.z, !.buffer = r.rest], "SUCCESS", r.out)

\* Input stays buffered, output is freed.
Failed(ctx, r) == Result([ctx EXCEPT !.z = r.z], "FAILURE", <<>>)

-----------------------------------------------------------------------------
(* deflate_update, deflate_flush, deflate_finish *)

DeflateUpdate(ctx, data) ==
    LET in == ctx.buffer \o data IN
    {IF r.status \in {"OK", "STREAM_END"}
     THEN Succeeded(ctx, r)
     ELSE Failed([ctx EXCEPT !.buffer = in], r) :
        r \in Deflate(ctx.z, in, Guess(Len(data)), ctx.flush)}

\* What is buffered is not given to deflate.
DeflateFlush(ctx) ==
    {Result([ctx EXCEPT !.z = r.z], IF r.status = "OK" THEN "SUCCESS" ELSE "FAILURE",
            IF r.status = "OK" THEN r.out ELSE <<>>) :
        r \in Deflate(ctx.z, <<>>, BufferSize, FullFlush)}

\* A mistake: the input that was buffered is forgotten.
DeflateFinishUnfed(ctx) ==
    {IF r.status = "STREAM_END" THEN Succeeded(ctx, r) ELSE Failed(ctx, r) :
        r \in Deflate(ctx.z, <<>>, BufferSize, ZFinish)}

\* There is one buffer for the output: deflate is called again as long as it is
\* content, without room after the first call, and that is an error.
DeflateFinish(ctx) ==
    {IF r.status = "STREAM_END" THEN Succeeded(ctx, r) ELSE Failed(ctx, r) :
        r \in Deflate(ctx.z, ctx.buffer, BufferSize, ZFinish)}

-----------------------------------------------------------------------------
(* inflate_update, inflate_finish *)

InflateTried(ctx, in) ==
    {IF r.status \in {"OK", "STREAM_END"}
     THEN Succeeded(ctx, r)
     ELSE Failed([ctx EXCEPT !.buffer = in], r) : r \in InflateRounds(ctx.z, in)}

\* A mistake: the flags do not say that the stream is raw now.
RetryRawUnflagged(ctx, in) == InflateTried([ctx EXCEPT !.z = NewInflate(TRUE)], in)

\* Raw deflated data? What an earlier update took is not there any more.
RetryRaw(ctx, in) ==
    InflateTried([ctx EXCEPT !.raw = TRUE, !.z = NewInflate(TRUE)], in)

InflateUpdate(ctx, data) ==
    LET in == ctx.buffer \o data IN
    UNION {IF r.status = "FAILURE" /\ r.ctx.z.mode = "bad" /\ ~ctx.raw /\ ~r.ctx.z.written
           THEN RetryRaw(ctx, in)
           ELSE {r} : r \in InflateTried(ctx, in)}

\* Nothing is asked of inflate unless input is buffered.
InflateFinish(ctx) ==
    IF ctx.buffer = <<>> THEN {Result(ctx, "SUCCESS", <<>>)}
    ELSE {IF r.status = "STREAM_END" THEN Succeeded(ctx, r) ELSE Failed(ctx, r) :
             r \in InflateRounds(ctx.z, ctx.buffer)}

-----------------------------------------------------------------------------
(* The operations of a stream; inflate has no flush, which succeeds. *)

StreamUpdate(ctx, data) ==
    IF ctx.kind = "deflate" THEN DeflateUpdate(ctx, data) ELSE InflateUpdate(ctx, data)

StreamFlush(ctx) ==
    IF ctx.kind = "deflate" THEN DeflateFlush(ctx) ELSE {Result(ctx, "SUCCESS", <<>>)}

StreamFinish(ctx) ==
    IF ctx.kind = "deflate" THEN DeflateFinish(ctx) ELSE InflateFinish(ctx)

StreamDone(ctx) == ctx.buffer = <<>>

\* php_http_encoding_deflate: one call with room for the data and some.
Encode(data, raw) ==
    {r.out : r \in {d \in Deflate(NewDeflate(raw), data, Guess(Len(data)), ZFinish) :
                       d.status = "STREAM_END"}}

\* The NUL behind the data is inflated with it (see #61287).  It is a token
\* here that no stream has; a stream of which only a last byte 0 is missing,
\* which zlib would take it for, is left out.
OnceInput(data) == Append(data, "NUL")

\* php_http_encoding_inflate: raw is tried if the data is no other.
Decode(data) ==
    LET in == OnceInput(data)
        any == InflateRounds(NewInflate(FALSE), in)
    IN {IF r.status = "STREAM_END" THEN r.out ELSE <<"FALSE">> :
           r \in UNION {IF r.status = "DATA_ERROR" THEN InflateRounds(NewInflate(TRUE), in)
                        ELSE {r} : r \in any}}

-----------------------------------------------------------------------------
(* Stream objects *)

VARIABLES
    streams,    \* the context of an object, or Closed
    hist,       \* what its script did with it since the last reset
    once        \* what the last Inflate::decode returned, and for what

streamVars == <<streams, hist, once>>

Closed == [kind |-> "closed"]

\* over: finish succeeded; failed: finish failed, or the input is bad;
\* early: raw data nobody announced, of which one byte came alone.
NoHistory(source) ==
    [source |-> source, fed |-> <<>>, got |-> <<>>,
     over |-> FALSE, failed |-> FALSE, early |-> FALSE]

NoSource == [tokens |-> <<>>, raw |-> FALSE]

NoDecoding == [of |-> NoSource, out |-> <<>>]

StreamInit ==
    /\ streams = [o \in Streams |-> Closed]
    /\ hist = [o \in Streams |-> NoHistory(NoSource)]
    /\ once = NoDecoding

\* Streams share nothing: the only other stream that matters is a clone.  A second
\* call of the constructor is refused.
Construct(o, kind, f, source) ==
    /\ \A p \in Streams : streams[p] = Closed
    /\ kind = "deflate" <=> source = NoSource
    /\ streams' = [streams EXCEPT ![o] = NewContext(kind, f.raw, f.flush)]
    /\ hist' = [hist EXCEPT ![o] = NoHistory(source)]
    /\ once' = NoDecoding

CloneStream(o, p) ==
    /\ streams[o] # Closed /\ streams[p] = Closed
    /\ streams' = [streams EXCEPT ![p] = Copy(streams[o])]
    /\ hist' = [hist EXCEPT ![p] = hist[o]]
    /\ UNCHANGED once

\* The history of the stream's current life.
Current(o) == IF hist[o].over THEN NoHistory(hist[o].source) ELSE hist[o]

Put(o, r, data, failed) ==
    LET h == Current(o) IN
    /\ streams' = [streams EXCEPT ![o] = r.ctx]
    /\ hist' = [hist EXCEPT ![o] =
                  [h EXCEPT !.fed = @ \o data, !.got = @ \o r.out, !.failed = @ \/ failed,
                            !.early = @ \/ (/\ h.source.raw /\ ~streams[o].raw
                                            /\ h.fed = <<>> /\ Len(data) = 1)]]
    /\ UNCHANGED once

\* The next of what is to be deflated or inflated.
Data(o) ==
    LET fed == Current(o).fed IN
    IF streams[o].kind = "deflate"
    THEN {SubSeq(Text, Len(fed) + 1, n) : n \in Len(fed) .. Len(Text)}
    ELSE {SubSeq(hist[o].source.tokens, Len(fed) + 1, n) :
             n \in Len(fed) .. Len(hist[o].source.tokens)}

Update(o) ==
    /\ streams[o] # Closed
    /\ Len(Current(o).got) <= MaxOut
    /\ \E data \in Data(o) : \E r \in StreamUpdate(streams[o], data) :
         Put(o, r, data, streams[o].kind = "inflate" /\ r.status = "FAILURE" /\ r.ctx.z.mode = "bad")

FlushStream(o) ==
    /\ streams[o] # Closed
    /\ Len(Current(o).got) <= MaxOut
    /\ \E r \in StreamFlush(streams[o]) : Put(o, r, <<>>, FALSE)

\* The stream is reset if it could be finished; otherwise it stays as it is.
Finish(o) ==
    /\ streams[o] # Closed
    /\ \E r \in StreamFinish(streams[o]) :
         \/ /\ r.status = "SUCCESS"
            /\ streams' = [streams EXCEPT ![o] = Reset(r.ctx)]
            /\ hist' = [hist EXCEPT ![o] =
                          [Current(o) EXCEPT !.got = @ \o r.out, !.over = TRUE]]
            /\ UNCHANGED once
         \/ /\ r.status = "FAILURE"
            /\ Put(o, r, <<>>, TRUE)

Free(o) ==
    /\ streams[o] # Closed
    /\ streams' = [streams EXCEPT ![o] = Closed]
    /\ hist' = [hist EXCEPT ![o] = NoHistory(NoSource)]
    /\ UNCHANGED once

DecodeOnce(source) ==
    /\ \A o \in Streams : streams[o] = Closed
    /\ \E out \in Decode(source.tokens) : once' = [of |-> source, out |-> out]
    /\ UNCHANGED <<streams, hist>>

StreamNext ==
    \/ \E o \in Streams :
         \/ \E f \in Flags :
              \/ Construct(o, "deflate", f, NoSource)
              \/ \E source \in Compressed : Construct(o, "inflate", f, source)
         \/ \E p \in Streams : CloneStream(o, p)
         \/ Update(o) \/ FlushStream(o) \/ Finish(o) \/ Free(o)
    \/ \E source \in Compressed : DecodeOnce(source)

-----------------------------------------------------------------------------
(* What holds *)

ContextOK(ctx) ==
    /\ ctx.raw \in BOOLEAN /\ ctx.flush \in {NoFlush, SyncFlush, FullFlush}
    /\ IF ctx.kind = "deflate"
       THEN /\ ctx.buffer \in Seq(Symbols)
            /\ ctx.z.win \in Seq(Symbols) /\ ctx.z.pend \in Seq(Token)
            /\ ctx.z.fin => ctx.z.win = <<>>
       ELSE /\ ctx.buffer \in Seq(Token) /\ ctx.z.pend \in Seq(Symbols)
            /\ ctx.z.mode \in {"head", "data", "check", "done", "bad"}
            /\ ctx.z.raw = ctx.raw

\* What a reader of the whole makes of it.
Reading(tokens, raw) == AllTaken(NewInflate(raw), tokens)
Complete(tokens, raw) == Reading(tokens, raw).mode = "done"

\* Between reset and finish, output, what zlib keeps and what is buffered make up
\* the input, in its order; a clone has a share of its own.
KeptInOrder == \A o \in Streams :
    LET h == hist[o]
        ctx == streams[o]
    IN ctx # Closed /\ ~h.over /\ ~h.failed =>
        IF ctx.kind = "deflate"
        THEN Plain(h.got \o ctx.z.pend) \o ctx.z.win \o ctx.buffer = h.fed
        ELSE h.early \/ h.got \o ctx.z.pend = Plain(h.fed)

\* Output of the finished stream is all there is to say about its input.
FinishedWhole == \A o \in Streams :
    LET h == hist[o]
        ctx == streams[o]
    IN ctx # Closed /\ h.over /\ ~h.failed =>
        IF ctx.kind = "deflate"
        THEN LET st == Reading(h.got, ctx.raw)
             IN st.mode = "done" /\ st.used = Len(h.got) /\ st.out = h.fed
        ELSE \/ h.fed # h.source.tokens \/ ~Complete(h.fed, h.source.raw)
             \/ h.early \/ (h.source.raw /\ Range(h.fed) \cap Closing # {})
             \/ h.got = Plain(h.fed)

\* Complete data is decoded, whatever its format, truncated data is refused.
OnceDecodes ==
    LET of == once.of IN
    of # NoSource =>
        once.out = IF Complete(of.tokens, of.raw) THEN Plain(of.tokens) ELSE <<"FALSE">>

\* Nothing that was given to a stream is lost, doubled or swapped
\* (php_http_encoding.c: the update, flush, finish, copy and reset of deflate and
\* inflate streams, and the one-shot inflate).
StreamsKeepAll == KeptInOrder /\ FinishedWhole /\ OnceDecodes
=============================================================================
