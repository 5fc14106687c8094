------------------------------ MODULE Dechunk ------------------------------
(***************************************************************************)
(* http\Encoding\Stream\Dechunk: the incremental decoder of the chunked    *)
(* transfer coding (dechunk_init, dechunk_update, dechunk_flush,           *)
(* dechunk_done and the reset done by finish).                             *)
(*                                                                         *)
(* The user feeds a message in pieces of any size, and may flush between    *)
(* two pieces.  One update runs the loop of dechunk_update: each turn of it *)
(* (and of the loops that skip CR and LF) is a step, so an update is the    *)
(* steps between FeedPiece and the state "idle" again.                     *)
(***************************************************************************)
EXTENDS Chunked

CONSTANTS
    Messages,   \* what may come over the wire
    MayCut(_, _) \* whether a piece of a message may end behind its n-th byte

ASSUME MessagesAssumption == Messages \subseteq Seq(Byte)

VARIABLES
    buffer,     \* ctx->buffer: fed and not used yet
    hexlen,     \* ctx->hexlen: size of the chunk that is being read, or 0
    zeroed,     \* ctx->zeroed: the last chunk was seen
    full,       \* PHP_HTTP_ENCODING_STREAM_FLUSH_FULL
    at,         \* where dechunk_update is: "idle" when it is not running
    status,     \* what the last call returned
    tmp,        \* decoded in the running call
    out,        \* all the user got so far
    message,    \* what the user feeds
    fed         \* how many bytes of it were fed

vars == <<buffer, hexlen, zeroed, full, at, status, tmp, out, message, fed>>

Init ==
    /\ buffer = <<>> /\ hexlen = 0 /\ zeroed = FALSE
    /\ full \in BOOLEAN
    /\ at = "idle" /\ status = "SUCCESS"
    /\ tmp = <<>> /\ out = <<>>
    /\ message \in Messages /\ fed = 0

-----------------------------------------------------------------------------
(* dechunk_update *)

FeedPiece(n) ==
    /\ at = "idle"
    /\ fed + n <= Len(message)
    /\ fed + n < Len(message) => MayCut(message, fed + n)
    /\ ~zeroed
    /\ buffer' = buffer \o SubSeq(message, fed + 1, fed + n)
    /\ fed' = fed + n
    /\ at' = "loop"
    /\ UNCHANGED <<hexlen, zeroed, full, status, tmp, out, message>>

\* The stream is at its end: the piece is not taken.
FeedRefused(n) ==
    /\ at = "idle"
    /\ fed + n <= Len(message)
    /\ zeroed
    /\ status' = "FAILURE"
    /\ UNCHANGED <<buffer, hexlen, zeroed, full, at, tmp, out, message, fed>>

Return(result) ==
    /\ status' = result
    /\ at' = "idle"
    /\ tmp' = <<>>
    /\ out' = IF result = "SUCCESS" THEN out \o tmp ELSE out

\* FLUSH_FULL passes on the part of the chunk that is there.
FlushPartial ==
    /\ at = "loop" /\ full
    /\ 0 < Len(buffer) /\ Len(buffer) < hexlen
    /\ tmp' = tmp \o buffer
    /\ hexlen' = hexlen - Len(buffer)
    /\ buffer' = <<>>
    /\ UNCHANGED <<zeroed, full, at, status, out, message, fed>>

\* A mistake: a chunk that is complete is waited for.
WaitForDataTooLong ==
    /\ at = "loop" /\ ~full
    /\ 0 < Len(buffer) /\ Len(buffer) <= hexlen
    /\ Return("SUCCESS")
    /\ UNCHANGED <<buffer, hexlen, zeroed, full, message, fed>>

WaitForData ==
    /\ at = "loop" /\ ~full
    /\ 0 < Len(buffer) /\ Len(buffer) < hexlen
    /\ Return("SUCCESS")
    /\ UNCHANGED <<buffer, hexlen, zeroed, full, message, fed>>

TakeChunk ==
    /\ at = "loop"
    /\ 0 < hexlen /\ hexlen <= Len(buffer)
    /\ tmp' = tmp \o SubSeq(buffer, 1, hexlen)
    /\ buffer' = SubSeq(buffer, hexlen + 1, Len(buffer))
    /\ hexlen' = 0
    /\ UNCHANGED <<zeroed, full, at, status, out, message, fed>>

\* CR and LF before a chunk size, and behind the last chunk, are skipped.
SkipEol ==
    /\ at \in {"loop", "last"}
    /\ hexlen = 0
    /\ buffer # <<>> /\ Head(buffer) \in Eol
    /\ buffer' = Tail(buffer)
    /\ UNCHANGED <<hexlen, zeroed, full, at, status, tmp, out, message, fed>>

AtSizeLine == at = "loop" /\ hexlen = 0 /\ buffer # <<>> /\ Head(buffer) \notin Eol

\* The line is complete: its number is the size of the next chunk, the rest
\* of the line is dropped; 0 is the last chunk.
ReadSize ==
    /\ AtSizeLine
    /\ Stop(buffer) # 0
    /\ \E i \in DOMAIN buffer :
         /\ EolAt(buffer, i)
         /\ buffer' = SubSeq(buffer, i + EolLen(buffer, i), Len(buffer))
    /\ hexlen' = Strtoul(buffer)
    /\ at' = IF hexlen' = 0 THEN "last" ELSE "loop"
    /\ UNCHANGED <<zeroed, full, status, tmp, out, message, fed>>

\* No number: what this call decoded so far is freed with tmp.
BadSize ==
    /\ AtSizeLine
    /\ Stop(buffer) = 0
    /\ \E i \in DOMAIN buffer : EolAt(buffer, i)
    /\ Return("FAILURE")
    /\ UNCHANGED <<buffer, hexlen, zeroed, full, message, fed>>

\* A mistake: the loop is not left.
WaitForSizeLineSpinning ==
    /\ AtSizeLine
    /\ \A i \in DOMAIN buffer : buffer[i] \notin Eol
    /\ UNCHANGED vars

WaitForSizeLine ==
    /\ AtSizeLine
    /\ \A i \in DOMAIN buffer : buffer[i] \notin Eol
    /\ Return("SUCCESS")
    /\ UNCHANGED <<buffer, hexlen, zeroed, full, message, fed>>

LastChunk ==
    /\ at = "last"
    /\ buffer # <<>> => Head(buffer) \notin Eol
    /\ zeroed' = TRUE
    /\ Return("SUCCESS")
    /\ UNCHANGED <<buffer, hexlen, full, message, fed>>

Drained ==
    /\ at = "loop"
    /\ buffer = <<>>
    /\ Return("SUCCESS")
    /\ UNCHANGED <<buffer, hexlen, zeroed, full, message, fed>>

Update == FlushPartial \/ WaitForData \/ TakeChunk \/ SkipEol \/ ReadSize \/ BadSize
          \/ WaitForSizeLine \/ LastChunk \/ Drained

-----------------------------------------------------------------------------
(* dechunk_flush and finish *)

\* A mistake: flush takes what is buffered whether or not it is chunk data.
FlushAnything ==
    /\ at = "idle"
    /\ status' = "SUCCESS"
    /\ out' = out \o buffer
    /\ hexlen' = (IF hexlen > Len(buffer) THEN hexlen - Len(buffer) ELSE 0)
    /\ buffer' = <<>>
    /\ UNCHANGED <<zeroed, full, at, tmp, message, fed>>

\* A mistake: flush does not look whether a chunk is open.
FlushUnchecked ==
    /\ at = "idle"
    /\ status' = "SUCCESS"
    /\ out' = out \o buffer /\ hexlen' = hexlen - Len(buffer) /\ buffer' = <<>>
    /\ UNCHANGED <<zeroed, full, at, tmp, message, fed>>

Flush ==
    /\ at = "idle"
    /\ status' = "SUCCESS"
    /\ IF hexlen # 0
       THEN out' = out \o buffer /\ hexlen' = hexlen - Len(buffer) /\ buffer' = <<>>
       ELSE UNCHANGED <<out, hexlen, buffer>>
    /\ UNCHANGED <<zeroed, full, at, tmp, message, fed>>

\* There is no finish operation: the stream is destroyed and initialised again
\* (what it had buffered is lost), and the user feeds the message anew.
Finish ==
    /\ at = "idle"
    /\ buffer' = <<>> /\ hexlen' = 0 /\ zeroed' = FALSE
    /\ status' = "SUCCESS"
    /\ out' = <<>> /\ fed' = 0
    /\ UNCHANGED <<full, at, tmp, message>>

Next ==
    \/ \E n \in 1 .. Len(message) : FeedPiece(n) \/ FeedRefused(n)
    \/ Update
    \/ Flush
    \/ Finish

Spec == Init /\ [][Next]_vars

\* Every call runs to its end.
FairSpec == Spec /\ WF_vars(Update)

-----------------------------------------------------------------------------
(* Properties *)

\* The context, the call and the user's side have their types; hexlen is an
\* unsigned long: a subtraction that wraps around leaves its range here.
TypeOK ==
    /\ buffer \in Seq(Byte) /\ tmp \in Seq(Byte) /\ out \in Seq(Byte)
    /\ hexlen \in 0 .. UlongMax
    /\ zeroed \in BOOLEAN /\ full \in BOOLEAN
    /\ at \in {"idle", "loop", "last"}
    /\ status \in {"SUCCESS", "FAILURE"}
    /\ message \in Seq(Byte) /\ fed \in Nat

\* Between calls the decoder never holds a whole chunk back, so that flush,
\* which subtracts all that is buffered from hexlen, does not wrap around; and
\* behind the last chunk nothing counts as chunk data.
FlushFitsChunk ==
    at = "idle" /\ hexlen # 0 => Len(buffer) < hexlen /\ ~zeroed

\* No byte is passed on twice and none is made up: what the user got and what
\* is still buffered are at most what was fed, for any input and any flushes.
NoByteTwice == Len(out) + Len(tmp) + Len(buffer) <= fed

\* A flush may come at any time: hexlen and the data stay in step.
FlushSafe == FlushFitsChunk /\ NoByteTwice

\* Whatever way the encoding of a body is cut into pieces (that MayCut allows)
\* and flushed, the user gets the body: never anything else, and all of it once all was fed.
Bodies == {<<>>, <<<<"z">>>>, <<<<"z", "1">>>>, <<<<"LF", "2">>, <<"0">>>>, <<<<"1">>, <<"z", "CR">>>>}
Styles == {"LF", "CRLF"}
DecodesBody ==
    \A chunks \in Bodies, style \in Styles :
        message = Encoded(chunks, style) =>
            /\ IsPrefix(out \o tmp, Payload(chunks))
            /\ fed = Len(message) /\ at = "idle" => out = Payload(chunks) /\ zeroed

\* A call of update always comes back.
UpdateReturns == at # "idle" ~> at = "idle"
=============================================================================
