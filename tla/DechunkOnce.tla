---------------------------- MODULE DechunkOnce ----------------------------
(***************************************************************************)
(* http\Encoding\Stream\Dechunk::decode: php_http_encoding_dechunk, which  *)
(* decodes a message that is there as a whole.  A step is a turn of its    *)
(* loop.  Offsets count from 0, as its pointers do from encoded; a NUL is  *)
(* behind the last byte.                                                   *)
(***************************************************************************)
EXTENDS Chunked

CONSTANTS
    Messages,   \* what may be decoded
    Beyond      \* a byte from behind the message

ASSUME BeyondAssumption == Beyond \notin Byte

VARIABLES
    message,    \* encoded
    e,          \* e_ptr - encoded
    eol_len,    \* length of the last end of line
    out,        \* *decoded
    at          \* "loop", or how the function ended

vars == <<message, e, eol_len, out, at>>

Init == message \in Messages /\ e = 0 /\ eol_len = 0 /\ out = <<>> /\ at = "loop"

Bytes == Len(message)
From(p) == SubSeq(message, p + 1, Bytes)
Size == Strtoul(From(e))
AtNumber == at = "loop" /\ e < Bytes /\ Stop(From(e)) # 0

-----------------------------------------------------------------------------
\* No number at the very start: a copy is returned.  Its NUL is written to
\* decoded[...], not (*decoded)[...]: a pointer behind the caller's variable is
\* overwritten, which the program may or may not survive.
NotChunked ==
    /\ at = "loop" /\ e = 0 /\ 0 < Bytes /\ Stop(From(e)) = 0
    /\ out' = message /\ e' = Bytes
    /\ at' \in {"end", "overwritten"}
    /\ UNCHANGED <<message, eol_len>>

Trash ==
    /\ at = "loop" /\ 0 < e /\ e < Bytes /\ Stop(From(e)) = 0
    /\ out' = <<>> /\ at' = "NULL"
    /\ UNCHANGED <<message, e, eol_len>>

\* A mistake: the continue belongs to the outer loop.
TerminatorContinues ==
    /\ AtNumber /\ Size = 0
    /\ e' = e
    /\ UNCHANGED <<message, eol_len, out, at>>

\* The loop that moves over the terminator is a do ... while (0), which a
\* continue leaves: one byte is moved over.
Terminator ==
    /\ AtNumber /\ Size = 0
    /\ e' = IF message[e + 1] \in {"0", "CR", "LF"} THEN e + 1 ELSE e
    /\ at' = "end"
    /\ UNCHANGED <<message, eol_len, out>>

\* eol_match: where the line of the chunk size ends, after blanks; the length
\* of the end of line is that of the next one even if something else precedes.
LineEnd(n_ptr) ==
    LET line == From(n_ptr)
        i == SelectInSeq(line, LAMBDA b : b \in Eol)
        matches == i # 0 /\ \A j \in 1 .. (i - 1) : line[j] = "SP"
    IN IF line = <<>> THEN [ptr |-> n_ptr, eol |-> eol_len]
       ELSE [ptr |-> IF matches THEN n_ptr + i - 1 ELSE n_ptr,
             eol |-> IF i = 0 THEN 0 ELSE EolLen(line, i)]

Copied(p, n) == [i \in 1 .. n |-> IF p + i <= Bytes THEN message[p + i] ELSE Beyond]

\* A mistake: the size is not compared with what is left.
TakeChunkUnchecked(size, data, eol) ==
    /\ eol_len' = eol
    /\ out' = out \o Copied(data, size)
    /\ IF size = Bytes - data
       THEN e' = data + size /\ at' = "end"
       ELSE e' = data + size + eol /\ at' = "loop"
    /\ UNCHANGED message

\* rest is unsigned: a message that ends with the number, after an earlier end
\* of line, makes it wrap around, and nothing is noticed.
TakeChunkOf(size, data, eol) ==
    LET truncated == data <= Bytes /\ size > Bytes - data
        n == IF truncated THEN Bytes - data ELSE size
    IN
    /\ eol_len' = eol
    /\ out' = out \o Copied(data, n)
    /\ IF n = Bytes - data
       THEN e' = data + n /\ at' = "end"
       ELSE e' = data + n + eol /\ at' = "loop"
    /\ UNCHANGED message

TakeChunk ==
    /\ AtNumber /\ Size # 0
    /\ \E size \in {Size}, line \in {LineEnd(e + Stop(From(e)))} :
         TakeChunkOf(size, line.ptr + line.eol, line.eol)

LoopEnds ==
    /\ at = "loop" /\ Bytes <= e
    /\ at' = "end"
    /\ UNCHANGED <<message, e, eol_len, out>>

Next == NotChunked \/ Trash \/ Terminator \/ TakeChunk \/ LoopEnds

Spec == Init /\ [][Next]_vars /\ WF_vars(Next)

-----------------------------------------------------------------------------
(* Properties *)

\* What a sender encodes is decoded to what it encoded.
Bodies == {<<>>, <<<<"z">>>>, <<<<"z", "1">>>>, <<<<"LF", "2">>, <<"0">>>>, <<<<"1">>, <<"z", "CR">>>>,
           <<<<"SP">>, <<"z", "z">>, <<"a">>>>}
Styles == {"LF", "CRLF"}
DecodesWhole ==
    \A chunks \in Bodies, style \in Styles :
        message = Encoded(chunks, style) /\ at # "loop" => at = "end" /\ out = Payload(chunks)

\* "chunk size pretends more data than we actually got, so it's probably a
\* truncated message": of a truncated message the part that is there is decoded.
TruncatedGivesPart ==
    \A chunks \in Bodies, style \in Styles :
        IsPrefix(message, Encoded(chunks, style)) /\ at = "end" => IsPrefix(out, Payload(chunks))

\* php_http_encoding_dechunk inverts the encoder, on what is there of a message.
DecodesBody == DecodesWhole /\ TruncatedGivesPart

\* The decoder returns for every input.
Returns == <>(at # "loop")
=============================================================================
