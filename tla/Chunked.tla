------------------------------ MODULE Chunked ------------------------------
(***************************************************************************)
(* The bytes of a body in the chunked transfer coding, and what both       *)
(* decoders of php_http_encoding.c read from them: the end of a line and   *)
(* the number strtoul finds.  Encoded is the reference: what a sender puts *)
(* on the wire for a list of chunks.                                       *)
(***************************************************************************)
EXTENDS Integers, Sequences, SequencesExt

CONSTANT UlongMax       \* ULONG_MAX, what strtoul returns when it overflows

ASSUME UlongMaxAssumption == UlongMax \in Nat \ {0}

HexDigits == <<"0", "1", "2", "3", "4", "5", "6", "7",
               "8", "9", "a", "b", "c", "d", "e", "f">>
HexDigit == ToSet(HexDigits)
DigitValue == [d \in HexDigit |-> CHOOSE i \in 0 .. 15 : HexDigits[i + 1] = d]

\* "z" stands for every byte that is neither a digit nor white space, and is
\* not a sign or the x of a prefix either: strtoul also reads +1, -1 and 0x1,
\* which no message here has.
Byte == HexDigit \cup {"z", "SP", "CR", "LF"}
Eol == {"CR", "LF"}
Space == {"SP", "CR", "LF"}

\* i is the first CR or LF of bin.
EolAt(bin, i) == bin[i] \in Eol /\ \A j \in 1 .. (i - 1) : bin[j] \notin Eol

\* A CR LF counts as one; behind the last byte is a NUL (php_http_buffer_fix).
EolLen(bin, i) == IF i < Len(bin) /\ bin[i] = "CR" /\ bin[i + 1] = "LF" THEN 2 ELSE 1

-----------------------------------------------------------------------------
(* strtoul(bin, &stop, 16) without sign and prefix: white space, then the  *)
(* longest run of digits.                                                  *)

IsNumber(bin, i, j) ==
    /\ \A k \in 1 .. (i - 1) : bin[k] \in Space
    /\ \A k \in i .. j : bin[k] \in HexDigit
    /\ j < Len(bin) => bin[j + 1] \notin HexDigit

\* stop - bin; 0 if there is no number.
Stop(bin) ==
    IF \E j \in DOMAIN bin, i \in DOMAIN bin : i <= j /\ IsNumber(bin, i, j)
    THEN CHOOSE j \in DOMAIN bin : \E i \in 1 .. j : IsNumber(bin, i, j)
    ELSE 0

HexValue(bin) ==
    LET value[k \in 0 .. Len(bin)] ==
            IF k = 0 \/ bin[k] \in Space THEN 0 ELSE 16 * value[k - 1] + DigitValue[bin[k]]
    IN value[Stop(bin)]

Limited(n) == IF n \in 0 .. UlongMax THEN n ELSE UlongMax

Strtoul(bin) == Limited(HexValue(bin))

-----------------------------------------------------------------------------
(* The sender *)

EolBytes(style) == IF style = "CRLF" THEN <<"CR", "LF">> ELSE <<"LF">>

\* One digit is enough for the bodies used here.
Chunk(data, style) == <<HexDigits[Len(data) + 1]>> \o EolBytes(style) \o data \o EolBytes(style)

Payload(chunks) == FlattenSeq(chunks)

Encoded(chunks, style) ==
    FlattenSeq([i \in DOMAIN chunks |-> Chunk(chunks[i], style)]) \o <<"0">> \o EolBytes(style)
=============================================================================
