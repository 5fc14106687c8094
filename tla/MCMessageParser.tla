-------------------------- MODULE MCMessageParser --------------------------
(* Connections for MessageParser, and the ways they are parsed. *)
EXTENDS MessageParser

Info(id, kind) == [t |-> "info", of |-> id, kind |-> kind, redirect |-> FALSE]
Redirect(id) == [t |-> "info", of |-> id, kind |-> "response", redirect |-> TRUE]
Header(name, v) == [t |-> "header", name |-> name, value |-> <<v>>]
Empty(name) == [t |-> "header", name |-> name, value |-> <<>>]
Fold(v) == [t |-> "fold", value |-> <<v>>]
EolToken == [t |-> "eol"]
Junk == [t |-> "junk"]
SizeLine(n) == [t |-> "size", n |-> n]
Bytes(id, from, to, gz) == [i \in 1 .. (to - from + 1) |->
                              [t |-> "byte", of |-> id, no |-> from + i - 1, gz |-> gz]]

\* Messages of a connection; each says where its body ends.
NoBody(id) == <<Info(id, "request"), Header("X", 1), Fold(2), Empty("Y"), EolToken>>
Sized(id, n, gz) ==
    <<Info(id, "response"), Header("CL", n)>>
    \o (IF gz THEN <<Header("CE", 1)>> ELSE <<>>) \o <<EolToken>> \o Bytes(id, 1, n, gz)
InChunks(id, gz) ==
    <<Info(id, "response"), Header("TE", 1)>>
    \o (IF gz THEN <<Header("CE", 1)>> ELSE <<>>) \o <<EolToken>>
    \o <<SizeLine(2)>> \o Bytes(id, 1, 2, gz) \o <<EolToken, SizeLine(1)>> \o Bytes(id, 3, 3, gz)
    \o <<EolToken, SizeLine(0), EolToken>>
EmptyRedirect(id) ==
    <<Redirect(id), Header("CL", 3), Header("Loc", 1), Header("Con", 1), EolToken>>
ChunkedWithLength(id) ==
    <<Info(id, "response"), Header("CL", 1), Header("TE", 1), EolToken, SizeLine(2)>>
    \o Bytes(id, 1, 2, FALSE) \o <<EolToken, SizeLine(0), EolToken>>
UntilClose(id, n) == <<Info(id, "response"), EolToken>> \o Bytes(id, 1, n, FALSE)

Kinds == {"nobody", "empty", "sized", "sizedgz", "chunked", "chunkedgz", "both", "redirect"}
OfKind(kind, id) ==
    CASE kind = "nobody" -> NoBody(id)
      [] kind = "empty" -> Sized(id, 0, FALSE)
      [] kind = "sized" -> Sized(id, 2, FALSE)
      [] kind = "sizedgz" -> Sized(id, 2, TRUE)
      [] kind = "chunked" -> InChunks(id, FALSE)
      [] kind = "chunkedgz" -> InChunks(id, TRUE)
      [] kind = "both" -> ChunkedWithLength(id)
      [] kind = "redirect" -> EmptyRedirect(id)

\* No plain body may follow a compressed one: the inflate stream stays.
Plain == {"sized", "chunked", "both"}
Packed == {"sizedgz", "chunkedgz"}
Connections(kinds, n) ==
    {c \in UNION {[1 .. m -> kinds] : m \in 1 .. n} :
        \A i, j \in DOMAIN c : i < j => ~(c[i] \in Packed /\ c[j] \in Plain)}

WireOf(c) ==
    OfKind(c[1], 1) \o (IF Len(c) > 1 THEN OfKind(c[2], 2) ELSE <<>>)
                   \o (IF Len(c) > 2 THEN OfKind(c[3], 3) ELSE <<>>)

Given(d, f, wires) == {[driver |-> d, flags |-> f, wire |-> w, inOrder |-> TRUE] : w \in wires}

\* What the debug callback of the client is given.  The redirect has a length
\* but no body.
ClientWires == {WireOf(c) : c \in Connections(Kinds, 2)}

FramedWires == {WireOf(c) : c \in Connections(Kinds \ {"redirect"}, 3)}

\* And bodies without a length that fit the buffer; a blank line between messages.
WholeWires == FramedWires \cup {UntilClose(1, 2), NoBody(1) \o <<EolToken>> \o UntilClose(2, 3)}

FramedUses ==
    Given("push", {"EMPTY_REDIRECTS"}, ClientWires)
    \cup Given("stream", {"GREEDY"}, WholeWires)
    \cup Given("string", {"GREEDY", "CLEANUP"}, WholeWires)

\* Whatever: among others no first line, headers only, ranges, a plain message
\* behind a compressed one, lines that are neither.
OddWires ==
    {<<Empty("Y"), EolToken>>, <<Header("X", 1), EolToken>> \o Bytes(0, 1, 2, FALSE),
     <<Info(1, "response"), Header("CR", 1), EolToken>>,
     <<Info(1, "response"), Header("CL", -1), Header("CR", 1), Header("CE", 1), EolToken>>,
     Sized(1, 1, TRUE) \o Sized(2, 1, FALSE) \o NoBody(3),
     <<Info(1, "request"), Junk, EolToken, Header("X", 1), EolToken>>,
     <<Info(1, "response"), Header("TE", 1), EolToken, SizeLine(1), Junk, EolToken, Junk, EolToken>>
       \o NoBody(2),
     <<Redirect(1), Header("CL", 1), Header("Loc", 1), EolToken>> \o Bytes(1, 1, 1, FALSE),
     <<Info(1, "response"), Header("CL", 1), EolToken>> \o Bytes(1, 1, 2, FALSE),
     UntilClose(1, 2) \o NoBody(2)}

OutOfOrder(uses) == {[use EXCEPT !.inOrder = FALSE] : use \in uses}

OddUses == OutOfOrder(Given("push", {}, OddWires))

ParserUses == FramedUses \cup OddUses
=============================================================================
