--------------------------- MODULE MessageParser ---------------------------
(***************************************************************************)
(* php_http_message_parser_t with the header parser it drives: a stack of  *)
(* states, worked off in turns of one loop, that turns the bytes of a       *)
(* connection into a chain of messages.  A turn of the loop of             *)
(* php_http_message_parser_parse, or of php_http_header_parser_parse, is a *)
(* step.  Data comes from one of three drivers: "push" (the debug callback  *)
(* of libcurl, which appends a piece and parses), "stream"                 *)
(* (php_http_message_parser_parse_stream, which reads as the state asks)   *)
(* and "string" (php_http_message_parse, which has everything at once).     *)
(*                                                                         *)
(* The wire is a sequence of tokens: a line of the head, the end of a line *)
(* on its own, a chunk size line, or a byte of a body.  All drivers pass    *)
(* lines of the head as a whole, so no token is cut.                        *)
(***************************************************************************)
EXTENDS Integers, Sequences, SequencesExt

CONSTANTS
    Uses,           \* how the parser may be used: [driver, flags, wire, inOrder]
    BufferSize      \* tokens the buffer of parse_stream has room for

Drivers == {"push", "stream", "string"}

\* PHP_HTTP_MESSAGE_PARSER_...; with CLEANUP the last header needs no next line.
Flags == {"GREEDY", "DUMB_BODIES", "EMPTY_REDIRECTS", "CLEANUP"}

\* What comes over a connection.  A value is the list of its parts, no stands for
\* the place of a byte, gz says that it is compressed.
Token ==
    [t : {"info"}, of : Nat, kind : {"request", "response"}, redirect : BOOLEAN]
    \cup [t : {"header"}, name : STRING, value : Seq(Int)]
    \cup [t : {"fold"}, value : Seq(Int)]
    \cup [t : {"eol", "junk"}]
    \cup [t : {"size"}, n : Nat]
    \cup [t : {"byte"}, of : Nat, no : Nat, gz : BOOLEAN]

ASSUME UsesAssumption ==
    \A use \in Uses : /\ use.driver \in Drivers /\ use.flags \subseteq Flags
                     /\ use.inOrder \in BOOLEAN /\ use.wire \in Seq(Token)
ASSUME BufferAssumption == BufferSize \in Nat \ {0}

VARIABLES
    buffer,         \* the data that is not parsed yet
    stack,          \* parser->stack, the top first
    hstack,         \* parser->header.stack, the top first
    key, val,       \* the header being parsed: its line, and its parts so far
    body_length,    \* parser->body_length
    dechunk,        \* parser->dechunk
    inflate,        \* whether parser->inflate is set
    messages,       \* the chain behind *message, the newest last
    str, cut,       \* locals of parse: body data, and what to cut of buffer
    at,             \* where control is: "idle", "parse", "header", ...
    ret,            \* what parse returned last
    driver, flags,  \* the parameters of parse
    inOrder,        \* whether its messages are well-formed and say where they end
    wire,           \* what comes over the connection
    read            \* how many tokens of it were read

vars == <<buffer, stack, hstack, key, val, body_length, dechunk, inflate, messages,
          str, cut, at, ret, driver, flags, inOrder, wire, read>>
parser == <<hstack, key, val, body_length, dechunk, inflate>>
input == <<driver, flags, inOrder, wire>>
source == <<input, read>>

-----------------------------------------------------------------------------
States == {"START", "HEADER", "HEADER_DONE", "BODY", "BODY_DUMB", "BODY_LENGTH",
           "BODY_CHUNKED", "BODY_DONE", "DONE", "FAILURE"}
NeedData == {"START", "HEADER", "BODY_DUMB", "BODY_LENGTH", "BODY_CHUNKED"}

HeaderStates == {"START", "KEY", "VALUE", "VALUE_EX", "HEADER_DONE", "DONE", "FAILURE"}
HeaderNeedData == {"START", "KEY", "VALUE", "VALUE_EX"}

\* An empty stack means START.
TopOf(st) == IF st = <<>> THEN "START" ELSE Head(st)
Popped(st) == IF st = <<>> THEN st ELSE Tail(st)

NoDechunk == [live |-> FALSE, hexlen |-> 0, held |-> <<>>, out |-> <<>>,
              zeroed |-> FALSE, failed |-> FALSE, left |-> <<>>]

\* id and redirect stand for the contents of the first line; hdrs maps the
\* name of a header to the parts of its value.
Message(id, kind, redirect) ==
    [id |-> id, kind |-> kind, redirect |-> redirect, hdrs |-> <<>>, body |-> <<>>]

Init ==
    /\ buffer = <<>> /\ stack = <<>> /\ hstack = <<>>
    /\ key = <<>> /\ val = <<>>
    /\ body_length = 0 /\ dechunk = NoDechunk /\ inflate = FALSE
    /\ \E use \in Uses :
         driver = use.driver /\ flags = use.flags /\ inOrder = use.inOrder /\ wire = use.wire
    /\ messages = IF driver = "stream" THEN <<>> ELSE <<Message(0, "none", FALSE)>>
    /\ str = <<>> /\ cut = 0
    /\ at = "idle" /\ ret = "START"
    /\ read = 0

-----------------------------------------------------------------------------
(* Tokens *)

IsLine(token) == token.t # "byte"
Is(kind) == buffer # <<>> /\ Head(buffer).t = kind

\* White space in front is skipped.
WithoutBlank(b) ==
    LET i == SelectInSeq(b, LAMBDA token : token.t # "eol")
    IN IF i = 0 THEN <<>> ELSE SubSeq(b, i, Len(b))

Drop(n, b) == SubSeq(b, n + 1, Len(b))

-----------------------------------------------------------------------------
(* The drivers *)

Give(n) ==
    /\ at = "idle"
    /\ read + n <= Len(wire)
    /\ buffer' = buffer \o SubSeq(wire, read + 1, read + n)
    /\ read' = read + n
    /\ at' = "parse"
    /\ UNCHANGED <<stack, parser, messages, str, cut, ret, input>>

\* Lines of a head, in contrast to the lines of a chunked body.
HeadLine(i) ==
    \/ wire[i].t \in {"info", "header", "fold", "junk"}
    \/ wire[i].t = "eol" /\ i > 1 /\ wire[i - 1].t \in {"info", "header", "fold", "junk"}

\* libcurl passes one or several lines of a head, or a piece of a body of any size.
Push(n) ==
    /\ driver = "push"
    /\ \A i, j \in read + 1 .. read + n :
          /\ HeadLine(i) = HeadLine(j)
          /\ i > read + 1 => wire[i].t # "info"
    /\ Give(n)

\* php_http_message_parse
ParseString == driver = "string" /\ read = 0 /\ Give(Len(wire))

Ahead == Drop(read, wire)
Room == BufferSize - Len(buffer)
AtMost(n) == IF n <= Len(Ahead) THEN n ELSE Len(Ahead)

\* Up to the next end of line, at most the room there is.
LineLength ==
    LET i == SelectInSeq(Ahead, IsLine)
    IN AtMost(IF i = 0 \/ Room < i THEN Room ELSE i)

ReadLength ==
    CASE ret \in {"START", "HEADER", "HEADER_DONE", "BODY_CHUNKED"} -> LineLength
      [] ret = "BODY_DUMB" -> AtMost(Room)
      [] ret = "BODY_LENGTH" -> AtMost(IF body_length < Room THEN body_length ELSE Room)

StreamEof == read = Len(wire)

ReadStream ==
    /\ driver = "stream"
    /\ ~StreamEof
    /\ ret \notin {"DONE", "FAILURE"}
    /\ Give(ReadLength)

\* parse_stream returns: at the end of the stream, or after a message.
StreamReturns ==
    /\ driver = "stream"
    /\ at = "idle"
    /\ StreamEof \/ ret \in {"DONE", "FAILURE"}
    /\ at' = "returned"
    /\ UNCHANGED <<buffer, stack, parser, messages, str, cut, ret, source>>

-----------------------------------------------------------------------------
(* php_http_message_parser_parse: one step for each state of the loop *)

Turn(state) ==
    /\ at = "parse"
    /\ TopOf(stack) = state
    /\ buffer # <<>> \/ state \notin NeedData

Goto(states) == stack' = states \o Popped(stack) /\ at' = "parse" /\ UNCHANGED ret

Return(states, state) ==
    stack' = states \o Popped(stack) /\ at' = "idle" /\ ret' = state

OutOfData ==
    /\ at = "parse"
    /\ buffer = <<>> /\ TopOf(stack) \in NeedData
    /\ at' = "idle" /\ ret' = TopOf(stack)
    /\ UNCHANGED <<buffer, stack, parser, messages, str, cut, source>>

StillFailing ==
    /\ Turn("FAILURE")
    /\ Return(<<"FAILURE">>, "FAILURE")
    /\ UNCHANGED <<buffer, parser, messages, str, cut, source>>

ParseStart ==
    /\ Turn("START")
    /\ buffer' = WithoutBlank(buffer)
    /\ Goto(IF buffer' # <<>> THEN <<"HEADER">> ELSE <<>>)
    /\ UNCHANGED <<parser, messages, str, cut, source>>

ParseHeader ==
    /\ Turn("HEADER")
    /\ stack' = Popped(stack) /\ at' = "header"
    /\ UNCHANGED <<buffer, parser, messages, str, cut, ret, source>>

-----------------------------------------------------------------------------
(* php_http_header_parser_parse *)

HeaderTurn(state) ==
    /\ at = "header"
    /\ TopOf(hstack) = state
    /\ buffer # <<>> \/ state \notin HeaderNeedData

HeaderGoto(state) ==
    hstack' = <<state>> \o Popped(hstack) /\ UNCHANGED <<at, stack, ret>>

\* It returns to the state HEADER of the message parser.
HeaderReturns(states, state) ==
    /\ hstack' = states
    /\ CASE state = "FAILURE" -> at' = "idle" /\ ret' = "FAILURE" /\ UNCHANGED stack
         [] state = "DONE" -> stack' = <<"HEADER_DONE">> \o stack /\ at' = "parse" /\ UNCHANGED ret
         [] OTHER -> /\ stack' = <<"HEADER">> \o stack
                     /\ IF buffer' # <<>> THEN at' = "idle" /\ ret' = "HEADER"
                                          ELSE at' = "parse" /\ UNCHANGED ret

others == <<body_length, dechunk, inflate, str, cut, source>>

HeaderOutOfData ==
    /\ at = "header"
    /\ buffer = <<>> /\ TopOf(hstack) \in HeaderNeedData
    /\ UNCHANGED buffer
    /\ HeaderReturns(hstack, TopOf(hstack))
    /\ UNCHANGED <<key, val, messages, others>>

HeaderStillFailing ==
    /\ HeaderTurn("FAILURE")
    /\ HeaderReturns(hstack, "FAILURE")
    /\ UNCHANGED <<buffer, key, val, messages, others>>

HeaderStart ==
    /\ HeaderTurn("START")
    /\ buffer' = WithoutBlank(buffer)
    /\ HeaderGoto("KEY")
    /\ UNCHANGED <<key, val, messages, others>>

HeadEnds ==
    /\ HeaderTurn("KEY") /\ Is("eol")
    /\ buffer' = Tail(buffer)
    /\ HeaderGoto("DONE")
    /\ UNCHANGED <<key, val, messages, others>>

\* php_http_message_info_callback: a message that has a type or headers is kept
\* as the parent of a new one.
WithInfo(line) ==
    LET new == Message(line.of, line.kind, line.redirect)
    IN IF messages = <<>> THEN <<new>>
       ELSE LET old == Last(messages)
            IN IF old.kind # "none" \/ DOMAIN old.hdrs # {}
               THEN Append(messages, new)
               ELSE Append(Front(messages), new)

InfoLine ==
    /\ HeaderTurn("KEY") /\ Is("info")
    /\ messages' = WithInfo(Head(buffer))
    /\ buffer' = Tail(buffer)
    /\ HeaderGoto("HEADER_DONE")
    /\ UNCHANGED <<key, val, others>>

HeaderKey ==
    /\ HeaderTurn("KEY") /\ Is("header")
    /\ key' = <<Head(buffer).name>>
    /\ HeaderGoto("VALUE")
    /\ UNCHANGED <<buffer, val, messages, others>>

NoHeader ==
    /\ HeaderTurn("KEY")
    /\ ~Is("eol") /\ ~Is("info") /\ ~Is("header")
    /\ UNCHANGED buffer
    /\ HeaderReturns(<<"FAILURE">> \o Popped(hstack), "FAILURE")
    /\ UNCHANGED <<key, val, messages, others>>

\* A mistake: the line is not cut.
HeaderValueUncut ==
    /\ HeaderTurn("VALUE")
    /\ val' = val \o Head(buffer).value
    /\ UNCHANGED buffer
    /\ HeaderGoto("HEADER_DONE")
    /\ UNCHANGED <<key, messages, others>>

\* The line is there as a whole.  Whether the next one continues it can only be
\* told when there is one.
HeaderValue ==
    /\ HeaderTurn("VALUE")
    /\ val' = val \o Head(buffer).value
    /\ buffer' = Tail(buffer)
    /\ CASE buffer' # <<>> ->
               HeaderGoto(IF Head(buffer').t = "fold" THEN "VALUE" ELSE "HEADER_DONE")
         [] buffer' = <<>> /\ "CLEANUP" \in flags -> HeaderGoto("HEADER_DONE")
         [] OTHER -> HeaderReturns(<<"VALUE_EX">> \o Popped(hstack), "VALUE_EX")
    /\ UNCHANGED <<key, messages, others>>

HeaderValueEx ==
    /\ HeaderTurn("VALUE_EX")
    /\ HeaderGoto(IF Is("fold") THEN "VALUE" ELSE "HEADER_DONE")
    /\ UNCHANGED <<buffer, key, val, messages, others>>

WithHeader(h, name, value) ==
    [n \in DOMAIN h \cup {name} |-> IF n = name THEN value ELSE h[n]]

\* A header that is there already gets another value.
AddHeader(name, value) ==
    LET chain == IF messages = <<>> THEN <<Message(0, "none", FALSE)>> ELSE messages
    IN Append(Front(chain), [Last(chain) EXCEPT !.hdrs =
              WithHeader(@, name, IF name \in DOMAIN @ THEN @[name] \o value ELSE value)])

\* A header without a value is dropped; without a message, one is made.
HeaderDone ==
    /\ HeaderTurn("HEADER_DONE")
    /\ messages' = IF key # <<>> /\ val # <<>> THEN AddHeader(key[1], val) ELSE messages
    /\ key' = <<>> /\ val' = <<>>
    /\ HeaderGoto("KEY")
    /\ UNCHANGED <<buffer, others>>

HeadDone ==
    /\ HeaderTurn("DONE")
    /\ UNCHANGED buffer
    /\ HeaderReturns(Popped(hstack), "DONE")
    /\ UNCHANGED <<key, val, messages, others>>

HeaderStep == HeaderOutOfData \/ HeaderStillFailing \/ HeaderStart \/ HeadEnds \/ InfoLine
              \/ HeaderKey \/ NoHeader \/ HeaderValue \/ HeaderValueEx \/ HeaderDone \/ HeadDone

-----------------------------------------------------------------------------
(* The head of a message is complete: what its body will be *)

Original == [TE |-> "X-TE", CL |-> "X-CL", CR |-> "X-CR", CE |-> "X-CE"]

\* The headers names are kept under another name.
Moved(h, names) ==
    LET moved == names \cap DOMAIN h
        into(n) == CHOOSE m \in moved : Original[m] = n
    IN [n \in (DOMAIN h \ moved) \cup {Original[m] : m \in moved} |->
          IF \E m \in moved : Original[m] = n THEN h[into(n)] ELSE h[n]]

Has(name, value) ==
    /\ name \in DOMAIN Last(messages).hdrs
    /\ Last(messages).hdrs[name][1] = value

\* curl does not read the body of a redirect on a connection it closes.
RedirectWithoutBody ==
    /\ "EMPTY_REDIRECTS" \in flags
    /\ Last(messages).kind = "response" /\ Last(messages).redirect
    /\ "Loc" \in DOMAIN Last(messages).hdrs /\ Has("Con", 1)

Compressed == ~RedirectWithoutBody /\ Has("CE", 1)
Chunked == "DUMB_BODIES" \notin flags /\ Has("TE", 1)
Length ==
    IF "DUMB_BODIES" \notin flags /\ ~Chunked /\ "CL" \in DOMAIN Last(messages).hdrs
    THEN Last(messages).hdrs["CL"][1] ELSE -1
ByRange == "DUMB_BODIES" \notin flags /\ ~Chunked /\ Length < 0 /\ "CR" \in DOMAIN Last(messages).hdrs

\* A NULL pointer is followed: there is no message, or Content-Range is looked
\* at through h, which is the Content-Encoding by then; when there is one (as
\* long as "deflate", say), it does not look like a range.
Crash ==
    /\ Turn("HEADER_DONE")
    /\ \/ messages = <<>>
       \/ ~RedirectWithoutBody /\ ByRange /\ "CE" \notin DOMAIN Last(messages).hdrs
    /\ at' = "crashed"
    /\ UNCHANGED <<buffer, stack, parser, messages, str, cut, ret, source>>

BodyState ==
    IF RedirectWithoutBody THEN "DONE" ELSE
    CASE "DUMB_BODIES" \in flags -> "BODY_DUMB"
      [] Chunked -> "BODY_CHUNKED"
      [] Length = 0 -> "BODY_DONE"
      [] Length > 0 -> "BODY_LENGTH"
      [] OTHER -> IF Last(messages).kind = "request" THEN "DONE" ELSE "BODY_DUMB"

ParseHeaderDone ==
    /\ Turn("HEADER_DONE")
    /\ messages # <<>>
    /\ RedirectWithoutBody \/ ~ByRange \/ "CE" \in DOMAIN Last(messages).hdrs
    /\ messages' =
         LET names == {"TE", "CL", "CR"} \cup (IF Compressed THEN {"CE"} ELSE {})
         IN Append(Front(messages),
                   [Last(messages) EXCEPT !.hdrs = WithHeader(Moved(@, names), "CL", <<0>>)])
    /\ inflate' = (inflate \/ Compressed)
    /\ dechunk' = IF BodyState = "BODY_CHUNKED" THEN [NoDechunk EXCEPT !.live = TRUE] ELSE dechunk
    /\ body_length' = IF BodyState \in {"BODY_LENGTH", "BODY_DONE"} THEN Length ELSE body_length
    /\ Goto(<<BodyState>>)
    /\ UNCHANGED <<buffer, hstack, key, val, str, cut, source>>

-----------------------------------------------------------------------------
(* The body *)

\* php_http_encoding_stream_update of the inflate stream.
CanInflate(data) == \A i \in DOMAIN data : data[i].t = "byte" /\ data[i].gz
Inflated(data) == [i \in DOMAIN data |-> [data[i] EXCEPT !.gz = FALSE]]

AddToBody(data) ==
    LET m == Last(messages)
        body == m.body \o data
    IN Append(Front(messages),
              [m EXCEPT !.body = body, !.hdrs = WithHeader(@, "CL", <<Len(body)>>)])

ParseBody ==
    /\ Turn("BODY")
    /\ str # <<>> /\ inflate => CanInflate(str)
    /\ messages' = IF str = <<>> THEN messages
                   ELSE AddToBody(IF inflate THEN Inflated(str) ELSE str)
    /\ buffer' = Drop(cut, buffer)
    /\ str' = <<>> /\ cut' = 0
    /\ Goto(<<>>)
    /\ UNCHANGED <<parser, source>>

CannotInflate ==
    /\ Turn("BODY")
    /\ str # <<>> /\ inflate /\ ~CanInflate(str)
    /\ Return(<<"FAILURE">>, "FAILURE")
    /\ str' = <<>> /\ cut' = 0
    /\ UNCHANGED <<buffer, parser, messages, source>>

ParseBodyDumb ==
    /\ Turn("BODY_DUMB")
    /\ str' = buffer /\ cut' = Len(buffer)
    /\ Goto(<<"BODY", "BODY_DONE">>)
    /\ UNCHANGED <<buffer, parser, messages, source>>

\* A mistake: all that is there belongs to this body.
ParseBodyLengthAll ==
    LET n == Len(buffer)
    IN
    /\ Turn("BODY_LENGTH")
    /\ str' = SubSeq(buffer, 1, n) /\ cut' = n
    /\ body_length' = body_length - n
    /\ Goto(<<"BODY", IF body_length' = 0 THEN "BODY_DONE" ELSE "BODY_LENGTH">>)
    /\ UNCHANGED <<buffer, hstack, key, val, dechunk, inflate, messages, source>>

ParseBodyLength ==
    LET n == IF Len(buffer) < body_length THEN Len(buffer) ELSE body_length
    IN
    /\ Turn("BODY_LENGTH")
    /\ str' = SubSeq(buffer, 1, n) /\ cut' = n
    /\ body_length' = body_length - n
    /\ Goto(<<"BODY", IF body_length' = 0 THEN "BODY_DONE" ELSE "BODY_LENGTH">>)
    /\ UNCHANGED <<buffer, hstack, key, val, dechunk, inflate, messages, source>>

\* dechunk_update (module Dechunk), on tokens: left is what it still buffers
\* when the last chunk was seen.
DechunkToken(d, token) ==
    CASE d.failed -> d
      [] ~d.failed /\ d.zeroed -> IF token.t = "eol" /\ d.left = <<>> THEN d ELSE [d EXCEPT !.left = Append(@, token)]
      [] ~d.failed /\ ~d.zeroed /\ d.hexlen > 0 ->
           IF Len(d.held) + 1 < d.hexlen THEN [d EXCEPT !.held = Append(@, token)]
           ELSE [d EXCEPT !.out = (@ \o d.held) \o <<token>>, !.held = <<>>, !.hexlen = 0]
      [] OTHER ->
           CASE token.t = "eol" -> d
             [] token.t = "size" -> [d EXCEPT !.hexlen = token.n, !.zeroed = (token.n = 0)]
             [] OTHER -> [d EXCEPT !.failed = TRUE]

Dechunked == FoldLeft(DechunkToken, [dechunk EXCEPT !.out = <<>>], buffer)

\* A mistake: what the decoder did not use is cut as well.
ParseBodyChunkedCuttingAll ==
    /\ Turn("BODY_CHUNKED")
    /\ ~Dechunked.failed
    /\ dechunk' = [Dechunked EXCEPT !.out = <<>>]
    /\ str' = Dechunked.out
    /\ cut' = Len(buffer)
    /\ Goto(<<"BODY", IF Dechunked.zeroed THEN "BODY_DONE" ELSE "BODY_CHUNKED">>)
    /\ UNCHANGED <<buffer, hstack, key, val, body_length, inflate, messages, source>>

\* "cut processed string out of buffer, but leave length of unprocessed dechunk
\* stream data untouched"
ParseBodyChunked ==
    /\ Turn("BODY_CHUNKED")
    /\ ~Dechunked.failed
    /\ dechunk' = [Dechunked EXCEPT !.out = <<>>]
    /\ str' = Dechunked.out
    /\ cut' = IF Dechunked.zeroed THEN Len(buffer) - Len(Dechunked.left) ELSE Len(buffer)
    /\ Goto(<<"BODY", IF Dechunked.zeroed THEN "BODY_DONE" ELSE "BODY_CHUNKED">>)
    /\ UNCHANGED <<buffer, hstack, key, val, body_length, inflate, messages, source>>

\* FAILURE is returned but not pushed.
CannotDechunk ==
    /\ Turn("BODY_CHUNKED")
    /\ Dechunked.failed
    /\ dechunk' = [Dechunked EXCEPT !.out = <<>>]
    /\ Return(<<>>, "FAILURE")
    /\ UNCHANGED <<buffer, hstack, key, val, body_length, inflate, messages, str, cut, source>>

\* The dechunk stream has no finish operation; it is destroyed.
ParseBodyDone ==
    /\ Turn("BODY_DONE")
    /\ dechunk' = NoDechunk
    /\ Goto(<<"DONE">>)
    /\ UNCHANGED <<buffer, hstack, key, val, body_length, inflate, messages, str, cut, source>>

ParseDone ==
    /\ Turn("DONE")
    /\ buffer' = WithoutBlank(buffer)
    /\ IF "GREEDY" \in flags THEN Goto(<<>>) ELSE Return(<<>>, "DONE")
    /\ UNCHANGED <<parser, messages, str, cut, source>>

ParseStep ==
    \/ OutOfData \/ StillFailing \/ ParseStart \/ ParseHeader \/ ParseHeaderDone \/ Crash
    \/ ParseBody \/ CannotInflate \/ ParseBodyDumb \/ ParseBodyLength
    \/ ParseBodyChunked \/ CannotDechunk \/ ParseBodyDone \/ ParseDone

DriverStep == (\E n \in 1 .. (Len(wire) - read) : Push(n)) \/ ParseString \/ ReadStream \/ StreamReturns

Next == DriverStep \/ HeaderStep \/ ParseStep

Spec == Init /\ [][Next]_vars

-----------------------------------------------------------------------------
(* Properties *)

Decoder == [live : BOOLEAN, hexlen : Nat, held : Seq(Token), out : Seq(Token),
            zeroed : BOOLEAN, failed : BOOLEAN, left : Seq(Token)]

\* A header that is kept has a value.
IsMessage(m) ==
    /\ DOMAIN m = {"id", "kind", "redirect", "hdrs", "body"}
    /\ m.body \in Seq(Token)
    /\ \A name \in DOMAIN m.hdrs : m.hdrs[name] \in Seq(Int) \ {<<>>}

IsChain(chain) ==
    /\ chain \in Seq({chain[i] : i \in DOMAIN chain})
    /\ \A i \in DOMAIN chain : IsMessage(chain[i])

\* The parser's state has its type.
TypeOK ==
    /\ buffer \in Seq(Token) /\ wire \in Seq(Token) /\ str \in Seq(Token)
    /\ stack \in Seq(States) /\ hstack \in Seq(HeaderStates)
    /\ key \in Seq(STRING) /\ Len(key) <= 1 /\ val \in Seq(Int)
    /\ body_length \in Nat /\ inflate \in BOOLEAN /\ dechunk \in Decoder
    /\ IsChain(messages)
    /\ cut \in 0 .. Len(buffer)
    /\ at \in {"idle", "parse", "header", "returned", "crashed"}
    /\ ret \in States
    /\ driver \in Drivers /\ flags \subseteq Flags /\ inOrder \in BOOLEAN
    /\ read \in 0 .. Len(wire)

\* The stack never piles up: between calls it holds at most the state to go on
\* with; BODY is always above the state that follows it.
StackShape ==
    /\ Len(hstack) <= 1
    /\ at = "idle" /\ ret # "FAILURE" => Len(stack) <= 1 /\ stack # <<"BODY">>
    /\ \A i \in DOMAIN stack :
         stack[i] = "BODY" => i = 1 /\ Len(stack) = 2
                              /\ stack[2] \in {"BODY_DONE", "BODY_LENGTH", "BODY_CHUNKED"}

\* The bytes the sender put into the body of message id, and its headers.
Sent(id) ==
    LET bytes == SelectSeq(wire, LAMBDA token : token.t = "byte" /\ token.of = id)
    IN [i \in DOMAIN bytes |-> [bytes[i] EXCEPT !.gz = FALSE]]

Ids == {wire[i].of : i \in {j \in DOMAIN wire : wire[j].t = "info"}}
LastId == IF Ids = {} THEN 0 ELSE CHOOSE id \in Ids : \A other \in Ids : other <= id

\* Content-Length is kept with the body, whatever the framing was.
ContentLengthOfBody ==
    inOrder => \A i \in DOMAIN messages :
        messages[i].body # <<>> => messages[i].hdrs["CL"] = <<Len(messages[i].body)>>

\* Each message gets exactly its own bytes, in order and decoded, however the
\* connection's data is cut into pieces, whichever framing it has.
OwnBodies ==
    inOrder => \A i \in DOMAIN messages :
        messages[i].id # 0 => IsPrefix(messages[i].body, Sent(messages[i].id))

AllParsed == at = "returned" \/ (at = "idle" /\ read = Len(wire))
NothingLost ==
    AllParsed /\ inOrder =>
        /\ ret # "FAILURE" /\ buffer = <<>>
        /\ [i \in DOMAIN messages |-> messages[i].id] = [i \in 1 .. LastId |-> i]
        /\ \A i \in DOMAIN messages : messages[i].body = Sent(messages[i].id)

\* A header keeps all parts of its folded value, even if the parts arrive in
\* different pieces, and a header without a value does not get that of another.
FoldedHeaders ==
    AllParsed /\ inOrder =>
        \A i \in DOMAIN messages :
            "X" \in DOMAIN messages[i].hdrs => messages[i].hdrs["X"] = <<1, 2>>

\* However a connection is cut into pieces, the stacks keep their shape and each
\* message is read with its own body and headers.
MessagesRead ==
    StackShape /\ OwnBodies /\ NothingLost /\ FoldedHeaders /\ ContentLengthOfBody

\* What a call of parse has to do yet: the data that is not cut, and how far the
\* states are from one that cuts some.  At VALUE and KEY a line is cut (a key is
\* cut with its value); without data, what needs some returns.
Uncut == Len(buffer) - (IF TopOf(stack) = "BODY" THEN cut ELSE 0)

Distance ==
    IF at = "header"
    THEN [VALUE |-> 1, KEY |-> 2, HEADER_DONE |-> 3, VALUE_EX |-> 4, START |-> 5,
          FAILURE |-> 5, DONE |-> 14][TopOf(hstack)]
    ELSE IF buffer = <<>> /\ TopOf(stack) \in NeedData THEN 0
    ELSE [FAILURE |-> 0, HEADER |-> 6, START |-> 7, DONE |-> 8, BODY_DONE |-> 9,
          BODY_LENGTH |-> 11, BODY_CHUNKED |-> 11, BODY_DUMB |-> 11, BODY |-> 12,
          HEADER_DONE |-> 13][TopOf(stack)]

\* The two loops never spin, whatever the input: each turn cuts data or comes
\* closer to a state that does, so every call of parse comes back.
ParseAdvances ==
    [][ {at, at'} \subseteq {"parse", "header"} =>
          \/ Uncut' < Uncut
          \/ Uncut' = Uncut /\ Distance' < Distance ]_vars
=============================================================================
