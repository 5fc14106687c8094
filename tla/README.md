# A TLA+ model of pecl_http 2

pecl_http is a PHP extension in C: an HTTP client over libcurl, HTTP messages
with their parsers and serialisers, stream encodings, and the server side (the
request being served and its response). This directory holds TLA+ modules that
model parts of it, configurations that check them with TLC, and theorems that
the TLAPS proof system checks. Lines are given for the files under `src/`.

## 1. Inventory

| component (files) | state it keeps | operations | what is hard about it |
|---|---|---|---|
| client queue (`php_http_client.c`) | `h->requests`, `h->responses` | enqueue, requeue, dequeue, reset, send, once, wait, getResponse, attach/notify | user code (getOptions, closures, observers) runs in the middle of C functions and re-enters the same client |
| client options (`php_http_client.c`, `php_http_client_request.c`) | an array of options per object, arrays for ssl and cookies inside of it | setOptions, addSslOptions, setCookies ..., clone | some arrays are copied before they are written to, some are written to in place while others share them |
| libcurl driver (`php_http_client_curl.c`) | multi handle, `unfinished`, a handler per request | curl_enqueue, curl_dequeue, curl_reset, once, wait, exec, response handler, debug callback, event callbacks | `unfinished` is overwritten by each nested perform; pointers are kept across callbacks; handles are freed while their response is being handled |
| easy handles and their options (`php_http_client_curl.c`, `php_http_options.c`) | pools of easy handles per host, all that is set on each, the position of each body's stream | init, prepare, reset, dtor of a handler; option setters; read and ioctl callbacks | handles are used again without a reset; a refused option ends the others; bodies are shared by transfers |
| chunked decoding (`php_http_encoding.c`) | `dechunk_ctx`: buffer, hexlen, zeroed | update, flush, finish; the one-shot `php_http_encoding_dechunk` | input cut anywhere, unsigned subtraction, flush in the middle of a chunk |
| deflate, inflate (`php_http_encoding.c`) | a `z_stream`, a buffer of input not taken yet, flags | init, update, flush, finish, copy; one-shot encode and decode | zlib keeps input and output as it likes; raw data is found out by failing; output has limited room |
| message and header parser (`php_http_message_parser.c`, `php_http_header_parser.c`) | two state stacks, body_length, dechunk and inflate streams, the key and value in progress | parse, parse_stream | input cut anywhere; four framings of a body; folded headers; state left from one message to the next |
| message (`php_http_message.c`) | a chain of messages linked by `parent`, and a chain of the objects around them | parse, copy, zip, reverse, prepend, serialize, iterate | two chains relinked in place that have to agree; one holds references, the other does not; chains share their parents |
| body (`php_http_message_body.c`) | a stream, the boundary, a count | append, add form and parts, etag, copy | counted by hand, shared by messages and body objects, which are counted by the engine |
| buffer (`php_http_buffer.c`) | data, used, free, size | append, resize, cut, insert, sub, shrink, chunk_buffer | accounting of used and free; doubling |
| server response (`php_http_env_response.c`) | content type, ranges, throttle, `done`, the context of the sapi or stream | send_head, send_data, cached by etag and date, output handler | what is sent once and what may be sent again; ranges |
| server environment and request (`php_http_env*.c`) | the request of the process | reading the body, form data | |
| stream filters (`php_http_filter.c`) | a buffer and a hexlen; an encoding stream | chunked decode and encode, deflate, inflate | a second implementation of the dechunk loop; each end learns in its own way of flush and close |
| params (`php_http_params.c`) | the table, and a parser with seven pointers and two flags | parse, to_string, array access | quotes, escapes and three levels of separators; values go where the last pointer was left |
| query string (`php_http_querystring.c`) | a nested array, held by query objects or spelt in a URL | update, set, get, mod, offsetSet ... | merged, deleted from and read again on every call |
| cookies (`php_http_cookie.c`) | tables of cookies and extras, attributes | parse, to_string, setters, clone | lists share the values of their tables |
| URL (`php_http_url.c`) | the properties of an `http\Url`, or a text in a request | constructor, mod, toString, `php_http_url` | what is made is made again; the path is edited in place |
| negotiation, header values, versions, etags | none between calls | negotiate, parse | pure functions of strings |
| objects, exceptions, module | little | glue | |

How they interact: `HttpClient::send` runs libcurl; libcurl passes each piece
it receives to the debug callback (`php_http_client_curl.c:223`), which appends
it to a buffer and calls the message parser with the chain of the handler;
the parser drives the header parser, and per message an inflate and a dechunk
stream, each with a buffer. When a transfer is over, the response handler
(`:506`) takes the chain as the response, puts it behind the responses of the
client and calls the request's closure; observers are notified of progress all
along. All this is one thread: what runs "concurrently" are the activations of
C functions that are interrupted by user code.

What makes each part correct:

* client: a request is in the queue at most once; the queue, the multi handle
  and the references on request objects agree; each transfer is answered once;
  send answers everything and comes back.
* decoders: the body comes out however it was cut; nothing twice, nothing made
  up, no size that wraps around; every call returns.
* parser: each message of a connection gets its own body and headers, none is
  lost, for each framing and each driver; every call returns.
* server response: the body is the one its head announces, the head is final
  once it is out, a client that keeps what it received and revalidates it never
  has bytes of an old version under a new one.
* messages: object and message chains agree and have no circle; every message has one object
  that frees it; nothing is freed while it is referred to, and everything after; relinking
  keeps all messages of a chain; the history has every exchange in order.
* easy handles: one user each; what a request has (method, headers, body, options) is what its transfer runs with, and
  options it has not are not those of an earlier transfer; a body is sent from its first byte to its last.
* streams and filters: what goes in comes out, once and in its order, whatever zlib keeps for how long, wherever the
  bytes are cut on their way; what was flushed can be read.
* params, cookies, query, URL: what a text can carry comes back from it; the parser ends; objects do not change through each
  other; what was made once stays when it is made again.

## 2. Modules

`HttpClient` (core). `mem`, `queue`, `multi`, `unfinished`, `responses`, `refs` are
the handlers, `h->requests`, what the multi handle knows, `curl->unfinished`,
`h->responses` and the references the queue holds. `stack` is the C call stack:
a frame per function that user code interrupts, with the locals it goes on with
(`at` is where it goes on), and a frame per activation of user code. A frame of
user code on top may call any method (`CallEnqueue`, `CallRequeue`, `CallDequeue`,
`CallReset`, `CallPop`, `CallSend`, `CallOnce`) or return. Between two calls of
user code the C code runs undisturbed, so an action is what it does between two
such points: for example `EnqueueAdds` is `curl_enqueue` up to the "start"
observers, and `MarkStarted` is what comes after them. Memory is modelled as far as
pointers outlive it: a handler and its list element are a slot, which is reused,
and `Readable` is what reading through a pointer to a freed one may give.
Responses of `multi` ("done" then "read") are `curl_multi_info_read`. A message for a
handle that is not queued is skipped, as in the code.

`RequestQueue` is what the client promises (idle, queued, answered; a response
per answer). `HttpClient` implements it with `Status`, checked as the property
`ImplementsRequestQueue`.

`Chunked` has the bytes, the lines and `strtoul` that both decoders use, and the
encoder of a sender. `Dechunk` is the stream: an action per branch of the loop of
`dechunk_update`, `Flush` and `Finish`, and the user's `FeedPiece`. `DechunkOnce` is
the function for a whole message; offsets are the pointers of the code, `Beyond`
stands for memory behind the message.

`MessageParser` holds both parsers with their two state stacks; a step is a turn of
either loop. Three drivers feed it: the debug callback ("push"),
`php_http_message_parser_parse_stream` ("stream", which reads a line or a part of
the body as the last state asks) and `php_http_message_parse` ("string"). The wire is
a sequence of tokens, each a line of a head, an empty line, a chunk size line or
a byte of a body; `gz` marks a compressed byte. All drivers pass lines of a head
whole (libcurl, `php_stream_get_line`, a string), so no line is cut; cuts inside
chunk size lines are the subject of `Dechunk`. The buffer and its functions are
sequences. Value 1 of `TE`, `CE` and `Con` stands for "chunked", "deflate" or
"gzip", and "close"; `CL` has the length. `DUMB_BODIES` is modelled, but no caller in `src/`
passes it, so no run does.

`RequestRanges` is `php_http_env_get_request_ranges` on the characters of the header,
a step per character (`Start`, `ReadChar`, `EndRange`), and beside it what RFC 2616 means by the header,
as sets of places in it.

`EnvResponse` is `php_http_env_response_send` and all it calls, an action per stage: ranges
(`CheckRanges`), the head (`HeadStart`, `HeadRanges`, `HeadEncoding`, `HeadCaching`), each
part of the body (`NextPart`), each turn of the read loop (`ReadBody`) with the encoder
and the throttled output, the rest (`SendDone`) and `Finish`. `r` is the response object's C
struct, `conn` what the sapi or the stream was given, `options` the validators
set on the PHP object. A version of the body stands for its bytes and its modification time; what
is sent is a sequence of numbered bytes of a version, heads of parts, the last boundary and the trailer of the
encoder, which may keep any part of what it was given until it is finished. The
client (external to the code) keeps a copy with the validators it was given, asks again with
any condition they allow, and puts parts in their places, together with the rest of its copy if it
made the request conditional. The resource may change between requests, a response object may be
used again, and `isCachedByEtag` or `isCachedByLastModified` may be called before send.
Where reads are short (a pipe, a socket), they give anything from one byte on.

`MessageObjects` has the heap of `http\Message` objects, `php_http_message_t` structs, bodies and body
objects: `obj` with the references on a handle, its `message`, `parent`, `body` and `iterator`; `msg` with its
`parent` and `body`; `body` with its count; `bobj`. An action is a method, a variable that a
script gives up (`Unset`, `UnsetBody`), or the client's `Respond`: none of these is interrupted by user code.
`Release` drops a reference and frees all that then has none (`Collected`), each object with its own message,
as `php_http_message_object_free` does. Of a message's contents only its type is kept. A scenario,
chosen at the start, says which methods a script calls, on chains of which types; the script has up to
`variables` variables per object. Objects take the ids of their messages, since
`php_http_message_object_new_ex` makes one for each. `getParentMessage` also stands for reading the property
`parentMessage`, `UseBody` for every method of a body object.

`CurlTransfers` is below `HttpClient`: a transfer is what `HttpClient` calls a slot in the multi handle, and here it has an
easy handle with everything that is set on it. `Enqueue` is `php_http_client_curl_handler_init` and `_prepare` with the
method, the headers, the body and all options in the order of their registration (`ApplyOptions`), the reset of the
handler included; `EnqueueNoUrl`, `EnqueueNoMethod` and `EnqueueNotAdded` are its ways to fail. `Read` and `ReadStray` are the read callback of a
transfer and of an easy handle that was left in the multi handle, `Restart` is the ioctl callback, `Dequeue` and `ResetRefused` end
in `HandlerDtor`. A setting is the value an option was given or its default; `Sets` is the condition under which the
setter touches libcurl at all.

`ClientOptions`, `QueryStrings` and `Urls` come together in `ClientRequests`. `ClientOptions` keeps the arrays on a heap, for which of
them are shared is what matters: `SetSubr` and `OptionsSet` are `php_http_client_options_set_subr` and `_set`, `SetOne` one
turn of the latter. An array in an argument is put at a place that none is in (`Loaded`, `FreeParts`), two of them at two places. `told` has what each object would have if every call copied. `QueryStrings` has the two
recursions over a query as operators on tables, and what the way through a text does to values: `Encoded` writes a space as "+",
which `Parsed` does not read back (`Spelling`), and an index 0 that stands behind other numbers of its array comes back as the next free number
(`Counted`), for which an array keeps the numbers before its index 0 (`ahead`); what is empty comes back as NULL, and an empty array not at all. Names and indices without a space or a bracket,
no index "value" or "arguments", no negative number and no array in an array are the items of the model; an index 0 behind LONG_MAX, which has no next number, is left out. `Urls` is `php_http_url` as a function of flags, old and new URL: `Combined` takes, joins and strips,
`Descent` walks the names and dots of the path (a step is a `Turn`), `Completed` fills in. `ClientRequests` has the methods of requests, query objects and URL objects; `asked` is what the calls since the last URL
asked of a query. A script is about options, queries or URLs, for these meet in clones only.

`Params` is the parser of `php_http_params.c`, a turn of its loop a step, by what it finds at the read position (`NextParam`, `NextArg`, `ToValue`, `Advance`, `Finish`), the writer (`Rewrite`), and the edits of
an `http\Params` object; a text is a sequence of characters. `Cookies` extends it: `Collect` makes a cookie list of what
Params parsed, `CookieText` writes it, and two cookie objects share zvals as their tables do.

`Zlib` is external: what any zlib may do under its contract. deflate keeps what it was given as long as no flush is asked
for, and keeps what has no room; inflate may keep the rest of its last token. `EncodingStreams` is what the C code does around
it: the set of results of each operation, and the objects with their history. `Filters` puts the filters at both ends of a
pipe: `Send` is the chain of the end that is written to, `Take` that of the end that is read from, which gets the bytes in
pieces of any size.

The `MC` modules hold the sets the
configurations give to the constants; `MCStreams` also lets a behaviour be about stream objects or about filters.
`HttpClientProofs`, `CurlTransfersProofs`, `DechunkProofs`, `MessageParserProofs`, `EnvResponseProofs`, `MessageObjectsProofs` and `ClientRequestsProofs`
hold the theorems; `SequenceLemmas` has what the last five need to know of
least numbers, of maxima, of `FlattenSeq` and of counting. A definition announced as "a mistake" is a plausible bug: it is used
by nothing but a mutation of the model, which must violate the property that
`PROJECT.json` names with it.

## 3. Runs

| run | what it asks | instance | distinct states |
|---|---|---|---|
| `ClientReentrant` | with every method callable from every callback: TypeOK, QueueConsistent, RefsHeldByHandlers, SendAnswersAll; implements `RequestQueue` | 2 requests, 2 handlers, 3 enqueues, user code nested twice in itself | 179 448 |
| `ClientSend` | SendTerminates and FinishedMeansAnswered, with callbacks that enqueue, send and call once, and `curl_multi_add_handle` failing | the same | 155 434 |
| `CurlTransfers` | TypeOK, OneUser, RequestsApart, BodySentWhole | 2 transfers, 2 easy handles, 2 hosts; a body that can be rewound and one that cannot, of 2 bytes; three sets of 4 to 6 requests: options left behind, failures, uploads | 41 138 |
| `DechunkAny` | TypeOK, FlushSafe, DecodesBody, UpdateReturns | all strings of up to 5 bytes of `0 2 z CR LF`, up to 4 of `1 SP z LF` (no sign and no `0x`, which `strtoul` reads too), and the encodings of five bodies in two styles; `ULONG_MAX` is 20 | 143 271 |
| `DechunkOnceAny` | DecodesBody, Returns | the encodings of six bodies, their truncations, and all strings of up to 4 bytes, without sign and `0x` | 2 202 |
| `Parser` | TypeOK and ParseAdvances for all connections; MessagesRead for those that are in order | push: connections of up to 2 messages of 8 kinds in any pieces; stream and string: up to 3 messages of 7 kinds; ten connections that are not in order | 60 390 |
| `Respond` | TypeOK, AnswersRequest, CacheCoherent, HeadFrozen, SendReturns | twelve ways to use the class, two exchanges, two versions of 0, 4 or 12 bytes, sixteen Range headers, five of them with conditions | 387 391 |
| `MessageObjects` | TypeOK, Linked, MemorySafe, CallsMeant | nine scenarios of 3 to 6 objects, messages and bodies at once; in two of them a client with redirects and a history | 97 870 |
| `Params` | TypeOK, TextsMeant, ParseAdvances, Apart | three formats (header, query, cookie) with their options, texts of up to four words, 3 edits, 2 cookie objects | 469 322 |
| `Requests` | TypeOK, OptionsAsTold, QueryAsAsked, UrlsSettled | a client and two requests with 4 calls about options, 4 about queries, 3 about URLs; one query object and one URL object; words with a space, loosely equal and empty ones, numbers and names as indices, an index 0 behind another one | 106 081 |
| `Streams` | TypeOK, StreamsKeepAll, FiltersDeliver | two streams with a text of 4 symbols and five compressed sources, a buffer of 4; a pipe with any of the filters and a line of 3 | 183 053 |
| `FilterSplitEol` | violation, see below | the pipe, where a read may also end between CR and LF | |

What the properties put together: `QueueConsistent` that a request is queued once and that queue, multi handle and
messages match; `FlushSafe` that a flush fits the chunk and no byte comes twice; `MessagesRead` the shape of the stacks' results for each
message: own bodies, folded headers, lengths, none lost; `AnswersRequest` that the ranges are the ones meant and the body
matches its head; `CacheCoherent` that a client's copy is current and revalidation saves it; `Linked` that objects and messages agree on parents and
bodies, and no circle closes; `MemorySafe` that nothing dangles and everything is owned; `CallsMeant` that no call leaks, loses a
message or mixes up the history; `RequestsApart` that what a request has is set for its transfer (`SendsItsOwn`), that options it has not are
at their defaults but for the exceptions below (`NothingInherited`), and that the two conditions of a request agree (`ConditionsAgree`); `QueryAsAsked` that a request's query names
nothing that was not asked for and has what was, with "+" for spaces and as far as `==` tells;
`StreamsKeepAll` that streams keep the order of what they hold, are whole when they are finished, and decode once what is complete;
`FiltersDeliver` that a reader gets the bytes in order, all of them at the end, and what was flushed before.

Why the bounds are enough. Client: two requests are needed for one to be handled
while the other changes; three enqueues let a slot and a request be used again
after both were used; user code nested twice in itself is a closure inside a
send inside a closure. `MaxResponses` only keeps new sends from starting when that many
responses are kept, so that the response list is finite. Both symmetry sets
(`Requests`, `Slots`) are used in `ClientReentrant` only, which checks no liveness. Dechunk:
a string of five bytes has a size line, a chunk and the beginning of the next;
20 as `ULONG_MAX` lets two digits exceed it. Parser: state that leaks from one
message to the next shows in two, the third is the one behind the damage; a
buffer of three tokens is exceeded by a head and by a body.
Response: two exchanges and two versions are a copy, a change and its revalidation; 4 and 12 bytes at
3 per read take several turns of the loop, the last of them shorter; 12 has
positions of two digits; the output buffer of 4 (1 and 2 when throttled) is filled, exceeded
and left partly filled; `PointerSize` 2 lies between the reads that end the body and those that do not.
Messages: four objects are two chains of two, or two that share their parents; six are two
recorded exchanges with the request and the response at hand. `MaxLost` keeps the references that prepend
loses (below) from being counted without end.

Easy handles: two of them and two hosts are a pool that is used again and one that must not be mixed up with it; each set of
requests has one that leaves something behind and one that would pick it up, and two bytes let a transfer be cut off in the middle of a body.
Params: a parameter, an argument and a value need three words, the fourth is what stale pointers do to the next; one index per name, and
separators of one character, as in the defaults. Requests: four calls are a table that is shared, changed, shared again and
changed; three URLs are one made of two and made again. Streams: a token of two symbols is one that finds room for half of
it; four symbols are enough for input that is left in the buffer, held by zlib, and pending at once; `Slack` is 23 in the code, 1
lets the room be too small; `MaxOut` ends a stream nobody finishes; both streams are symmetric, for a script starts with either.

Where deadlock is not checked (`DechunkOnce`, `MessageParser`, `EnvResponse`, `MessageObjects`, `Requests`, `Streams`), the modelled
call, connection, exchanges or script end; in `CurlTransfers` all easy handles can be leaked (below).

Fairness. `HttpClient!FairSpec`: the C code goes on (`WF` of `CodeStep`), callbacks
return (`SF`, since they may call any number of methods before), and the network
answers: a perform that finishes something is not put off for ever (`SF`). Without
the last, a server that never answers keeps send waiting, as in the program without a
timeout option. `Dechunk`: a call goes on; pieces need not arrive.
`MessageObjects`, `CurlTransfers`, `Params`, `ClientRequests` and `Filters` need none, for they have no liveness; that the parser of
params ends is the action property `ParseAdvances` there too.
`DechunkOnce`: the call goes on. `EnvResponse`: send goes on, one thread of C
code that waits for nothing. `MessageParser` needs none: that its loops end is the
action property `ParseAdvances`, every turn cuts data or comes closer to a state that does.

What is excluded, and why:

* `FinishedMeansAnswered` is checked for callbacks that enqueue, send and call once. A
  closure that requeues its own request gets that new transfer marked as
  finished at once, for `handle_response` looks the progress up by request
  (`php_http_client.c:441`). The theorem has that as its hypothesis.
* In `DecodesBody` no piece ends with CR: with the end of the piece there, a CR counts
  as the whole end of line (`php_http_misc.h:103`). `FilterSplitEol` shows what that does.
* A connection with a plain body behind a compressed one is not `inOrder`: `parser->inflate` is
  never taken away, so the plain body is inflated and the parser fails.
  `OddUses` has such a connection.
* A chunked body that arrives with the blank line behind its last chunk in a piece of its
  own: the parser has left the body by then, and skips blank lines.
  The stream alone refuses it (`FeedRefused`).
* `CacheCoherent` leaves out responses whose object still holds an etag
  or a time it computed for an earlier body (`Stale`): the code keeps them as options
  (`php_http_env_response.c:134`) and nothing refreshes them when the body changes.
* `AnswersRequest` and `CacheCoherent` are about full reads and ranges within the body: a
  read of less than `sizeof(buf)` ends the body early (`php_http_message_body.c:193`), and other ranges are not validated (below):
  `InRange` is their precondition, and the client keeps nothing of a 206 whose ranges are not valid (`Usable`), as RFC 2616 tells it.
* That parents agree (`Linked`) is for scripts that unserialize single messages, and that bodies agree for those that give setBody
  an object with a body; see "modelled as it is". That there is no circle is for scripts that do not close a circle by
  assigning `parentMessage`, which nothing checks.
* An iteration that is broken off keeps the object (its iterator refers to itself): `CallsMeant` counts the
  iterator as a holder.
* `SendReturns` leaves out a Vary in `headers` together with an encoding over a stream,
  where `php_http_env_response_stream_header` recurs without end (state "crashed").
* `RequestsApart` promises nothing for the options behind one that libcurl refused but the credentials, and nothing for those of `KeptBy`. Of what a request lacks it is about
  options only: the custom method of an earlier request (`php_http_client_curl.c:1453`), its list of headers, which was freed (`:1484`), and the stream and the size of its body (`:1495`)
  stay on the easy handle, see "Modelled as it is". `BodySentWhole` is about
  bodies that can be rewound and have one reader at a time.
* `TextsMeant` is about texts without the shapes listed below (values the writer cannot quote, empty names, a second dimension of the
  same name). A new array that is assigned without its "value" is no input of the model.
* `Apart` excepts addCookies and addExtras, which change every list that shares the value; `OptionsAsTold` what is deleted or joined in place.
* `QueryAsAsked` takes "+" for the space it was written for and an old value for one that `==` takes for equal (`Readings`), and leaves out names that were given NULL, an empty string, an empty
  array, or an array whose index 0 stands behind another number, until they are set anew (`Odd`). `php_http_url` with JOIN_PATH and an empty old path, which reads the byte before its
  buffer, is not called; nor is a scalar given for ssl.
* `StreamsKeepAll` excepts streams whose finish failed, a complete one but for a last byte 0 given to the one-shot decoder, which takes the NUL behind it for that byte (`php_http_encoding.c:204`), and raw data that did not announce itself and whose first byte came alone. `FiltersDeliver`
  excepts a failed finish, of which nobody hears, and a writer that sees the end of its peer; reads do not end
  between the CR and the LF of a size line.

## 4. Where the code and its comments disagree

* `FilterSplitEol`: a read that ends between the CR and the LF of a chunk size line: `php_http_locate_bin_eol` takes the CR
  for the whole end of line, the LF becomes the first byte of the chunk, and the chunk's last byte is looked at as part of the next size line. The comment at
  `php_http_filter.c:170` says "we need eol, so we can be sure we have all hex digits", the one at `:184` that the `<eol>` is cut out, and
  `tests/filterchunked.phpt:22` compares what was read with what was written.

Modelled as it is. Decoders: the same end of line in the dechunk stream, followed by a flush, passes the LF on as
chunk data (`php_http_encoding.c:728`); the one-shot decoder moves over one byte of the terminator only, for `continue` in a `do ... while (0)` leaves
it (`:74`); a message that ends right behind the size of a later chunk lets `n_ptr` go behind the end, where `rest` wraps around (`:91`).
Parser: "read all" reads what fits the buffer once, and `BODY_DUMB` ends the body after it (`php_http_message_parser.c:143`). Ranges: `length - end` is
negative for a suffix longer than the body, and for an empty body begin and end are not looked at (`php_http_env.c:372`); the response is 206 in both cases.

Messages and responses: `Content-Range` is looked at through
the `zval *h` of `Content-Encoding` (`php_http_message_parser.c:342`), so a response with a
range and neither a length nor a compression follows a NULL pointer (`Crash`); `getResponse($request)` gives
the oldest response of a request and `getResponse()` pops the newest; `decoded[*decoded_len]`
(`php_http_encoding.c:56`) is not `(*decoded)[*decoded_len]`; a given `If-Range` always turns a range into the whole
body, for it is compared both as an etag and as a date; a temporary body has no modification time, so that any
`If-Modified-Since` without an etag finds it cached; 206 replaces whatever `responseCode` says; prepend below another message overwrites the parent the prepended one had, without
releasing it (`php_http_message.c:716`, named by `CallsMeant`); unserialize of a chain makes no objects for the parents (`:1687`), so that
`getParentMessage` follows NULL and nobody frees them; setBody with a body object that was not used yet gives the
message another body than the object gets later (`:773`), and addBody with one follows NULL (`:1089`).

Easy handles: CUSTOMREQUEST is never taken back; HTTPHEADER keeps the list of the last request, which was freed, if the next one has no
headers of its own, and what etag and compress add is not sent then; READDATA and the size stay, so that a POST without a body reads the body before;
options behind a refused one keep earlier values, as do strings that are skipped when empty, paths open_basedir bars, cookies, and everything about SSL without `ssl`; when `curl_multi_add_handle`
fails the handler is leaked; a body that cannot be rewound is sent from where it is.

Options: a table that is shared by clones has options deleted from it in place, and the arrays of ssl and cookies are joined in place.
Query: `addQuery` with NULL keeps a value and with "" removes it; a value that is loosely equal to the old one is not taken; `offsetSet` drops the other
entries; empty arrays vanish. URL: setQuery on a URL that is relative or absent makes one with http and localhost; JOIN_PATH of a path of one name
begins with "//"; the directory of a relative name is "./"; a trailing "/.." loses its dots only; in `mod` the flags that strip have no effect where the new part is
NULL, and NULL properties are read back as empty strings that override.

Params: separators in a value are quoted only if it has a quote or backslash too; a value that ends in a backslash leaves the quotes open, and one that starts with "=" loses
it; the empty string, NULL and FALSE come back as TRUE or "0"; a space in a query is written as "+", which is not read back; the index 0 of an array behind another number is renumbered;
` =v` with a blank name gives the value to the parameter before it; a value or an argument before any name follows a null pointer, and a lone quote has length -1 (state "crashed"); after
a second dimension of one name, arguments go where they went before. Cookies: an integer name behind an attribute is taken for that attribute;
addCookies on a name that is there makes an array of the shared zval, written as "Array"; names that need encoding, that are attributes, or, behind the first cookie, that are allowed extras do not come
back; domain and path are not encoded.

Streams: deflate_finish has one buffer of 0x8000 bytes and fails when zlib holds more, after which it can never succeed, and the filter loses that tail
without a word; inflate_finish asks nothing of zlib unless input is buffered, so a truncated stream is finished with success; raw data whose first byte
comes alone is lost (`KnownIssues.txt:9`); an update of an inflate stream with nothing fails after growing its buffer; deflate_flush leaves buffered
input where it is. Filters: both zlib and chunked_encode take every write for the last one once the stream's end was seen; chunked_decode looks behind the last chunk in its next call only; FEED_ME
keeps a flush and the close from the filter behind it.

## 5. Proofs

`HttpClientProofs` proves, for all sets of requests and finite sets of slots, all
bounds, all sets of methods that callbacks may call, and whether or not
`curl_multi_add_handle` fails, that `Spec` implies `[]TypeOK`,
`[]QueueConsistent`, `[]SendAnswersAll` and `[]RefsHeldByHandlers`. It assumes that
None is neither a request nor a slot, that there are finitely many slots, and the types of the
bounds. The inductive invariant is `IInv`: the types; `StackOK` (the user's program is at the
bottom only, a frame holds the pointers it goes on with, a closure is called by a waiting `handle_response`); `QueuedIsLive`;
`UniqueInQueue`; `MessagesMatchQueue`; `UnfinishedCoversRunning`; `PendingMeansReading`. `SendAnswersAll` is not inductive:
that nothing is left unread when send tests `unfinished` depends on a response handler being active whenever
a DONE message is pending, which depends on the stack, and that nothing
runs depends on the count covering the running transfers. There is a lemma per
action, on top of lemmas about pushing and popping frames. `ClientRefsHeldByHandlers` is a second
induction, over `IInv`, about cardinalities.

`ClientFinishedMeansAnswered` is a third, with the invariant `FInv`: every activation of `handle_response` that has
delivered its response goes on with an answered handler that is still queued, and no two of them go on with the
same, so that the progress it marks as finished is that of an answered request; or it has just dequeued its own
request, as the closure asked, and finds no progress to mark. Its hypothesis is that callbacks do not requeue,
dequeue or reset (`CallbackCalls \cap Removing = {}`; the program itself may do anything between its calls). Without it
the claim is false, see section 3.

Its last part proves `Spec => ImplementsRequestQueue`: for all requests, slots and
bounds, each step of the client is, through the mapping `Status`, a step of `RequestQueue` or
changes nothing of it. It uses `IInv` before and after the step: `UniqueInQueue` makes the slot
of a request unique, so that the mapping changes for one request only, and
`MessagesMatchQueue` shows that a DONE message always finds an unanswered, queued
handler, so that every message read is an `Answer`.

`DechunkProofs` proves `[]TypeOK` and `[]FlushSafe` of the stream for every
set of messages, every rule of where they are cut and every `ULONG_MAX`. For every set of bodies in chunks of 1 to 15 bytes, none
of them above `ULONG_MAX`, `DecoderDecodesAny` proves that the decoder passes on a beginning of the body, and all of it once the
whole message was fed, with either line end and flushed at any time; `DecoderDecodesBody` is that of the bodies of the run, as
`[]DecodesBody`, for any `ULONG_MAX` from 2 on. Both assume that no piece ends with CR (`LinesWhole`), without which
they are false (section 3); 15 is where the sender of the model, which writes one digit, ends. The invariant is `DInv`. What is not used yet (`Rest`) is what is
buffered and what is not fed; the buffer is the next bytes of it (`InStep`). `Decoding` says where in the
encoding that is: `Between` two size lines, perhaps with an end of line still to skip, `Inside` a chunk whose last
`hexlen` bytes are to come, or `Behind` the end. That a size line is read as a whole
needs `Waiting`, no end of line stays in the buffer between calls, and `CutsWhole`. `Strtoul`
is unfolded by induction (`AddsExists`).

`CurlTransfersProofs` proves, for all sets of requests (their options, bodies and what
libcurl refuses of them), of hosts and of bodies, and any number of transfers and easy
handles, that `Spec` implies `[]TypeOK`, `[]OneUser`, `[]RequestsApart` and `[]BodySentWhole`.
It assumes that a request has a host of `Hosts` or none and a body of `Bodies` or none, that a
body has a size, that `None` is neither a host, a body nor a transfer, and that seekable
bodies are bodies. The inductive invariant is `IInv`: the types, `OneUser`, and
`BodyRead` of every running transfer. `BodySentWhole` is not inductive: that the next
byte is the right one depends on no other easy handle in the multi handle reading the same body,
also one whose handler is gone and whose removal was refused. `RequestsApart` rests on
`OneUser` (an enqueue does not touch the easy handle of another transfer) and on
lemmas about one run of the setters over an arbitrary earlier state of the handle:
every option is the request's, its default, or one the code is known to keep
(`AppliedOptions`), and the method, the list and the body of the request are those set last (`PrepareSets`); the precondition headers and the time condition agree because `range` and
`resume` are registered before `etag` and `lastmodified` (`NamedPlaces`).

`MessageParserProofs` proves, for every set of uses of the parser (driver, flags, and a wire with any tokens in any
order, cut anywhere a use may cut it) and any size of the buffer, that `Spec` implies `[]TypeOK`, `[]StackShape` and `ParseAdvances`.
It assumes that uses have their type and that the buffer holds something. The invariant is `IInv`: the
types; `Stacks`, which are the stacks that occur (one state to go on with, or `BODY` or its failure above one of
the three states that a body may need); `Kept`, what a state on the stack relies on when its turn comes (a message
that the body belongs to, a length that is left, a decoder that is not at its end, a header line at the front of the
buffer); `Fits`, that the stream driver never holds more than the buffer. `StackShape` follows: nothing is pushed
that nobody takes away. `ParseAdvances` needs the invariant too: a turn takes something from the
buffer, or goes to a state that is closer to one that does (`Uncut` and `Distance`, ordered
lexicographically); a state that found nothing to work on would go round. What the dechunk stream does to several tokens
is a fold, which is unfolded by induction (`UnfoldExists`).

`EnvResponseProofs` proves, for all scripts, all Range headers, all sizes of the body, of reads and of the output buffer, and
any number of exchanges and versions, that `Spec` implies `[]TypeOK`, `HeadFrozen`, `[]AnswersRequest` and `[]CacheCoherent`. It assumes
that sizes are positive and a pointer is not larger than a read, that set-ups have their type, that headers are sequences of
characters, and that `Sizes` is finite and not empty. There are five invariants, each on top of those before it. `Types` has with
the types the bound that `TypeOK` is about: a chunk is sent when it is full, so that less than one stays in the output
buffer, but for heads of empty parts, which do not go through the check. `Heads` says what is known of the head from phase
to phase, and at the end which status and which headers go with an encoding, one range, several, or none. `Progress`
says what was produced so far (sent, in the output buffer, or held by the encoder): in front of part `j + 1` all of the
parts up to `j`, in the middle of one also its first `Done` bytes; it uses lemmas about the way through the output
buffer (`SequenceLemmas`, and how data is cut into chunks). That gives `BodyMatchesHead`. `Known` is what validators stand for: a client whose validator is that of the
current version has the current version (`Copies`); those of the response object are of this version or an earlier
one (`Validators`); and what was decided about the conditions of the request still holds of them when the head goes
out (`Decided`). `CacheCoherent` follows with `BodyMatchesHead`: versions only grow, so that a condition that holds of a
validator that is not `Stale` is about the body that is sent; a conditional part completes a copy of the same version; and an `If-Range` never lets a part
through. The range parser is a
fold over the characters, with two numbers for what a field was given (`RangesFacts`: its ranges lie within the body or are the ones that are
not validated). `RangesAsMeant` compares it with the meaning, which knows no
order of reading: the parts are sets of places between commas, the numbers those with the digits left and right of the dash. For every header
that has a meaning, of any length, the two agree on the ranges, on whether they can be satisfied and on whether there are any. Induction
over the places shows `Followed`: what is accepted so far is the meaning of the parts that are over, and the fields have the digits
of the part that is read, with -1 for no digit and -10 for zero (`FieldNext`); a comma turns them into a range (`EndRangeMeant`), and the
first part that is refused stops it (`Refused`). `RangesChecked` carries that to the head, and with `BodyMatchesHead` it is `AnswersRequest`.

`MessageObjectsProofs` proves, for every set of scenarios and any `MaxRoom` and `MaxLost`, that `Spec` implies `[]TypeOK`, `[]Linked` and
`[]MemorySafe`. It assumes the types of the bounds and of the scenarios, whose rooms are at most `MaxRoom`. The invariant is `IInv`: `TypeOK`; that the
heap is `Sound`; that it is `Freed`, nothing without a reference is left; the body objects are `Matched` where no scenario
sets an unused body; and there are no `Orphans`, messages without an object, where unserialize makes none. `Sound` has three parts. `Built`: each object has a
message of its own, and the links of messages make no circle, for there is a rank that every link lowers (a circle is a property of a whole chain,
a rank one of each link). `Agree`: the link of an object and that of its message lead to the same, or that of the message to an orphan. `Counted`: an
object counts at least what refers to it, since prepend loses references (section 4), body objects and bodies exactly.
None of the three properties is inductive: that a body is freed once depends on its count, that a parent lives on the count of the objects,
and that reverse of objects and of messages turn the same chain around on `Agree`. Two parts are shared by all
actions. What `Collected` frees is what nothing but what is freed refers to: its
`Unreferenced` grows in `MaxRoom` steps to a set that is its own next one, so that a count, less the references of the freed, is still what it counts
(`CollectedSound`); all that is lost is what was unreferenced. And relinking: an insertion at the end or behind an object, a new
parent, a chain turned around, new messages zipped, each with the ranks of the links after it.

`ClientRequestsProofs` proves, for all names, indices and values of items, all given URLs, flags and environments, and any number of
calls, that `Spec` implies `[]UrlsSettled` and `[]QueryAsAsked`. It assumes the types of what is given, that the empty string
is loosely equal to nothing else, that a text written with "+" for its spaces has none left to replace (`ItemsAssumption`), and that no given URL has an empty scheme: an array can, but what `parse_url` makes of
the text of such a URL, which begins with its slashes, is not modelled. The invariant is `RInv`. `RequestsOK`: each request's URL has no empty
scheme, is settled or as it was given, and its query, parsed, `Answers` what was asked; `QueriesOK`: a query object holds no NULL; `UrlsOK`: a URL object has a
scheme and a path, and a path without dots if it was made with SANITIZE_PATH. `QueryAsAsked` is inductive once values have types, but the step is long: what is asked goes
through a table, a text, a table, and with addQuery a merge and a text once more. `SpeltCarries` says what survives the first way (a space as "+", an array whose index 0 has no number before it), `AskedMore` what
survives a merge: an array that meets a scalar or an array holds what was asked of either, a scalar that is loosely equal to the old one is the one asked for as far as
`==` tells. `UrlsSettled` depends on the order in `php_http_url`: the scheme is there before the default port is dropped,
and the path made absolute before it is sanitized, so that making what was made changes nothing (`CompleteSettled`); for a URL object it needs that it
has a scheme and a path, for its NULL properties are read back as empty strings. That a sanitized path has no dots is an
induction over the turns of `Descent`: each keeps clean what it has passed and has one name less before it (`TurnKeeps`), and there are as many turns as names.

It also proves, for all finite sets of objects and of keys, all arrays and any number of calls, that `Spec` implies `[]OptionsAsTold`. `OptionsAssumption` gives
the constants their types and says that a key comes once in an array, as in every PHP array, that there are options that hold arrays (ssl and cookies), and that neither
NULL nor the variable is an array or a place. The invariant is `OInv`: the heap has the types of one (`IsHeap`); no array that an object has is empty (`Filled`), for
`php_http_client_options_set_subr` takes an empty one for none, so that what it does and what it was told would part; who is not in `kin`
shares neither table nor array, with an object, with another key or with the variable (`Apart`); and what is read of an object follows what it was told (`ToldOK`): the
same for who never shared, no more and no other plain option for who did (`Follows`). `OptionsAsTold` alone is not inductive: an array is joined where it is, and
that nobody else sees it is `Apart`. Each call writes one object's table, and at most the array it had; `SetSubr` is treated once, for the methods and for the turns of
`php_http_client_options_set`, whose fold is followed turn by turn along with the one that tells. There plain options wait in
`rest` until the last turn is over, and as no key comes twice, none that waits is deleted by a later turn. That a place is free is a count: the tables of all objects have at most one array for
each key, the variable has one, and as many are free as a call can bring (`EnoughFree`). What is freed after a call nobody reads (`CollectedIs`).
`RInv` and `OInv` together give `[]TypeOK` of `ClientRequests`.

TLC checked each of these invariants before its proof: `DInv` on the constants of `DechunkAny`, `FInv` on the constants of `ClientSend`, `IInv` of the parser on those
of `Parser`, those of the response on those of `Respond`, all but `RangesChecked` also with three exchanges and three versions (3 932 493 states), `IInv` of the message objects on those of `MessageObjects`, `RInv` on those of `Requests`, `OInv` on a client and two requests with four calls about options, with one key for arrays (18 663 states) and with two (62 373).

Induction. The induction theorems of the library are schemes over an operator, which the provers cannot
instantiate. `SequenceLemmas!LeastNumber` takes their place where data is finite and the claim is a set of numbers: the least number for which a claim fails. It is how `Strtoul`, the folds of
the parser and of the range header, `FlattenSeq`, `Max` and the turns of `Descent` are unfolded. Recursive operators stay out of reach.

Only model-checked: all liveness (`SendTerminates`, `UpdateReturns`, `Returns`, `SendReturns`: beyond the prover); `DecodesBody` of the one-shot decoder
(`DechunkOnce`); of `MessagesRead` all but the shape of the stacks, which compares
the messages with the whole wire; `CallsMeant` of the message objects; and what the modules about params, cookies,
streams and filters say. Of these only `Filters` is out of the prover's reach as it is, for `DecodeLoop` is recursive.

## 6. Not modelled

In the modelled parts: the event driver of the client (`enableEvents`, where the timer callback may run the response handler inside of
libcurl), observers run by `CURLINFO_TEXT` inside libcurl, wait called by itself (it
changes nothing), registration of observers, exceptions' texts, allocation failure. Of an option, whether its value is of the type the
setter wants. In the
parser: the bytes of lines, parsing of the first line and of values, which headers exist
beyond those that steer it. In the response: the content headers, the protocol version, allocation and
encoder failure, numbers of a range beyond a `long`. In the message objects: var_dump and the property table, variables
that are PHP references to an iterator, a second call of a constructor, headers and the first line. In bodies: forms, parts and boundaries. In params: separators of more
than one character, several indices to a name. In query strings: arrays deeper than one level, and the typed getters. In URLs: how a text is taken apart, which is `php_url_parse`.

The accounting of `php_http_buffer.c` (`used`, `free` and `size`) is not modelled: a buffer is the sequence it holds. Not at all: negotiation, header values,
versions and etags, which are functions of strings without a state or an order to get wrong; the request body and headers of the sapi; module start-up, the object
handlers and exceptions, which are glue to the engine.

## 7. Plan

Done: (1) the client with its driver, its promise and its proofs; (2) both chunked
decoders; (3) the message and header parser; (4) the server response with ranges and caching; (5) message objects, chains and bodies;
(6) easy handles, their pools and options; (7) params and cookies; (8) options, queries and URLs of requests; (9) encoding streams and filters.

What would come next: the event driver as an extension of `HttpClient`, with timer and socket callbacks as callers of the response handler; `Buffer` with
theorems about its accounting; forms and parts of bodies and their splitting; negotiation against a reference definition. Theorems to add:
of `MessageObjects` `CallsMeant`; of `DechunkOnce` that it decodes what the sender encoded; the types of `EncodingStreams` and `Params`.

The runs are kept to what can be repeated in a few minutes.
