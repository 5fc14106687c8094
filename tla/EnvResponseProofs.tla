------------------------- MODULE EnvResponseProofs -------------------------
(***************************************************************************)
(* For every set of scripts and of Range headers, every size of the        *)
(* resource and of the buffers, and however often the resource changes:    *)
(* the head is final once it is out, the body is the one the head          *)
(* announces and the ranges are those that were asked for, and a client    *)
(* that asks with the validators it was given has the current version of   *)
(* the resource.                                                           *)
(*                                                                         *)
(* Five invariants: the types, what is known of the head in each phase of  *)
(* send, what of the body has been produced, what was decided about the    *)
(* ranges, and what validators stand for.                                  *)
(***************************************************************************)
EXTENDS EnvResponse, SequenceLemmas

-----------------------------------------------------------------------------
(* The invariants *)

ByteRange == [begin : Int, end : Int]
Etag == [ver : Nat, size : Nat]
Item == [t : {"byte"}, no : Int, ver : Nat] \cup [t : {"part"}, begin : Int, end : Int]
        \cup {Close, Trailer}

Response ==
    [done : BOOLEAN, status : {"RANGE_NO", "RANGE_OK", "RANGE_ERR"}, values : Seq(ByteRange),
     length : Nat, encoder : {"none", "gzip", "deflate"}, held : Seq(Item), chunk : Nat \ {0},
     buffer : Seq(Item), todo : Seq(ByteRange), pos : Nat, forlen : Nat]

IsConn(c) ==
    /\ c \in [started : BOOLEAN, finished : BOOLEAN, status : {200, 206, 304, 404, 412, 416},
              headers : {c.headers}, out : Seq(Seq(Item))]
    /\ c.headers = [n \in DOMAIN c.headers |-> c.headers[n]]

\* Ranges that end within a body of that length.
Within(values, length) ==
  length > 0 => \A i \in DOMAIN values : values[i].begin <= values[i].end /\ values[i].end < length

\* How many parts the loop over the ranges has begun.
Begun == IF Multipart THEN Len(r.values) - Len(r.todo) ELSE 0

\* Less than a chunk stays in the output buffer, and the heads of empty parts.
Fits ==
    /\ r.pos <= body.size
    /\ Within(r.values, body.size)
    /\ Len(r.buffer) < r.chunk + Begun
    /\ at \in {"script", "send"} => r = NoResponse
    /\ at \in {"head", "ranges", "encoding", "caching", "body"} => r.buffer = <<>>
    /\ Multipart => Len(r.todo) <= Len(r.values)
    /\ at = "read" /\ Multipart => Begun > 0

Types ==
    /\ setup \in Setups /\ setup \in Setup
    /\ body \in [ver : Nat \ {0}, size : Sizes]
    /\ options \in [etag : Etag, lastModified : Nat]
    /\ request.range \in Wires \cup {NoRange}
    /\ exchanges \in 0 .. MaxExchanges
    /\ r \in Response
    /\ IsConn(conn)
    /\ at \in {"script", "send", "head", "ranges", "encoding", "caching", "body", "part", "read",
               "finish", "returned", "crashed"}
    /\ ret \in BOOLEAN
    /\ Fits

-----------------------------------------------------------------------------
\* The head is decided, and is not refused.
Headed == at \in {"body", "part", "read", "finish", "crashed"} \/ (at = "returned" /\ ret)

Names == DOMAIN conn.headers

\* Nothing of the last response is left.
Fresh ==
    /\ at = "script" => request = Get /\ conn = NewConn
    /\ at = "send" => ~conn.finished /\ conn.status = 200 /\ conn.headers = <<>> /\ conn.out = <<>>

\* What is known of the head, from phase to phase.
Preparing ==
    /\ at \in {"head", "ranges", "encoding", "caching", "body"} =>
          conn.out = <<>> /\ r.buffer = <<>> /\ r.held = <<>>
    /\ at = "head" => /\ r.done => conn.status \in {412, 416}
                      /\ Names \subseteq {"Accept-Ranges", "Content-Range"}
                      /\ ~r.done => "Content-Range" \notin Names
    /\ at \in {"ranges", "encoding"} => Names \subseteq {"Accept-Ranges", "Vary"}
    /\ at \in {"ranges", "encoding", "caching"} => ~conn.started /\ ~conn.finished /\ ~r.done
    /\ at \in {"head", "ranges", "encoding"} => r.encoder = "none"
    /\ at = "ranges" => Partial
    /\ at \in {"encoding", "caching"} => ~Partial /\ conn.status = setup.code
    /\ at = "caching" => /\ Names \subseteq {"Accept-Ranges", "Vary", "Content-Encoding"}
                         /\ "Content-Encoding" \in Names <=> r.encoder # "none"

\* What the response was started with.
Started ==
    /\ at \in {"part", "read"} => ~r.done /\ BodyPresent
    /\ ~Partial /\ ~r.done => r.values = <<>>
    /\ Partial => r.length = body.size /\ BodyPresent /\ r.encoder = "none"

\* The head that goes out.
Final ==
    Headed =>
        /\ r.done => conn.status \in {304, 412, 416}
        /\ ~r.done => ("Content-Encoding" \in Names <=> r.encoder # "none")
        /\ ~r.done /\ ~Partial => conn.status = setup.code
        /\ ~r.done /\ Partial => conn.status = 206
        /\ ~r.done /\ Multipart => "Content-Range" \notin Names
        /\ ~r.done /\ Partial /\ ~Multipart =>
              /\ "Content-Range" \in Names
              /\ conn.headers["Content-Range"] = <<r.values[1].begin, r.values[1].end, r.length>>
        /\ "ETag" \in Names => conn.headers["ETag"] = <<options.etag>>
        /\ "Last-Modified" \in Names => conn.headers["Last-Modified"] = <<options.lastModified>>

Heads == Fresh /\ Preparing /\ Started /\ Final

-----------------------------------------------------------------------------
\* The ranges to send; all of the body is one, that is cut.
Whole == [begin |-> 0, end |-> -1]
All == IF Partial THEN r.values ELSE <<Whole>>
HeadOf(range) == IF Multipart THEN <<PartHead(range)>> ELSE <<>>
Span(range) == IF Partial THEN range.end - range.begin + 1 ELSE body.size
Part(range) == HeadOf(range) \o Bytes(range.begin, Span(range))
Upto(j) == FlattenSeq([i \in 1 .. j |-> Part(All[i])])
Ends == (IF Multipart THEN <<Close>> ELSE <<>>) \o (IF r.encoder = "none" THEN <<>> ELSE <<Trailer>>)

Passed == Len(All) - Len(r.todo)
Current == All[Passed]
Done == r.pos - Current.begin
Produced == (Sent \o r.buffer) \o r.held

\* The ranges that are still to be sent.
Remaining ==
    at \in {"part", "read"} => Passed \in 0 .. Len(All) /\ r.todo = SubSeq(All, Passed + 1, Len(All))

\* What was produced is what was passed on, and what the output buffer and the
\* encoder hold.
Between == at = "part" => Produced = Upto(Passed)
Midway ==
    at = "read" =>
        /\ Passed > 0 /\ Done \in 0 .. Span(Current) /\ r.forlen = Limit(Current) - Done
        /\ Produced = (Upto(Passed - 1) \o HeadOf(Current)) \o Bytes(Current.begin, Done)
Behind ==
    at = "finish" \/ (at = "returned" /\ ret) =>
        Sent = IF r.done \/ ~BodyPresent THEN <<>> ELSE Upto(Len(All)) \o Ends

\* If reads give what there is, and the ranges are valid.
Progress ==
    /\ r.encoder = "none" => r.held = <<>>
    /\ ~setup.short /\ InRange => Remaining /\ Between /\ Midway /\ Behind

-----------------------------------------------------------------------------
\* A copy of the current version, every byte in its place.
IsCurrent(c) ==
    /\ \A b \in c.bytes : b.as = b.no /\ b.ver = body.ver
    /\ c.whole => {b.no : b \in c.bytes} = 0 .. body.size - 1

\* A client whose validator is that of the current version has that version.
Copies ==
    /\ copy \in [whole : BOOLEAN, etag : Etag, date : Nat, bytes : SUBSET [as : Int, no : Int, ver : Nat]]
    /\ BodyPresent =>
         /\ copy.etag.ver <= body.ver /\ copy.date <= body.ver
         /\ copy.etag.ver = body.ver => copy.etag = EtagOf(body) /\ IsCurrent(copy)
         /\ copy.date = body.ver => IsCurrent(copy)

\* Options are of this or of an earlier version.
Validators ==
    /\ options.etag.ver <= body.ver /\ options.lastModified <= body.ver
    /\ options.etag.ver = body.ver => options.etag = EtagOf(body)
    /\ options.etag.ver = 0 => options.etag = NoEtag
    /\ setup.tagged => options.lastModified > 0
    /\ ~setup.tagged /\ setup.kind # "file" => options.lastModified = 0 /\ copy.date = 0

\* The conditions hold of what the response object goes by.
HoldsTag(condition) == condition.given /\ condition.tag = options.etag
HoldsDate(condition) ==
    /\ condition.given /\ condition.date > 0 /\ condition.date >= options.lastModified
    /\ setup.kind = "file" => options.lastModified > 0

Decided ==
    /\ at # "script" => request \in Asks
    /\ at # "send" /\ Partial /\ ~r.done =>
          /\ ~request.ifRange.given
          /\ request.ifMatch.given => HoldsTag(request.ifMatch)
          /\ request.ifUnmodifiedSince.given => HoldsDate(request.ifUnmodifiedSince)
    /\ Headed /\ conn.status = 304 => HoldsTag(request.ifNoneMatch) \/ HoldsDate(request.ifModifiedSince)
    /\ at \in {"head", "ranges"} /\ request.range = NoRange => ~r.done /\ ~Partial
    /\ ( /\ Headed /\ BodyPresent /\ ~Stale /\ setup.code < 400
         /\ request.range = NoRange
         /\ \/ request.ifNoneMatch.tag = EtagOf(body)
            \/ ~request.ifNoneMatch.given /\ request.ifModifiedSince.date = body.ver )
       => conn.status = 304

-----------------------------------------------------------------------------
(* The ranges of a header *)

Statuses == {"RANGE_NO", "RANGE_OK", "RANGE_ERR"}
Numbers == {Empty, Zero} \cup (Nat \ {0})

Reader == [status : Statuses, values : Seq(ByteRange), begin : Numbers, end : Numbers, second : BOOLEAN]

\* A field is empty, zero, or the number its digits make.
LEMMA AddDigitFacts ==
  ASSUME NEW field \in Numbers, NEW c \in DOMAIN Digit
  PROVE  AddDigit(field, c) \in Numbers
<1>1. Digit[c] \in 0 .. 9 /\ (c # "0" => Digit[c] # 0)
  BY DEF Digit
<1>2. Numbers \subseteq Int /\ Zero = 0 - 10 /\ Empty = 0 - 1
  BY DEF Numbers, Zero, Empty
<1>3. CASE c = "0"
  <2>1. field = Zero \/ field = Empty \/ field \in Nat \ {0}
    BY DEF Numbers
  <2>2. field \in Nat \ {0} => field * 10 \in Nat \ {0}
    OBVIOUS
  <2>3. Empty * 10 = Zero
    BY <1>2
  <2> QED
    BY <1>2, <1>3, <2>1, <2>2, <2>3 DEF AddDigit, Numbers
<1>4. CASE c # "0"
  <2>1. field > 0 => field * 10 + Digit[c] \in Nat \ {0}
    BY <1>1, <1>2
  <2>2. Digit[c] \in Nat \ {0}
    BY <1>1, <1>4
  <2> QED
    BY <1>4, <2>1, <2>2 DEF AddDigit, Numbers
<1> QED
  BY <1>3, <1>4

\* What becomes of a range ends within the body, and begins there as well,
\* unless it is a suffix that is longer.
LEMMA ValidatedFacts ==
  ASSUME NEW begin \in Numbers, NEW end \in Numbers, NEW length \in Nat
  PROVE  LET v == Validated(begin, end, length)
         IN /\ v = [status |-> v.status, begin |-> v.begin, end |-> v.end]
            /\ v.status \in Statuses /\ v.begin \in Int /\ v.end \in Int
            /\ v.status = "RANGE_OK" /\ length > 0 => v.begin <= v.end /\ v.end < length
<1> DEFINE v == Validated(begin, end, length)
<1>1. begin \in Int /\ end \in Int /\ Zero = 0 - 10 /\ Empty = 0 - 1
  BY DEF Numbers, Zero, Empty
<1>2. \A x \in Numbers : x \notin {Zero, Empty} => x \in Nat /\ x > 0
  BY DEF Numbers
<1>3. CASE length = 0
  <2>1. v = [status |-> "RANGE_OK", begin |-> begin, end |-> end]
    BY <1>3 DEF Validated
  <2> QED
    BY <1>1, <1>3, <2>1 DEF Statuses
<1>4. CASE length > 0 /\ begin = Zero
  <2>1. v = IF end = Empty THEN [status |-> "RANGE_NO", begin |-> begin, end |-> end]
            ELSE [status |-> "RANGE_OK", begin |-> 0,
                  end |-> IF end = Zero THEN 0 ELSE Lesser(end, length - 1)]
    BY <1>1, <1>4 DEF Validated
  <2>2. end \notin {Zero, Empty} =>
           Lesser(end, length - 1) \in Nat /\ Lesser(end, length - 1) < length
    BY <1>2, <1>4 DEF Lesser
  <2> QED
    BY <1>1, <1>4, <2>1, <2>2 DEF Statuses
<1>5. CASE length > 0 /\ begin = Empty
  <2>1. v = IF end \in {Empty, Zero} THEN [status |-> "RANGE_ERR", begin |-> begin, end |-> end]
            ELSE [status |-> "RANGE_OK", begin |-> length - end, end |-> length - 1]
    BY <1>1, <1>5 DEF Validated
  <2>2. end \notin {Zero, Empty} => length - end <= length - 1
    BY <1>1, <1>2
  <2> QED
    BY <1>1, <1>5, <2>1, <2>2 DEF Statuses
<1>6. CASE length > 0 /\ begin \notin {Zero, Empty}
  <2> DEFINE bad == \/ length <= begin
                    \/ end = Zero
                    \/ end # Empty /\ end < length /\ end < begin
             to == IF end = Empty THEN length - 1 ELSE Lesser(end, length - 1)
  <2>1. v = IF bad THEN [status |-> "RANGE_ERR", begin |-> begin, end |-> end]
            ELSE [status |-> "RANGE_OK", begin |-> begin, end |-> to]
    BY <1>1, <1>6 DEF Validated
  <2>2. to \in Int /\ (~bad => begin <= to /\ to < length)
    BY <1>1, <1>2, <1>6 DEF Lesser
  <2> HIDE DEF bad, to
  <2>3. CASE bad
    BY <1>1, <2>1, <2>3 DEF Statuses
  <2>4. CASE ~bad
    BY <1>1, <2>1, <2>2, <2>4 DEF Statuses
  <2> QED
    BY <2>3, <2>4
<1>7. length = 0 \/ length > 0
  OBVIOUS
<1> QED
  BY <1>3, <1>4, <1>5, <1>6, <1>7

LEMMA ReaderFields ==
  ASSUME NEW s \in Reader
  PROVE  /\ s.status \in Statuses /\ s.values \in Seq(ByteRange)
         /\ s.begin \in Numbers /\ s.end \in Numbers /\ s.second \in BOOLEAN
         /\ s["begin"] = s.begin /\ s["end"] = s.end
  BY DEF Reader

LEMMA ReaderBegin ==
  ASSUME NEW s \in Reader, NEW x \in Numbers
  PROVE  [s EXCEPT !["begin"] = x] \in Reader /\ [s EXCEPT !["begin"] = x].values = s.values
  BY DEF Reader

LEMMA ReaderEnd ==
  ASSUME NEW s \in Reader, NEW x \in Numbers
  PROVE  [s EXCEPT !["end"] = x] \in Reader /\ [s EXCEPT !["end"] = x].values = s.values
  BY DEF Reader

LEMMA ReaderStatus ==
  ASSUME NEW s \in Reader, NEW x \in Statuses
  PROVE  [s EXCEPT !.status = x] \in Reader /\ [s EXCEPT !.status = x].values = s.values
  BY DEF Reader

LEMMA ReaderSecond ==
  ASSUME NEW s \in Reader
  PROVE  [s EXCEPT !.second = TRUE] \in Reader /\ [s EXCEPT !.second = TRUE].values = s.values
  BY DEF Reader

LEMMA StartFacts == Start \in Reader /\ Start.values = <<>> /\ Start.status = "RANGE_OK"
  BY DEF Start, Reader, Statuses, Numbers

LEMMA ReaderValues ==
  ASSUME NEW s \in Reader, NEW x \in Seq(ByteRange)
  PROVE  [s EXCEPT !.values = x] \in Reader /\ [s EXCEPT !.values = x].values = x
  BY DEF Reader

LEMMA ReadCharFacts ==
  ASSUME NEW s \in Reader, NEW c, NEW length \in Nat, Within(s.values, length)
  PROVE  /\ ReadChar(s, c, length) \in Reader
         /\ Within(ReadChar(s, c, length).values, length)
<1> DEFINE n == ReadChar(s, c, length)
<1> SUFFICES n \in Reader /\ Within(n.values, length)
  OBVIOUS
<1>1. CASE c \in DOMAIN Digit
  <2>1. c \notin {"-", " ", ","}
    BY <1>1 DEF Digit
  <2>2. n = [s EXCEPT ![Field(s)] = AddDigit(@, c)]
    BY <1>1, <2>1 DEF ReadChar
  <2>3. CASE s.second
    <3>1. Field(s) = "end"
      BY <2>3 DEF Field
    <3>2. n = [s EXCEPT !["end"] = AddDigit(s.end, c)]
      BY <2>2, <3>1, ReaderFields
    <3>3. AddDigit(s.end, c) \in Numbers
      BY <1>1, AddDigitFacts, ReaderFields
    <3> HIDE DEF n
    <3> QED
      BY <3>2, <3>3, ReaderEnd
  <2>4. CASE ~s.second
    <3>1. Field(s) = "begin"
      BY <2>4 DEF Field
    <3>2. n = [s EXCEPT !["begin"] = AddDigit(s.begin, c)]
      BY <2>2, <3>1, ReaderFields
    <3>3. AddDigit(s.begin, c) \in Numbers
      BY <1>1, AddDigitFacts, ReaderFields
    <3> HIDE DEF n
    <3> QED
      BY <3>2, <3>3, ReaderBegin
  <2> QED
    BY <2>3, <2>4
<1>2. CASE c = "-"
  <2>1. n = [s EXCEPT !.second = TRUE]
    BY <1>2 DEF ReadChar, Digit
  <2> HIDE DEF n
  <2> QED
    BY <2>1, ReaderSecond
<1>3. CASE c = " "
  <2>1. n = s
    BY <1>3 DEF ReadChar, Digit
  <2> QED
    BY <2>1
<1>4. CASE c = ","
  <2> DEFINE v == Validated(s.begin, s.end, length)
             range == [begin |-> v.begin, end |-> v.end]
  <2>1. n = IF v.status # "RANGE_OK" THEN [s EXCEPT !.status = v.status]
            ELSE [Start EXCEPT !.values = Append(s.values, range)]
    BY <1>4 DEF ReadChar, Digit, EndRange
  <2>2. /\ v.status \in Statuses /\ range \in ByteRange
        /\ v.status = "RANGE_OK" /\ length > 0 => range.begin <= range.end /\ range.end < length
    BY ValidatedFacts, ReaderFields DEF ByteRange
  <2> HIDE DEF n, v, range
  <2>3. CASE v.status # "RANGE_OK"
    BY <2>1, <2>2, <2>3, ReaderStatus
  <2>4. CASE v.status = "RANGE_OK"
    <3>1. s.values \in Seq(ByteRange) /\ range \in ByteRange
      BY <2>2, ReaderFields
    <3>2. Append(s.values, range) \in Seq(ByteRange)
      BY <3>1
    <3>3. n \in Reader /\ n.values = Append(s.values, range)
      BY <2>1, <2>4, <3>2, StartFacts, ReaderValues
    <3>4. Within(Append(s.values, range), length)
      BY <2>2, <2>4, <3>1 DEF Within
    <3> QED
      BY <3>3, <3>4
  <2> QED
    BY <2>3, <2>4
<1>5. CASE c \notin DOMAIN Digit /\ c \notin {"-", " ", ","}
  <2>1. n = [s EXCEPT !.status = "RANGE_NO"]
    BY <1>5 DEF ReadChar
  <2>2. "RANGE_NO" \in Statuses
    BY DEF Statuses
  <2> HIDE DEF n
  <2> QED
    BY <2>1, <2>2, ReaderStatus
<1> QED
  BY <1>1, <1>2, <1>3, <1>4, <1>5

\* The state of the loop behind each character.
Reads(f, text, length, n) ==
  f = [i \in 0 .. n |->
         IF i = 0 THEN Start
         ELSE IF f[i - 1].status # "RANGE_OK" THEN f[i - 1]
         ELSE ReadChar(f[i - 1], text[i], length)]

LEMMA ReadsExists ==
  ASSUME NEW text, NEW length, NEW n \in Nat
  PROVE  \E f : Reads(f, text, length, n)
<1> DEFINE T == {k \in Nat : ~ \E f : Reads(f, text, length, k)}
<1>1. ASSUME NEW k \in T PROVE \E j \in T : j < k
  <2>1. CASE k = 0
    <3> DEFINE f == [i \in 0 .. 0 |-> Start]
    <3>1. \A i \in 0 .. 0 : i = 0
      OBVIOUS
    <3>2. Reads(f, text, length, 0)
      BY <3>1 DEF Reads
    <3> HIDE DEF f
    <3> QED
      BY <2>1, <3>2
  <2>2. CASE k # 0
    <3>1. k - 1 \in Nat /\ k - 1 < k
      BY <2>2
    <3>2. SUFFICES ASSUME k - 1 \notin T PROVE FALSE
      BY <3>1
    <3>3. PICK f : Reads(f, text, length, k - 1)
      BY <3>1, <3>2
    <3> DEFINE g == [i \in 0 .. k |->
                       IF i = 0 THEN Start
                       ELSE IF f[i - 1].status # "RANGE_OK" THEN f[i - 1]
                       ELSE ReadChar(f[i - 1], text[i], length)]
    <3>4. \A i \in 0 .. k - 1 : g[i] = f[i]
      <4>1. \A i \in 0 .. k - 1 : i \in 0 .. k
        BY <3>1
      <4> HIDE DEF T
      <4> QED
        BY <4>1, <3>3 DEF Reads
    <3>5. \A i \in 0 .. k : i # 0 => i - 1 \in 0 .. k - 1
      BY <3>1
    <3>6. g = [i \in 0 .. k |->
                 IF i = 0 THEN Start
                 ELSE IF g[i - 1].status # "RANGE_OK" THEN g[i - 1]
                 ELSE ReadChar(g[i - 1], text[i], length)]
      BY <3>4, <3>5
    <3> HIDE DEF g
    <3>7. Reads(g, text, length, k)
      BY <3>6 DEF Reads
    <3> QED
      BY <3>7
  <2> QED
    BY <2>1, <2>2
<1>2. T = {}
  <2> HIDE DEF T
  <2>1. T \subseteq Nat
    BY DEF T
  <2> QED
    BY <1>1, <2>1, Induction
<1> QED
  BY <1>2

LEMMA RangesUnfold ==
  ASSUME NEW S, NEW wire \in Seq(S), NEW length
  PROVE  LET text == Append(wire, ",")
         IN \E f : /\ Reads(f, text, length, Len(text))
                   /\ GetRequestRanges(wire, length) =
                         [status |-> f[Len(text)].status, values |-> f[Len(text)].values]
<1> DEFINE text == Append(wire, ",")
<1>1. Len(text) \in Nat
  OBVIOUS
<1>2. PICK h : Reads(h, text, length, Len(text))
  BY <1>1, ReadsExists
<1> DEFINE f == CHOOSE it : it = [i \in 0 .. Len(text) |->
                       IF i = 0 THEN Start
                       ELSE IF it[i - 1].status # "RANGE_OK" THEN it[i - 1]
                       ELSE ReadChar(it[i - 1], text[i], length)]
<1>3. GetRequestRanges(wire, length) = [status |-> f[Len(text)].status, values |-> f[Len(text)].values]
  BY DEF GetRequestRanges
<1>4. f = [i \in 0 .. Len(text) |->
             IF i = 0 THEN Start
             ELSE IF f[i - 1].status # "RANGE_OK" THEN f[i - 1]
             ELSE ReadChar(f[i - 1], text[i], length)]
  BY <1>2 DEF Reads
<1> SUFFICES \E it : /\ Reads(it, text, length, Len(text))
                     /\ GetRequestRanges(wire, length) =
                          [status |-> it[Len(text)].status, values |-> it[Len(text)].values]
  OBVIOUS
<1> HIDE DEF f, text
<1> QED
  BY <1>3, <1>4 DEF Reads

\* The ranges of every header, for a resource of every size.
LEMMA RangesFacts ==
  ASSUME NEW S, NEW wire \in Seq(S), NEW length \in Nat
  PROVE  LET ranges == GetRequestRanges(wire, length)
         IN /\ ranges.status \in Statuses /\ ranges.values \in Seq(ByteRange)
            /\ Within(ranges.values, length)
<1> DEFINE text == Append(wire, ",")
           n == Len(text)
<1>1. PICK f : /\ Reads(f, text, length, n)
               /\ GetRequestRanges(wire, length) = [status |-> f[n].status, values |-> f[n].values]
  BY RangesUnfold
<1>2. n \in Nat
  OBVIOUS
<1> DEFINE T == {i \in 0 .. n : ~(f[i] \in Reader /\ Within(f[i].values, length))}
<1> HIDE DEF text, n
<1>3. ASSUME NEW k \in T PROVE \E j \in T : j < k
  <2>1. k \in 0 .. n /\ ~(f[k] \in Reader /\ Within(f[k].values, length))
    OBVIOUS
  <2>2. CASE k = 0
    <3>1. f[0] = Start
      BY <1>1, <1>2 DEF Reads
    <3>2. Within(<<>>, length)
      BY DEF Within
    <3> QED
      BY <2>1, <2>2, <3>1, <3>2, StartFacts
  <2>3. CASE k # 0
    <3>1. k - 1 \in 0 .. n /\ k - 1 < k
      BY <1>2, <2>1, <2>3
    <3>2. CASE k - 1 \in T
      BY <3>1, <3>2
    <3>3. CASE k - 1 \notin T
      <4>1. f[k - 1] \in Reader /\ Within(f[k - 1].values, length)
        BY <3>1, <3>3
      <4>2. f[k] = IF f[k - 1].status # "RANGE_OK" THEN f[k - 1]
                   ELSE ReadChar(f[k - 1], text[k], length)
        BY <1>1, <2>1, <2>3 DEF Reads
      <4> HIDE DEF T
      <4> QED
        BY <2>1, <4>1, <4>2, ReadCharFacts
    <3> QED
      BY <3>2, <3>3
  <2> QED
    BY <2>2, <2>3
<1>4. T = {}
  <2>1. T \subseteq Nat
    BY <1>2
  <2> HIDE DEF T
  <2> QED
    BY <1>3, <2>1, Induction
<1>5. f[n] \in Reader /\ Within(f[n].values, length)
  BY <1>2, <1>4
<1> QED
  BY <1>1, <1>5, ReaderFields

\* Without the header, nothing is asked for.
LEMMA NoRangeFacts ==
  ASSUME NEW length \in Nat
  PROVE  GetRequestRanges(NoRange, length).status = "RANGE_NO"
<1> DEFINE text == Append(NoRange, ",")
<1>1. NoRange \in Seq({"x"})
  BY DEF NoRange
<1>2. Len(text) = 2 /\ text[1] = "x"
  BY DEF NoRange
<1>3. PICK f : /\ Reads(f, text, length, Len(text))
               /\ GetRequestRanges(NoRange, length) =
                    [status |-> f[Len(text)].status, values |-> f[Len(text)].values]
  BY <1>1, RangesUnfold
<1> HIDE DEF text
<1>4. f[0] = Start
  BY <1>2, <1>3 DEF Reads
<1>5. f[1] = ReadChar(Start, "x", length)
  BY <1>2, <1>3, <1>4, StartFacts DEF Reads
<1>6. f[1] = [Start EXCEPT !.status = "RANGE_NO"]
  BY <1>5 DEF ReadChar, Digit
<1>7. f[1].status = "RANGE_NO"
  BY <1>6 DEF Start
<1>8. f[2] = f[1]
  BY <1>2, <1>3, <1>7 DEF Reads
<1> QED
  BY <1>2, <1>3, <1>7, <1>8

LEMMA NoRangeTypes ==
  ASSUME NEW length \in Nat
  PROVE  LET ranges == GetRequestRanges(NoRange, length)
         IN /\ ranges.status \in Statuses /\ ranges.values \in Seq(ByteRange)
            /\ Within(ranges.values, length)
<1>1. NoRange \in Seq({"x"})
  BY DEF NoRange
<1> QED
  BY <1>1, RangesFacts

-----------------------------------------------------------------------------
(* What a Range header means, and that the loop over its characters finds it *)

\* The function Number computes its result with.
Counts(v, wire, places, n) ==
  v = [i \in 0 .. n |->
         IF i = 0 THEN 0
         ELSE IF i \in places THEN 10 * v[i - 1] + Digit[wire[i]] ELSE v[i - 1]]

LEMMA CountsExist ==
  ASSUME NEW wire, NEW places, NEW n \in Nat
  PROVE  \E v : Counts(v, wire, places, n)
<1> DEFINE T == {k \in Nat : ~ \E v : Counts(v, wire, places, k)}
<1>1. ASSUME NEW k \in T PROVE \E j \in T : j < k
  <2>1. CASE k = 0
    <3> DEFINE v == [i \in 0 .. 0 |-> 0]
    <3>1. \A i \in 0 .. 0 : i = 0
      OBVIOUS
    <3>2. Counts(v, wire, places, 0)
      BY <3>1 DEF Counts
    <3> HIDE DEF v
    <3> QED
      BY <2>1, <3>2
  <2>2. CASE k # 0
    <3>1. k - 1 \in Nat /\ k - 1 < k
      BY <2>2
    <3>2. SUFFICES ASSUME k - 1 \notin T PROVE FALSE
      BY <3>1
    <3>3. PICK v : Counts(v, wire, places, k - 1)
      BY <3>1, <3>2
    <3> DEFINE w == [i \in 0 .. k |->
                       IF i = 0 THEN 0
                       ELSE IF i \in places THEN 10 * v[i - 1] + Digit[wire[i]] ELSE v[i - 1]]
    <3>4. \A i \in 0 .. k - 1 : w[i] = v[i]
      <4>1. \A i \in 0 .. k - 1 : i \in 0 .. k
        BY <3>1
      <4> HIDE DEF T
      <4> QED
        BY <4>1, <3>3 DEF Counts
    <3>5. \A i \in 0 .. k : i # 0 => i - 1 \in 0 .. k - 1
      BY <3>1
    <3>6. w = [i \in 0 .. k |->
                 IF i = 0 THEN 0
                 ELSE IF i \in places THEN 10 * w[i - 1] + Digit[wire[i]] ELSE w[i - 1]]
      BY <3>4, <3>5
    <3> HIDE DEF w
    <3>7. Counts(w, wire, places, k)
      BY <3>6 DEF Counts
    <3> QED
      BY <3>7
  <2> QED
    BY <2>1, <2>2
<1>2. T = {}
  <2> HIDE DEF T
  <2>1. T \subseteq Nat
    BY DEF T
  <2> QED
    BY <1>1, <2>1, Induction
<1> QED
  BY <1>2

LEMMA NumberUnfolds ==
  ASSUME NEW S, NEW wire \in Seq(S), NEW places
  PROVE  \E v : /\ Number(wire, places) = v[Len(wire)]
                /\ v[0] = 0
                /\ \A i \in 1 .. Len(wire) :
                      v[i] = IF i \in places THEN 10 * v[i - 1] + Digit[wire[i]] ELSE v[i - 1]
<1> DEFINE v == CHOOSE it : it = [i \in 0 .. Len(wire) |->
                       IF i = 0 THEN 0
                       ELSE IF i \in places THEN 10 * it[i - 1] + Digit[wire[i]] ELSE it[i - 1]]
<1>1. Len(wire) \in Nat
  OBVIOUS
<1>2. PICK w : Counts(w, wire, places, Len(wire))
  BY <1>1, CountsExist
<1>3. v = [i \in 0 .. Len(wire) |->
             IF i = 0 THEN 0
             ELSE IF i \in places THEN 10 * v[i - 1] + Digit[wire[i]] ELSE v[i - 1]]
  BY <1>2 DEF Counts
<1>4. Number(wire, places) = v[Len(wire)]
  BY DEF Number
<1> HIDE DEF v
<1>5. v[0] = 0 /\ \A i \in 1 .. Len(wire) :
                      v[i] = IF i \in places THEN 10 * v[i - 1] + Digit[wire[i]] ELSE v[i - 1]
  BY <1>1, <1>3
<1> QED
  BY <1>4, <1>5

LEMMA DigitFacts == \A c \in DOMAIN Digit : Digit[c] \in 0 .. 9 /\ (Digit[c] = 0 <=> c = "0")
  BY DEF Digit

\* Places with digits.
Digits(wire) == {i \in DOMAIN wire : wire[i] \in DOMAIN Digit}

LEMMA NumberNat ==
  ASSUME NEW S, NEW wire \in Seq(S), NEW places \in SUBSET Digits(wire)
  PROVE  Number(wire, places) \in Nat
<1> DEFINE n == Len(wire)
<1>1. n \in Nat
  OBVIOUS
<1>2. PICK v : /\ Number(wire, places) = v[n]
               /\ v[0] = 0
               /\ \A i \in 1 .. n :
                     v[i] = IF i \in places THEN 10 * v[i - 1] + Digit[wire[i]] ELSE v[i - 1]
  BY NumberUnfolds
<1>3. \A i \in places : Digit[wire[i]] \in Nat
  BY DigitFacts DEF Digits
<1> HIDE DEF n
<1> DEFINE T == {i \in 0 .. n : v[i] \notin Nat}
<1>4. ASSUME NEW k \in T PROVE \E j \in T : j < k
  <2>1. k \in 1 .. n /\ v[k] \notin Nat /\ k - 1 \in 0 .. n /\ k - 1 < k
    BY <1>1, <1>2
  <2>2. v[k - 1] \notin Nat
    <3> SUFFICES ASSUME v[k - 1] \in Nat PROVE FALSE
      OBVIOUS
    <3>1. v[k] = IF k \in places THEN 10 * v[k - 1] + Digit[wire[k]] ELSE v[k - 1]
      BY <1>2, <2>1
    <3> QED
      BY <1>3, <2>1, <3>1
  <2> QED
    BY <2>1, <2>2
<1>5. T = {}
  <2>1. T \subseteq Nat
    BY <1>1
  <2> HIDE DEF T
  <2> QED
    BY <1>4, <2>1, Induction
<1> QED
  BY <1>1, <1>2, <1>5

LEMMA NumberNone ==
  ASSUME NEW S, NEW wire \in Seq(S)
  PROVE  Number(wire, {}) = 0
<1> DEFINE n == Len(wire)
<1>1. n \in Nat
  OBVIOUS
<1>2. PICK v : Number(wire, {}) = v[n] /\ v[0] = 0 /\ \A i \in 1 .. n : v[i] = v[i - 1]
  BY NumberUnfolds
<1> HIDE DEF n
<1> DEFINE T == {i \in 0 .. n : v[i] # 0}
<1>4. ASSUME NEW k \in T PROVE \E j \in T : j < k
  <2>1. k \in 1 .. n /\ v[k] # 0 /\ k - 1 \in 0 .. n /\ k - 1 < k
    BY <1>1, <1>2
  <2>2. v[k - 1] # 0
    BY <1>2, <2>1
  <2> QED
    BY <2>1, <2>2
<1>5. T = {}
  <2>1. T \subseteq Nat
    BY <1>1
  <2> HIDE DEF T
  <2> QED
    BY <1>4, <2>1, Induction
<1> QED
  BY <1>1, <1>2, <1>5

\* A digit behind the others.
LEMMA NumberNext ==
  ASSUME NEW S, NEW wire \in Seq(S), NEW places \in SUBSET Digits(wire),
         NEW i \in Digits(wire), \A j \in places : j < i
  PROVE  Number(wire, places \cup {i}) = 10 * Number(wire, places) + Digit[wire[i]]
<1> DEFINE n == Len(wire)
           more == places \cup {i}
<1>1. n \in Nat /\ i \in 1 .. n /\ places \subseteq 1 .. n /\ i \notin places
  BY DEF Digits
<1>2. PICK v : /\ Number(wire, places) = v[n]
               /\ v[0] = 0
               /\ \A j \in 1 .. n :
                     v[j] = IF j \in places THEN 10 * v[j - 1] + Digit[wire[j]] ELSE v[j - 1]
  BY NumberUnfolds
<1>3. PICK w : /\ Number(wire, more) = w[n]
               /\ w[0] = 0
               /\ \A j \in 1 .. n :
                     w[j] = IF j \in more THEN 10 * w[j - 1] + Digit[wire[j]] ELSE w[j - 1]
  BY NumberUnfolds
<1> HIDE DEF n
<1> DEFINE T == {j \in 0 .. n : ~(w[j] = IF j < i THEN v[j] ELSE 10 * v[j] + Digit[wire[i]])}
<1>4. ASSUME NEW k \in T PROVE \E j \in T : j < k
  <2>1. k \in 0 .. n /\ ~(w[k] = IF k < i THEN v[k] ELSE 10 * v[k] + Digit[wire[i]])
    OBVIOUS
  <2>2. k # 0
    BY <1>1, <1>2, <1>3, <2>1
  <2>3. k \in 1 .. n /\ k - 1 \in 0 .. n /\ k - 1 < k
    BY <1>1, <2>1, <2>2
  <2>4. k - 1 \in T
    <3> SUFFICES ASSUME w[k - 1] = IF k - 1 < i THEN v[k - 1] ELSE 10 * v[k - 1] + Digit[wire[i]]
                 PROVE  FALSE
      BY <2>3
    <3> HIDE DEF T
    <3>1. /\ v[k] = IF k \in places THEN 10 * v[k - 1] + Digit[wire[k]] ELSE v[k - 1]
          /\ w[k] = IF k \in more THEN 10 * w[k - 1] + Digit[wire[k]] ELSE w[k - 1]
      BY <1>2, <1>3, <2>3
    <3>2. CASE k < i
      <4>1. k \in more <=> k \in places
        BY <3>2, <1>1
      <4> QED
        BY <1>1, <2>1, <2>3, <3>1, <3>2, <4>1
    <3>3. CASE k = i
      <4>1. k \in more /\ k \notin places /\ k - 1 < i /\ ~(k < i)
        BY <3>3, <1>1, <2>3
      <4>2. v[k] = v[k - 1] /\ w[k] = 10 * w[k - 1] + Digit[wire[i]] /\ w[k - 1] = v[k - 1]
        BY <3>1, <3>3, <4>1
      <4> QED
        BY <2>1, <4>1, <4>2
    <3>4. CASE k > i
      <4>1. k \notin more /\ k \notin places /\ ~(k - 1 < i) /\ ~(k < i)
        BY <3>4, <1>1, <2>3
      <4>2. v[k] = v[k - 1] /\ w[k] = w[k - 1] /\ w[k - 1] = 10 * v[k - 1] + Digit[wire[i]]
        BY <3>1, <4>1
      <4> QED
        BY <2>1, <4>1, <4>2
    <3> QED
      BY <1>1, <2>3, <3>2, <3>3, <3>4
  <2> QED
    BY <2>3, <2>4
<1>5. T = {}
  <2>1. T \subseteq Nat
    BY <1>1
  <2> HIDE DEF T
  <2> QED
    BY <1>4, <2>1, Induction
<1>6. n \in 0 .. n /\ ~(n < i)
  BY <1>1
<1> HIDE DEF more
<1>7. w[n] = 10 * v[n] + Digit[wire[i]]
  BY <1>5, <1>6
<1> QED
  BY <1>2, <1>3, <1>7 DEF more

\* A field, when these are the digits it was given.
FieldOf(wire, places) ==
  IF places = {} THEN Empty ELSE IF Number(wire, places) = 0 THEN Zero ELSE Number(wire, places)

LEMMA FieldNext ==
  ASSUME NEW S, NEW wire \in Seq(S), NEW places \in SUBSET Digits(wire),
         NEW i \in Digits(wire), \A j \in places : j < i
  PROVE  AddDigit(FieldOf(wire, places), wire[i]) = FieldOf(wire, places \cup {i})
<1> DEFINE m == Number(wire, places)
           d == Digit[wire[i]]
           more == Number(wire, places \cup {i})
           field == FieldOf(wire, places)
           next == FieldOf(wire, places \cup {i})
<1> SUFFICES AddDigit(field, wire[i]) = next
  OBVIOUS
<1>1. m \in Nat /\ d \in Nat /\ (d = 0 <=> wire[i] = "0")
  BY NumberNat, DigitFacts DEF Digits
<1>2. more = 10 * m + d
  BY NumberNext
<1>3. places = {} => m = 0
  BY NumberNone
<1>4. field = IF places = {} THEN Empty ELSE IF m = 0 THEN Zero ELSE m
  BY DEF FieldOf
<1>5. next = IF more = 0 THEN Zero ELSE more
  <2>1. places \cup {i} # {}
    OBVIOUS
  <2> QED
    BY <2>1 DEF FieldOf
<1>6. AddDigit(field, wire[i]) =
        IF wire[i] = "0" THEN IF field = Zero THEN field ELSE field * 10
        ELSE IF field > 0 THEN field * 10 + d ELSE d
  BY DEF AddDigit
<1>7. Zero = 0 - 10 /\ Empty = 0 - 1
  BY DEF Zero, Empty
<1> HIDE DEF m, d, more, field, next
<1>8. CASE wire[i] = "0"
  <2>1. d = 0 /\ more = 10 * m
    BY <1>1, <1>2, <1>8
  <2>2. CASE places = {}
    BY <1>3, <1>4, <1>5, <1>6, <1>7, <1>8, <2>1, <2>2
  <2>3. CASE places # {}
    BY <1>1, <1>4, <1>5, <1>6, <1>7, <1>8, <2>1, <2>3
  <2> QED
    BY <2>2, <2>3
<1>9. CASE wire[i] # "0"
  <2>1. d # 0 /\ more # 0
    BY <1>1, <1>2, <1>9
  <2>2. CASE m = 0
    <3>1. ~(field > 0)
      BY <1>4, <1>7, <2>2
    <3> QED
      BY <1>1, <1>2, <1>5, <1>6, <1>9, <2>1, <2>2, <3>1
  <2>3. CASE m # 0
    <3>1. field = m /\ m > 0
      BY <1>1, <1>3, <1>4, <2>3
    <3> QED
      BY <1>1, <1>2, <1>5, <1>6, <1>9, <2>1, <3>1
  <2> QED
    BY <2>2, <2>3
<1> QED
  BY <1>8, <1>9

\* How many numbers of a set are below another.
LEMMA CountsBelow ==
  ASSUME NEW n \in Nat, NEW C, \A c \in C : c \in Int /\ 1 <= c /\ c <= n
  PROVE  /\ Cardinality(C) \in Nat
         /\ \A i \in Int : Cardinality({j \in C : j < i}) \in Nat
         /\ \A i, j \in Int : i <= j => Cardinality({c \in C : c < i}) <= Cardinality({c \in C : c < j})
         /\ Cardinality({j \in C : j < 1}) = 0
         /\ \A i \in 1 .. n :
               Cardinality({j \in C : j < i + 1}) = Cardinality({j \in C : j < i}) + IF i \in C THEN 1 ELSE 0
         /\ Cardinality({j \in C : j < n + 1}) = Cardinality(C)
<1> DEFINE B(i) == {j \in C : j < i}
<1>1. IsFiniteSet(C)
  <2>1. IsFiniteSet(1 .. n)
    BY FS_Interval
  <2>2. C \subseteq 1 .. n
    OBVIOUS
  <2> QED
    BY <2>1, <2>2, FS_Subset
<1>2. \A i \in Int : IsFiniteSet(B(i)) /\ Cardinality(B(i)) \in Nat
  <2> TAKE i \in Int
  <2>1. B(i) \subseteq C
    OBVIOUS
  <2>2. IsFiniteSet(B(i))
    BY <1>1, <2>1, FS_Subset
  <2> QED
    BY <2>2, FS_CardinalityType
<1>3. ASSUME NEW i \in Int, NEW j \in Int, i <= j PROVE Cardinality(B(i)) <= Cardinality(B(j))
  <2>1. B(i) \subseteq B(j)
    BY <1>3
  <2>2. IsFiniteSet(B(j))
    BY <1>2
  <2> HIDE DEF B
  <2> QED
    BY <2>1, <2>2, FS_Subset
<1>4. B(1) = {}
  OBVIOUS
<1>5. Cardinality(B(1)) = 0
  BY <1>4, FS_EmptySet
<1>6. ASSUME NEW i \in 1 .. n
      PROVE  Cardinality(B(i + 1)) = Cardinality(B(i)) + IF i \in C THEN 1 ELSE 0
  <2>1. i \in Int /\ i + 1 \in Int /\ i \notin B(i)
    OBVIOUS
  <2>2. CASE i \in C
    <3>0. \A j \in C : j < i + 1 <=> j < i \/ j = i
      BY <2>1
    <3>1. B(i + 1) = B(i) \cup {i}
      BY <2>2, <3>0
    <3>2. IsFiniteSet(B(i))
      BY <1>2, <2>1
    <3> HIDE DEF B
    <3>3. Cardinality(B(i) \cup {i}) = Cardinality(B(i)) + 1
      BY <2>1, <3>2, FS_AddElement
    <3> QED
      BY <2>2, <3>1, <3>3
  <2>3. CASE i \notin C
    <3>1. B(i + 1) = B(i)
      BY <2>1, <2>3
    <3>2. Cardinality(B(i)) \in Nat
      BY <1>2, <2>1
    <3> HIDE DEF B
    <3> QED
      BY <2>3, <3>1, <3>2
  <2> QED
    BY <2>2, <2>3
<1>7. B(n + 1) = C
  OBVIOUS
<1>8. Cardinality(C) \in Nat
  BY <1>1, FS_CardinalityType
<1> QED
  BY <1>2, <1>3, <1>5, <1>6, <1>7, <1>8

\* The commas in front of a place number the parts.
LEMMA SpecAtFacts ==
  ASSUME NEW S, NEW wire \in Seq(S)
  PROVE  /\ Len(wire) \in Nat /\ DOMAIN wire = 1 .. Len(wire)
         /\ \A i \in Int : SpecAt(wire, i) \in Nat \ {0}
         /\ \A i, j \in Int : i <= j => SpecAt(wire, i) <= SpecAt(wire, j)
         /\ SpecAt(wire, 1) = 1
         /\ \A i \in 1 .. Len(wire) :
               SpecAt(wire, i + 1) = IF wire[i] = "," THEN SpecAt(wire, i) + 1 ELSE SpecAt(wire, i)
         /\ Cardinality(Commas(wire)) \in Nat
         /\ SpecAt(wire, Len(wire) + 1) = 1 + Cardinality(Commas(wire))
<1> DEFINE n == Len(wire)
           C == Commas(wire)
           B(i) == Cardinality({j \in C : j < i})
<1>1. n \in Nat /\ DOMAIN wire = 1 .. n
  OBVIOUS
<1>2. C = {i \in 1 .. n : wire[i] = ","}
  BY <1>1 DEF Commas
<1>3. /\ \A c \in C : c \in Int /\ 1 <= c /\ c <= n
      /\ \A i \in 1 .. n : i \in C <=> wire[i] = ","
  <2>1. \A i \in 1 .. n : i \in Int /\ 1 <= i /\ i <= n
    BY <1>1
  <2>2. C \subseteq 1 .. n
    BY <1>2
  <2> QED
    BY <1>2, <2>1, <2>2
<1>4. \A i : SpecAt(wire, i) = 1 + B(i)
  BY DEF SpecAt
<1> HIDE DEF C, n
<1>5. /\ Cardinality(C) \in Nat
      /\ \A i \in Int : B(i) \in Nat
      /\ \A i, j \in Int : i <= j => B(i) <= B(j)
      /\ B(1) = 0
      /\ \A i \in 1 .. n : B(i + 1) = B(i) + IF i \in C THEN 1 ELSE 0
      /\ B(n + 1) = Cardinality(C)
  BY <1>1, <1>3, CountsBelow
<1> HIDE DEF B
<1>6. ASSUME NEW i \in Int, NEW j \in Int, i <= j PROVE SpecAt(wire, i) <= SpecAt(wire, j)
  BY <1>4, <1>5, <1>6
<1>7. SpecAt(wire, 1) = 1
  BY <1>4, <1>5
<1>8. ASSUME NEW i \in 1 .. n
      PROVE  SpecAt(wire, i + 1) = IF wire[i] = "," THEN SpecAt(wire, i) + 1 ELSE SpecAt(wire, i)
  <2>1. i \in Int
    BY <1>1
  <2>2. B(i) \in Nat
    BY <1>5, <2>1
  <2>3. B(i + 1) = B(i) + IF wire[i] = "," THEN 1 ELSE 0
    BY <1>3, <1>5
  <2>4. SpecAt(wire, i + 1) = 1 + B(i + 1) /\ SpecAt(wire, i) = 1 + B(i)
    BY <1>4
  <2> DEFINE b == B(i)
             next == B(i + 1)
             here == SpecAt(wire, i)
             then == SpecAt(wire, i + 1)
  <2>5. b \in Nat /\ here = 1 + b /\ then = 1 + next
    BY <2>2, <2>4
  <2>6. CASE wire[i] = ","
    <3>1. next = b + 1
      BY <2>3, <2>6
    <3> HIDE DEF b, next, here, then
    <3>2. then = here + 1
      BY <2>5, <3>1
    <3> QED
      BY <2>6, <3>2 DEF then, here
  <2>7. CASE wire[i] # ","
    <3>1. next = b + 0
      BY <2>3, <2>7
    <3> HIDE DEF b, next, here, then
    <3>2. then = here
      BY <2>5, <3>1
    <3> QED
      BY <2>7, <3>2 DEF then, here
  <2> QED
    BY <2>6, <2>7
<1>9. SpecAt(wire, n + 1) = 1 + Cardinality(C)
  BY <1>4, <1>5
<1>10. ASSUME NEW i \in Int PROVE SpecAt(wire, i) \in Nat \ {0}
  <2>1. B(i) \in Nat /\ SpecAt(wire, i) = 1 + B(i)
    BY <1>4, <1>5
  <2> QED
    BY <2>1
<1> QED
  BY <1>1, <1>5, <1>6, <1>7, <1>8, <1>9, <1>10 DEF C, n

\* The part that is read here place i.
LEMMA SpecsFacts ==
  ASSUME NEW S, NEW wire \in Seq(S), NEW i \in 1 .. Len(wire) + 1
  PROVE  LET k == SpecAt(wire, i)
         IN /\ k \in DOMAIN Specs(wire)
            /\ Specs(wire)[k] = {j \in 1 .. Len(wire) : wire[j] \notin {",", " "} /\ SpecAt(wire, j) = k}
<1> DEFINE k == SpecAt(wire, i)
           all == 1 + Cardinality(Commas(wire))
<1>0. Len(wire) \in Nat /\ i \in Int /\ Len(wire) + 1 \in Int /\ i <= Len(wire) + 1
  OBVIOUS
<1>1. /\ DOMAIN wire = 1 .. Len(wire)
      /\ k \in Nat \ {0} /\ Cardinality(Commas(wire)) \in Nat
      /\ SpecAt(wire, Len(wire) + 1) = all
      /\ k <= SpecAt(wire, Len(wire) + 1)
  BY <1>0, SpecAtFacts
<1>2. k \in 1 .. all
  BY <1>1
<1>3. DOMAIN Specs(wire) = 1 .. all
  BY DEF Specs
<1>4. Specs(wire)[k] = {j \in DOMAIN wire : wire[j] \notin {",", " "} /\ SpecAt(wire, j) = k}
  BY <1>2 DEF Specs
<1> QED
  BY <1>1, <1>2, <1>3, <1>4

\* What is in order has one dash, and digits on both sides of it.
LEMMA InOrderFacts ==
  ASSUME NEW S, NEW wire \in Seq(S), NEW spec \in SUBSET (1 .. Len(wire)), InOrder(wire, spec)
  PROVE  \E d \in spec :
            /\ Dashes(wire, spec) = {d} /\ wire[d] = "-"
            /\ FirstOf(wire, spec) = {i \in spec : i < d} /\ LastOf(wire, spec) = {i \in spec : i > d}
            /\ \A i \in spec : i # d => i \in Digits(wire)
            /\ FirstOf(wire, spec) \subseteq Digits(wire) /\ LastOf(wire, spec) \subseteq Digits(wire)
            /\ FirstOf(wire, spec) # {} \/ LastOf(wire, spec) # {}
<1>1. PICK d \in spec : Dashes(wire, spec) = {d} /\ spec # {d}
  BY DEF InOrder
<1>2. /\ FirstOf(wire, spec) = {i \in spec : i < d} /\ LastOf(wire, spec) = {i \in spec : i > d}
      /\ wire[d] = "-"
  BY <1>1 DEF FirstOf, LastOf, Dashes
<1>3. \A i \in spec : i # d => i \in Digits(wire)
  BY <1>1 DEF InOrder, Digits
<1>4. d \in Int /\ \A i \in spec : i \in Int
  OBVIOUS
<1>5. PICK e \in spec : e # d
  BY <1>1
<1>6. e < d \/ e > d
  BY <1>4, <1>5
<1>7. \A i \in spec : i < d \/ i > d => i # d
  BY <1>4
<1> QED
  BY <1>1, <1>2, <1>3, <1>5, <1>6, <1>7

\* What the code makes of two fields is what the part means.
LEMMA ValidatedMeant ==
  ASSUME NEW S, NEW wire \in Seq(S), NEW spec \in SUBSET (1 .. Len(wire)), InOrder(wire, spec),
         NEW length \in Nat, length > 0
  PROVE  LET v == Validated(FieldOf(wire, FirstOf(wire, spec)), FieldOf(wire, LastOf(wire, spec)), length)
             odd == Everything(wire, spec) \/ Unsatisfiable(wire, spec, length)
         IN /\ odd => v.status = IF Everything(wire, spec) THEN "RANGE_NO" ELSE "RANGE_ERR"
            /\ ~odd => /\ v.status = "RANGE_OK"
                       /\ [begin |-> v.begin, end |-> v.end] = Meant(wire, spec, length)
<1> DEFINE begin == FieldOf(wire, FirstOf(wire, spec))
           end == FieldOf(wire, LastOf(wire, spec))
           v == Validated(begin, end, length)
           m == FirstNumber(wire, spec)
           n == LastNumber(wire, spec)
           F == FromEnd(wire, spec)
           T == ToEnd(wire, spec)
           E == Everything(wire, spec)
           U == Unsatisfiable(wire, spec, length)
           meant == Meant(wire, spec, length)
           Result(status, b, e) == [status |-> status, begin |-> b, end |-> e]
<1>1. FirstOf(wire, spec) \subseteq Digits(wire) /\ LastOf(wire, spec) \subseteq Digits(wire) /\ ~(F /\ T)
  BY InOrderFacts DEF FromEnd, ToEnd
<1>2. m \in Nat /\ n \in Nat
  BY <1>1, NumberNat DEF FirstNumber, LastNumber
<1>3. /\ begin = IF F THEN Empty ELSE IF m = 0 THEN Zero ELSE m
      /\ end = IF T THEN Empty ELSE IF n = 0 THEN Zero ELSE n
  BY DEF FieldOf, FromEnd, ToEnd, FirstNumber, LastNumber
<1>4. /\ U <=> IF F THEN n = 0 ELSE m >= length \/ (~T /\ n < m)
      /\ E <=> ~F /\ T /\ m = 0
      /\ meant = IF F THEN [begin |-> length - n, end |-> length - 1]
                 ELSE [begin |-> m, end |-> IF T THEN length - 1 ELSE Lesser(n, length - 1)]
  BY DEF Unsatisfiable, Everything, Meant
<1>5. Zero = 0 - 10 /\ Empty = 0 - 1
  BY DEF Zero, Empty
<1> SUFFICES /\ E \/ U => v.status = IF E THEN "RANGE_NO" ELSE "RANGE_ERR"
             /\ ~(E \/ U) => v.status = "RANGE_OK" /\ [begin |-> v.begin, end |-> v.end] = meant
  OBVIOUS
<1> HIDE DEF begin, end, m, n, F, T, E, U, meant
<1>6. CASE F
  <2>1. ~T /\ begin = Empty /\ begin # Zero /\ ~E
    BY <1>1, <1>3, <1>4, <1>5, <1>6
  <2>2. v = IF end \in {Empty, Zero} THEN Result("RANGE_ERR", begin, end)
            ELSE Result("RANGE_OK", length - end, length - 1)
    BY <1>5, <2>1 DEF Validated
  <2>3. CASE n = 0
    <3>1. end = Zero /\ U
      BY <1>3, <1>4, <1>6, <2>1, <2>3
    <3> QED
      BY <2>1, <2>2, <3>1
  <2>4. CASE n # 0
    <3>1. end = n /\ end \notin {Empty, Zero} /\ ~U
      BY <1>2, <1>3, <1>4, <1>5, <1>6, <2>1, <2>4
    <3> QED
      BY <1>4, <1>6, <2>1, <2>2, <3>1
  <2> QED
    BY <2>3, <2>4
<1>7. CASE ~F /\ m = 0
  <2>1. begin = Zero /\ (E <=> T) /\ ~(~T /\ n < m) /\ ~(m >= length)
    BY <1>2, <1>3, <1>4, <1>7
  <2>2. v = IF end = Empty THEN Result("RANGE_NO", begin, end)
            ELSE Result("RANGE_OK", 0, IF end = Zero THEN 0 ELSE Lesser(end, length - 1))
    BY <1>5, <2>1 DEF Validated
  <2>3. CASE T
    <3>1. end = Empty /\ E
      BY <1>3, <2>1, <2>3
    <3> QED
      BY <2>2, <3>1
  <2>4. CASE ~T
    <3>1. ~E /\ ~U /\ end # Empty
      BY <1>2, <1>3, <1>4, <1>5, <1>7, <2>1, <2>4
    <3>2. (IF end = Zero THEN 0 ELSE Lesser(end, length - 1)) = Lesser(n, length - 1)
      <4>1. CASE n = 0
        <5>1. end = Zero
          BY <1>3, <2>4, <4>1
        <5>2. Lesser(0, length - 1) = 0
          BY DEF Lesser
        <5> QED
          BY <4>1, <5>1, <5>2
      <4>2. CASE n # 0
        <5>1. end = n /\ end # Zero
          BY <1>2, <1>3, <1>5, <2>4, <4>2
        <5> QED
          BY <5>1
      <4> QED
        BY <4>1, <4>2
    <3>3. v = Result("RANGE_OK", 0, Lesser(n, length - 1))
      BY <2>2, <3>1, <3>2
    <3>4. meant = [begin |-> 0, end |-> Lesser(n, length - 1)]
      BY <1>4, <1>7, <2>4
    <3> QED
      BY <3>1, <3>3, <3>4
  <2> QED
    BY <2>3, <2>4
<1>8. CASE ~F /\ m # 0
  <2>1. begin = m /\ begin \notin {Zero, Empty} /\ ~E
    BY <1>2, <1>3, <1>4, <1>5, <1>8
  <2> DEFINE bad == \/ length <= begin
                    \/ end = Zero
                    \/ end # Empty /\ end < length /\ end < begin
             to == IF end = Empty THEN length - 1 ELSE Lesser(end, length - 1)
  <2>2. v = IF bad THEN Result("RANGE_ERR", begin, end) ELSE Result("RANGE_OK", begin, to)
    BY <2>1 DEF Validated
  <2>3. CASE T
    <3>1. end = Empty /\ Empty # Zero /\ (U <=> m >= length)
      BY <1>3, <1>4, <1>5, <1>8, <2>3
    <3>2. (bad <=> U) /\ to = length - 1
      BY <1>2, <2>1, <3>1
    <3>3. meant = [begin |-> m, end |-> length - 1]
      BY <1>4, <1>8, <2>3
    <3> HIDE DEF bad, to
    <3> QED
      BY <2>1, <2>2, <3>2, <3>3
  <2>4. CASE ~T
    <3>1. (U <=> m >= length \/ n < m) /\ meant = [begin |-> m, end |-> Lesser(n, length - 1)]
      BY <1>4, <1>8, <2>4
    <3>2. CASE n = 0
      <4>1. end = Zero /\ U
        BY <1>2, <1>3, <1>8, <2>4, <3>1, <3>2
      <4> QED
        BY <2>1, <2>2, <4>1
    <3>3. CASE n # 0
      <4>1. end = n /\ end # Zero /\ end # Empty
        BY <1>2, <1>3, <1>5, <2>4, <3>3
      <4>2. (bad <=> U) /\ to = Lesser(n, length - 1)
        BY <1>2, <2>1, <3>1, <4>1
      <4> HIDE DEF bad, to
      <4> QED
        BY <2>1, <2>2, <3>1, <4>2
    <3> QED
      BY <3>2, <3>3
  <2> QED
    BY <2>3, <2>4
<1> QED
  BY <1>6, <1>7, <1>8

\* What the first n parts mean.
Meanings(wire, n, length) == [k \in 1 .. n |-> Meant(wire, Specs(wire)[k], length)]

\* One of the first n parts is not sent, and ended the loop.
Refused(s, wire, length, n) ==
  \E k \in 1 .. n :
     /\ k \in Odd(wire, length) /\ \A j \in 1 .. k - 1 : j \notin Odd(wire, length)
     /\ s.status = IF Everything(wire, Specs(wire)[k]) THEN "RANGE_NO" ELSE "RANGE_ERR"
     /\ s.values = Meanings(wire, k - 1, length)

\* Behind the first i places the parts that are over are as they are meant, and
\* the fields have the digits of the part that is read.
Followed(s, wire, length, i) ==
  LET k == SpecAt(wire, i + 1)
      spec == Specs(wire)[k]
  IN /\ s.status = "RANGE_OK" =>
           /\ s.values = Meanings(wire, k - 1, length)
           /\ \A j \in 1 .. k - 1 : j \notin Odd(wire, length)
           /\ s.second <=> \E d \in Dashes(wire, spec) : d <= i
           /\ s.begin = FieldOf(wire, {j \in FirstOf(wire, spec) : j <= i})
           /\ s.end = FieldOf(wire, {j \in LastOf(wire, spec) : j <= i})
     /\ s.status # "RANGE_OK" => Refused(s, wire, length, k - 1)

LEMMA MeaningsNext ==
  ASSUME NEW wire, NEW length, NEW k \in Nat \ {0}
  PROVE  Append(Meanings(wire, k - 1, length), Meant(wire, Specs(wire)[k], length)) = Meanings(wire, k, length)
<1> DEFINE before == Meanings(wire, k - 1, length)
           last == Meant(wire, Specs(wire)[k], length)
           all == Meanings(wire, k, length)
           U == {Meant(wire, Specs(wire)[j], length) : j \in 1 .. k}
<1>1. k - 1 \in Nat /\ \A j \in 1 .. k - 1 : j \in 1 .. k
  OBVIOUS
<1>2. /\ before \in [1 .. k - 1 -> U] /\ all \in [1 .. k -> U] /\ last \in U
      /\ (\A j \in 1 .. k - 1 : all[j] = before[j]) /\ all[k] = last
  BY <1>1 DEF Meanings
<1> HIDE DEF before, all, last, U
<1>3. before \in Seq(U) /\ Len(before) = k - 1 /\ all \in Seq(U) /\ Len(all) = k
  BY <1>1, <1>2
<1>4. Append(before, last) \in Seq(U) /\ Len(Append(before, last)) = k
  BY <1>2, <1>3
<1>5. \A j \in 1 .. k : Append(before, last)[j] = all[j]
  <2> TAKE j \in 1 .. k
  <2>1. CASE j = k
    BY <1>2, <1>3, <2>1
  <2>2. CASE j # k
    <3>1. j \in 1 .. k - 1
      BY <2>2
    <3> QED
      BY <1>2, <1>3, <3>1
  <2> QED
    BY <2>1, <2>2
<1>6. Append(before, last) = all
  BY <1>3, <1>4, <1>5
<1> QED
  BY <1>6 DEF before, all, last

\* At a comma, and at the end.
LEMMA EndRangeMeant ==
  ASSUME NEW S, NEW wire \in Seq(S), NEW length \in Nat, length > 0,
         NEW k \in DOMAIN Specs(wire), k \in Nat \ {0}, Specs(wire)[k] \in SUBSET (1 .. Len(wire)),
         InOrder(wire, Specs(wire)[k]),
         NEW s \in Reader, s.status = "RANGE_OK", s.values = Meanings(wire, k - 1, length),
         \A j \in 1 .. k - 1 : j \notin Odd(wire, length),
         s.begin = FieldOf(wire, FirstOf(wire, Specs(wire)[k])),
         s.end = FieldOf(wire, LastOf(wire, Specs(wire)[k]))
  PROVE  LET n == EndRange(s, length)
         IN \/ /\ k \notin Odd(wire, length)
               /\ n = [Start EXCEPT !.values = Meanings(wire, k, length)]
            \/ n.status # "RANGE_OK" /\ Refused(n, wire, length, k)
<1> DEFINE spec == Specs(wire)[k]
           v == Validated(s.begin, s.end, length)
           n == EndRange(s, length)
           odd == Everything(wire, spec) \/ Unsatisfiable(wire, spec, length)
<1>1. /\ odd => v.status = IF Everything(wire, spec) THEN "RANGE_NO" ELSE "RANGE_ERR"
      /\ ~odd => v.status = "RANGE_OK" /\ [begin |-> v.begin, end |-> v.end] = Meant(wire, spec, length)
  BY ValidatedMeant
<1>2. k \in Odd(wire, length) <=> odd
  BY DEF Odd
<1>3. n = IF v.status # "RANGE_OK" THEN [s EXCEPT !.status = v.status]
          ELSE [Start EXCEPT !.values = Append(s.values, [begin |-> v.begin, end |-> v.end])]
  BY DEF EndRange
<1> HIDE DEF v, n, odd
<1>4. CASE odd
  <2>1. v.status # "RANGE_OK" /\ n = [s EXCEPT !.status = v.status]
    BY <1>1, <1>3, <1>4
  <2>2. n.status = v.status /\ n.values = s.values
    BY <2>1 DEF Reader
  <2>3. k \in 1 .. k
    OBVIOUS
  <2>4. Refused(n, wire, length, k)
    BY <1>1, <1>2, <1>4, <2>2, <2>3 DEF Refused
  <2> QED
    BY <2>1, <2>2, <2>4 DEF n
<1>5. CASE ~odd
  <2>1. n = [Start EXCEPT !.values = Append(s.values, Meant(wire, spec, length))]
    BY <1>1, <1>3, <1>5
  <2>2. Append(s.values, Meant(wire, spec, length)) = Meanings(wire, k, length)
    BY MeaningsNext
  <2> QED
    BY <1>2, <1>5, <2>1, <2>2 DEF n
<1> QED
  BY <1>4, <1>5

\* A place and its neighbours, and the members of a set before a place.
LEMMA Places ==
  ASSUME NEW i \in Int, NEW j \in Int
  PROVE  /\ j # i => (j <= i <=> j <= i - 1)
         /\ j < i <=> j <= i - 1
         /\ j > i <=> ~(j <= i)
         /\ i > j <=> ~(i <= j)
         /\ ~(j <= i - 1) /\ j # i => i + 1 <= j
  OBVIOUS

LEMMA UpTo ==
  ASSUME NEW i \in Int, NEW P, \A x \in P : x \in Int
  PROVE  /\ i \notin P => {x \in P : x <= i} = {x \in P : x <= i - 1}
         /\ i \in P => {x \in P : x <= i} = {x \in P : x <= i - 1} \cup {i}
         /\ \A x \in {y \in P : y <= i - 1} : x < i
<1>1. \A x \in P : (x # i => (x <= i <=> x <= i - 1)) /\ (x < i <=> x <= i - 1)
  BY Places
<1>2. i <= i
  OBVIOUS
<1> QED
  BY <1>1, <1>2

LEMMA Growing ==
  ASSUME NEW k \in Nat, NEW m \in Nat
  PROVE  (m = k => ~(k + 1 <= m)) /\ (m = k + 1 => ~(m <= k))
  OBVIOUS

\* The part that is read at a place, whatever comes at the place.
LEMMA MeantParts ==
  ASSUME NEW S, NEW wire \in Seq(S), NEW length \in Nat, HasMeaning(wire, length), NEW i \in 1 .. Len(wire) + 1
  PROVE  LET k == SpecAt(wire, i)
             spec == Specs(wire)[k]
         IN /\ k \in Nat \ {0} /\ k \in DOMAIN Specs(wire)
            /\ spec \in SUBSET (1 .. Len(wire)) /\ \A j \in spec : j \in Int
            /\ \A j \in 1 .. Len(wire) : j \in spec <=> wire[j] \notin {",", " "} /\ SpecAt(wire, j) = k
            /\ InOrder(wire, spec)
<1> DEFINE k == SpecAt(wire, i)
           spec == Specs(wire)[k]
<1>1. i \in Int
  OBVIOUS
<1>2. /\ k \in Nat \ {0} /\ k \in DOMAIN Specs(wire)
      /\ spec = {j \in 1 .. Len(wire) : wire[j] \notin {",", " "} /\ SpecAt(wire, j) = k}
  BY <1>1, SpecAtFacts, SpecsFacts
<1>3. InOrder(wire, spec)
  BY <1>2 DEF HasMeaning
<1>4. \A j \in 1 .. Len(wire) : j \in Int
  OBVIOUS
<1> QED
  BY <1>2, <1>3, <1>4

\* The loop starts with nothing read.
LEMMA FollowedStart ==
  ASSUME NEW S, NEW wire \in Seq(S), NEW length \in Nat, HasMeaning(wire, length)
  PROVE  Followed(Start, wire, length, 0)
<1> DEFINE k == SpecAt(wire, 1)
           spec == Specs(wire)[k]
<1>1. k = 1 /\ Len(wire) \in Nat
  BY SpecAtFacts
<1>2. spec \in SUBSET (1 .. Len(wire)) /\ InOrder(wire, spec)
  <2>1. 1 \in 1 .. Len(wire) + 1
    BY <1>1
  <2> QED
    BY <2>1, MeantParts
<1>3. \A j \in spec : ~(j <= 0)
  BY <1>1, <1>2
<1> HIDE DEF spec
<1>4. /\ {j \in FirstOf(wire, spec) : j <= 0} = {} /\ {j \in LastOf(wire, spec) : j <= 0} = {}
      /\ ~ \E d \in Dashes(wire, spec) : d <= 0
  BY <1>3 DEF FirstOf, LastOf, Dashes
<1>5. /\ Start.status = "RANGE_OK" /\ Start.values = <<>> /\ Start.begin = Empty /\ Start.end = Empty
      /\ Start.second = FALSE
  BY DEF Start
<1>6. Meanings(wire, 0, length) = <<>> /\ \A j \in 1 .. 0 : j \notin Odd(wire, length)
  BY DEF Meanings
<1>7. FieldOf(wire, {}) = Empty
  BY DEF FieldOf
<1>8. 0 + 1 = 1 /\ k - 1 = 0
  BY <1>1
<1> HIDE DEF k
<1> QED
  BY <1>4, <1>5, <1>6, <1>7, <1>8 DEF Followed, spec, k

\* Behind a comma: the part before it is refused, or nothing of the next is read.
LEMMA FollowedBehind ==
  ASSUME NEW wire, NEW length, NEW i, NEW k \in Nat, SpecAt(wire, i + 1) = k + 1, NEW n,
         \/ n.status # "RANGE_OK" /\ Refused(n, wire, length, k)
         \/ /\ n.status = "RANGE_OK" /\ n.values = Meanings(wire, k, length)
            /\ n.begin = Empty /\ n.end = Empty /\ n.second = FALSE
            /\ \A j \in 1 .. k : j \notin Odd(wire, length)
            /\ {j \in FirstOf(wire, Specs(wire)[k + 1]) : j <= i} = {}
            /\ {j \in LastOf(wire, Specs(wire)[k + 1]) : j <= i} = {}
            /\ ~ \E d \in Dashes(wire, Specs(wire)[k + 1]) : d <= i
  PROVE  Followed(n, wire, length, i)
<1>1. k + 1 - 1 = k
  OBVIOUS
<1>2. FieldOf(wire, {}) = Empty
  BY DEF FieldOf
<1>3. CASE n.status # "RANGE_OK" /\ Refused(n, wire, length, k)
  BY <1>1, <1>3 DEF Followed
<1>4. CASE n.status = "RANGE_OK"
  BY <1>1, <1>2, <1>4 DEF Followed
<1> QED
  BY <1>3, <1>4

\* A comma ends a part; nothing of the next one is behind it.
LEMMA FollowedComma ==
  ASSUME NEW S, NEW wire \in Seq(S), NEW length \in Nat, HasMeaning(wire, length),
         NEW i \in Int, 1 <= i, i <= Len(wire), i \in Commas(wire),
         NEW s \in Reader, Followed(s, wire, length, i - 1), s.status = "RANGE_OK"
  PROVE  Followed(ReadChar(s, wire[i], length), wire, length, i)
<1> DEFINE k == SpecAt(wire, i)
           spec == Specs(wire)[k]
           next == Specs(wire)[k + 1]
           n == ReadChar(s, wire[i], length)
<1>0. Len(wire) \in Nat
  OBVIOUS
<1>1. /\ i \in 1 .. Len(wire) /\ i + 1 \in Int /\ i \in 1 .. Len(wire) + 1 /\ i + 1 \in 1 .. Len(wire) + 1
      /\ i - 1 + 1 = i
  BY <1>0
<1>a. wire[i] = ","
  BY DEF Commas
<1>2. SpecAt(wire, i + 1) = k + 1
  BY <1>1, <1>a, SpecAtFacts
<1>3. /\ k \in Nat \ {0} /\ k \in DOMAIN Specs(wire)
      /\ spec \in SUBSET (1 .. Len(wire)) /\ \A j \in spec : j \in Int
      /\ \A j \in 1 .. Len(wire) : j \in spec <=> wire[j] \notin {",", " "} /\ SpecAt(wire, j) = k
      /\ InOrder(wire, spec)
  BY <1>1, MeantParts
<1>4. /\ next \in SUBSET (1 .. Len(wire)) /\ \A j \in next : j \in Int
      /\ \A j \in 1 .. Len(wire) : j \in next <=> wire[j] \notin {",", " "} /\ SpecAt(wire, j) = k + 1
  BY <1>1, <1>2, MeantParts
<1>5. \A j \in spec : j <= i - 1
  <2> SUFFICES ASSUME NEW j \in spec, ~(j <= i - 1) PROVE FALSE
    OBVIOUS
  <2>1. j \in 1 .. Len(wire) /\ j \in Int /\ wire[j] \notin {",", " "} /\ SpecAt(wire, j) = k
    BY <1>3
  <2>2. j # i
    BY <1>a, <2>1
  <2>0. j \in Int /\ k \in Nat
    BY <1>3, <2>1
  <2> HIDE DEF spec, k
  <2>3. i + 1 <= j
    BY <2>0, <2>2, Places
  <2>4. SpecAt(wire, i + 1) <= SpecAt(wire, j)
    BY <1>1, <2>1, <2>3, SpecAtFacts
  <2> QED
    BY <1>2, <2>0, <2>1, <2>4, Growing
<1>6. \A j \in next : ~(j <= i)
  <2> SUFFICES ASSUME NEW j \in next, j <= i PROVE FALSE
    OBVIOUS
  <2>1. j \in Int /\ SpecAt(wire, j) = k + 1
    BY <1>4
  <2>2. SpecAt(wire, j) <= k /\ k \in Nat
    BY <1>1, <2>1, SpecAtFacts
  <2> HIDE DEF k
  <2> QED
    BY <2>1, <2>2, Growing
<1> HIDE DEF k
<1>7. /\ {j \in FirstOf(wire, spec) : j <= i - 1} = FirstOf(wire, spec)
      /\ {j \in LastOf(wire, spec) : j <= i - 1} = LastOf(wire, spec)
  BY <1>5 DEF FirstOf, LastOf
<1>8. /\ {j \in FirstOf(wire, next) : j <= i} = {} /\ {j \in LastOf(wire, next) : j <= i} = {}
      /\ ~ \E d \in Dashes(wire, next) : d <= i
  BY <1>6 DEF FirstOf, LastOf, Dashes
<1>9. /\ s.values = Meanings(wire, k - 1, length) /\ \A j \in 1 .. k - 1 : j \notin Odd(wire, length)
      /\ s.begin = FieldOf(wire, FirstOf(wire, spec)) /\ s.end = FieldOf(wire, LastOf(wire, spec))
  BY <1>1, <1>7 DEF Followed, k
<1>10. n = EndRange(s, length)
  BY <1>a DEF ReadChar, Digit
<1>11. length > 0
  BY DEF HasMeaning
<1>12. \/ /\ k \notin Odd(wire, length)
          /\ n = [Start EXCEPT !.values = Meanings(wire, k, length)]
       \/ n.status # "RANGE_OK" /\ Refused(n, wire, length, k)
  <2>1. k \in Nat \ {0} /\ k \in DOMAIN Specs(wire) /\ spec \in SUBSET (1 .. Len(wire)) /\ InOrder(wire, spec)
    BY <1>3
  <2> QED
    BY <1>9, <1>10, <1>11, <2>1, EndRangeMeant
<1> SUFFICES Followed(n, wire, length, i)
  OBVIOUS
<1> HIDE DEF spec, next, n
<1>13. k \in Nat /\ \A j \in 1 .. k : j \in 1 .. k - 1 \/ j = k
  <2>1. k \in Nat \ {0}
    BY <1>3
  <2> QED
    BY <2>1
<1>14. CASE n.status # "RANGE_OK" /\ Refused(n, wire, length, k)
  BY <1>2, <1>13, <1>14, FollowedBehind
<1>15. CASE k \notin Odd(wire, length) /\ n = [Start EXCEPT !.values = Meanings(wire, k, length)]
  <2>1. /\ n.status = "RANGE_OK" /\ n.values = Meanings(wire, k, length)
        /\ n.begin = Empty /\ n.end = Empty /\ n.second = FALSE
    BY <1>15 DEF Start
  <2>2. \A j \in 1 .. k : j \notin Odd(wire, length)
    BY <1>9, <1>13, <1>15
  <2> QED
    BY <1>2, <1>8, <1>13, <2>1, <2>2, FollowedBehind DEF next
<1> QED
  BY <1>12, <1>14, <1>15

\* Any other character belongs to the part that is read, or is a blank.
LEMMA FollowedInside ==
  ASSUME NEW S, NEW wire \in Seq(S), NEW length \in Nat, HasMeaning(wire, length),
         NEW i \in Int, 1 <= i, i <= Len(wire), i \notin Commas(wire),
         NEW s \in Reader, Followed(s, wire, length, i - 1), s.status = "RANGE_OK"
  PROVE  Followed(ReadChar(s, wire[i], length), wire, length, i)
<1> DEFINE k == SpecAt(wire, i)
           spec == Specs(wire)[k]
           c == wire[i]
           n == ReadChar(s, c, length)
           F == FirstOf(wire, spec)
           L == LastOf(wire, spec)
           D == Dashes(wire, spec)
           Read(P, j) == FieldOf(wire, {x \in P : x <= j})
<1>0. Len(wire) \in Nat
  OBVIOUS
<1>1. i \in 1 .. Len(wire) /\ i \in 1 .. Len(wire) + 1 /\ i - 1 + 1 = i
  BY <1>0
<1>a. c # ","
  <2>1. i \in DOMAIN wire
    BY <1>1, SpecAtFacts
  <2> QED
    BY <2>1 DEF Commas
<1>2. SpecAt(wire, i + 1) = k
  BY <1>1, <1>a, SpecAtFacts
<1>3. /\ spec \in SUBSET (1 .. Len(wire)) /\ \A j \in spec : j \in Int
      /\ i \in spec <=> c # " "
      /\ InOrder(wire, spec)
  BY <1>1, <1>a, MeantParts
<1>4. PICK d \in spec :
            /\ D = {d} /\ wire[d] = "-"
            /\ F = {j \in spec : j < d} /\ L = {j \in spec : j > d}
            /\ \A j \in spec : j # d => j \in Digits(wire)
            /\ F \subseteq Digits(wire) /\ L \subseteq Digits(wire)
  BY <1>3, InOrderFacts
<1>5. d \in Int
  BY <1>3
<1>6. /\ s.values = Meanings(wire, k - 1, length) /\ \A j \in 1 .. k - 1 : j \notin Odd(wire, length)
      /\ s.second <=> d <= i - 1
      /\ s.begin = Read(F, i - 1) /\ s.end = Read(L, i - 1)
  BY <1>1, <1>4 DEF Followed
<1>7. s.second \in BOOLEAN
  BY ReaderFields
<1> HIDE DEF k, F, L, D, c, n
<1> SUFFICES /\ n.status = "RANGE_OK" /\ n.values = s.values
             /\ n.second <=> d <= i
             /\ n.begin = Read(F, i) /\ n.end = Read(L, i)
  <2>1. (\E e \in D : e <= i) <=> d <= i
    BY <1>4
  <2> HIDE DEF spec
  <2> QED
    BY <1>2, <1>6, <2>1 DEF Followed, n, c, F, L, D, spec, k
<1> HIDE DEF spec
<1>b. \A P : P \subseteq spec => \A x \in P : x \in Int
  BY <1>3
<1>8. \A P : P \subseteq spec /\ i \notin P => Read(P, i) = Read(P, i - 1)
  BY <1>b, UpTo
<1>9. \A P : P \subseteq spec /\ i \in P => {x \in P : x <= i} = {x \in P : x <= i - 1} \cup {i}
  BY <1>b, UpTo
<1>10. \A P : P \subseteq spec /\ P \subseteq Digits(wire) /\ i \in P => AddDigit(Read(P, i - 1), c) = Read(P, i)
  <2> SUFFICES ASSUME NEW P, P \subseteq spec, P \subseteq Digits(wire), i \in P
               PROVE  AddDigit(Read(P, i - 1), c) = Read(P, i)
    OBVIOUS
  <2> DEFINE Q == {x \in P : x <= i - 1}
  <2>1. Q \in SUBSET Digits(wire) /\ i \in Digits(wire)
    OBVIOUS
  <2>2. \A x \in Q : x < i
    BY <1>b, UpTo
  <2>3. AddDigit(FieldOf(wire, Q), wire[i]) = FieldOf(wire, Q \cup {i})
    BY <2>1, <2>2, FieldNext
  <2> QED
    BY <1>9, <2>3 DEF c
<1>11. F \subseteq spec /\ L \subseteq spec
  BY <1>4
<1>12. CASE c = " "
  <2>1. n = s
    BY <1>12 DEF ReadChar, Digit, n
  <2>2. i \notin spec /\ i # d
    BY <1>3, <1>4, <1>12
  <2>3. d <= i <=> d <= i - 1
    BY <1>5, <2>2, Places
  <2> QED
    BY <1>6, <1>8, <1>11, <2>1, <2>2, <2>3
<1>13. CASE i = d
  <2>1. c = "-"
    BY <1>4, <1>13 DEF c
  <2>2. n = [s EXCEPT !.second = TRUE]
    BY <2>1 DEF ReadChar, Digit, n
  <2>3. /\ n.status = s.status /\ n.values = s.values /\ n.begin = s.begin /\ n.end = s.end
        /\ n.second = TRUE
    BY <2>2 DEF Reader
  <2>6. d <= i /\ ~(d < d) /\ ~(d > d)
    BY <1>5, <1>13
  <2>4. i \notin F /\ i \notin L /\ d <= i
    BY <1>4, <1>13, <2>6
  <2> QED
    BY <1>6, <1>8, <1>11, <2>3, <2>4
<1>14. CASE c # " " /\ i # d
  <2>1. i \in spec /\ i \in Digits(wire) /\ c \in DOMAIN Digit
    BY <1>3, <1>4, <1>14 DEF Digits, c
  <2>2. n = [s EXCEPT ![Field(s)] = AddDigit(@, c)]
    BY <2>1 DEF ReadChar, n, Digit
  <2>3. d <= i <=> d <= i - 1
    BY <1>5, <1>14, Places
  <2>4. CASE s.second
    <3>5. d <= i - 1
      BY <1>6, <2>4
    <3>6. d < i /\ i > d /\ ~(i < d)
      BY <1>5, <3>5
    <3>1. i \in L /\ i \notin F
      BY <1>4, <2>1, <3>6
    <3>2. n = [s EXCEPT !["end"] = AddDigit(s.end, c)]
      BY <2>2, <2>4, ReaderFields DEF Field
    <3>3. AddDigit(s.end, c) = Read(L, i) /\ s.begin = Read(F, i)
      BY <1>4, <1>6, <1>8, <1>10, <1>11, <3>1
    <3>4. /\ n.status = s.status /\ n.values = s.values /\ n.begin = s.begin /\ n.second = s.second
          /\ n.end = AddDigit(s.end, c)
      BY <3>2 DEF Reader
    <3> QED
      BY <1>6, <2>3, <3>3, <3>4
  <2>5. CASE ~s.second
    <3>5. ~(d <= i - 1)
      BY <1>6, <2>5
    <3>7. i # d
      BY <1>14
    <3>6. i < d /\ ~(i > d)
      BY <1>5, <3>5, <3>7
    <3>1. i \in F /\ i \notin L
      BY <1>4, <2>1, <3>6
    <3>2. n = [s EXCEPT !["begin"] = AddDigit(s.begin, c)]
      BY <2>2, <2>5, ReaderFields DEF Field
    <3>3. AddDigit(s.begin, c) = Read(F, i) /\ s.end = Read(L, i)
      BY <1>4, <1>6, <1>8, <1>10, <1>11, <3>1
    <3>4. /\ n.status = s.status /\ n.values = s.values /\ n.end = s.end /\ n.second = s.second
          /\ n.begin = AddDigit(s.begin, c)
      BY <3>2 DEF Reader
    <3> QED
      BY <1>6, <2>3, <3>3, <3>4
  <2> QED
    BY <2>4, <2>5
<1> QED
  BY <1>12, <1>13, <1>14

\* What is refused stays refused.
LEMMA RefusedNext ==
  ASSUME NEW s, NEW wire, NEW length, NEW n \in Nat, Refused(s, wire, length, n)
  PROVE  Refused(s, wire, length, n + 1)
<1>1. \A k \in 1 .. n : k \in 1 .. n + 1
  OBVIOUS
<1> QED
  BY <1>1 DEF Refused

LEMMA FollowedStop ==
  ASSUME NEW S, NEW wire \in Seq(S), NEW length \in Nat, NEW i \in Int, 1 <= i, i <= Len(wire),
         NEW s, Followed(s, wire, length, i - 1), s.status # "RANGE_OK"
  PROVE  Followed(s, wire, length, i)
<1> DEFINE k == SpecAt(wire, i)
<1>0. Len(wire) \in Nat
  OBVIOUS
<1>1. i \in 1 .. Len(wire) /\ i - 1 + 1 = i
  BY <1>0
<1>2. k \in Nat \ {0} /\ SpecAt(wire, i + 1) \in {k, k + 1}
  BY <1>1, SpecAtFacts
<1>3. Refused(s, wire, length, k - 1)
  BY <1>1 DEF Followed
<1> HIDE DEF k
<1>4. k - 1 \in Nat /\ k - 1 + 1 = k
  <2>1. k \in Nat \ {0}
    BY <1>2
  <2> QED
    BY <2>1
<1>5. Refused(s, wire, length, k)
  BY <1>3, <1>4, RefusedNext
<1>6. k + 1 - 1 = k
  BY <1>4
<1> QED
  BY <1>2, <1>3, <1>5, <1>6 DEF Followed

\* The text the loop reads: the header and a comma.
Closed(text, wire) ==
  /\ Len(text) = Len(wire) + 1
  /\ \A i \in 1 .. Len(wire) : text[i] = wire[i]
  /\ text[Len(wire) + 1] = ","

LEMMA ClosedText ==
  ASSUME NEW S, NEW wire \in Seq(S)
  PROVE  Closed(Append(wire, ","), wire)
<1>1. Len(Append(wire, ",")) = Len(wire) + 1
  OBVIOUS
<1>2. \A i \in 1 .. Len(wire) : Append(wire, ",")[i] = wire[i]
  OBVIOUS
<1>3. Append(wire, ",")[Len(wire) + 1] = ","
  <2> SUFFICES ASSUME NEW c PROVE Append(wire, c)[Len(wire) + 1] = c
    OBVIOUS
  <2> DEFINE U == S \cup {c}
  <2>1. Len(wire) \in Nat /\ \A i \in 1 .. Len(wire) : wire[i] \in U
    OBVIOUS
  <2>2. wire \in Seq(U) /\ c \in U
    BY <2>1
  <2> HIDE DEF U
  <2> QED
    BY <2>2
<1> QED
  BY <1>1, <1>2, <1>3 DEF Closed

\* The loop behind each place of the header, and at the end.
Loops(f, wire, length) ==
  /\ f[0] = Start
  /\ \A i \in 1 .. Len(wire) : f[i] = IF f[i - 1].status # "RANGE_OK" THEN f[i - 1]
                                      ELSE ReadChar(f[i - 1], wire[i], length)
  /\ f[Len(wire) + 1] = IF f[Len(wire)].status # "RANGE_OK" THEN f[Len(wire)]
                        ELSE EndRange(f[Len(wire)], length)

LoopsOn(f, length, i, j, c) ==
  f[i] = IF f[j].status # "RANGE_OK" THEN f[j] ELSE ReadChar(f[j], c, length)

LEMMA LoopsThrough ==
  ASSUME NEW S, NEW wire \in Seq(S), NEW length, NEW text, Closed(text, wire),
         NEW f, Reads(f, text, length, Len(text))
  PROVE  Loops(f, wire, length)
<1> DEFINE m == Len(wire)
<1>1. m \in Nat
  OBVIOUS
<1>2. Reads(f, text, length, m + 1)
  BY DEF Closed
<1> HIDE DEF m
<1>3. 0 \in 0 .. m + 1 /\ \A i \in 1 .. m + 1 : i \in 0 .. m + 1 /\ i # 0
  BY <1>1
<1>4. f[0] = Start /\ \A i \in 1 .. m + 1 : LoopsOn(f, length, i, i - 1, text[i])
  BY <1>2, <1>3 DEF Reads, LoopsOn
<1>5. \A i \in 1 .. m : i \in 1 .. m + 1
  BY <1>1
<1>6. \A i \in 1 .. m : LoopsOn(f, length, i, i - 1, wire[i])
  BY <1>4, <1>5 DEF Closed, m
<1>7. LoopsOn(f, length, m + 1, m, ",")
  <2> DEFINE e == m + 1
  <2>1. \A i \in 1 .. e : LoopsOn(f, length, i, i - 1, text[i])
    BY <1>4
  <2>2. e \in 1 .. e /\ e - 1 = m
    BY <1>1
  <2>3. text[e] = ","
    BY DEF Closed, m
  <2> HIDE DEF e
  <2>4. LoopsOn(f, length, e, e - 1, text[e])
    BY <2>1, <2>2
  <2>5. LoopsOn(f, length, e, m, ",")
    BY <2>2, <2>3, <2>4
  <2> QED
    BY <2>5 DEF e
<1>8. \A s : ReadChar(s, ",", length) = EndRange(s, length)
  BY DEF ReadChar, Digit
<1>9. f[m + 1] = IF f[m].status # "RANGE_OK" THEN f[m] ELSE EndRange(f[m], length)
  BY <1>7, <1>8 DEF LoopsOn
<1> QED
  BY <1>4, <1>6, <1>9 DEF Loops, LoopsOn, m

\* The whole header, before the end of its last part.
LEMMA RangesFollowed ==
  ASSUME NEW S, NEW wire \in Seq(S), NEW length \in Nat, HasMeaning(wire, length),
         NEW f, Loops(f, wire, length)
  PROVE  f[Len(wire)] \in Reader /\ Followed(f[Len(wire)], wire, length, Len(wire))
<1> DEFINE m == Len(wire)
           Right(i) == /\ f[i] \in Reader /\ Within(f[i].values, length)
                       /\ Followed(f[i], wire, length, i)
           T == {i \in 0 .. m : ~Right(i)}
<1>1. m \in Nat
  OBVIOUS
<1>3. f[0] = Start
  BY DEF Loops
<1>4. \A i \in 1 .. m : f[i] = IF f[i - 1].status # "RANGE_OK" THEN f[i - 1]
                               ELSE ReadChar(f[i - 1], wire[i], length)
  BY DEF Loops
<1>6. Right(0)
  <2>1. Within(<<>>, length)
    BY DEF Within
  <2> QED
    BY <1>3, <2>1, StartFacts, FollowedStart
<1>7. ASSUME NEW i \in Int, 1 <= i, i <= m, Right(i - 1)
      PROVE  Right(i)
  <2> DEFINE s == f[i - 1]
  <2>1. i \in 1 .. m
    BY <1>1, <1>7
  <2>2. s \in Reader /\ Within(s.values, length) /\ Followed(s, wire, length, i - 1)
    BY <1>7
  <2>3. f[i] = IF s.status # "RANGE_OK" THEN s ELSE ReadChar(s, wire[i], length)
    BY <1>4, <2>1
  <2> HIDE DEF s
  <2>4. CASE s.status # "RANGE_OK"
    <3>1. Followed(s, wire, length, i)
      BY <1>7, <2>2, <2>4, FollowedStop
    <3> QED
      BY <2>2, <2>3, <2>4, <3>1
  <2>5. CASE s.status = "RANGE_OK"
    <3>1. CASE i \in Commas(wire)
      BY <1>7, <2>2, <2>3, <2>5, <3>1, FollowedComma, ReadCharFacts
    <3>2. CASE i \notin Commas(wire)
      BY <1>7, <2>2, <2>3, <2>5, <3>2, FollowedInside, ReadCharFacts
    <3> QED
      BY <3>1, <3>2
  <2> QED
    BY <2>4, <2>5
<1> HIDE DEF Right
<1>8. ASSUME NEW i \in T PROVE \E j \in T : j < i
  <2>1. i \in 0 .. m /\ i \in Int /\ ~Right(i)
    OBVIOUS
  <2> HIDE DEF m, T
  <2>2. i # 0
    BY <1>6, <2>1
  <2>3. 1 <= i /\ i <= m /\ i - 1 \in 0 .. m /\ i - 1 < i
    BY <1>1, <2>1, <2>2
  <2>4. ~Right(i - 1)
    BY <1>7, <2>1, <2>3
  <2> QED
    BY <2>3, <2>4 DEF T
<1>9. T = {}
  <2>1. T \subseteq Nat
    BY <1>1
  <2> HIDE DEF T
  <2> QED
    BY <1>8, <2>1, Induction
<1>10. Right(m)
  BY <1>1, <1>9
<1> QED
  BY <1>10 DEF Right

\* The first member of a set of numbers.
LEMMA FirstIsMin ==
  ASSUME NEW O, \A x \in O : x \in Int, NEW k \in O, \A x \in O : k <= x
  PROVE  Min(O) = k
<1>1. \E x \in O : \A y \in O : x <= y
  OBVIOUS
<1>2. Min(O) \in O /\ \A y \in O : Min(O) <= y
  BY <1>1 DEF Min
<1> HIDE DEF Min
<1>3. Min(O) <= k /\ k <= Min(O) /\ Min(O) \in Int /\ k \in Int
  BY <1>2
<1> QED
  BY <1>3

\* The parts are numbered from 1.
LEMMA SpecsNumbered ==
  ASSUME NEW S, NEW wire \in Seq(S), NEW length
  PROVE  LET k == SpecAt(wire, Len(wire) + 1)
         IN /\ k \in Nat \ {0} /\ Len(Specs(wire)) = k /\ DOMAIN Specs(wire) = 1 .. k
            /\ \A j \in Odd(wire, length) : j \in 1 .. k
<1> DEFINE k == SpecAt(wire, Len(wire) + 1)
           all == 1 + Cardinality(Commas(wire))
<1>1. k = all /\ all \in Nat \ {0}
  <2>1. Len(wire) + 1 \in Int
    OBVIOUS
  <2> QED
    BY <2>1, SpecAtFacts
<1> HIDE DEF all, k
<1>2. DOMAIN Specs(wire) = 1 .. all
  BY DEF Specs, all
<1>3. Len(Specs(wire)) = all
  BY <1>1, <1>2
<1>4. \A j \in Odd(wire, length) : j \in DOMAIN Specs(wire)
  BY DEF Odd
<1> QED
  BY <1>1, <1>2, <1>3, <1>4 DEF k

\* The loop of php_http_env_get_request_ranges reads a header of any length as
\* RFC 2616 means it: digits that come before and after "-", with -1 and -10 for
\* no digit and zero, become the ranges, or the first odd one is refused.
THEOREM RangesAsMeant ==
  ASSUME NEW S, NEW wire \in Seq(S), NEW length \in Nat, HasMeaning(wire, length)
  PROVE  GetRequestRanges(wire, length) = MeantRanges(wire, length)
<1> DEFINE text == Append(wire, ",")
           m == Len(wire)
           k == SpecAt(wire, m + 1)
           spec == Specs(wire)[k]
           O == Odd(wire, length)
<1>1. PICK f : /\ Reads(f, text, length, Len(text))
               /\ GetRequestRanges(wire, length) = [status |-> f[Len(text)].status, values |-> f[Len(text)].values]
  BY RangesUnfold
<1>2. Closed(text, wire)
  BY ClosedText
<1>3. Loops(f, wire, length)
  BY <1>1, <1>2, LoopsThrough
<1>4. Len(text) = m + 1
  BY <1>2 DEF Closed
<1> DEFINE s == f[m]
           n == f[m + 1]
<1>5. GetRequestRanges(wire, length) = [status |-> n.status, values |-> n.values]
  BY <1>1, <1>4
<1>6. /\ s \in Reader /\ Followed(s, wire, length, m)
      /\ n = IF s.status # "RANGE_OK" THEN s ELSE EndRange(s, length)
  BY <1>3, RangesFollowed DEF Loops
<1>7. /\ k \in Nat \ {0} /\ Len(Specs(wire)) = k /\ DOMAIN Specs(wire) = 1 .. k
      /\ \A j \in O : j \in 1 .. k
  BY SpecsNumbered
<1>8. k \in DOMAIN Specs(wire) /\ spec \in SUBSET (1 .. m) /\ InOrder(wire, spec)
  <2>1. m + 1 \in 1 .. m + 1
    OBVIOUS
  <2> QED
    BY <2>1, MeantParts
<1>9. k - 1 \in Nat /\ k - 1 + 1 = k
  <2> HIDE DEF k
  <2>1. k \in Nat \ {0}
    BY <1>7
  <2> QED
    BY <2>1
<1> HIDE DEF n, s, text, O
<1>10. \/ n.status = "RANGE_OK" /\ n.values = Meanings(wire, k, length) /\ \A j \in 1 .. k : j \notin O
       \/ Refused(n, wire, length, k)
  <2>1. CASE s.status # "RANGE_OK"
    <3>1. Refused(s, wire, length, k - 1)
      BY <1>6, <2>1 DEF Followed
    <3> HIDE DEF k
    <3> QED
      BY <1>6, <1>9, <2>1, <3>1, RefusedNext
  <2>2. CASE s.status = "RANGE_OK"
    <3>1. \A j \in spec : j <= m
      BY <1>8
    <3>2. /\ {j \in FirstOf(wire, spec) : j <= m} = FirstOf(wire, spec)
          /\ {j \in LastOf(wire, spec) : j <= m} = LastOf(wire, spec)
      BY <3>1 DEF FirstOf, LastOf
    <3>3. /\ s.values = Meanings(wire, k - 1, length) /\ \A j \in 1 .. k - 1 : j \notin O
          /\ s.begin = FieldOf(wire, FirstOf(wire, spec)) /\ s.end = FieldOf(wire, LastOf(wire, spec))
      BY <1>6, <2>2, <3>2 DEF Followed, O
    <3>4. length > 0
      BY DEF HasMeaning
    <3>5. \/ k \notin O /\ EndRange(s, length) = [Start EXCEPT !.values = Meanings(wire, k, length)]
          \/ Refused(EndRange(s, length), wire, length, k)
      BY <1>6, <1>7, <1>8, <2>2, <3>3, <3>4, EndRangeMeant DEF O
    <3> HIDE DEF k
    <3>6. \A j \in 1 .. k : j \in 1 .. k - 1 \/ j = k
      <4>1. k \in Nat \ {0}
        BY <1>7
      <4> QED
        BY <4>1
    <3>7. CASE Refused(EndRange(s, length), wire, length, k)
      BY <1>6, <2>2, <3>7
    <3>8. CASE k \notin O /\ EndRange(s, length) = [Start EXCEPT !.values = Meanings(wire, k, length)]
      <4>1. n = [Start EXCEPT !.values = Meanings(wire, k, length)]
        BY <1>6, <2>2, <3>8
      <4>2. n.status = "RANGE_OK" /\ n.values = Meanings(wire, k, length)
        BY <4>1 DEF Start
      <4>3. \A j \in 1 .. k : j \notin O
        BY <3>3, <3>6, <3>8
      <4> QED
        BY <4>2, <4>3
    <3> QED
      BY <3>5, <3>7, <3>8
  <2> QED
    BY <2>1, <2>2
<1> HIDE DEF k
<1>11. CASE n.status = "RANGE_OK" /\ n.values = Meanings(wire, k, length) /\ \A j \in 1 .. k : j \notin O
  <2>1. O = {}
    BY <1>7, <1>11
  <2>2. MeantRanges(wire, length) = [status |-> "RANGE_OK", values |-> Meanings(wire, k, length)]
    BY <1>7, <2>1 DEF MeantRanges, Meanings, O
  <2> QED
    BY <1>5, <1>11, <2>2
<1>12. CASE Refused(n, wire, length, k)
  <2>1. PICK j \in 1 .. k :
           /\ j \in O /\ \A i \in 1 .. j - 1 : i \notin O
           /\ n.status = IF Everything(wire, Specs(wire)[j]) THEN "RANGE_NO" ELSE "RANGE_ERR"
           /\ n.values = Meanings(wire, j - 1, length)
    BY <1>12 DEF Refused, O
  <2>2. Min(O) = j
    <3>1. k \in Nat
      BY <1>7
    <3>2. \A i \in 1 .. k : i \in Int /\ (i \notin 1 .. j - 1 => j <= i)
      BY <3>1
    <3>3. \A i \in O : i \in Int /\ j <= i
      BY <1>7, <2>1, <3>2
    <3> QED
      BY <2>1, <3>3, FirstIsMin
  <2>3. O # {}
    BY <2>1
  <2>4. MeantRanges(wire, length) =
           [status |-> IF Everything(wire, Specs(wire)[j]) THEN "RANGE_NO" ELSE "RANGE_ERR",
            values |-> Meanings(wire, j - 1, length)]
    BY <2>2, <2>3 DEF MeantRanges, Meanings, O
  <2> QED
    BY <1>5, <2>1, <2>4
<1> QED
  BY <1>10, <1>11, <1>12

-----------------------------------------------------------------------------
(* The output buffer *)

LEMMA DivFacts ==
  ASSUME NEW n \in Nat, NEW c \in Nat \ {0}
  PROVE  LET q == n \div c
         IN q \in Nat /\ q * c \in Nat /\ q * c <= n /\ n < q * c + c
  OBVIOUS

\* A product, a factor at a time.
LEMMA MultFacts ==
  ASSUME NEW k \in Nat, NEW c \in Nat
  PROVE  /\ k * c \in Nat /\ (k + 1) * c = k * c + c
         /\ \A q \in Nat : k <= q => k * c <= q * c
  OBVIOUS

Chunk(data, chunk, i) == SubSeq(data, (i - 1) * chunk + 1, i * chunk)

\* The first k chunks, one by one and in one piece.
FirstChunks(data, chunk, k) == [i \in 1 .. k |-> Chunk(data, chunk, i)]
Leading(data, chunk, k) == SubSeq(data, 1, k * chunk)

LEMMA ChunkType ==
  ASSUME NEW S, NEW data \in Seq(S), NEW chunk \in Nat \ {0},
         NEW k \in Nat, k * chunk <= Len(data), NEW i \in 1 .. k
  PROVE  Chunk(data, chunk, i) \in Seq(S)
<1>1. i \in Nat /\ i - 1 \in Nat /\ i <= k /\ chunk \in Nat /\ (i - 1) + 1 = i
  OBVIOUS
<1>2. k * chunk \in Nat /\ i * chunk <= k * chunk
  BY <1>1, MultFacts
<1>3. (i - 1) * chunk \in Nat /\ i * chunk \in Nat /\ (i - 1) * chunk + chunk = i * chunk
  BY <1>1, MultFacts
<1>4. (i - 1) * chunk + 1 \in Nat \ {0} /\ i * chunk \in 0 .. Len(data)
  BY <1>2, <1>3
<1>5. \A j \in (i - 1) * chunk + 1 .. i * chunk : data[j] \in S
  BY <1>4
<1> QED
  BY <1>4, <1>5, SubSeqProperties DEF Chunk

LEMMA ChunksType ==
  ASSUME NEW S, NEW data \in Seq(S), NEW chunk \in Nat \ {0},
         NEW k \in Nat, k * chunk <= Len(data)
  PROVE  FirstChunks(data, chunk, k) \in Seq(Seq(S))
  BY ChunkType DEF FirstChunks

LEMMA ChunkNext ==
  ASSUME NEW S, NEW data \in Seq(S), NEW chunk \in Nat \ {0},
         NEW j \in Nat, (j + 1) * chunk <= Len(data)
  PROVE  /\ FirstChunks(data, chunk, j) \in Seq(Seq(S))
         /\ Chunk(data, chunk, j + 1) \in Seq(S)
         /\ FirstChunks(data, chunk, j + 1) = Append(FirstChunks(data, chunk, j), Chunk(data, chunk, j + 1))
         /\ Leading(data, chunk, j) \o Chunk(data, chunk, j + 1) = Leading(data, chunk, j + 1)
<1>1. /\ j * chunk \in Nat /\ (j + 1) * chunk \in Nat
      /\ j * chunk + chunk = (j + 1) * chunk /\ j * chunk <= Len(data)
  BY MultFacts
<1>2. FirstChunks(data, chunk, j) \in Seq(Seq(S))
  BY <1>1, ChunksType
<1>3. j + 1 \in Nat /\ \A i \in 1 .. j + 1 : Chunk(data, chunk, i) \in Seq(S)
  <2> DEFINE k == j + 1
  <2>1. k \in Nat /\ k * chunk <= Len(data)
    OBVIOUS
  <2> HIDE DEF k
  <2>2. \A i \in 1 .. k : Chunk(data, chunk, i) \in Seq(S)
    BY <2>1, ChunkType
  <2> QED
    BY <2>2 DEF k
<1>4. FirstChunks(data, chunk, j + 1) = Append(FirstChunks(data, chunk, j), Chunk(data, chunk, j + 1))
  <2> DEFINE C(i) == Chunk(data, chunk, i)
  <2> HIDE DEF C
  <2>1. [i \in 1 .. j + 1 |-> C(i)] = Append([i \in 1 .. j |-> C(i)], C(j + 1))
    BY <1>3 DEF C
  <2> QED
    BY <2>1 DEF C, FirstChunks
<1>5. Leading(data, chunk, j) \o Chunk(data, chunk, j + 1) = Leading(data, chunk, j + 1)
  <2> DEFINE m == j * chunk
             n == (j + 1) * chunk
  <2>1. (j + 1) - 1 = j
    OBVIOUS
  <2>2. /\ Leading(data, chunk, j) = SubSeq(data, 1, m) /\ Leading(data, chunk, j + 1) = SubSeq(data, 1, n)
        /\ Chunk(data, chunk, j + 1) = SubSeq(data, m + 1, n)
    BY <2>1 DEF Leading, Chunk
  <2>3. 1 \in 1 .. Len(data) + 1 /\ m \in 1 - 1 .. Len(data) /\ n \in m .. Len(data)
    BY <1>1
  <2> HIDE DEF m, n
  <2> QED
    BY <2>2, <2>3, ConcatAdjacentSubSeq
<1> QED
  BY <1>2, <1>3, <1>4, <1>5

\* What is passed on and what is kept is what there was.
LEMMA ChunksJoin ==
  ASSUME NEW S, NEW data \in Seq(S), NEW chunk \in Nat \ {0}
  PROVE  /\ FullChunks(data, chunk) \in Seq(Seq(S))
         /\ Rest(data, chunk) \in Seq(S) /\ Len(Rest(data, chunk)) < chunk
         /\ FlattenSeq(FullChunks(data, chunk)) \o Rest(data, chunk) = data
<1> DEFINE q == Len(data) \div chunk
           T == {k \in 0 .. q : FlattenSeq(FirstChunks(data, chunk, k)) # Leading(data, chunk, k)}
<1>1. q \in Nat /\ q * chunk \in Nat /\ q * chunk <= Len(data) /\ Len(data) < q * chunk + chunk
  BY DivFacts
<1>2. FullChunks(data, chunk) = FirstChunks(data, chunk, q)
  BY DEF FullChunks, FirstChunks, Chunk
<1>3. Rest(data, chunk) = SubSeq(data, q * chunk + 1, Len(data))
  BY DEF Rest
<1> HIDE DEF q
<1>4. ASSUME NEW k \in 0 .. q PROVE k \in Nat /\ k * chunk <= Len(data) /\ k * chunk \in Nat
  BY <1>1, MultFacts
<1>5. ASSUME NEW k \in T PROVE \E j \in T : j < k
  <2>1. k \in 0 .. q /\ FlattenSeq(FirstChunks(data, chunk, k)) # Leading(data, chunk, k)
    OBVIOUS
  <2>2. k \in Nat /\ k * chunk <= Len(data)
    BY <1>4, <2>1
  <2>3. CASE k = 0
    <3>1. FirstChunks(data, chunk, 0) = <<>>
      BY DEF FirstChunks
    <3>2. Leading(data, chunk, 0) = <<>>
      BY DEF Leading
    <3> QED
      BY <2>1, <2>3, <3>1, <3>2, FlattenEmpty
  <2>4. CASE k # 0
    <3>1. PICK j \in Nat : k = j + 1
      BY <2>2, <2>4
    <3>2. j \in 0 .. q /\ j < k
      BY <1>1, <2>1, <3>1
    <3>3. CASE j \in T
      BY <3>2, <3>3
    <3>4. CASE j \notin T
      <4>1. FlattenSeq(FirstChunks(data, chunk, j)) = Leading(data, chunk, j)
        BY <3>2, <3>4
      <4> HIDE DEF T
      <4>2. (j + 1) * chunk <= Len(data)
        BY <2>2, <3>1
      <4>3. /\ FirstChunks(data, chunk, j) \in Seq(Seq(S))
            /\ Chunk(data, chunk, j + 1) \in Seq(S)
            /\ FirstChunks(data, chunk, j + 1)
                 = Append(FirstChunks(data, chunk, j), Chunk(data, chunk, j + 1))
            /\ Leading(data, chunk, j) \o Chunk(data, chunk, j + 1) = Leading(data, chunk, j + 1)
        BY <4>2, ChunkNext
      <4>4. FlattenSeq(FirstChunks(data, chunk, j + 1)) = Leading(data, chunk, j) \o Chunk(data, chunk, j + 1)
        BY <4>1, <4>3, FlattenAppend
      <4> QED
        BY <2>1, <3>1, <4>3, <4>4
    <3> QED
      BY <3>3, <3>4
  <2> QED
    BY <2>3, <2>4
<1>6. T = {}
  <2>1. T \subseteq Nat
    BY <1>1
  <2> HIDE DEF T
  <2> QED
    BY <1>5, <2>1, Induction
<1>7. FlattenSeq(FullChunks(data, chunk)) = SubSeq(data, 1, q * chunk)
  <2>1. q \in 0 .. q
    BY <1>1
  <2> QED
    BY <1>2, <1>6, <2>1 DEF Leading
<1> HIDE DEF T
<1>8. FullChunks(data, chunk) \in Seq(Seq(S))
  BY <1>1, <1>2, ChunksType
<1>9. Rest(data, chunk) \in Seq(S) /\ Len(Rest(data, chunk)) = Len(data) - q * chunk
  <2> DEFINE a == q * chunk
  <2>1. a \in 0 .. Len(data) /\ Len(data) \in Nat
    BY <1>1
  <2>2. Rest(data, chunk) = SubSeq(data, a + 1, Len(data))
    BY <1>3
  <2> HIDE DEF a
  <2>3. /\ SubSeq(data, a + 1, Len(data)) \in Seq(S)
        /\ Len(SubSeq(data, a + 1, Len(data))) = Len(data) - a
    BY <2>1
  <2> QED
    BY <2>2, <2>3 DEF a
<1>10. SubSeq(data, 1, q * chunk) \o SubSeq(data, q * chunk + 1, Len(data)) = data
  <2>1. /\ 1 \in 1 .. Len(data) + 1 /\ q * chunk \in 1 - 1 .. Len(data)
        /\ Len(data) \in q * chunk .. Len(data)
    BY <1>1
  <2>2. SubSeq(data, 1, Len(data)) = data
    BY SubSeqFull
  <2> QED
    BY <2>1, <2>2, ConcatAdjacentSubSeq
<1>11. Len(data) - q * chunk < chunk
  <2>1. Len(data) \in Nat
    OBVIOUS
  <2> QED
    BY <1>1, <2>1
<1> QED
  BY <1>3, <1>7, <1>8, <1>9, <1>10, <1>11

-----------------------------------------------------------------------------
(* The parts of the state *)

LEMMA SizeFacts ==
  /\ Sizes \subseteq Nat /\ MaxSize \in Nat /\ \A n \in Sizes : n <= MaxSize
  /\ ReadSize \in Nat \ {0} /\ PointerSize \in Nat \ {0} /\ SendBufSize \in Nat \ {0}
  /\ PointerSize <= ReadSize
  BY SizesAssumption, MaxOfFinite DEF MaxSize

LEMMA BodyFacts ==
  ASSUME Types
  PROVE  /\ body.ver \in Nat \ {0} /\ body.size \in Nat /\ body.size \in Sizes /\ body.size <= MaxSize
         /\ EtagOf(body) \in Etag /\ EtagOf(body) # NoEtag
         /\ EtagOf(body).ver = body.ver
  BY SizeFacts DEF Types, EtagOf, Etag, NoEtag

LEMMA OptionFacts ==
  ASSUME Types
  PROVE  /\ NewOptions \in [etag : Etag, lastModified : Nat]
         /\ options.etag \in Etag /\ options.lastModified \in Nat
         /\ EtagIn(options) \in Etag /\ MtimeOf(body) \in Nat /\ ModifiedIn(options) \in Nat
         /\ KeepEtag(options) \in [etag : Etag, lastModified : Nat]
         /\ KeepEtag(options).etag = EtagIn(options)
         /\ KeepEtag(options).lastModified = options.lastModified
<1>1. NewOptions \in [etag : Etag, lastModified : Nat]
  BY BodyFacts DEF NewOptions, Etag, NoEtag
<1>2. options \in [etag : Etag, lastModified : Nat]
  BY DEF Types
<1>3. EtagIn(options) \in Etag
  BY <1>2, BodyFacts DEF EtagIn
<1>4. MtimeOf(body) \in Nat
  BY BodyFacts DEF MtimeOf
<1>5. ModifiedIn(options) \in Nat
  BY <1>2, <1>4 DEF ModifiedIn
<1>6. /\ KeepEtag(options) \in [etag : Etag, lastModified : Nat]
      /\ KeepEtag(options).etag = EtagIn(options)
      /\ KeepEtag(options).lastModified = options.lastModified
  BY <1>2, <1>3 DEF KeepEtag
<1> QED
  BY <1>1, <1>2, <1>3, <1>4, <1>5, <1>6

LEMMA KeepModifiedFacts ==
  ASSUME Types, NEW o \in [etag : Etag, lastModified : Nat], o.lastModified = options.lastModified
  PROVE  /\ KeepModified(o) \in [etag : Etag, lastModified : Nat]
         /\ KeepModified(o).etag = o.etag
         /\ KeepModified(o).lastModified = ModifiedIn(options)
<1>1. ModifiedIn(o) = ModifiedIn(options)
  BY DEF ModifiedIn
<1> QED
  BY <1>1, OptionFacts DEF KeepModified

LEMMA ConnFields ==
  ASSUME NEW c, IsConn(c)
  PROVE  /\ c.started \in BOOLEAN /\ c.finished \in BOOLEAN
         /\ c.status \in {200, 206, 304, 404, 412, 416}
         /\ c.headers = [n \in DOMAIN c.headers |-> c.headers[n]]
         /\ c.out \in Seq(Seq(Item))
  BY DEF IsConn

LEMMA NewConnFacts ==
  /\ IsConn(NewConn) /\ NewConn.out = <<>> /\ NewConn.headers = <<>> /\ DOMAIN NewConn.headers = {}
  /\ ~NewConn.started /\ ~NewConn.finished
  BY DEF IsConn, NewConn

\* The outcome of assignments to fields.
Differs(d, c, s) ==
  /\ IsConn(d)
  /\ d.started = c.started /\ d.finished = c.finished /\ d.status = s
  /\ d.headers = c.headers /\ d.out = c.out

WithStatus(c, s) == [c EXCEPT !.status = s]

LEMMA StatusFacts ==
  ASSUME NEW c, IsConn(c), NEW s \in {200, 206, 304, 404, 412, 416}
  PROVE  Differs(WithStatus(c, s), c, s)
  BY DEF IsConn, Differs, WithStatus

LEMMA StartFlagFacts ==
  ASSUME NEW c, IsConn(c), NEW b \in BOOLEAN
  PROVE  LET d == [c EXCEPT !.started = b]
         IN /\ IsConn(d)
            /\ d.started = b /\ d.finished = c.finished /\ d.status = c.status
            /\ d.headers = c.headers /\ d.out = c.out
  BY DEF IsConn

LEMMA FinishFlagFacts ==
  ASSUME NEW c, IsConn(c)
  PROVE  LET d == [c EXCEPT !.started = TRUE, !.finished = TRUE]
         IN /\ IsConn(d)
            /\ d.started /\ d.status = c.status
            /\ d.headers = c.headers /\ d.out = c.out
<1> DEFINE d == [c EXCEPT !.started = TRUE, !.finished = TRUE]
<1>1. d \in [started : BOOLEAN, finished : BOOLEAN, status : {200, 206, 304, 404, 412, 416},
              headers : {c.headers}, out : Seq(Seq(Item))]
  <2> DEFINE outs == Seq(Seq(Item))
             codes == {200, 206, 304, 404, 412, 416}
  <2>1. c \in [started : BOOLEAN, finished : BOOLEAN, status : codes, headers : {c.headers}, out : outs]
    BY DEF IsConn
  <2> HIDE DEF outs, codes
  <2>2. d \in [started : BOOLEAN, finished : BOOLEAN, status : codes, headers : {c.headers}, out : outs]
    BY <2>1
  <2> QED
    BY <2>2 DEF outs, codes
<1>2. d.started /\ d.status = c.status /\ d.out = c.out
  BY DEF IsConn
<1> HIDE DEF d
<1>3. d.headers = c.headers
  BY <1>1
<1>4. d.headers = [n \in DOMAIN d.headers |-> d.headers[n]]
  BY <1>3, ConnFields
<1>5. IsConn(d)
  BY <1>1, <1>3, <1>4 DEF IsConn
<1> QED
  BY <1>2, <1>3, <1>5 DEF d

LEMMA HeaderFieldFacts ==
  ASSUME NEW c, IsConn(c), NEW h, h = [n \in DOMAIN h |-> h[n]]
  PROVE  LET d == [c EXCEPT !.headers = h]
         IN /\ IsConn(d)
            /\ d.started = c.started /\ d.finished = c.finished /\ d.status = c.status
            /\ d.headers = h /\ d.out = c.out
<1> DEFINE d == [c EXCEPT !.headers = h]
<1>1. d \in [started : BOOLEAN, finished : BOOLEAN, status : {200, 206, 304, 404, 412, 416},
              headers : {h}, out : Seq(Seq(Item))]
  <2> DEFINE outs == Seq(Seq(Item))
             codes == {200, 206, 304, 404, 412, 416}
  <2>1. c \in [started : BOOLEAN, finished : BOOLEAN, status : codes, headers : {c.headers}, out : outs]
    BY DEF IsConn
  <2> HIDE DEF outs, codes
  <2>2. d \in [started : BOOLEAN, finished : BOOLEAN, status : codes, headers : {h}, out : outs]
    BY <2>1
  <2> QED
    BY <2>2 DEF outs, codes
<1>2. d.started = c.started /\ d.finished = c.finished /\ d.status = c.status /\ d.out = c.out
  BY DEF IsConn
<1> HIDE DEF d
<1>3. d.headers = h
  BY <1>1
<1>4. d.headers = [n \in DOMAIN d.headers |-> d.headers[n]]
  BY <1>3
<1>5. IsConn(d)
  BY <1>1, <1>3, <1>4 DEF IsConn
<1> QED
  BY <1>2, <1>3, <1>5 DEF d

LEMMA SetHeaderFacts ==
  ASSUME NEW c, IsConn(c), NEW name, NEW value
  PROVE  LET d == SetHeader(c, name, value)
         IN /\ IsConn(d)
            /\ d.started = c.started /\ d.finished = c.finished /\ d.status = c.status /\ d.out = c.out
            /\ DOMAIN d.headers = DOMAIN c.headers \cup {name}
            /\ d.headers[name] = value
            /\ \A n \in DOMAIN c.headers : n # name => d.headers[n] = c.headers[n]
<1> DEFINE h == [n \in DOMAIN c.headers \cup {name} |-> IF n = name THEN value ELSE c.headers[n]]
<1>1. SetHeader(c, name, value) = [c EXCEPT !.headers = h]
  BY DEF SetHeader, IsConn
<1>2. /\ DOMAIN h = DOMAIN c.headers \cup {name} /\ h[name] = value
      /\ \A n \in DOMAIN c.headers : n # name => h[n] = c.headers[n]
      /\ h = [n \in DOMAIN h |-> h[n]]
  OBVIOUS
<1> HIDE DEF h
<1> QED
  BY <1>1, <1>2, HeaderFieldFacts

LEMMA DelHeaderFacts ==
  ASSUME NEW c, IsConn(c), NEW name
  PROVE  LET d == DelHeader(c, name)
         IN /\ IsConn(d)
            /\ d.started = c.started /\ d.finished = c.finished /\ d.status = c.status /\ d.out = c.out
            /\ DOMAIN d.headers = DOMAIN c.headers \ {name}
            /\ \A n \in DOMAIN c.headers : n # name => d.headers[n] = c.headers[n]
<1> DEFINE h == [n \in DOMAIN c.headers \ {name} |-> c.headers[n]]
<1>1. DelHeader(c, name) = [c EXCEPT !.headers = h]
  BY DEF DelHeader, IsConn
<1>2. /\ DOMAIN h = DOMAIN c.headers \ {name}
      /\ \A n \in DOMAIN c.headers : n # name => h[n] = c.headers[n]
      /\ h = [n \in DOMAIN h |-> h[n]]
  OBVIOUS
<1> HIDE DEF h
<1> QED
  BY <1>1, <1>2, HeaderFieldFacts

LEMMA AddHeaderFacts ==
  ASSUME NEW c, IsConn(c), NEW name, NEW value
  PROVE  LET d == AddHeader(c, name, value)
         IN /\ IsConn(d)
            /\ d.started = c.started /\ d.finished = c.finished /\ d.status = c.status /\ d.out = c.out
            /\ DOMAIN d.headers = DOMAIN c.headers \cup {name}
            /\ \A n \in DOMAIN c.headers : n # name => d.headers[n] = c.headers[n]
<1>1. PICK v : AddHeader(c, name, value) = SetHeader(c, name, v)
  BY DEF AddHeader
<1> QED
  BY <1>1, SetHeaderFacts

\* What is written makes the head final, and goes behind what was written.
LEMMA WrittenFacts ==
  ASSUME NEW c, IsConn(c), NEW writes \in Seq(Seq(Item))
  PROVE  LET d == Written(c, writes)
         IN /\ IsConn(d)
            /\ d.finished = c.finished /\ d.status = c.status /\ d.headers = c.headers
            /\ c.started => d.started
            /\ d.out = c.out \o writes
<1>1. CASE writes = <<>>
  <2>1. Written(c, writes) = c /\ c.out \o <<>> = c.out
    BY <1>1, ConnFields, ConcatEmptySeq DEF Written
  <2> QED
    BY <1>1, <2>1
<1>2. CASE writes # <<>>
  <2>1. Written(c, writes) = [c EXCEPT !.started = TRUE, !.out = c.out \o writes]
    BY <1>2 DEF Written, IsConn
  <2>2. c.out \o writes \in Seq(Seq(Item))
    BY ConnFields, ConcatFacts, ZenonT(60)
  <2> DEFINE d == [c EXCEPT !.started = TRUE, !.out = c.out \o writes]
  <2>3. d \in [started : BOOLEAN, finished : BOOLEAN, status : {200, 206, 304, 404, 412, 416},
               headers : {c.headers}, out : Seq(Seq(Item))]
    <3> DEFINE outs == Seq(Seq(Item))
               codes == {200, 206, 304, 404, 412, 416}
               out == c.out \o writes
    <3>1. c \in [started : BOOLEAN, finished : BOOLEAN, status : codes, headers : {c.headers}, out : outs]
      BY DEF IsConn
    <3>2. out \in outs
      BY <2>2
    <3> HIDE DEF outs, codes, out
    <3>3. d \in [started : BOOLEAN, finished : BOOLEAN, status : codes, headers : {c.headers}, out : outs]
      BY <3>1, <3>2 DEF out
    <3> QED
      BY <3>3 DEF outs, codes
  <2>4. d.started /\ d.finished = c.finished /\ d.status = c.status /\ d.out = c.out \o writes
    BY DEF IsConn
  <2> HIDE DEF d
  <2>5. d.headers = c.headers
    BY <2>3
  <2>6. IsConn(d)
    BY <2>3, <2>5 DEF IsConn
  <2> QED
    BY <2>1, <2>4, <2>5, <2>6 DEF d
<1> QED
  BY <1>1, <1>2

\* Bytes of the body are what is sent.
LEMMA BytesFacts ==
  ASSUME Types, NEW from \in Int, NEW n \in Nat
  PROVE  /\ Bytes(from, n) \in Seq(Item) /\ Len(Bytes(from, n)) = n
         /\ \A i \in 1 .. n : /\ Bytes(from, n)[i] = Byte(from + i - 1)
                              /\ Byte(from + i - 1) \in Item
<1>1. \A i \in 1 .. n : Byte(from + i - 1) \in Item
  BY BodyFacts DEF Byte, Item
<1>2. Bytes(from, n) = [i \in 1 .. n |-> Byte(from + i - 1)]
  BY DEF Bytes
<1> QED
  BY <1>1, <1>2

LEMMA BytesTyped ==
  ASSUME Types, NEW from \in Int, NEW n \in Nat, NEW u, u = Bytes(from, n)
  PROVE  u \in Seq(Item) /\ Len(u) = n
BY BytesFacts

\* The item at a place of the sequence.
LEMMA ByteAt ==
  ASSUME Types, NEW from \in Int, NEW n \in Nat, NEW u, u = Bytes(from, n), NEW i \in DOMAIN u
  PROVE  i \in 1 .. n /\ u[i].t = "byte" /\ u[i].no = from + i - 1 /\ u[i].ver = body.ver
<1>1. u \in Seq(Item) /\ Len(u) = n /\ \A k \in 1 .. n : u[k] = Byte(from + k - 1)
  BY BytesFacts
<1>2. i \in 1 .. n /\ u[i] = Byte(from + i - 1)
  BY <1>1
<1> QED
  BY <1>2 DEF Byte

LEMMA ItemFacts ==
  ASSUME NEW range \in ByteRange
  PROVE  PartHead(range) \in Item /\ Close \in Item /\ Trailer \in Item
  BY DEF PartHead, Item, ByteRange

-----------------------------------------------------------------------------
(* The first invariant: types *)

LEMMA ResponseFields ==
  ASSUME Types
  PROVE  /\ r \in Response
         /\ r.done \in BOOLEAN /\ r.status \in Statuses /\ r.values \in Seq(ByteRange)
         /\ r.length \in Nat /\ r.encoder \in {"none", "gzip", "deflate"} /\ r.held \in Seq(Item)
         /\ r.chunk \in Nat \ {0} /\ r.buffer \in Seq(Item) /\ r.todo \in Seq(ByteRange)
         /\ r.pos \in Nat /\ r.forlen \in Nat
         /\ Len(r.values) \in Nat /\ Len(r.todo) \in Nat /\ Len(r.buffer) \in Nat /\ Len(r.held) \in Nat
<1>1. r \in Response
  BY DEF Types
<1> QED
  BY <1>1 DEF Response, Statuses

LEMMA NoResponseFacts ==
  /\ NoResponse \in Response /\ NoResponse.buffer = <<>> /\ NoResponse.held = <<>>
  /\ NoResponse.status = "RANGE_NO" /\ NoResponse.values = <<>> /\ NoResponse.todo = <<>>
  /\ NoResponse.pos = 0 /\ NoResponse.chunk = SendBufSize /\ NoResponse.encoder = "none"
  /\ ~NoResponse.done
  BY SizeFacts DEF NoResponse, Response

LEMMA NoneFits ==
  ASSUME body.size \in Nat, r = NoResponse, at # "read"
  PROVE  Fits
  BY NoResponseFacts, SizeFacts DEF Fits, Within, Begun, Multipart, Partial

\* The bounds hold on when nothing of what they are about changes.
LEMMA FitsKept ==
  ASSUME Types, UNCHANGED <<body, r>>,
         at' \in {"script", "send"} => r = NoResponse,
         at' \in {"head", "ranges", "encoding", "caching", "body"} => r.buffer = <<>>,
         at' = "read" => at = "read"
  PROVE  Fits'
  BY DEF Types, Fits, Within, Begun, Multipart, Partial

\* What a client may ask, a kind of request at a time.
LEMMA GetFields ==
  /\ Get.method = "GET" /\ Get.auth = FALSE /\ Get.accept = "absent" /\ Get.range = NoRange
  /\ Get.ifRange = Absent /\ Get.ifMatch = Absent /\ Get.ifNoneMatch = Absent
  /\ Get.ifModifiedSince = Absent /\ Get.ifUnmodifiedSince = Absent
  /\ Get \in [method : {"GET"}, auth : {FALSE}, accept : {"absent"}, range : {NoRange},
              ifRange : {Absent}, ifMatch : {Absent}, ifNoneMatch : {Absent},
              ifModifiedSince : {Absent}, ifUnmodifiedSince : {Absent}]
  BY DEF Get

LEMMA ForRangeFields ==
  ASSUME NEW w
  PROVE  ForRange(w) \in [method : {"GET"}, auth : {FALSE}, accept : {"absent"}, range : {w},
                           ifRange : {Absent}, ifMatch : {Absent}, ifNoneMatch : {Absent},
                           ifModifiedSince : {Absent}, ifUnmodifiedSince : {Absent}]
  BY GetFields DEF ForRange

LEMMA RevalidationFields ==
  ASSUME NEW t, NEW d
  PROVE  Revalidation(t, d) \in
            [method : {"GET"}, auth : {FALSE}, accept : {"absent"}, range : {NoRange},
             ifRange : {Absent}, ifMatch : {Absent}, ifNoneMatch : {t},
             ifModifiedSince : {d}, ifUnmodifiedSince : {Absent}]
  BY GetFields DEF Revalidation

\* Requests without conditions.
Plain(q) ==
  /\ q.range \in Wires \cup {NoRange}
  /\ q.ifRange = Absent /\ q.ifMatch = Absent /\ q.ifNoneMatch = Absent
  /\ q.ifModifiedSince = Absent /\ q.ifUnmodifiedSince = Absent

\* Requests for the rest of what the client has.
Resumption(q) ==
  /\ q.range \in Resumed
  /\ q.ifNoneMatch = Absent /\ q.ifModifiedSince = Absent
  /\ q.ifRange \in Tags \cup Dates /\ q.ifMatch \in Tags /\ q.ifUnmodifiedSince \in Dates

LEMMA AskKinds ==
  ASSUME NEW q \in Asks
  PROVE  \/ Plain(q)
         \/ \E t \in Tags, d \in Dates : q = Revalidation(t, d)
         \/ Resumption(q)
<1> DEFINE ranges == {ForRange(w) : w \in Wires}
           kinds == {Get, [Get EXCEPT !.method = "POST"], [Get EXCEPT !.auth = TRUE]}
           encodings == {[Get EXCEPT !.accept = a] : a \in {"none", "gzip", "deflate"}}
           revalidations == {Revalidation(t, d) : t \in Tags, d \in Dates}
           rest == {ForRange(w) : w \in Resumed}
           resumptions == {[ask EXCEPT !.ifRange = c] : ask \in rest, c \in Tags \cup Dates}
                          \cup {[ask EXCEPT !.ifMatch = t] : ask \in rest, t \in Tags}
                          \cup {[ask EXCEPT !.ifUnmodifiedSince = d] : ask \in rest, d \in Dates}
<1>1. \/ q \in ranges \/ q \in kinds \/ q \in revalidations \/ q \in encodings \/ q \in resumptions
  <2>1. q \in ranges \cup kinds \cup revalidations \cup resumptions
                \cup (IF setup.gzip THEN encodings ELSE {})
    BY DEF Asks
  <2> HIDE DEF ranges, kinds, revalidations, encodings, resumptions
  <2> QED
    BY <2>1
<1>2. CASE q \in ranges
  <2>1. PICK w \in Wires : q = ForRange(w)
    BY <1>2
  <2>2. q \in [method : {"GET"}, auth : {FALSE}, accept : {"absent"}, range : {w},
               ifRange : {Absent}, ifMatch : {Absent}, ifNoneMatch : {Absent},
               ifModifiedSince : {Absent}, ifUnmodifiedSince : {Absent}]
    BY <2>1, ForRangeFields
  <2> QED
    BY <2>2 DEF Plain
<1>3. CASE q \in kinds
  <2>1. \A m \in {"GET", "POST"}, b \in BOOLEAN : Plain([Get EXCEPT !.method = m]) /\ Plain([Get EXCEPT !.auth = b])
    BY GetFields DEF Plain
  <2> QED
    BY <1>3, <2>1, GetFields DEF Plain
<1>4. CASE q \in encodings
  BY <1>4, GetFields DEF Plain
<1>5. CASE q \in resumptions
  <2>1. PICK ask \in rest, c \in Tags \cup Dates :
           \/ q = [ask EXCEPT !.ifRange = c]
           \/ c \in Tags /\ q = [ask EXCEPT !.ifMatch = c]
           \/ c \in Dates /\ q = [ask EXCEPT !.ifUnmodifiedSince = c]
    <3> HIDE DEF rest
    <3> QED
      BY <1>5
  <2>2. Absent \in Tags /\ Absent \in Dates
    BY DEF Tags, Dates
  <2>3. PICK w \in Resumed : ask = ForRange(w)
    BY <2>1
  <2>4. ask \in [method : {"GET"}, auth : {FALSE}, accept : {"absent"}, range : {w},
                 ifRange : {Absent}, ifMatch : {Absent}, ifNoneMatch : {Absent},
                 ifModifiedSince : {Absent}, ifUnmodifiedSince : {Absent}]
    BY <2>3, ForRangeFields
  <2> HIDE DEF resumptions, rest
  <2>5. CASE q = [ask EXCEPT !.ifRange = c]
    BY <2>2, <2>4, <2>5 DEF Resumption
  <2>6. CASE c \in Tags /\ q = [ask EXCEPT !.ifMatch = c]
    BY <2>2, <2>4, <2>6 DEF Resumption
  <2>7. CASE c \in Dates /\ q = [ask EXCEPT !.ifUnmodifiedSince = c]
    BY <2>2, <2>4, <2>7 DEF Resumption
  <2> QED
    BY <2>1, <2>5, <2>6, <2>7
<1>6. CASE q \in revalidations
  BY <1>6
<1> HIDE DEF ranges, kinds, encodings, revalidations, resumptions
<1> QED
  BY <1>1, <1>2, <1>3, <1>4, <1>5, <1>6

LEMMA AskRange ==
  ASSUME NEW q \in Asks
  PROVE  q.range \in Wires \cup {NoRange}
<1>1. CASE \E t \in Tags, d \in Dates : q = Revalidation(t, d)
  <2>1. PICK t \in Tags, d \in Dates : q = Revalidation(t, d)
    BY <1>1
  <2>2. q \in [method : {"GET"}, auth : {FALSE}, accept : {"absent"}, range : {NoRange},
               ifRange : {Absent}, ifMatch : {Absent}, ifNoneMatch : {t},
               ifModifiedSince : {d}, ifUnmodifiedSince : {Absent}]
    BY <2>1, RevalidationFields
  <2> QED
    BY <2>2
<1> QED
  BY <1>1, AskKinds, WiresAssumption DEF Plain, Resumption

LEMMA InitTypes == Init => Types
<1> SUFFICES ASSUME Init PROVE Types
  OBVIOUS
<1>1. setup \in Setups /\ setup \in Setup
  BY SetupsAssumption DEF Init
<1>2. body \in [ver : Nat \ {0}, size : Sizes]
  BY DEF Init
<1>3. body.size \in Nat /\ EtagOf(body) \in Etag /\ body.ver \in Nat
  BY <1>2, SizeFacts DEF EtagOf, Etag
<1>4. options \in [etag : Etag, lastModified : Nat]
  BY <1>3 DEF Init, NewOptions, Etag, NoEtag
<1>5. request.range \in Wires \cup {NoRange} /\ at = "script" /\ ret = FALSE /\ exchanges \in 0 .. MaxExchanges
  BY SizesAssumption DEF Init, Get
<1>6. Fits
  BY <1>3, <1>5, NoneFits DEF Init
<1>7. r \in Response /\ IsConn(conn)
  BY NoResponseFacts, NewConnFacts DEF Init
<1> QED
  BY <1>1, <1>2, <1>4, <1>5, <1>6, <1>7 DEF Types

LEMMA TypesAsk == Types /\ Ask => Types'
<1> SUFFICES ASSUME Types, Ask PROVE Types'
  OBVIOUS
<1>1. options' \in [etag : Etag, lastModified : Nat]
  BY OptionFacts DEF Ask, Types
<1>2. request'.range \in Wires \cup {NoRange}
  BY AskRange DEF Ask
<1>3. exchanges' \in 0 .. MaxExchanges
  BY SizesAssumption DEF Ask, Types
<1>4. IsConn(conn)'
  <2>1. (setup.echoed /\ setup.ops = "sapi") \in BOOLEAN
    OBVIOUS
  <2>2. IsConn(conn)
    BY DEF Types
  <2>3. conn' = [conn EXCEPT !.started = setup.echoed /\ setup.ops = "sapi"]
    BY DEF Ask
  <2>4. IsConn([conn EXCEPT !.started = setup.echoed /\ setup.ops = "sapi"])
    BY <2>1, <2>2, StartFlagFacts
  <2> QED
    BY <2>3, <2>4 DEF IsConn
<1>5. Fits'
  <2>1. r = NoResponse /\ at' = "send"
    BY DEF Types, Fits, Ask
  <2> QED
    BY <2>1, FitsKept DEF Ask
<1> QED
  BY <1>1, <1>2, <1>3, <1>4, <1>5 DEF Types, Ask

LEMMA TypesChange == Types /\ Change => Types'
<1> SUFFICES ASSUME Types, Change PROVE Types'
  OBVIOUS
<1>1. body' \in [ver : Nat \ {0}, size : Sizes]
  BY DEF Change, Types
<1>2. Fits'
  <2>1. r' = NoResponse /\ at' # "read" /\ body'.size \in Nat
    BY <1>1, SizeFacts DEF Types, Fits, Change
  <2> QED
    BY <2>1, NoResponseFacts, SizeFacts DEF Fits, Within, Begun, Multipart, Partial, Change
<1>3. IsConn(conn)'
  BY DEF Types, Change, IsConn
<1> QED
  BY <1>1, <1>2, <1>3 DEF Types, Change

LEMMA TypesCompare == Types /\ Compare => Types'
<1> SUFFICES ASSUME Types, Compare PROVE Types'
  OBVIOUS
<1>1. options \in [etag : Etag, lastModified : Nat]
  BY DEF Types
<1>2. options' \in [etag : Etag, lastModified : Nat]
  BY <1>1, OptionFacts, KeepModifiedFacts DEF Compare
<1>3. Fits'
  <2>1. r = NoResponse /\ at' = "send"
    BY DEF Types, Fits, Compare
  <2> QED
    BY <2>1, FitsKept DEF Compare, outside
<1>4. IsConn(conn)'
  BY DEF Types, Compare, IsConn
<1> QED
  BY <1>2, <1>3, <1>4 DEF Types, Compare, outside

\* Steps of send that change neither the response nor what is asked.
LEMMA TypesPass ==
  ASSUME Types, UNCHANGED <<outside, options, r>>, IsConn(conn)',
         at' \in {"ranges", "encoding", "caching", "body", "finish", "returned", "crashed"},
         at' \in {"ranges", "encoding", "caching", "body"} => at \in {"head", "ranges", "encoding", "caching"},
         ret' \in BOOLEAN
  PROVE  Types'
<1>1. Fits'
  <2>1. at' \in {"ranges", "encoding", "caching", "body"} => r.buffer = <<>>
    BY DEF Types, Fits
  <2> QED
    BY <2>1, FitsKept DEF outside
<1> QED
  BY <1>1 DEF Types, outside

LEMMA TypesWithoutBody == Types /\ WithoutBody => Types'
<1> SUFFICES ASSUME Types, WithoutBody PROVE Types'
  OBVIOUS
<1>1. r.buffer = <<>>
  BY NoResponseFacts DEF Types, Fits, WithoutBody
<1>2. Fits'
  BY <1>1, FitsKept DEF WithoutBody, outside
<1>3. IsConn(conn)'
  BY DEF Types, WithoutBody, IsConn
<1> QED
  BY <1>2, <1>3 DEF Types, WithoutBody, outside

LEMMA TypesRefused == Types /\ (AcceptRangesRefused \/ HeadRefused) => Types'
<1> SUFFICES ASSUME Types, AcceptRangesRefused \/ HeadRefused PROVE Types'
  OBVIOUS
<1>1. IsConn(conn)'
  <2>1. IsConn(conn) /\ conn' = conn
    BY DEF Types, AcceptRangesRefused, HeadRefused
  <2> QED
    BY <2>1 DEF IsConn
<1>2. UNCHANGED <<outside, options, r>> /\ at' = "returned" /\ ret' = FALSE
  BY DEF AcceptRangesRefused, HeadRefused, Return
<1> QED
  BY <1>1, <1>2, TypesPass

\* What is known of the ranges a response is started with.
LEMMA AskedRanges ==
  ASSUME Types
  PROVE  LET ranges == Ranges[request.range][body.size]
         IN /\ ranges.status \in Statuses /\ ranges.values \in Seq(ByteRange)
            /\ Within(ranges.values, body.size)
            /\ request.range = NoRange => ranges.status = "RANGE_NO"
<1>1. request.range \in Wires \cup {NoRange} /\ body.size \in Sizes /\ body.size \in Nat
  <2>1. request.range \in Wires \cup {NoRange}
    BY DEF Types
  <2> QED
    BY <2>1, BodyFacts
<1>2. Ranges[request.range][body.size] = GetRequestRanges(request.range, body.size)
  <2>1. \A w \in Wires \cup {NoRange}, n \in Sizes : Ranges[w][n] = GetRequestRanges(w, n)
    BY DEF Ranges
  <2> QED
    BY <1>1, <2>1
<1>3. CASE request.range = NoRange
  BY <1>1, <1>2, <1>3, NoRangeFacts, NoRangeTypes
<1>4. CASE request.range # NoRange
  <2>1. request.range \in Seq(STRING)
    BY <1>1, <1>4, WiresAssumption
  <2> QED
    BY <1>1, <1>2, <1>4, <2>1, RangesFacts
<1> QED
  BY <1>3, <1>4

\* A header that has a meaning is read as it is meant.
LEMMA AskedMeant ==
  ASSUME Types, HasMeaning(request.range, body.size)
  PROVE  Ranges[request.range][body.size] = MeantRanges(request.range, body.size)
<1>1. request.range \in Wires \cup {NoRange} /\ body.size \in Sizes /\ body.size \in Nat
  <2>1. request.range \in Wires \cup {NoRange}
    BY DEF Types
  <2> QED
    BY <2>1, BodyFacts
<1>2. Ranges[request.range][body.size] = GetRequestRanges(request.range, body.size)
  <2>1. \A w \in Wires \cup {NoRange}, n \in Sizes : Ranges[w][n] = GetRequestRanges(w, n)
    BY DEF Ranges
  <2> QED
    BY <1>1, <2>1
<1>3. CASE request.range = NoRange
  <2>1. NoRange \in Seq({"x"})
    BY DEF NoRange
  <2> QED
    BY <1>1, <1>2, <1>3, <2>1, RangesAsMeant
<1>4. CASE request.range # NoRange
  <2>1. request.range \in Seq(STRING)
    BY <1>1, <1>4, WiresAssumption
  <2> QED
    BY <1>1, <1>2, <2>1, RangesAsMeant
<1> QED
  BY <1>3, <1>4

\* A response of which only the ranges, and whether it is done, were set.
Checked(x) ==
  /\ x \in Response /\ x.length = body.size
  /\ x.encoder = r.encoder /\ x.held = r.held /\ x.chunk = r.chunk /\ x.buffer = r.buffer
  /\ x.todo = r.todo /\ x.pos = r.pos /\ x.forlen = r.forlen

LEMMA FoundFacts ==
  ASSUME Types, NEW s \in Statuses, NEW v \in Seq(ByteRange)
  PROVE  LET found == [r EXCEPT !.length = body.size, !.status = s, !.values = v]
         IN /\ Checked(found) /\ found.done = r.done /\ found.status = s /\ found.values = v
            /\ LET none == [found EXCEPT !.status = "RANGE_NO", !.values = <<>>]
               IN Checked(none) /\ none.done = r.done /\ none.status = "RANGE_NO" /\ none.values = <<>>
            /\ LET finished == [found EXCEPT !.done = TRUE]
               IN Checked(finished) /\ finished.done /\ finished.status = s /\ finished.values = v
<1> DEFINE found == [r EXCEPT !.length = body.size, !.status = s, !.values = v]
           none == [found EXCEPT !.status = "RANGE_NO", !.values = <<>>]
           finished == [found EXCEPT !.done = TRUE]
<1>1. r \in Response /\ body.size \in Nat
  BY BodyFacts DEF Types
<1>2. Checked(found) /\ found.done = r.done /\ found.status = s /\ found.values = v
  BY <1>1 DEF Response, Statuses, Checked
<1> HIDE DEF found
<1>3. Checked(none) /\ none.done = r.done /\ none.status = "RANGE_NO" /\ none.values = <<>>
  <2> DEFINE empty == <<>>
  <2>1. empty \in Seq(ByteRange)
    OBVIOUS
  <2> HIDE DEF empty
  <2>2. LET x == [found EXCEPT !.status = "RANGE_NO", !.values = empty]
        IN Checked(x) /\ x.done = r.done /\ x.status = "RANGE_NO" /\ x.values = empty
    BY <1>2, <2>1 DEF Response, Checked
  <2> QED
    BY <2>2 DEF empty
<1>4. Checked(finished) /\ finished.done /\ finished.status = s /\ finished.values = v
  BY <1>2 DEF Response, Checked
<1> QED
  BY <1>2, <1>3, <1>4 DEF found

\* The ways in which the check of the ranges ends.
Accepting == SetHeader(conn, "Accept-Ranges", <<"bytes">>)

Unranged ==
  /\ ~r'.done /\ r'.status = "RANGE_NO" /\ r'.values = <<>> /\ conn' = Accepting
NotSatisfiable ==
  /\ Ranges[request.range][body.size].status = "RANGE_ERR" /\ ~request.ifRange.given
  /\ r'.done /\ r'.status = "RANGE_ERR" /\ options' = options
  /\ conn' = SetHeader([Accepting EXCEPT !.status = 416], "Content-Range", <<body.size>>)
Failed ==
  /\ Ranges[request.range][body.size].status = "RANGE_OK" /\ ~IfRangeFails /\ PreconditionFails
  /\ r'.done /\ r'.status = "RANGE_OK" /\ r'.values = Ranges[request.range][body.size].values
  /\ conn' = [Accepting EXCEPT !.status = 412]
Satisfiable ==
  /\ Ranges[request.range][body.size].status = "RANGE_OK" /\ ~IfRangeFails /\ ~PreconditionFails
  /\ ~r'.done /\ r'.status = "RANGE_OK" /\ r'.values = Ranges[request.range][body.size].values
  /\ conn' = Accepting
  /\ options' = KeepModified(KeepEtag(options))

LEMMA CheckOutcome ==
  ASSUME Types, CheckRanges
  PROVE  /\ Checked(r') /\ Within(r'.values, body.size) /\ r = NoResponse
         /\ options' \in {options, KeepEtag(options), KeepModified(KeepEtag(options))}
         /\ Unranged \/ NotSatisfiable \/ Failed \/ Satisfiable
<1> DEFINE ranges == Ranges[request.range][body.size]
           found == [r EXCEPT !.length = body.size, !.status = ranges.status, !.values = ranges.values]
           none == [found EXCEPT !.status = "RANGE_NO", !.values = <<>>]
           finished == [found EXCEPT !.done = TRUE]
<1>1. /\ ranges.status \in Statuses /\ ranges.values \in Seq(ByteRange)
      /\ Within(ranges.values, body.size)
  BY AskedRanges
<1>2. r = NoResponse /\ ~r.done
  BY NoResponseFacts DEF CheckRanges, Types, Fits
<1> HIDE DEF ranges
<1>3. /\ Checked(found) /\ found.done = r.done /\ found.status = ranges.status /\ found.values = ranges.values
      /\ Checked(none) /\ none.done = r.done /\ none.status = "RANGE_NO" /\ none.values = <<>>
      /\ Checked(finished) /\ finished.done /\ finished.status = ranges.status /\ finished.values = ranges.values
  BY <1>1, FoundFacts, ZenonT(60)
<1> USE DEF ranges
<1>4. \/ r' = none /\ conn' = Accepting
         /\ options' \in {options, KeepEtag(options), KeepModified(KeepEtag(options))}
      \/ /\ ranges.status = "RANGE_ERR" /\ ~request.ifRange.given /\ r' = finished
         /\ conn' = SetHeader([Accepting EXCEPT !.status = 416], "Content-Range", <<body.size>>)
         /\ options' = options
      \/ /\ ranges.status = "RANGE_OK" /\ ~IfRangeFails /\ PreconditionFails /\ r' = finished
         /\ conn' = [Accepting EXCEPT !.status = 412] /\ options' = KeepModified(KeepEtag(options))
      \/ /\ ranges.status = "RANGE_OK" /\ ~IfRangeFails /\ ~PreconditionFails /\ r' = found
         /\ conn' = Accepting /\ options' = KeepModified(KeepEtag(options))
  <2> HIDE DEF none, finished, found
  <2> QED
    BY DEF CheckRanges, none, finished, found, Accepting, IfRangeFails
<1> HIDE DEF found, none, finished, ranges
<1>5. Within(<<>>, body.size)
  BY DEF Within
<1> QED
  BY <1>1, <1>2, <1>3, <1>4, <1>5 DEF ranges, Unranged, NotSatisfiable, Failed, Satisfiable

LEMMA AcceptingFacts ==
  ASSUME Types
  PROVE  /\ IsConn(Accepting)
         /\ Accepting.started = conn.started /\ Accepting.finished = conn.finished
         /\ Accepting.status = conn.status /\ Accepting.out = conn.out
         /\ DOMAIN Accepting.headers = DOMAIN conn.headers \cup {"Accept-Ranges"}
  BY SetHeaderFacts DEF Types, Accepting

\* The head after the check.
LEMMA CheckedConn ==
  ASSUME Types, CheckRanges
  PROVE  /\ IsConn(conn')
         /\ conn'.started = conn.started /\ conn'.finished = conn.finished /\ conn'.out = conn.out
         /\ r'.done => conn'.status \in {412, 416}
         /\ r'.done /\ r'.status = "RANGE_OK" => conn'.status = 412
         /\ DOMAIN conn'.headers \subseteq DOMAIN conn.headers \cup {"Accept-Ranges", "Content-Range"}
         /\ ~r'.done => conn'.status = conn.status
                        /\ DOMAIN conn'.headers = DOMAIN conn.headers \cup {"Accept-Ranges"}
<1>1. CASE Unranged \/ Satisfiable
  BY <1>1, AcceptingFacts DEF Unranged, Satisfiable
<1>2. CASE Failed
  <2> DEFINE d == WithStatus(Accepting, 412)
  <2>1. /\ IsConn(d) /\ d.started = Accepting.started /\ d.finished = Accepting.finished
        /\ d.status = 412 /\ d.headers = Accepting.headers /\ d.out = Accepting.out
    <3>1. IsConn(Accepting)
      BY AcceptingFacts
    <3>2. Differs(d, Accepting, 412)
      BY <3>1, StatusFacts
    <3> QED
      BY <3>2 DEF Differs
  <2>2. conn' = d /\ r'.done
    BY <1>2 DEF Failed, WithStatus
  <2> HIDE DEF d
  <2> QED
    BY <2>1, <2>2, AcceptingFacts
<1>3. CASE NotSatisfiable
  <2> DEFINE d == WithStatus(Accepting, 416)
             e == SetHeader(d, "Content-Range", <<body.size>>)
  <2>1. /\ IsConn(d) /\ d.started = Accepting.started /\ d.finished = Accepting.finished
        /\ d.status = 416 /\ d.headers = Accepting.headers /\ d.out = Accepting.out
    <3>1. IsConn(Accepting)
      BY AcceptingFacts
    <3>2. Differs(d, Accepting, 416)
      BY <3>1, StatusFacts
    <3> QED
      BY <3>2 DEF Differs
  <2>2. conn' = e /\ r'.done /\ r'.status = "RANGE_ERR"
    BY <1>3 DEF NotSatisfiable, WithStatus
  <2> HIDE DEF d
  <2>3. /\ IsConn(e) /\ e.started = d.started /\ e.finished = d.finished
        /\ e.status = d.status /\ e.out = d.out
        /\ DOMAIN e.headers = DOMAIN d.headers \cup {"Content-Range"}
    BY <2>1, SetHeaderFacts
  <2> HIDE DEF e
  <2> QED
    BY <2>1, <2>2, <2>3, AcceptingFacts
<1> QED
  BY <1>1, <1>2, <1>3, CheckOutcome

LEMMA TypesCheckRanges == Types /\ CheckRanges => Types'
<1> SUFFICES ASSUME Types, CheckRanges PROVE Types'
  OBVIOUS
<1>1. options' \in [etag : Etag, lastModified : Nat]
  <2>1. options \in [etag : Etag, lastModified : Nat]
    BY DEF Types
  <2> QED
    BY <2>1, CheckOutcome, OptionFacts, KeepModifiedFacts
<1>2. IsConn(conn)'
  BY CheckedConn DEF IsConn
<1>3. r' \in Response /\ Within(r'.values, body.size) /\ r'.buffer = <<>> /\ r'.todo = <<>> /\ r'.pos = 0
  BY CheckOutcome, NoResponseFacts DEF Checked
<1>4. Fits'
  <2>1. at' = "head" /\ body' = body /\ body.size \in Nat
    BY BodyFacts DEF CheckRanges, outside
  <2>2. r'.chunk \in Nat \ {0} /\ Len(r'.values) \in Nat
    BY <1>3 DEF Response
  <2> QED
    BY <1>3, <2>1, <2>2 DEF Fits, Within, Begun, Multipart, Partial
<1> QED
  BY <1>1, <1>2, <1>3, <1>4 DEF Types, CheckRanges, outside

\* The steps of the head, by what they leave.
SameProgress(c) == c.started = conn.started /\ c.finished = conn.finished /\ c.out = conn.out

LEMMA HeadStartOutcome ==
  ASSUME Types, HeadStart
  PROVE  /\ IsConn(conn') /\ SameProgress(conn') /\ conn'.status = setup.code
         /\ DOMAIN conn'.headers \subseteq DOMAIN conn.headers \cup {"Vary"}
<1> DEFINE c == WithStatus(conn, setup.code)
<1>1. IsConn(conn) /\ setup.code \in {200, 206, 304, 404, 412, 416}
  BY DEF Types, Setup
<1>2. Differs(c, conn, setup.code)
  BY <1>1, StatusFacts
<1>3. IsConn(c) /\ SameProgress(c) /\ c.status = setup.code /\ c.headers = conn.headers
  BY <1>2 DEF Differs, SameProgress
<1>4. conn' = IF setup.vary THEN SetHeader(c, "Vary", <<"Cookie">>) ELSE c
  BY DEF HeadStart, WithStatus
<1> HIDE DEF c
<1>5. CASE setup.vary
  <2>1. conn' = SetHeader(c, "Vary", <<"Cookie">>)
    BY <1>4, <1>5
  <2> DEFINE d == SetHeader(c, "Vary", <<"Cookie">>)
  <2>2. /\ IsConn(d) /\ d.started = c.started /\ d.finished = c.finished /\ d.status = c.status
        /\ d.out = c.out /\ DOMAIN d.headers = DOMAIN c.headers \cup {"Vary"}
    BY <1>3, SetHeaderFacts
  <2> HIDE DEF d
  <2>3. conn' = d
    BY <2>1 DEF d
  <2> QED
    BY <1>3, <2>2, <2>3 DEF SameProgress
<1>6. CASE ~setup.vary
  BY <1>3, <1>4, <1>6 DEF SameProgress
<1> QED
  BY <1>5, <1>6

LEMMA HeadRangesOutcome ==
  ASSUME Types, HeadRanges
  PROVE  /\ IsConn(conn') /\ SameProgress(conn') /\ conn'.status = 206
         /\ Multipart => DOMAIN conn'.headers = DOMAIN conn.headers \cup {"Content-Type"}
         /\ ~Multipart => /\ DOMAIN conn'.headers = DOMAIN conn.headers \cup {"Content-Range"}
                          /\ conn'.headers["Content-Range"] =
                               <<r.values[1].begin, r.values[1].end, r.length>>
<1> DEFINE c == WithStatus(conn, 206)
           triple == <<r.values[1].begin, r.values[1].end, r.length>>
<1>1. IsConn(conn)
  BY DEF Types
<1>2. Differs(c, conn, 206)
  BY <1>1, StatusFacts
<1>3. IsConn(c) /\ SameProgress(c) /\ c.status = 206 /\ c.headers = conn.headers
  BY <1>2 DEF Differs, SameProgress
<1>4. conn' = IF Multipart THEN SetHeader(c, "Content-Type", <<"multipart/byteranges">>)
              ELSE SetHeader(c, "Content-Range", triple)
  BY DEF HeadRanges, WithStatus
<1> HIDE DEF c, triple
<1>5. \A name, value :
         LET d == SetHeader(c, name, value)
         IN /\ IsConn(d) /\ SameProgress(d) /\ d.status = 206
            /\ DOMAIN d.headers = DOMAIN conn.headers \cup {name} /\ d.headers[name] = value
  BY <1>3, SetHeaderFacts DEF SameProgress
<1> QED
  BY <1>4, <1>5 DEF triple, SameProgress

LEMMA HeadEncodingOutcome ==
  ASSUME Types, HeadEncoding
  PROVE  /\ IsConn(conn') /\ SameProgress(conn') /\ conn'.status = conn.status
         /\ DOMAIN conn'.headers \subseteq DOMAIN conn.headers \cup {"Vary", "Content-Encoding"}
         /\ \/ r' = r /\ ("Content-Encoding" \notin DOMAIN conn.headers
                            => "Content-Encoding" \notin DOMAIN conn'.headers)
            \/ /\ request.accept \in {"gzip", "deflate"} /\ r' = [r EXCEPT !.encoder = request.accept]
               /\ "Content-Encoding" \in DOMAIN conn'.headers
<1> DEFINE coded == SetHeader(conn, "Content-Encoding", <<request.accept>>)
           plain == DelHeader(conn, "Content-Encoding")
           negotiated(c) == AddHeader(c, "Vary", <<"Accept-Encoding">>)
<1>1. IsConn(conn)
  BY DEF Types
<1>2. /\ IsConn(coded) /\ SameProgress(coded) /\ coded.status = conn.status
      /\ DOMAIN coded.headers = DOMAIN conn.headers \cup {"Content-Encoding"}
  BY <1>1, SetHeaderFacts DEF SameProgress
<1>3. /\ IsConn(plain) /\ SameProgress(plain) /\ plain.status = conn.status
      /\ DOMAIN plain.headers = DOMAIN conn.headers \ {"Content-Encoding"}
  BY <1>1, DelHeaderFacts DEF SameProgress
<1> HIDE DEF coded, plain
<1>4. ASSUME NEW c, IsConn(c), SameProgress(c), c.status = conn.status
      PROVE  LET d == negotiated(c)
             IN /\ IsConn(d) /\ SameProgress(d) /\ d.status = conn.status
                /\ DOMAIN d.headers = DOMAIN c.headers \cup {"Vary"}
  BY <1>4, AddHeaderFacts DEF SameProgress
<1>5. \/ conn' = negotiated(coded) /\ request.accept \in {"gzip", "deflate"}
         /\ r' = [r EXCEPT !.encoder = request.accept]
      \/ conn' \in {negotiated(plain), conn, plain} /\ r' = r
  BY DEF HeadEncoding, coded, plain
<1>6. CASE conn' = negotiated(coded) /\ request.accept \in {"gzip", "deflate"}
           /\ r' = [r EXCEPT !.encoder = request.accept]
  <2> DEFINE d == negotiated(coded)
  <2>1. /\ IsConn(d) /\ SameProgress(d) /\ d.status = conn.status
        /\ DOMAIN d.headers = DOMAIN coded.headers \cup {"Vary"}
    BY <1>2, <1>4
  <2> HIDE DEF negotiated
  <2> QED
    BY <1>2, <1>6, <2>1 DEF SameProgress
<1>7. CASE conn' = negotiated(plain) /\ r' = r
  <2> DEFINE d == negotiated(plain)
  <2>1. /\ IsConn(d) /\ SameProgress(d) /\ d.status = conn.status
        /\ DOMAIN d.headers = DOMAIN plain.headers \cup {"Vary"}
    BY <1>3, <1>4
  <2> HIDE DEF negotiated
  <2> QED
    BY <1>3, <1>7, <2>1 DEF SameProgress
<1>8. CASE conn' \in {conn, plain} /\ r' = r
  BY <1>1, <1>3, <1>8 DEF SameProgress
<1> QED
  BY <1>5, <1>6, <1>7, <1>8

\* The options when the validators are given, and whether the client has it.
Given ==
    IF ~BodyPresent THEN options
    ELSE IF CachedByEtag(request.ifNoneMatch) = "CACHE_NO" THEN KeepModified(KeepEtag(options))
    ELSE KeepEtag(options)
Hit == BodyPresent /\ NotModified

LEMMA HeadCachingOutcome ==
  ASSUME Types, HeadCaching
  PROVE  \/ ~IsCacheable(conn) /\ UNCHANGED <<options, r, conn>>
         \/ /\ IsCacheable(conn)
            /\ IsConn(conn') /\ SameProgress(conn')
            /\ conn'.status = IF Hit THEN 304 ELSE conn.status
            /\ options' = Given /\ r' = [r EXCEPT !.done = Hit]
            /\ DOMAIN conn.headers \subseteq DOMAIN conn'.headers
            /\ DOMAIN conn'.headers \subseteq DOMAIN conn.headers \cup {"ETag", "Last-Modified"}
            /\ "ETag" \in DOMAIN conn'.headers /\ conn'.headers["ETag"] = <<options'.etag>>
            /\ options'.lastModified # 0 => /\ "Last-Modified" \in DOMAIN conn'.headers
                                            /\ conn'.headers["Last-Modified"] = <<options'.lastModified>>
            /\ options'.lastModified = 0 => /\ "Last-Modified" \in DOMAIN conn'.headers
                                               => "Last-Modified" \in DOMAIN conn.headers
<1> DEFINE o == options'
           hit == Hit
           c == IF hit THEN WithStatus(conn, 304) ELSE conn
           tagged == SetHeader(c, "ETag", <<o.etag>>)
           dated == SetHeader(tagged, "Last-Modified", <<o.lastModified>>)
<1>1. CASE ~IsCacheable(conn)
  BY <1>1 DEF HeadCaching
<1>2. CASE IsCacheable(conn)
  <2>1. IsConn(conn)
    BY DEF Types
  <2>2. /\ options' = Given /\ r' = [r EXCEPT !.done = Hit]
        /\ conn' = IF o.lastModified = 0 THEN tagged ELSE dated
    BY <1>2 DEF HeadCaching, Given, Hit, WithStatus
  <2>3. /\ IsConn(c) /\ SameProgress(c) /\ c.status = (IF Hit THEN 304 ELSE conn.status)
        /\ c.headers = conn.headers
    <3>1. Differs(WithStatus(conn, 304), conn, 304)
      BY <2>1, StatusFacts
    <3> HIDE DEF hit
    <3>2. CASE hit
      BY <3>1, <3>2 DEF Differs, SameProgress, hit
    <3>3. CASE ~hit
      BY <2>1, <3>3 DEF SameProgress, hit
    <3> QED
      BY <3>2, <3>3
  <2> HIDE DEF c
  <2>4. /\ IsConn(tagged) /\ SameProgress(tagged) /\ tagged.status = c.status
        /\ DOMAIN tagged.headers = DOMAIN conn.headers \cup {"ETag"}
        /\ tagged.headers["ETag"] = <<o.etag>>
    BY <2>3, SetHeaderFacts DEF SameProgress
  <2> HIDE DEF tagged
  <2>5. /\ IsConn(dated) /\ SameProgress(dated) /\ dated.status = tagged.status
        /\ DOMAIN dated.headers = DOMAIN tagged.headers \cup {"Last-Modified"}
        /\ dated.headers["Last-Modified"] = <<o.lastModified>>
        /\ dated.headers["ETag"] = <<o.etag>>
    BY <2>4, SetHeaderFacts DEF SameProgress
  <2> HIDE DEF dated
  <2>6. CASE o.lastModified = 0
    BY <1>2, <2>2, <2>3, <2>4, <2>6 DEF SameProgress
  <2>7. CASE o.lastModified # 0
    BY <1>2, <2>2, <2>3, <2>4, <2>5, <2>7 DEF SameProgress
  <2> QED
    BY <2>6, <2>7
<1> QED
  BY <1>1, <1>2

LEMMA GivenTypes ==
  ASSUME Types
  PROVE  Given \in [etag : Etag, lastModified : Nat]
<1>1. options \in [etag : Etag, lastModified : Nat]
  BY DEF Types
<1> QED
  BY <1>1, OptionFacts, KeepModifiedFacts DEF Given

\* Nor are the bounds touched by what changes other fields of the response.
LEMMA FitsSame ==
  ASSUME Types, UNCHANGED body, r' \in Response,
         r'.pos = r.pos, r'.values = r.values, r'.status = r.status, r'.buffer = r.buffer,
         r'.chunk = r.chunk, r'.todo = r.todo,
         at \in {"head", "ranges", "encoding", "caching", "body"},
         at' \in {"head", "ranges", "encoding", "caching", "body"}
  PROVE  Fits'
  BY DEF Types, Fits, Within, Begun, Multipart, Partial

LEMMA TypesHead ==
  Types /\ (HeadDone \/ HeadStart \/ HeadRanges \/ BodyDone) => Types'
<1> SUFFICES ASSUME Types, HeadDone \/ HeadStart \/ HeadRanges \/ BodyDone PROVE Types'
  OBVIOUS
<1>1. IsConn(conn')
  <2>1. IsConn(conn)
    BY DEF Types
  <2>2. CASE HeadDone \/ BodyDone
    BY <2>1, <2>2 DEF HeadDone, BodyDone
  <2> QED
    BY <2>2, HeadStartOutcome, HeadRangesOutcome
<1>2. IsConn(conn)'
  BY <1>1 DEF IsConn
<1>3. /\ UNCHANGED <<outside, options, r, ret>> /\ at' \in {"ranges", "encoding", "body", "finish"}
      /\ at' \in {"ranges", "encoding", "body"} => at \in {"head", "ranges"}
  BY DEF HeadDone, HeadStart, HeadRanges, BodyDone
<1>4. ret' \in BOOLEAN
  BY <1>3 DEF Types
<1> QED
  BY <1>2, <1>3, <1>4, TypesPass

LEMMA TypesHeadEncoding == Types /\ HeadEncoding => Types'
<1> SUFFICES ASSUME Types, HeadEncoding PROVE Types'
  OBVIOUS
<1>1. IsConn(conn)'
  BY HeadEncodingOutcome DEF IsConn
<1>2. /\ r' \in Response /\ r'.pos = r.pos /\ r'.values = r.values /\ r'.status = r.status
      /\ r'.buffer = r.buffer /\ r'.chunk = r.chunk /\ r'.todo = r.todo
  <2>1. r \in Response
    BY DEF Types
  <2>2. CASE r' = r
    BY <2>1, <2>2
  <2>3. CASE request.accept \in {"gzip", "deflate"} /\ r' = [r EXCEPT !.encoder = request.accept]
    BY <2>1, <2>3 DEF Response
  <2> QED
    BY <2>2, <2>3, HeadEncodingOutcome
<1>3. UNCHANGED <<outside, options, ret>> /\ at = "encoding" /\ at' = "caching"
  BY DEF HeadEncoding
<1>4. Fits'
  BY <1>2, <1>3, FitsSame DEF outside
<1> QED
  BY <1>1, <1>2, <1>3, <1>4 DEF Types, outside

LEMMA TypesHeadCaching == Types /\ HeadCaching => Types'
<1> SUFFICES ASSUME Types, HeadCaching PROVE Types'
  OBVIOUS
<1>1. UNCHANGED <<outside, ret>> /\ at = "caching" /\ at' = "body"
  BY DEF HeadCaching
<1>2. CASE IsConn(conn') /\ options' = Given /\ r' = [r EXCEPT !.done = Hit]
  <2>1. IsConn(conn)'
    BY <1>2 DEF IsConn
  <2>2. Hit \in BOOLEAN
    BY DEF Hit, NotModified
  <2>3. r \in Response
    BY DEF Types
  <2>4. /\ r' \in Response /\ r'.pos = r.pos /\ r'.values = r.values /\ r'.status = r.status
        /\ r'.buffer = r.buffer /\ r'.chunk = r.chunk /\ r'.todo = r.todo
    BY <1>2, <2>2, <2>3 DEF Response
  <2>5. options' \in [etag : Etag, lastModified : Nat]
    BY <1>2, GivenTypes
  <2>6. Fits'
    BY <1>1, <2>4, FitsSame DEF outside
  <2> QED
    BY <1>1, <2>1, <2>4, <2>5, <2>6 DEF Types, outside
<1>3. CASE UNCHANGED <<options, r, conn>>
  <2>1. IsConn(conn) /\ conn' = conn
    BY <1>3 DEF Types
  <2>2. IsConn(conn)'
    BY <2>1 DEF IsConn
  <2>3. r' \in Response
    BY <1>3 DEF Types
  <2>4. Fits'
    BY <1>1, <1>3, <2>3, FitsSame DEF outside
  <2> QED
    BY <1>1, <1>3, <2>2, <2>4 DEF Types, outside
<1> QED
  BY <1>2, <1>3, HeadCachingOutcome

-----------------------------------------------------------------------------
(* The steps of the body *)

LEMMA BodyStartOutcome ==
  ASSUME Types, BodyStart
  PROVE  /\ r' \in Response /\ r'.chunk > 0
         /\ r'.done = r.done /\ r'.status = r.status /\ r'.values = r.values /\ r'.length = r.length
         /\ r'.encoder = r.encoder /\ r'.held = r.held /\ r'.buffer = r.buffer /\ r'.pos = r.pos
         /\ r'.todo = (IF Partial THEN r.values ELSE <<Whole>>)
<1>1. r \in Response /\ r.values \in Seq(ByteRange)
  BY ResponseFields
<1> DEFINE chunk == IF setup.chunk > 0 THEN setup.chunk ELSE SendBufSize
           todo == IF Partial THEN r.values ELSE <<Whole>>
<1>2. chunk \in Nat \ {0}
  <2>1. setup.chunk \in 0 .. SendBufSize
    BY DEF Types, Setup
  <2> QED
    BY <2>1, SizeFacts
<1>3. todo \in Seq(ByteRange)
  <2>1. Whole \in ByteRange
    BY DEF Whole, ByteRange
  <2> QED
    BY <1>1, <2>1
<1>4. r' = [r EXCEPT !.chunk = chunk, !.todo = todo]
  BY DEF BodyStart, Whole
<1> HIDE DEF chunk, todo
<1>5. /\ r' \in Response /\ r'.chunk = chunk
      /\ r'.done = r.done /\ r'.status = r.status /\ r'.values = r.values /\ r'.length = r.length
      /\ r'.encoder = r.encoder /\ r'.held = r.held /\ r'.buffer = r.buffer /\ r'.pos = r.pos
      /\ r'.todo = todo
  BY <1>1, <1>2, <1>3, <1>4 DEF Response
<1> QED
  BY <1>2, <1>5 DEF todo

LEMMA TypesBodyStart == Types /\ BodyStart => Types'
<1> SUFFICES ASSUME Types, BodyStart PROVE Types'
  OBVIOUS
<1>1. UNCHANGED <<outside, options, conn, ret>> /\ at = "body" /\ at' = "part"
  BY DEF BodyStart
<1>2. IsConn(conn)'
  <2>1. IsConn(conn) /\ conn' = conn
    BY <1>1 DEF Types
  <2> QED
    BY <2>1 DEF IsConn
<1>3. Fits'
  <2>1. r.buffer = <<>>
    BY <1>1 DEF Types, Fits
  <2>2. r'.chunk \in Nat \ {0} /\ Len(r'.values) \in Nat /\ r'.buffer = <<>>
    BY <2>1, BodyStartOutcome DEF Response
  <2>3. Multipart' => Len(r'.todo) = Len(r'.values)
    BY BodyStartOutcome DEF Multipart, Partial
  <2>4. Begun' = 0
    BY <2>2, <2>3 DEF Begun
  <2>5. r'.pos <= body'.size /\ Within(r'.values, body'.size)
    BY <1>1, BodyStartOutcome DEF Types, Fits, Within, outside
  <2> QED
    BY <1>1, <2>2, <2>3, <2>4, <2>5 DEF Fits
<1> QED
  BY <1>1, <1>2, <1>3, BodyStartOutcome DEF Types, outside

LEMMA LimitFacts ==
  ASSUME NEW range \in ByteRange
  PROVE  /\ Limit(range) \in Nat \ {0}
         /\ range.end - range.begin + 1 > 0 => Limit(range) = range.end - range.begin + 1
         /\ range.end - range.begin + 1 <= 0 => Limit(range) = MaxSize + 1
<1>1. range.begin \in Int /\ range.end \in Int /\ MaxSize \in Nat
  BY SizeFacts DEF ByteRange
<1> QED
  BY <1>1 DEF Limit

LEMMA NextPartOutcome ==
  ASSUME Types, NextPart
  PROVE  LET range == Head(r.todo)
         IN /\ range \in ByteRange /\ range = r.todo[1] /\ Len(r.todo) > 0
            /\ r' \in Response
            /\ r'.done = r.done /\ r'.status = r.status /\ r'.values = r.values /\ r'.length = r.length
            /\ r'.encoder = r.encoder /\ r'.held = r.held /\ r'.chunk = r.chunk
            /\ r'.todo = Tail(r.todo) /\ r'.forlen = Limit(range)
            /\ r'.buffer = IF Multipart THEN Append(r.buffer, PartHead(range)) ELSE r.buffer
            /\ r'.pos \in 0 .. body.size
            /\ range.begin >= 0 => r'.pos = Lesser(range.begin, body.size)
<1> DEFINE range == Head(r.todo)
           buffer == IF Multipart THEN Append(r.buffer, PartHead(range)) ELSE r.buffer
<1>1. r \in Response /\ r.todo \in Seq(ByteRange) /\ r.buffer \in Seq(Item) /\ r.todo # <<>>
  BY ResponseFields DEF NextPart
<1>2. range \in ByteRange /\ range = r.todo[1] /\ Len(r.todo) > 0 /\ Tail(r.todo) \in Seq(ByteRange)
  BY <1>1
<1>3. PICK p \in 0 .. body.size :
         /\ range.begin >= 0 => p = Lesser(range.begin, body.size)
         /\ r' = [r EXCEPT !.todo = Tail(r.todo), !.pos = p, !.forlen = Limit(range), !.buffer = buffer]
  BY <1>1 DEF NextPart, Response
<1>4. buffer \in Seq(Item)
  BY <1>1, <1>2, ItemFacts
<1>5. Limit(range) \in Nat /\ p \in Nat
  BY <1>2, LimitFacts, BodyFacts
<1> HIDE DEF range, buffer
<1>6. /\ r' \in Response
      /\ r'.done = r.done /\ r'.status = r.status /\ r'.values = r.values /\ r'.length = r.length
      /\ r'.encoder = r.encoder /\ r'.held = r.held /\ r'.chunk = r.chunk
      /\ r'.todo = Tail(r.todo) /\ r'.forlen = Limit(range) /\ r'.buffer = buffer /\ r'.pos = p
  BY <1>1, <1>2, <1>3, <1>4, <1>5 DEF Response
<1> QED
  BY <1>2, <1>3, <1>6 DEF range, buffer

LEMMA TypesNextPart == Types /\ NextPart => Types'
<1> SUFFICES ASSUME Types, NextPart PROVE Types'
  OBVIOUS
<1>1. UNCHANGED <<outside, options, conn, ret>> /\ at = "part" /\ at' = "read"
  BY DEF NextPart
<1>2. IsConn(conn)'
  <2>1. IsConn(conn) /\ conn' = conn
    BY <1>1 DEF Types
  <2> QED
    BY <2>1 DEF IsConn
<1>3. Fits'
  <2> DEFINE range == Head(r.todo)
  <2>1. /\ Len(r.todo) \in Nat \ {0} /\ Len(r.values) \in Nat /\ Len(r.buffer) \in Nat /\ r.chunk \in Nat
        /\ Len(r'.todo) = Len(r.todo) - 1
    <3>1. r.todo \in Seq(ByteRange) /\ r.todo # <<>> /\ r'.todo = Tail(r.todo)
      BY ResponseFields, NextPartOutcome DEF NextPart
    <3> QED
      BY <3>1, ResponseFields
  <2>2. Multipart' = Multipart /\ (Multipart => Len(r.todo) <= Len(r.values))
        /\ Len(r.buffer) < r.chunk + Begun
    BY NextPartOutcome DEF Multipart, Partial, Types, Fits
  <2>3. CASE Multipart
    <3>1. range \in ByteRange /\ r'.buffer = Append(r.buffer, PartHead(range))
      BY <2>3, NextPartOutcome
    <3>2. Len(r'.buffer) = Len(r.buffer) + 1
      BY <3>1, ResponseFields, ItemFacts
    <3>3. Begun' = Begun + 1 /\ Begun \in Nat
      <4>1. Len(r'.values) = Len(r.values)
        BY NextPartOutcome
      <4> QED
        BY <2>1, <2>2, <2>3, <4>1 DEF Begun
    <3>4. Len(r'.buffer) < r'.chunk + Begun' /\ Begun' > 0 /\ Len(r'.todo) <= Len(r'.values)
      BY <2>1, <2>2, <2>3, <3>2, <3>3, NextPartOutcome, SMTT(30)
    <3> QED
      BY <1>1, <3>4, BodyFacts, NextPartOutcome DEF Fits, Types, Within, outside
  <2>4. CASE ~Multipart
    <3>1. Begun = 0 /\ Begun' = 0 /\ r'.buffer = r.buffer
      BY <2>2, <2>4, NextPartOutcome DEF Begun
    <3> QED
      BY <1>1, <2>2, <2>4, <3>1, BodyFacts, NextPartOutcome DEF Fits, Types, Within, outside
  <2> QED
    BY <2>3, <2>4
<1> QED
  BY <1>1, <1>2, <1>3, NextPartOutcome DEF Types, outside

LEMMA WriteFacts ==
  ASSUME Types, NEW writes \in Seq(Seq(Item)), NEW next, Write(writes, next)
  PROVE  /\ IsConn(conn') /\ conn'.status = conn.status /\ conn'.headers = conn.headers
         /\ \/ at' = "crashed" /\ conn' = conn
            \/ at' = next /\ conn'.out = conn.out \o writes /\ conn'.finished = conn.finished
<1>1. IsConn(conn)
  BY DEF Types
<1>2. CASE at' = "crashed" /\ conn' = conn
  BY <1>1, <1>2
<1>3. CASE at' = next /\ conn' = Written(conn, writes)
  BY <1>1, <1>3, WrittenFacts
<1> QED
  BY <1>2, <1>3 DEF Write

\* A turn of the loop, by what is read and what the encoder gives.
Most == Lesser(Lesser(r.forlen, ReadSize), body.size - r.pos)
Data(k) == r.held \o Bytes(r.pos, k)
Output(k, n) == r.buffer \o SubSeq(Data(k), 1, n)

Reads1(k, n) ==
  /\ k \in 0 .. Most /\ (k = Most \/ (setup.short /\ k > 0))
  /\ n \in 0 .. Len(Data(k)) /\ (r.encoder = "none" => n = Len(Data(k)))
  /\ Write(IF k = 0 THEN <<>> ELSE FullChunks(Output(k, n), r.chunk),
           IF PartEnds(k) THEN "part" ELSE "read")
  /\ r' = IF k = 0 THEN r
          ELSE [r EXCEPT !.pos = @ + k, !.forlen = @ - k,
                         !.held = SubSeq(Data(k), n + 1, Len(Data(k))),
                         !.buffer = Rest(Output(k, n), r.chunk)]

LEMMA ReadsSome ==
  ASSUME ReadBody
  PROVE  \E k, n : Reads1(k, n)
<1>1. PICK k \in 0 .. Most : \E n \in 0 .. Len(Data(k)) : Reads1(k, n)
  BY DEF ReadBody, Most, Data, Output, Reads1
<1> QED
  BY <1>1

LEMMA MostFacts ==
  ASSUME Types
  PROVE  Most \in Nat /\ Most <= r.forlen /\ Most <= ReadSize /\ r.pos + Most <= body.size
<1>1. /\ r.forlen \in Nat /\ ReadSize \in Nat /\ body.size \in Nat /\ r.pos \in Nat
      /\ r.pos <= body.size
  BY ResponseFields, SizeFacts, BodyFacts DEF Types, Fits
<1> QED
  BY <1>1 DEF Most, Lesser

LEMMA DataFacts ==
  ASSUME Types, NEW k \in Nat, NEW n \in 0 .. Len(Data(k))
  PROVE  /\ Data(k) \in Seq(Item) /\ Len(Data(k)) \in Nat
         /\ SubSeq(Data(k), 1, n) \in Seq(Item)
         /\ SubSeq(Data(k), n + 1, Len(Data(k))) \in Seq(Item)
         /\ SubSeq(Data(k), 1, n) \o SubSeq(Data(k), n + 1, Len(Data(k))) = Data(k)
         /\ Output(k, n) \in Seq(Item)
<1>1. r.held \in Seq(Item) /\ r.buffer \in Seq(Item) /\ r.pos \in Int
  BY ResponseFields
<1>2. Data(k) \in Seq(Item) /\ Len(Data(k)) \in Nat
  <2>1. Bytes(r.pos, k) \in Seq(Item)
    BY <1>1, BytesFacts
  <2>2. r.held \o Bytes(r.pos, k) \in Seq(Item)
    BY <1>1, <2>1, ConcatFacts
  <2>3. Data(k) \in Seq(Item)
    BY <2>2 DEF Data
  <2> QED
    BY <2>3, LenProperties
<1> DEFINE data == Data(k)
<1> HIDE DEF data
<1>3. data \in Seq(Item) /\ Len(data) \in Nat /\ n \in 0 .. Len(data)
  BY <1>2 DEF data
<1>4. /\ SubSeq(data, 1, n) \in Seq(Item)
      /\ SubSeq(data, n + 1, Len(data)) \in Seq(Item)
  BY <1>3
<1>5. SubSeq(data, 1, n) \o SubSeq(data, n + 1, Len(data)) = data
  <2>1. 1 \in 1 .. Len(data) + 1 /\ n \in 1 - 1 .. Len(data) /\ Len(data) \in n .. Len(data)
    BY <1>3
  <2>2. SubSeq(data, 1, n) \o SubSeq(data, n + 1, Len(data)) = SubSeq(data, 1, Len(data))
    BY <1>3, <2>1, ConcatAdjacentSubSeq
  <2>3. SubSeq(data, 1, Len(data)) = data
    BY <1>3
  <2> QED
    BY <2>2, <2>3
<1>6. r.buffer \o SubSeq(data, 1, n) \in Seq(Item)
  BY <1>1, <1>4, ConcatFacts
<1> QED
  BY <1>2, <1>4, <1>5, <1>6 DEF data, Output

\* What a turn leaves: nothing new if nothing was read; or else chunks for the
\* connection, the rest in the buffer and what the encoder holds.
Turned(k, n) ==
  LET output == Output(k, n)
  IN /\ r'.done = r.done /\ r'.status = r.status /\ r'.values = r.values /\ r'.length = r.length
     /\ r'.encoder = r.encoder /\ r'.chunk = r.chunk /\ r'.todo = r.todo
     /\ r'.pos = r.pos + k /\ r'.forlen = r.forlen - k
     /\ k = 0 => r' = r
     /\ k # 0 => /\ r'.held = SubSeq(Data(k), n + 1, Len(Data(k)))
                 /\ r'.buffer = Rest(output, r.chunk)

LEMMA ReadOutcome ==
  ASSUME Types, NEW k, NEW n, Reads1(k, n)
  PROVE  /\ k \in 0 .. Most /\ n \in 0 .. Len(Data(k)) /\ r' \in Response /\ Turned(k, n)
         /\ k # 0 => Len(r'.buffer) < r'.chunk
         /\ LET writes == IF k = 0 THEN <<>> ELSE FullChunks(Output(k, n), r.chunk)
            IN writes \in Seq(Seq(Item)) /\ Write(writes, IF PartEnds(k) THEN "part" ELSE "read")
<1> DEFINE output == Output(k, n)
           writes == IF k = 0 THEN <<>> ELSE FullChunks(output, r.chunk)
           next == IF PartEnds(k) THEN "part" ELSE "read"
           held == SubSeq(Data(k), n + 1, Len(Data(k)))
           rest == Rest(output, r.chunk)
<1>1. /\ k \in 0 .. Most /\ n \in 0 .. Len(Data(k)) /\ Write(writes, next)
      /\ r' = IF k = 0 THEN r
              ELSE [r EXCEPT !.pos = @ + k, !.forlen = @ - k, !.held = held, !.buffer = rest]
  BY DEF Reads1
<1>2. /\ k \in Nat /\ r \in Response /\ r.chunk \in Nat \ {0}
      /\ r.pos \in Nat /\ r.forlen \in Nat /\ r.pos + k \in Nat /\ r.forlen - k \in Nat
  <2>1. r \in Response /\ r.chunk \in Nat \ {0} /\ r.pos \in Nat /\ r.forlen \in Nat
    BY ResponseFields
  <2>2. Most \in Nat /\ Most <= r.forlen
    BY MostFacts
  <2> QED
    BY <1>1, <2>1, <2>2
<1>3. output \in Seq(Item) /\ held \in Seq(Item)
  BY <1>1, <1>2, DataFacts
<1>4. rest \in Seq(Item) /\ Len(rest) < r.chunk /\ FullChunks(output, r.chunk) \in Seq(Seq(Item))
  <2> HIDE DEF output
  <2> QED
    BY <1>2, <1>3, ChunksJoin
<1>5. writes \in Seq(Seq(Item))
  BY <1>4
<1> HIDE DEF output, writes, next, held, rest
<1>6. CASE k = 0
  <2>1. r' = r /\ r.pos + k = r.pos /\ r.forlen - k = r.forlen
    BY <1>1, <1>2, <1>6
  <2>2. Turned(k, n)
    BY <1>6, <2>1 DEF Turned
  <2> QED
    BY <1>1, <1>2, <1>5, <1>6, <2>1, <2>2 DEF writes, next, output
<1>7. CASE k # 0
  <2>1. /\ r' \in Response
        /\ r'.done = r.done /\ r'.status = r.status /\ r'.values = r.values /\ r'.length = r.length
        /\ r'.encoder = r.encoder /\ r'.chunk = r.chunk /\ r'.todo = r.todo
        /\ r'.pos = r.pos + k /\ r'.forlen = r.forlen - k
        /\ r'.held = held /\ r'.buffer = rest
    BY <1>1, <1>2, <1>3, <1>4, <1>7 DEF Response
  <2>2. Turned(k, n)
    BY <1>7, <2>1 DEF Turned, held, rest, output
  <2> QED
    BY <1>1, <1>4, <1>5, <1>7, <2>1, <2>2 DEF writes, next, output
<1> QED
  BY <1>6, <1>7

LEMMA TypesReadBody == Types /\ ReadBody => Types'
<1> SUFFICES ASSUME Types, ReadBody PROVE Types'
  OBVIOUS
<1>1. PICK k, n : Reads1(k, n)
  BY ReadsSome
<1>2. /\ k \in 0 .. Most /\ r' \in Response /\ Turned(k, n)
      /\ k # 0 => Len(r'.buffer) < r'.chunk
  BY <1>1, ReadOutcome
<1>3. IsConn(conn') /\ at' \in {"crashed", "part", "read"}
  BY <1>1, ReadOutcome, WriteFacts
<1>4. IsConn(conn)'
  BY <1>3 DEF IsConn
<1>5. UNCHANGED <<outside, options, ret>> /\ at = "read"
  BY DEF ReadBody
<1>6. Fits'
  <2>1. Begun' = Begun /\ Begun \in Nat
    <3>1. r'.values = r.values /\ r'.todo = r.todo /\ r'.status = r.status
      BY <1>2 DEF Turned
    <3>2. Multipart => Len(r.todo) <= Len(r.values)
      BY DEF Types, Fits
    <3> QED
      BY <3>1, <3>2, ResponseFields DEF Begun, Multipart, Partial
  <2>2. Len(r'.buffer) < r'.chunk + Begun'
    <3>1. r'.chunk \in Nat /\ Len(r'.buffer) \in Nat
      BY <1>2 DEF Response
    <3>2. Len(r.buffer) < r.chunk + Begun
      BY DEF Types, Fits
    <3>3. k = 0 => r' = r
      BY <1>2 DEF Turned
    <3> QED
      BY <1>2, <2>1, <3>1, <3>2, <3>3
  <2>3. r'.pos <= body.size
    BY <1>2, MostFacts, ResponseFields, BodyFacts DEF Turned
  <2>4. Within(r'.values, body.size) /\ (Multipart => Len(r.todo) <= Len(r.values) /\ Begun > 0)
        /\ r'.values = r.values /\ r'.todo = r.todo /\ Multipart' = Multipart /\ body' = body
    BY <1>2, <1>5 DEF Types, Fits, Turned, Multipart, Partial, outside
  <2> QED
    BY <1>3, <2>1, <2>2, <2>3, <2>4 DEF Fits
<1> QED
  BY <1>2, <1>3, <1>4, <1>5, <1>6 DEF Types, outside

\* What goes out at the end.
Remains ==
  r.buffer \o (IF Multipart THEN <<Close>> ELSE <<>>)
           \o (IF r.encoder = "none" THEN <<>> ELSE Append(r.held, Trailer))

LEMMA LastType ==
  ASSUME Types
  PROVE  Remains \in Seq(Item)
<1> DEFINE close == IF Multipart THEN <<Close>> ELSE <<>>
           trailer == IF r.encoder = "none" THEN <<>> ELSE Append(r.held, Trailer)
<1>1. r.buffer \in Seq(Item) /\ r.held \in Seq(Item) /\ Close \in Item /\ Trailer \in Item
  BY ResponseFields DEF Item
<1>2. close \in Seq(Item) /\ trailer \in Seq(Item)
  BY <1>1
<1> HIDE DEF close, trailer
<1>3. (r.buffer \o close) \o trailer \in Seq(Item)
  BY <1>1, <1>2, ConcatFacts
<1> QED
  BY <1>3 DEF Remains, close, trailer

LEMMA SendDoneOutcome ==
  ASSUME Types, SendDone
  PROVE  LET writes == IF Remains = <<>> THEN <<>> ELSE <<Remains>>
         IN /\ writes \in Seq(Seq(Item)) /\ Write(writes, "finish")
            /\ r' \in Response /\ r'.buffer = <<>> /\ r'.held = <<>>
            /\ r'.done = r.done /\ r'.status = r.status /\ r'.values = r.values
            /\ r'.length = r.length /\ r'.encoder = r.encoder /\ r'.chunk = r.chunk
            /\ r'.todo = r.todo /\ r'.pos = r.pos /\ r'.forlen = r.forlen
<1>1. Remains \in Seq(Item) /\ r \in Response
  BY LastType, ResponseFields
<1>2. Write(IF Remains = <<>> THEN <<>> ELSE <<Remains>>, "finish")
  BY DEF SendDone, Remains
<1>3. (IF Remains = <<>> THEN <<>> ELSE <<Remains>>) \in Seq(Seq(Item))
  BY <1>1
<1>4. r' = [r EXCEPT !.buffer = <<>>, !.held = <<>>]
  BY DEF SendDone
<1> DEFINE empty == <<>>
<1>5. empty \in Seq(Item)
  OBVIOUS
<1>6. r' = [r EXCEPT !.buffer = empty, !.held = empty]
  BY <1>4
<1> HIDE DEF empty
<1>7. /\ r' \in Response /\ r'.buffer = empty /\ r'.held = empty
      /\ r'.done = r.done /\ r'.status = r.status /\ r'.values = r.values
      /\ r'.length = r.length /\ r'.encoder = r.encoder /\ r'.chunk = r.chunk
      /\ r'.todo = r.todo /\ r'.pos = r.pos /\ r'.forlen = r.forlen
  BY <1>1, <1>5, <1>6 DEF Response
<1> QED
  BY <1>2, <1>3, <1>7 DEF empty

LEMMA TypesSendDone == Types /\ SendDone => Types'
<1> SUFFICES ASSUME Types, SendDone PROVE Types'
  OBVIOUS
<1>1. UNCHANGED <<outside, options, ret>> /\ at = "part"
  BY DEF SendDone
<1>2. IsConn(conn') /\ at' \in {"crashed", "finish"}
  BY SendDoneOutcome, WriteFacts
<1>3. IsConn(conn)'
  BY <1>2 DEF IsConn
<1>4. /\ r' \in Response /\ r'.buffer = <<>> /\ r'.pos = r.pos /\ r'.values = r.values
      /\ r'.todo = r.todo /\ r'.status = r.status /\ r'.chunk = r.chunk
  BY SendDoneOutcome
<1>5. Fits'
  <2>1. r'.chunk \in Nat \ {0} /\ Begun' = Begun /\ Begun \in Nat
    <3>1. Multipart => Len(r.todo) <= Len(r.values)
      BY DEF Types, Fits
    <3> QED
      BY <1>4, <3>1, ResponseFields DEF Begun, Multipart, Partial
  <2>2. Len(r'.buffer) < r'.chunk + Begun'
    BY <1>4, <2>1
  <2> QED
    BY <1>1, <1>2, <1>4, <2>2 DEF Types, Fits, Multipart, Partial, Within, outside
<1> QED
  BY <1>1, <1>2, <1>3, <1>4, <1>5 DEF Types, outside

LEMMA FinishOutcome ==
  ASSUME Types, Finish
  PROVE  /\ IsConn(conn') /\ conn'.status = conn.status /\ conn'.headers = conn.headers
         /\ conn'.out = conn.out
         /\ \/ at' = "crashed" /\ ret' = ret
            \/ at' = "returned" /\ ret' = TRUE
<1>1. IsConn(conn)
  BY DEF Types
<1>2. CASE conn' = conn
  BY <1>1, <1>2 DEF Finish, Return
<1>3. CASE conn' = [conn EXCEPT !.started = TRUE, !.finished = TRUE]
  BY <1>1, <1>3, FinishFlagFacts DEF Finish, Return
<1> QED
  BY <1>2, <1>3 DEF Finish

LEMMA TypesFinish == Types /\ Finish => Types'
<1> SUFFICES ASSUME Types, Finish PROVE Types'
  OBVIOUS
<1>1. IsConn(conn)'
  BY FinishOutcome DEF IsConn
<1>2. UNCHANGED <<outside, options, r>> /\ at' \in {"returned", "crashed"} /\ ret' \in BOOLEAN
  BY FinishOutcome DEF Finish, Types
<1> QED
  BY <1>1, <1>2, TypesPass

LEMMA TypesReceive == Types /\ Receive => Types'
<1> SUFFICES ASSUME Types, Receive PROVE Types'
  OBVIOUS
<1>1. /\ r' = NoResponse /\ conn' = NewConn /\ at' = "script" /\ ret' = FALSE
      /\ UNCHANGED <<setup, body, options, exchanges>>
  BY DEF Receive
<1>2. request'.range = NoRange
  BY GetFields DEF Receive
<1>3. IsConn(conn)'
  BY <1>1, NewConnFacts DEF IsConn
<1>4. Fits'
  <2>1. body'.size \in Nat
    BY <1>1, BodyFacts
  <2> QED
    BY <1>1, <2>1, NoResponseFacts, SizeFacts DEF Fits, Within, Begun, Multipart, Partial
<1> QED
  BY <1>1, <1>2, <1>3, <1>4, NoResponseFacts DEF Types

LEMMA TypesStutter == Types /\ UNCHANGED vars => Types'
<1> SUFFICES ASSUME Types, UNCHANGED vars PROVE Types'
  OBVIOUS
<1>1. IsConn(conn) /\ conn' = conn
  BY DEF Types, vars
<1>2. IsConn(conn)'
  BY <1>1 DEF IsConn
<1>3. Fits'
  BY DEF Types, vars, Fits, Within, Begun, Multipart, Partial
<1> QED
  BY <1>2, <1>3 DEF Types, vars

LEMMA TypesNext == Types /\ [Next]_vars => Types'
  BY TypesAsk, TypesChange, TypesCompare, TypesWithoutBody, TypesRefused, TypesCheckRanges, TypesHead,
     TypesHeadEncoding, TypesHeadCaching, TypesBodyStart, TypesNextPart, TypesReadBody, TypesSendDone,
     TypesFinish, TypesReceive, TypesStutter DEF Next, Send

\* In every state: no range ends behind the body, and less than a chunk stays
\* in the buffer of php_http_env_response_t, but for heads of empty parts.
THEOREM ResponseTypes == Spec => []Types
  BY InitTypes, TypesNext, PTL DEF Spec

\* TypeOK is part of it.
THEOREM TypeCorrect == Spec => []TypeOK
<1>1. Types => TypeOK
  <2> SUFFICES ASSUME Types PROVE TypeOK
    OBVIOUS
  <2>1. r.pos \in 0 .. MaxSize /\ r.forlen \in Nat
    BY ResponseFields, BodyFacts, SizeFacts DEF Types, Fits
  <2>2. Len(r.buffer) < r.chunk + Len(r.values)
    <3>1. Len(r.buffer) < r.chunk + Begun
      BY DEF Types, Fits
    <3>2. Begun \in Int /\ Begun <= Len(r.values)
      <4>1. Len(r.values) \in Nat /\ Len(r.todo) \in Nat
        BY ResponseFields
      <4> DEFINE m == Len(r.values)
                 n == Len(r.todo)
      <4>2. Begun = IF Multipart THEN m - n ELSE 0
        BY DEF Begun
      <4>3. m \in Nat /\ n \in Nat
        BY <4>1
      <4> HIDE DEF m, n
      <4>4. Begun \in Int /\ Begun <= m
        BY <4>2, <4>3
      <4> QED
        BY <4>4 DEF m
    <3> QED
      BY <3>1, <3>2, ResponseFields
  <2>3. conn.status \in {200, 206, 304, 404, 412, 416}
    <3>1. IsConn(conn)
      BY DEF Types
    <3> QED
      BY <3>1, ConnFields, ZenonT(60)
  <2> QED
    BY <2>1, <2>2, <2>3, ResponseFields DEF Types, TypeOK, Statuses
<1> QED
  BY <1>1, ResponseTypes, PTL

-----------------------------------------------------------------------------
(* The second invariant: heads *)

LEMMA InitHeads == Init => Heads
<1> SUFFICES ASSUME Init PROVE Heads
  OBVIOUS
<1>1. at = "script" /\ ret = FALSE /\ request = Get /\ conn = NewConn /\ r = NoResponse
  BY DEF Init
<1>2. Started
  BY <1>1, NoResponseFacts DEF Started, Partial
<1> QED
  BY <1>1, <1>2 DEF Heads, Fresh, Preparing, Final, Headed

LEMMA HeadsAsk == Types /\ Heads /\ Ask => Heads'
<1> SUFFICES ASSUME Types, Heads, Ask PROVE Heads'
  OBVIOUS
<1>1. at = "script" /\ at' = "send" /\ UNCHANGED <<setup, body, r, ret>> /\ conn = NewConn
  BY DEF Ask, Heads, Fresh
<1>2. conn'.finished = FALSE /\ conn'.status = 200 /\ conn'.headers = <<>> /\ conn'.out = <<>>
  BY <1>1 DEF Ask, NewConn
<1>3. Fresh'
  BY <1>1, <1>2 DEF Fresh
<1>4. Started'
  BY <1>1 DEF Heads, Started, Partial, BodyPresent
<1> QED
  BY <1>1, <1>3, <1>4 DEF Heads, Preparing, Final, Headed

LEMMA HeadsChange == Types /\ Heads /\ Change => Heads'
<1> SUFFICES ASSUME Types, Heads, Change PROVE Heads'
  OBVIOUS
<1>1. /\ at = "script" /\ UNCHANGED <<setup, options, request, r, conn, at, ret>> /\ r = NoResponse
  BY DEF Change, Types, Fits
<1>2. Started'
  BY <1>1, NoResponseFacts DEF Started, Partial
<1> QED
  BY <1>1, <1>2 DEF Heads, Fresh, Preparing, Final, Headed

LEMMA HeadsCompare == Types /\ Heads /\ Compare => Heads'
<1> SUFFICES ASSUME Types, Heads, Compare PROVE Heads'
  OBVIOUS
<1>1. at = "send" /\ UNCHANGED <<setup, body, request, r, conn, at, ret>>
  BY DEF Compare, outside
<1> QED
  BY <1>1 DEF Heads, Fresh, Preparing, Started, Final, Headed, Partial, BodyPresent, Names

LEMMA HeadsWithoutBody == Types /\ Heads /\ WithoutBody => Heads'
<1> SUFFICES ASSUME Types, Heads, WithoutBody PROVE Heads'
  OBVIOUS
<1>1. at = "send" /\ at' = "head" /\ UNCHANGED <<setup, body, r, conn, ret>> /\ r = NoResponse
  BY DEF WithoutBody, outside, Types, Fits
<1>2. conn.out = <<>> /\ conn.headers = <<>>
  BY <1>1 DEF Heads, Fresh
<1>3. Names' = {}
  BY <1>1, <1>2 DEF Names
<1>4. Preparing'
  BY <1>1, <1>2, <1>3, NoResponseFacts DEF Preparing
<1>5. Started'
  BY <1>1, NoResponseFacts DEF Started, Partial
<1> QED
  BY <1>1, <1>4, <1>5 DEF Heads, Fresh, Final, Headed

LEMMA HeadsRefused == Types /\ Heads /\ (AcceptRangesRefused \/ HeadRefused) => Heads'
<1> SUFFICES ASSUME Types, Heads, AcceptRangesRefused \/ HeadRefused PROVE Heads'
  OBVIOUS
<1>1. UNCHANGED <<setup, body, r, conn>> /\ at' = "returned" /\ ret' = FALSE
  BY DEF AcceptRangesRefused, HeadRefused, Return, outside
<1>2. Started'
  BY <1>1 DEF Heads, Started, Partial, BodyPresent
<1> QED
  BY <1>1, <1>2 DEF Heads, Fresh, Preparing, Final, Headed

LEMMA HeadsCheckRanges == Types /\ Heads /\ CheckRanges => Heads'
<1> SUFFICES ASSUME Types, Heads, CheckRanges PROVE Heads'
  OBVIOUS
<1>1. at = "send" /\ at' = "head" /\ UNCHANGED <<setup, body, ret>> /\ BodyPresent
  BY DEF CheckRanges, outside
<1>2. conn.out = <<>> /\ conn.headers = <<>>
  BY <1>1 DEF Heads, Fresh
<1>3. DOMAIN conn.headers = {}
  BY <1>2
<1>4. /\ r'.length = body.size /\ r'.encoder = "none" /\ r'.held = <<>> /\ r'.buffer = <<>>
  BY CheckOutcome, NoResponseFacts DEF Checked
<1>5. Preparing'
  BY <1>1, <1>2, <1>3, <1>4, CheckedConn DEF Preparing, Names
<1>6. Started'
  <2>1. ~r'.done /\ r'.status # "RANGE_OK" => r'.values = <<>>
    BY CheckOutcome DEF Unranged, NotSatisfiable, Failed, Satisfiable
  <2> QED
    BY <1>1, <1>4, <2>1 DEF Started, Partial, BodyPresent
<1> QED
  BY <1>1, <1>5, <1>6 DEF Heads, Fresh, Final, Headed

LEMMA HeadsHeadDone == Types /\ Heads /\ HeadDone => Heads'
<1> SUFFICES ASSUME Types, Heads, HeadDone PROVE Heads'
  OBVIOUS
<1>1. at = "head" /\ r.done /\ at' = "body" /\ UNCHANGED <<setup, body, options, r, conn, ret>>
  BY DEF HeadDone, outside
<1>2. /\ conn.status \in {412, 416} /\ Names \subseteq {"Accept-Ranges", "Content-Range"}
      /\ conn.out = <<>> /\ r.buffer = <<>> /\ r.held = <<>>
  BY <1>1 DEF Heads, Preparing
<1>3. Preparing'
  BY <1>1, <1>2 DEF Preparing
<1>4. Started'
  BY <1>1 DEF Heads, Started, Partial, BodyPresent
<1>5. Final'
  BY <1>1, <1>2 DEF Final, Headed, Names
<1> QED
  BY <1>1, <1>3, <1>4, <1>5 DEF Heads, Fresh

LEMMA HeadsHeadStart == Types /\ Heads /\ HeadStart => Heads'
<1> SUFFICES ASSUME Types, Heads, HeadStart PROVE Heads'
  OBVIOUS
<1>1. /\ at = "head" /\ ~r.done /\ at' = (IF Partial THEN "ranges" ELSE "encoding")
      /\ ~conn.started /\ ~conn.finished /\ UNCHANGED <<setup, body, options, r, ret>>
  BY DEF HeadStart, outside, CanSet
<1>2. /\ Names \subseteq {"Accept-Ranges"} /\ r.encoder = "none"
      /\ conn.out = <<>> /\ r.buffer = <<>> /\ r.held = <<>>
  BY <1>1 DEF Heads, Preparing
<1>3. /\ ~conn'.started /\ ~conn'.finished /\ conn'.out = <<>> /\ conn'.status = setup.code
      /\ Names' \subseteq {"Accept-Ranges", "Vary"}
  BY <1>1, <1>2, HeadStartOutcome DEF SameProgress, Names
<1>4. Preparing'
  BY <1>1, <1>2, <1>3 DEF Preparing, Partial
<1>5. Started'
  BY <1>1 DEF Heads, Started, Partial, BodyPresent
<1> QED
  BY <1>1, <1>4, <1>5 DEF Heads, Fresh, Final, Headed

LEMMA HeadsHeadRanges == Types /\ Heads /\ HeadRanges => Heads'
<1> SUFFICES ASSUME Types, Heads, HeadRanges PROVE Heads'
  OBVIOUS
<1>1. at = "ranges" /\ at' = "body" /\ UNCHANGED <<setup, body, options, r, ret>>
  BY DEF HeadRanges, outside
<1>2. /\ Names \subseteq {"Accept-Ranges", "Vary"} /\ r.encoder = "none" /\ ~r.done /\ Partial
      /\ conn.out = <<>> /\ r.buffer = <<>> /\ r.held = <<>>
  BY <1>1 DEF Heads, Preparing
<1>3. conn'.out = <<>> /\ conn'.status = 206
  BY <1>2, HeadRangesOutcome DEF SameProgress
<1>4. Preparing'
  BY <1>1, <1>2, <1>3 DEF Preparing
<1>5. Started'
  BY <1>1 DEF Heads, Started, Partial, BodyPresent
<1>6. Final'
  <2>1. Names' \subseteq {"Accept-Ranges", "Vary", "Content-Type", "Content-Range"}
    BY <1>2, HeadRangesOutcome DEF Names
  <2>2. Multipart => "Content-Range" \notin Names'
    BY <1>2, HeadRangesOutcome DEF Names
  <2>3. ~Multipart => /\ "Content-Range" \in Names'
                      /\ conn'.headers["Content-Range"] = <<r.values[1].begin, r.values[1].end, r.length>>
    BY HeadRangesOutcome DEF Names
  <2>4. Multipart' = Multipart /\ Partial' = Partial
    BY <1>1 DEF Multipart, Partial
  <2> QED
    BY <1>1, <1>2, <1>3, <2>1, <2>2, <2>3, <2>4 DEF Final
<1> QED
  BY <1>1, <1>4, <1>5, <1>6 DEF Heads, Fresh

LEMMA HeadsHeadEncoding == Types /\ Heads /\ HeadEncoding => Heads'
<1> SUFFICES ASSUME Types, Heads, HeadEncoding PROVE Heads'
  OBVIOUS
<1>1. at = "encoding" /\ at' = "caching" /\ UNCHANGED <<setup, body, options, ret>>
  BY DEF HeadEncoding, outside
<1>2. /\ Names \subseteq {"Accept-Ranges", "Vary"} /\ r.encoder = "none" /\ ~r.done /\ ~Partial
      /\ conn.out = <<>> /\ r.buffer = <<>> /\ r.held = <<>> /\ ~conn.started /\ ~conn.finished
      /\ conn.status = setup.code
  BY <1>1 DEF Heads, Preparing
<1>3. /\ conn'.out = <<>> /\ conn'.status = setup.code /\ ~conn'.started /\ ~conn'.finished
      /\ Names' \subseteq {"Accept-Ranges", "Vary", "Content-Encoding"}
  BY <1>2, HeadEncodingOutcome DEF SameProgress, Names
<1>4. /\ r'.done = r.done /\ r'.status = r.status /\ r'.values = r.values /\ r'.length = r.length
      /\ r'.buffer = r.buffer /\ r'.held = r.held
      /\ "Content-Encoding" \in Names' <=> r'.encoder # "none"
  <2>1. CASE r' = r /\ ("Content-Encoding" \notin DOMAIN conn.headers
                            => "Content-Encoding" \notin DOMAIN conn'.headers)
    BY <1>2, <2>1 DEF Names
  <2>2. CASE /\ request.accept \in {"gzip", "deflate"} /\ r' = [r EXCEPT !.encoder = request.accept]
             /\ "Content-Encoding" \in DOMAIN conn'.headers
    <3>1. r \in Response
      BY ResponseFields
    <3>2. /\ r'.done = r.done /\ r'.status = r.status /\ r'.values = r.values /\ r'.length = r.length
          /\ r'.buffer = r.buffer /\ r'.held = r.held /\ r'.encoder = request.accept
      BY <2>2, <3>1 DEF Response
    <3> QED
      BY <2>2, <3>2 DEF Names
  <2> QED
    BY <2>1, <2>2, HeadEncodingOutcome
<1>5. Preparing'
  BY <1>1, <1>2, <1>3, <1>4 DEF Preparing, Partial
<1>6. Started'
  BY <1>1, <1>2, <1>4 DEF Heads, Started, Partial
<1> QED
  BY <1>1, <1>5, <1>6 DEF Heads, Fresh, Final, Headed

LEMMA HeadsHeadCaching == Types /\ Heads /\ HeadCaching => Heads'
<1> SUFFICES ASSUME Types, Heads, HeadCaching PROVE Heads'
  OBVIOUS
<1>1. at = "caching" /\ at' = "body" /\ UNCHANGED <<setup, body, ret>>
  BY DEF HeadCaching, outside
<1>2. /\ Names \subseteq {"Accept-Ranges", "Vary", "Content-Encoding"} /\ ~r.done /\ ~Partial
      /\ "Content-Encoding" \in Names <=> r.encoder # "none"
      /\ conn.out = <<>> /\ r.buffer = <<>> /\ r.held = <<>> /\ conn.status = setup.code
  BY <1>1 DEF Heads, Preparing
<1>3. /\ r'.status = r.status /\ r'.values = r.values /\ r'.length = r.length
      /\ r'.buffer = r.buffer /\ r'.held = r.held /\ r'.encoder = r.encoder
      /\ r'.done \in BOOLEAN /\ r'.done => conn'.status = 304
      /\ ~r'.done => conn'.status = conn.status
  <2>1. CASE UNCHANGED <<options, r, conn>>
    BY <1>2, <2>1, ResponseFields
  <2>2. CASE conn'.status = (IF Hit THEN 304 ELSE conn.status) /\ r' = [r EXCEPT !.done = Hit]
    <3>1. r \in Response
      BY ResponseFields
    <3>2. Hit \in BOOLEAN
      BY DEF Hit, NotModified
    <3>3. /\ r'.status = r.status /\ r'.values = r.values /\ r'.length = r.length
          /\ r'.buffer = r.buffer /\ r'.held = r.held /\ r'.encoder = r.encoder /\ r'.done = Hit
      BY <2>2, <3>1 DEF Response
    <3> QED
      BY <2>2, <3>2, <3>3
  <2> QED
    BY <2>1, <2>2, HeadCachingOutcome
<1>4. /\ conn'.out = <<>> /\ DOMAIN conn.headers \subseteq DOMAIN conn'.headers
      /\ DOMAIN conn'.headers \subseteq DOMAIN conn.headers \cup {"ETag", "Last-Modified"}
      /\ "ETag" \in DOMAIN conn'.headers => conn'.headers["ETag"] = <<options'.etag>>
      /\ "Last-Modified" \in DOMAIN conn'.headers =>
            conn'.headers["Last-Modified"] = <<options'.lastModified>>
  BY <1>2, HeadCachingOutcome DEF SameProgress, Names
<1>5. Preparing'
  BY <1>1, <1>2, <1>3, <1>4 DEF Preparing
<1>6. Started'
  BY <1>1, <1>2, <1>3 DEF Heads, Started, Partial
<1>7. Final'
  <2>1. "Content-Encoding" \in Names' <=> r'.encoder # "none"
    BY <1>2, <1>3, <1>4 DEF Names
  <2> QED
    BY <1>1, <1>2, <1>3, <1>4, <2>1 DEF Final, Partial, Multipart, Names
<1> QED
  BY <1>1, <1>5, <1>6, <1>7 DEF Heads, Fresh

\* Once the head is final, it stays.
LEMMA HeadsKept ==
  ASSUME Types, Heads, UNCHANGED <<setup, body, options>>,
         conn'.status = conn.status, conn'.headers = conn.headers,
         r'.done = r.done, r'.status = r.status, r'.values = r.values, r'.length = r.length,
         r'.encoder = r.encoder,
         Headed, at' \in {"part", "read", "finish", "returned", "crashed"},
         at' \in {"part", "read"} => ~r.done /\ BodyPresent
  PROVE  Heads'
<1>1. Started'
  BY DEF Heads, Started, Partial, BodyPresent
<1>2. Final'
  BY DEF Heads, Final, Partial, Multipart, Names
<1> QED
  BY <1>1, <1>2 DEF Heads, Fresh, Preparing

LEMMA HeadsBody ==
  Types /\ Heads /\ (BodyDone \/ BodyStart \/ NextPart \/ ReadBody \/ SendDone \/ Finish) => Heads'
<1> SUFFICES ASSUME Types, Heads, BodyDone \/ BodyStart \/ NextPart \/ ReadBody \/ SendDone \/ Finish
             PROVE  Heads'
  OBVIOUS
<1>1. UNCHANGED <<setup, body, options>> /\ Headed
  BY DEF outside, BodyDone, BodyStart, NextPart, ReadBody, SendDone, Finish, Headed
<1>2. CASE BodyDone
  BY <1>1, <1>2, HeadsKept DEF BodyDone
<1>3. CASE BodyStart
  BY <1>1, <1>3, BodyStartOutcome, HeadsKept DEF BodyStart
<1>4. CASE NextPart
  <2>1. ~r.done /\ BodyPresent
    BY <1>4 DEF NextPart, Heads, Started
  <2>2. /\ r'.done = r.done /\ r'.status = r.status /\ r'.values = r.values /\ r'.length = r.length
        /\ r'.encoder = r.encoder
    BY <1>4, NextPartOutcome
  <2>3. UNCHANGED conn /\ at' = "read"
    BY <1>4 DEF NextPart
  <2> QED
    BY <1>1, <2>1, <2>2, <2>3, HeadsKept
<1>5. CASE ReadBody
  <2>1. ~r.done /\ BodyPresent
    BY <1>5 DEF ReadBody, Heads, Started
  <2>2. PICK k, n : Reads1(k, n)
    BY <1>5, ReadsSome
  <2>3. /\ r'.done = r.done /\ r'.status = r.status /\ r'.values = r.values /\ r'.length = r.length
        /\ r'.encoder = r.encoder
    BY <2>2, ReadOutcome DEF Turned
  <2>4. conn'.status = conn.status /\ conn'.headers = conn.headers /\ at' \in {"part", "read", "crashed"}
    BY <2>2, ReadOutcome, WriteFacts
  <2> QED
    BY <1>1, <2>1, <2>3, <2>4, HeadsKept
<1>6. CASE SendDone
  <2>1. conn'.status = conn.status /\ conn'.headers = conn.headers /\ at' \in {"finish", "crashed"}
    BY <1>6, SendDoneOutcome, WriteFacts
  <2> QED
    BY <1>1, <1>6, <2>1, SendDoneOutcome, HeadsKept
<1>7. CASE Finish
  <2>1. conn'.status = conn.status /\ conn'.headers = conn.headers /\ at' \in {"returned", "crashed"}
        /\ r' = r
    BY <1>7, FinishOutcome DEF Finish
  <2> QED
    BY <1>1, <2>1, HeadsKept
<1> QED
  BY <1>2, <1>3, <1>4, <1>5, <1>6, <1>7

LEMMA HeadsReceive == Types /\ Heads /\ Receive => Heads'
<1> SUFFICES ASSUME Types, Heads, Receive PROVE Heads'
  OBVIOUS
<1>1. /\ r' = NoResponse /\ conn' = NewConn /\ at' = "script" /\ ret' = FALSE /\ request' = Get
  BY DEF Receive
<1>2. Started'
  BY <1>1, NoResponseFacts DEF Started, Partial
<1> QED
  BY <1>1, <1>2 DEF Heads, Fresh, Preparing, Final, Headed

LEMMA HeadsStutter == Heads /\ UNCHANGED vars => Heads'
  BY DEF vars, Heads, Fresh, Preparing, Started, Final, Headed, Names, Partial, Multipart, BodyPresent

LEMMA HeadsNext == Types /\ Heads /\ [Next]_vars => Heads'
  BY HeadsAsk, HeadsChange, HeadsCompare, HeadsWithoutBody, HeadsRefused, HeadsCheckRanges,
     HeadsHeadDone, HeadsHeadStart, HeadsHeadRanges, HeadsHeadEncoding, HeadsHeadCaching, HeadsBody,
     HeadsReceive, HeadsStutter DEF Next, Send

THEOREM ResponseHeads == Spec => [](Types /\ Heads)
  BY InitTypes, TypesNext, InitHeads, HeadsNext, PTL DEF Spec

\* No step after the first write sets a header or the status.
LEMMA FrozenStep ==
  ASSUME Types, Heads, Next, at \notin {"script", "returned"}, conn.started
  PROVE  conn'.status = conn.status /\ conn'.headers = conn.headers
<1>1. CASE Ask \/ Change \/ Receive
  BY <1>1 DEF Ask, Change, Receive
<1>2. CASE Compare \/ WithoutBody \/ AcceptRangesRefused \/ HeadDone \/ HeadRefused \/ BodyDone
           \/ BodyStart \/ NextPart
  BY <1>2 DEF Compare, WithoutBody, AcceptRangesRefused, HeadDone, HeadRefused, BodyDone,
              BodyStart, NextPart
<1>3. CASE CheckRanges \/ HeadStart
  BY <1>3 DEF CheckRanges, HeadStart, CanSet
<1>4. CASE HeadRanges \/ HeadEncoding \/ HeadCaching
  BY <1>4 DEF Heads, Preparing, HeadRanges, HeadEncoding, HeadCaching
<1>5. CASE ReadBody
  <2>1. PICK k, n : Reads1(k, n)
    BY <1>5, ReadsSome
  <2> QED
    BY <2>1, ReadOutcome, WriteFacts
<1>6. CASE SendDone
  BY <1>6, SendDoneOutcome, WriteFacts
<1>7. CASE Finish
  BY <1>7, FinishOutcome
<1> QED
  BY <1>1, <1>2, <1>3, <1>4, <1>5, <1>6, <1>7 DEF Next, Send

\* Once the head is out, nothing in it changes: what sets a header or the
\* status comes before the first write, or is refused, whatever the script
\* printed before (php_http_env_response_send).
THEOREM HeadStays == Spec => HeadFrozen
<1>1. Types /\ Heads /\ [Next]_vars =>
         [(at \notin {"script", "returned"} /\ conn.started)
            => conn'.status = conn.status /\ conn'.headers = conn.headers]_vars
  BY FrozenStep DEF vars
<1> QED
  BY <1>1, ResponseHeads, PTL DEF Spec, HeadFrozen

-----------------------------------------------------------------------------
(* The third invariant: what was produced *)

LEMMA BytesConcat ==
  ASSUME Types, NEW from \in Int, NEW m \in Nat, NEW n \in Nat
  PROVE  Bytes(from, m) \o Bytes(from + m, n) = Bytes(from, m + n)
<1> DEFINE u == Bytes(from, m)
           v == Bytes(from + m, n)
           w == Bytes(from, m + n)
<1>1. /\ u \in Seq(Item) /\ Len(u) = m /\ v \in Seq(Item) /\ Len(v) = n
      /\ w \in Seq(Item) /\ Len(w) = m + n
  BY BytesFacts
<1>2. \A i \in 1 .. m + n : (u \o v)[i] = w[i]
  <2>1. ASSUME NEW i \in 1 .. m + n, i <= m PROVE u[i] = w[i]
    BY <2>1 DEF Bytes
  <2>2. ASSUME NEW i \in 1 .. m + n, i > m PROVE v[i - m] = w[i]
    <3>1. i - m \in 1 .. n
      BY <2>2
    <3> DEFINE j == i - m
    <3>2. (from + m) + j - 1 = from + i - 1
      OBVIOUS
    <3>3. v[j] = Byte((from + m) + j - 1) /\ w[i] = Byte(from + i - 1)
      BY <3>1 DEF Bytes
    <3> QED
      BY <3>2, <3>3
  <2>3. ASSUME NEW i \in 1 .. m + n PROVE (u \o v)[i] = IF i <= m THEN u[i] ELSE v[i - m]
    <3> HIDE DEF u, v, w
    <3> QED
      BY <1>1, ConcatProperties
  <2> HIDE DEF u, v, w
  <2>4. ASSUME NEW i \in 1 .. m + n PROVE (u \o v)[i] = w[i]
    <3>1. CASE i <= m
      BY <2>1, <2>3, <3>1
    <3>2. CASE i > m
      <4>1. ~(i <= m)
        BY <3>2
      <4> QED
        BY <2>2, <2>3, <3>2, <4>1
    <3>3. i <= m \/ i > m
      OBVIOUS
    <3> QED
      BY <3>1, <3>2, <3>3
  <2> QED
    BY <2>4
<1> HIDE DEF u, v, w
<1>3. u \o v \in Seq(Item) /\ Len(u \o v) = m + n
  BY <1>1, ConcatFacts
<1> QED
  BY <1>1, <1>2, <1>3, SMTT(30) DEF u, v, w

LEMMA BytesNone ==
  ASSUME NEW from
  PROVE  Bytes(from, 0) = <<>>
  BY DEF Bytes

\* The ranges to send are within the body, and their limit is their length.
LEMMA AllTypes ==
  ASSUME Types
  PROVE  All \in Seq(ByteRange) /\ Len(All) \in Nat /\ (~Partial => All = <<Whole>> /\ Len(All) = 1)
<1>1. Whole \in ByteRange
  BY DEF Whole, ByteRange
<1> QED
  BY <1>1, ResponseFields DEF All

LEMMA AllFacts ==
  ASSUME Types, InRange, NEW i \in 1 .. Len(All)
  PROVE  /\ All[i] \in ByteRange /\ All[i].begin \in Nat /\ Span(All[i]) \in Nat
         /\ All[i].begin + Span(All[i]) <= body.size
         /\ Partial => Limit(All[i]) = Span(All[i]) /\ Span(All[i]) > 0
         /\ ~Partial => All[i].begin = 0 /\ Span(All[i]) = body.size /\ Limit(All[i]) = MaxSize + 1
<1>1. All[i] \in ByteRange /\ body.size \in Nat
  BY AllTypes, BodyFacts
<1>2. CASE Partial
  <2>1. All[i] = r.values[i] /\ i \in DOMAIN r.values
    BY <1>2, ResponseFields DEF All
  <2>2. 0 <= All[i].begin /\ All[i].begin <= All[i].end /\ All[i].end < body.size
    BY <2>1 DEF InRange, ValidRange
  <2>3. All[i].begin \in Int /\ All[i].end \in Int
    BY <1>1 DEF ByteRange
  <2>4. Span(All[i]) = All[i].end - All[i].begin + 1
    BY <1>2 DEF Span
  <2>5. All[i].end - All[i].begin + 1 > 0
    BY <2>2, <2>3
  <2>6. Limit(All[i]) = All[i].end - All[i].begin + 1
    BY <1>1, <2>5, LimitFacts
  <2> QED
    BY <1>1, <1>2, <2>2, <2>3, <2>4, <2>5, <2>6
<1>3. CASE ~Partial
  <2>1. All[i] = Whole
    <3>1. All = <<Whole>> /\ Len(All) = 1
      BY <1>3, AllTypes
    <3>2. i = 1
      BY <3>1
    <3> QED
      BY <3>1, <3>2
  <2>2. All[i].begin = 0 /\ All[i].end = -1
    BY <2>1 DEF Whole
  <2>3. Limit(All[i]) = MaxSize + 1
    BY <1>1, <2>2, LimitFacts
  <2>4. Span(All[i]) = body.size
    BY <1>3 DEF Span
  <2> QED
    BY <1>1, <1>3, <2>2, <2>3, <2>4
<1> QED
  BY <1>2, <1>3

LEMMA PartFacts ==
  ASSUME Types, InRange, NEW i \in 1 .. Len(All)
  PROVE  HeadOf(All[i]) \in Seq(Item) /\ Part(All[i]) \in Seq(Item)
<1>1. All[i] \in ByteRange /\ All[i].begin \in Nat /\ Span(All[i]) \in Nat
  BY AllFacts
<1>2. PartHead(All[i]) \in Item
  BY <1>1, ItemFacts
<1>3. HeadOf(All[i]) \in Seq(Item)
  BY <1>2 DEF HeadOf
<1>4. Bytes(All[i].begin, Span(All[i])) \in Seq(Item)
  <2> DEFINE from == All[i].begin
             n == Span(All[i])
  <2>1. from \in Int /\ n \in Nat
    BY <1>1
  <2> HIDE DEF from, n
  <2>2. Bytes(from, n) \in Seq(Item)
    BY <2>1, BytesFacts
  <2> QED
    BY <2>2 DEF from, n
<1> QED
  BY <1>3, <1>4, ConcatFacts DEF Part

\* One part more.
LEMMA UptoFacts ==
  ASSUME Types, InRange, NEW j \in 0 .. Len(All)
  PROVE  /\ Upto(j) \in Seq(Item) /\ Upto(0) = <<>>
         /\ j < Len(All) => Upto(j + 1) = Upto(j) \o Part(All[j + 1])
<1> DEFINE P(i) == Part(All[i])
           parts == [i \in 1 .. j |-> P(i)]
<1>1. \A i \in 1 .. Len(All) : P(i) \in Seq(Item)
  BY PartFacts
<1>2. Len(All) \in Nat
  BY AllTypes
<1> HIDE DEF P
<1>3. parts \in Seq(Seq(Item))
  BY <1>1, <1>2
<1>4. FlattenSeq(parts) \in Seq(Item)
  <2>1. <<>> \in Seq(Item)
    OBVIOUS
  <2> HIDE DEF parts
  <2> QED
    BY <1>3, <2>1, FlattenAppend
<1>5. Upto(j) = FlattenSeq(parts)
  BY DEF Upto, P
<1>6. Upto(0) = <<>>
  <2>1. [i \in 1 .. 0 |-> P(i)] = <<>>
    OBVIOUS
  <2> QED
    BY <2>1, FlattenEmpty DEF Upto, P
<1>7. ASSUME j < Len(All) PROVE Upto(j + 1) = Upto(j) \o Part(All[j + 1])
  <2>1. P(j + 1) \in Seq(Item)
    BY <1>1, <1>2, <1>7
  <2>2. [i \in 1 .. j + 1 |-> P(i)] = Append(parts, P(j + 1))
    BY <1>1, <1>2, <1>7
  <2> HIDE DEF parts
  <2>3. FlattenSeq(Append(parts, P(j + 1))) = FlattenSeq(parts) \o P(j + 1)
    BY <1>3, <2>1, FlattenAppend
  <2>4. Upto(j + 1) = FlattenSeq([i \in 1 .. j + 1 |-> P(i)])
    BY DEF Upto, P
  <2> QED
    BY <1>5, <2>2, <2>3, <2>4 DEF P
<1> QED
  BY <1>4, <1>5, <1>6, <1>7

LEMMA SentType ==
  ASSUME NEW c, IsConn(c)
  PROVE  FlattenSeq(c.out) \in Seq(Item)
<1>1. c.out \in Seq(Seq(Item))
  BY ConnFields, ZenonT(60)
<1>2. <<>> \in Seq(Item)
  OBVIOUS
<1> QED
  BY <1>1, <1>2, FlattenAppend

\* The parts stay what they are while the body is sent.
LEMMA PartsKept ==
  ASSUME UNCHANGED <<setup, body>>, r'.values = r.values, r'.status = r.status, r'.encoder = r.encoder
  PROVE  /\ All' = All /\ Partial' = Partial /\ Multipart' = Multipart /\ Ends' = Ends
         /\ InRange' = InRange /\ BodyPresent' = BodyPresent
         /\ \A j : Upto(j)' = Upto(j)
         /\ \A range : Span(range)' = Span(range) /\ HeadOf(range)' = HeadOf(range)
                       /\ Limit(range)' = Limit(range)
         /\ \A from, n : Bytes(from, n)' = Bytes(from, n)
<1>1. Partial' = Partial /\ Multipart' = Multipart /\ BodyPresent' = BodyPresent
  BY DEF Partial, Multipart, BodyPresent
<1>2. All' = All
  BY <1>1 DEF All
<1>3. Ends' = Ends
  BY <1>1 DEF Ends
<1>4. InRange' = InRange
  BY DEF InRange, ValidRange
<1>5. \A from, n : Bytes(from, n)' = Bytes(from, n)
  BY DEF Bytes, Byte
<1>6. \A range : Span(range)' = Span(range) /\ HeadOf(range)' = HeadOf(range)
                       /\ Limit(range)' = Limit(range)
  BY <1>1 DEF Span, HeadOf, Limit
<1>7. \A j : Upto(j)' = Upto(j)
  BY <1>1, <1>2 DEF Upto, Part, HeadOf, Span, Bytes, Byte
<1> QED
  BY <1>1, <1>2, <1>3, <1>4, <1>5, <1>6, <1>7

LEMMA InitProgress == Init => Progress
  BY NoResponseFacts DEF Init, Progress, Remaining, Between, Midway, Behind

\* Steps before the body, and behind the response: there is nothing to compare.
LEMMA ProgressIdle ==
  ASSUME Progress, at' \notin {"part", "read", "finish"}, at' = "returned" => ~ret',
         r'.encoder = "none" => r'.held = <<>>
  PROVE  Progress'
  BY DEF Progress, Remaining, Between, Midway, Behind

LEMMA ProgressHead ==
  ASSUME Types, Heads, Progress,
         \/ Ask \/ Change \/ Compare \/ WithoutBody \/ AcceptRangesRefused \/ CheckRanges
         \/ HeadDone \/ HeadRefused \/ HeadStart \/ HeadRanges \/ HeadEncoding \/ HeadCaching \/ Receive
  PROVE  Progress'
<1>1. CASE Ask \/ Change \/ Compare \/ WithoutBody \/ AcceptRangesRefused
           \/ HeadDone \/ HeadRefused \/ HeadStart \/ HeadRanges
  <2>1. r' = r /\ at' \notin {"part", "read", "finish"} /\ (at' = "returned" => ~ret')
    BY <1>1 DEF Ask, Change, Compare, WithoutBody, AcceptRangesRefused, HeadDone, HeadRefused,
                HeadStart, HeadRanges, Return, outside
  <2> QED
    BY <2>1, ProgressIdle DEF Progress
<1>2. CASE CheckRanges
  <2>1. r'.held = <<>>
    BY <1>2, CheckOutcome, NoResponseFacts DEF Checked
  <2> QED
    BY <1>2, <2>1, ProgressIdle DEF CheckRanges
<1>3. CASE HeadEncoding \/ HeadCaching
  <2>1. at \in {"encoding", "caching"} /\ at' \in {"caching", "body"}
    BY <1>3 DEF HeadEncoding, HeadCaching
  <2>2. r'.held = <<>>
    <3>1. r'.held = <<>> \/ Heads'
      BY <1>3, HeadsHeadEncoding, HeadsHeadCaching
    <3> QED
      BY <2>1, <3>1 DEF Heads, Preparing
  <2> QED
    BY <2>1, <2>2, ProgressIdle
<1>4. CASE Receive
  BY <1>4, NoResponseFacts, ProgressIdle DEF Receive
<1> QED
  BY <1>1, <1>2, <1>3, <1>4

LEMMA ProgressBodyDone == Types /\ Heads /\ Progress /\ BodyDone => Progress'
<1> SUFFICES ASSUME Types, Heads, Progress, BodyDone PROVE Progress'
  OBVIOUS
<1>1. /\ at = "body" /\ at' = "finish" /\ (r.done \/ ~BodyPresent)
      /\ UNCHANGED <<setup, body, options, r, conn, ret>>
  BY DEF BodyDone, outside
<1>2. Sent' = <<>>
  BY <1>1, FlattenEmpty DEF Heads, Preparing, Sent
<1>3. Behind'
  BY <1>1, <1>2 DEF Behind, BodyPresent
<1> QED
  BY <1>1, <1>3 DEF Progress, Remaining, Between, Midway

LEMMA ProgressBodyStart == Types /\ Heads /\ Progress /\ BodyStart => Progress'
<1> SUFFICES ASSUME Types, Heads, Progress, BodyStart PROVE Progress'
  OBVIOUS
<1>1. at = "body" /\ at' = "part" /\ UNCHANGED <<setup, body, options, conn, ret>>
  BY DEF BodyStart, outside
<1>2. /\ r'.values = r.values /\ r'.status = r.status /\ r'.encoder = r.encoder
      /\ r'.buffer = <<>> /\ r'.held = <<>> /\ r'.todo = All /\ conn'.out = <<>>
  BY <1>1, BodyStartOutcome DEF Heads, Preparing, All
<1>3. All' = All /\ InRange' = InRange /\ \A j : Upto(j)' = Upto(j)
  BY <1>1, <1>2, PartsKept
<1>4. Len(All) \in Nat /\ All \in Seq(ByteRange)
  BY AllTypes
<1>5. Passed' = 0
  BY <1>2, <1>3, <1>4 DEF Passed
<1>6. Remaining'
  <2>1. All = SubSeq(All, 1, Len(All))
    BY <1>4
  <2> QED
    BY <1>2, <1>3, <1>4, <1>5, <2>1 DEF Remaining
<1>7. InRange => Between'
  <2> SUFFICES ASSUME InRange PROVE Produced' = Upto(Passed)'
    BY DEF Between
  <2>1. Upto(0) = <<>>
    BY <1>4, UptoFacts
  <2>2. Upto(Passed)' = Upto(0)
    BY <1>3, <1>5 DEF Upto
  <2>3. Produced' = (<<>> \o <<>>) \o <<>>
    BY <1>2, FlattenEmpty DEF Produced, Sent
  <2> QED
    BY <2>1, <2>2, <2>3
<1> QED
  BY <1>1, <1>2, <1>3, <1>6, <1>7 DEF Progress, Midway, Behind

LEMMA ProgressNextPart == Types /\ Heads /\ Progress /\ NextPart => Progress'
<1> SUFFICES ASSUME Types, Heads, Progress, NextPart PROVE Progress'
  OBVIOUS
<1>1. at = "part" /\ at' = "read" /\ UNCHANGED <<setup, body, options, conn, ret>> /\ r.todo # <<>>
  BY DEF NextPart, outside
<1>2. /\ r'.values = r.values /\ r'.status = r.status /\ r'.encoder = r.encoder /\ r'.held = r.held
  BY NextPartOutcome
<1> SUFFICES ASSUME ~setup.short, InRange PROVE Remaining' /\ Midway'
  BY <1>1, <1>2, PartsKept DEF Progress, Between, Behind
<1>3. Remaining /\ Between
  BY DEF Progress
<1> DEFINE p == Passed
           m == Len(All)
<1>4. /\ All' = All /\ \A j : Upto(j)' = Upto(j)
      /\ \A range : Span(range)' = Span(range) /\ HeadOf(range)' = HeadOf(range)
                    /\ Limit(range)' = Limit(range)
      /\ \A from, n : Bytes(from, n)' = Bytes(from, n)
  BY <1>1, <1>2, PartsKept
<1>5. m \in Nat /\ All \in Seq(ByteRange) /\ r.todo \in Seq(ByteRange) /\ Len(r.todo) \in Nat
  BY AllTypes, ResponseFields
<1>6. p \in 0 .. m /\ r.todo = SubSeq(All, p + 1, m)
  BY <1>1, <1>3 DEF Remaining
<1>7. r'.todo = Tail(r.todo) /\ r'.forlen = Limit(Head(r.todo))
  BY NextPartOutcome
<1>8. p < m /\ Head(r.todo) = All[p + 1] /\ Tail(r.todo) = SubSeq(All, p + 2, m)
      /\ Len(Tail(r.todo)) = Len(r.todo) - 1
  <2> HIDE DEF p, m
  <2>1. p < m
    BY <1>1, <1>5, <1>6 DEF m
  <2> QED
    BY <1>1, <1>5, <1>6, <2>1 DEF m
<1>9. Passed' = p + 1
  <2>1. p = m - Len(r.todo)
    BY DEF Passed
  <2>2. Passed' = m - Len(r'.todo)
    BY <1>4 DEF Passed
  <2>3. Len(r'.todo) = Len(r.todo) - 1
    BY <1>7, <1>8
  <2> HIDE DEF p, m
  <2> QED
    BY <1>5, <2>1, <2>2, <2>3
<1> DEFINE range == All[p + 1]
<1>10. p + 1 \in 1 .. m
  BY <1>5, <1>6, <1>8
<1>11. /\ range.begin \in Nat /\ range.begin <= body.size /\ Span(range) \in Nat
       /\ HeadOf(range) \in Seq(Item)
  <2>1. /\ range.begin \in Nat /\ Span(range) \in Nat /\ range.begin + Span(range) <= body.size
    BY <1>10, AllFacts
  <2>2. HeadOf(range) \in Seq(Item)
    BY <1>10, PartFacts
  <2> QED
    BY <2>1, <2>2, BodyFacts
<1>12. Current' = range
  BY <1>4, <1>9 DEF Current
<1>13. r'.pos = range.begin
  <2>1. Head(r.todo) = range
    BY <1>8
  <2>2. range.begin >= 0 => r'.pos = Lesser(range.begin, body.size)
    BY <2>1, NextPartOutcome
  <2> HIDE DEF range
  <2> QED
    BY <1>11, <2>2, BodyFacts DEF Lesser
<1>14. Remaining'
  <2>1. (p + 1) + 1 = p + 2 /\ p + 1 \in 0 .. m
    BY <1>5, <1>6, <1>10
  <2>2. All' = All /\ Len(All') = m
    BY <1>4
  <2>3. r'.todo = SubSeq(All, p + 2, m)
    BY <1>7, <1>8
  <2> DEFINE next == p + 1
  <2>4. Passed' = next /\ next \in 0 .. m /\ r'.todo = SubSeq(All, next + 1, m)
    BY <1>9, <2>1, <2>3
  <2> HIDE DEF next, m
  <2> QED
    BY <2>2, <2>4 DEF Remaining
<1>15. Done' = 0 /\ Limit(range) \in Nat
  <2>1. range \in ByteRange
    BY <1>10, AllFacts
  <2>2. Limit(range) \in Nat
    BY <2>1, LimitFacts
  <2> HIDE DEF range
  <2> QED
    BY <1>11, <1>12, <1>13, <2>2 DEF Done
<1>16. Produced' = (Upto(p) \o HeadOf(range)) \o Bytes(range.begin, 0)
  <2>1. Produced = Upto(p)
    BY <1>1, <1>3 DEF Between
  <2>2. Sent' = Sent /\ Sent \in Seq(Item) /\ r.buffer \in Seq(Item) /\ r.held \in Seq(Item)
    BY <1>1, SentType, ResponseFields DEF Sent, Types
  <2>3. Upto(p) \in Seq(Item) /\ Upto(p) \o HeadOf(range) \in Seq(Item)
    BY <1>6, <1>11, UptoFacts, ConcatFacts
  <2>4. Produced' = Upto(p) \o HeadOf(range)
    <3>1. CASE Multipart
      <4>1. HeadOf(range) = <<PartHead(range)>> /\ r'.buffer = Append(r.buffer, PartHead(range))
        BY <1>8, <3>1, NextPartOutcome DEF HeadOf
      <4>2. r.held = <<>> /\ r'.held = <<>>
        BY <1>2, <3>1 DEF Progress, Heads, Started, Multipart
      <4>3. PartHead(range) \in Item
        BY <1>10, AllFacts, ItemFacts
      <4> DEFINE e == PartHead(range)
      <4> HIDE DEF e, range
      <4>4. /\ Sent \o r.buffer \in Seq(Item) /\ (Sent \o r.buffer) \o <<>> = Sent \o r.buffer
            /\ Append(r.buffer, e) = r.buffer \o <<e>> /\ <<e>> \in Seq(Item)
        BY <2>2, <4>3, ConcatFacts, ConcatEmptySeq, AppendIsConcat DEF e
      <4>5. Sent \o (r.buffer \o <<e>>) = (Sent \o r.buffer) \o <<e>>
        <5> DEFINE s == Sent
                   b == r.buffer
        <5>1. s \in Seq(Item) /\ b \in Seq(Item) /\ <<e>> \in Seq(Item)
          BY <2>2, <4>4
        <5> HIDE DEF s, b
        <5>2. s \o (b \o <<e>>) = (s \o b) \o <<e>>
          BY <5>1, ConcatAssociative
        <5> QED
          BY <5>2 DEF s, b
      <4>6. (Sent \o r.buffer) \o <<e>> \in Seq(Item)
        BY <4>4, ConcatFacts
      <4>7. Produced' = Sent \o Append(r.buffer, e)
        <5>1. Sent \o Append(r.buffer, e) \in Seq(Item)
          BY <4>4, <4>5, <4>6
        <5>2. (Sent \o Append(r.buffer, e)) \o <<>> = Sent \o Append(r.buffer, e)
          BY <5>1, ConcatEmptySeq
        <5> QED
          BY <2>2, <4>1, <4>2, <5>2 DEF Produced, e
      <4>8. Produced = Sent \o r.buffer
        BY <4>2, <4>4 DEF Produced
      <4> QED
        BY <2>1, <4>1, <4>4, <4>5, <4>7, <4>8 DEF e
    <3>2. CASE ~Multipart
      <4>1. HeadOf(range) = <<>> /\ r'.buffer = r.buffer
        BY <1>8, <3>2, NextPartOutcome DEF HeadOf
      <4>2. Produced' = Produced
        BY <1>2, <2>2, <4>1 DEF Produced
      <4> QED
        BY <2>1, <2>3, <4>1, <4>2, ConcatEmptySeq
    <3> QED
      BY <3>1, <3>2
  <2>5. Bytes(range.begin, 0) = <<>>
    BY BytesNone
  <2> QED
    BY <2>3, <2>4, <2>5, ConcatEmptySeq
<1>17. Midway'
  <2>1. (p + 1) - 1 = p /\ p + 1 > 0
    BY <1>6
  <2>2. Limit(range) - 0 = Limit(range)
    BY <1>15
  <2>3. r'.forlen = Limit(range)
    BY <1>7, <1>8
  <2>4. (Passed - 1)' = p
    BY <1>9, <2>1
  <2> HIDE DEF range, p, m
  <2>5. Upto(Passed - 1)' = Upto(p)
    BY <1>4, <2>4 DEF Upto
  <2>6. HeadOf(Current)' = HeadOf(range) /\ Span(Current)' = Span(range) /\ Limit(Current)' = Limit(range)
        /\ Bytes(Current.begin, Done)' = Bytes(range.begin, 0)
    BY <1>4, <1>12, <1>15 DEF HeadOf, Span, Limit, Bytes
  <2> QED
    BY <1>1, <1>9, <1>11, <1>15, <1>16, <2>1, <2>2, <2>3, <2>5, <2>6, SMTT(30) DEF Midway
<1> QED
  BY <1>14, <1>17

\* A turn of the loop produces the bytes that were read.
LEMMA ReadMore ==
  ASSUME Types, NEW k, NEW n, Reads1(k, n), at' # "crashed"
  PROVE  /\ Produced' = Produced \o Bytes(r.pos, k) /\ Produced \in Seq(Item)
         /\ at' = IF PartEnds(k) THEN "part" ELSE "read"
<1> DEFINE writes == IF k = 0 THEN <<>> ELSE FullChunks(Output(k, n), r.chunk)
<1>1. /\ k \in 0 .. Most /\ n \in 0 .. Len(Data(k)) /\ Turned(k, n) /\ writes \in Seq(Seq(Item))
      /\ Write(writes, IF PartEnds(k) THEN "part" ELSE "read")
  BY ReadOutcome
<1> HIDE DEF writes
<1>2. at' = (IF PartEnds(k) THEN "part" ELSE "read") /\ conn'.out = conn.out \o writes
  BY <1>1, WriteFacts
<1>3. k \in Nat
  BY <1>1, MostFacts
<1>4. /\ Sent \in Seq(Item) /\ r.buffer \in Seq(Item) /\ r.held \in Seq(Item) /\ r.pos \in Int
      /\ r.chunk \in Nat \ {0}
  BY SentType, ResponseFields DEF Sent, Types
<1>5. Produced \in Seq(Item)
  BY <1>4, ConcatFacts DEF Produced
<1>6. conn.out \in Seq(Seq(Item))
  <2>1. IsConn(conn)
    BY DEF Types
  <2> QED
    BY <2>1, ConnFields, ZenonT(60)
<1>7. Bytes(r.pos, k) \in Seq(Item)
  BY <1>3, <1>4, BytesFacts
<1>8. CASE k = 0
  <2>1. writes = <<>> /\ conn'.out = conn.out /\ r' = r
    BY <1>1, <1>2, <1>6, <1>8, ConcatEmptySeq DEF writes, Turned
  <2>2. Bytes(r.pos, k) = <<>>
    BY <1>8, BytesNone
  <2>3. Produced' = Produced
    BY <2>1 DEF Produced, Sent
  <2> QED
    BY <1>2, <1>5, <2>2, <2>3, ConcatEmptySeq
<1>9. CASE k # 0
  <2> DEFINE output == Output(k, n)
             given == SubSeq(Data(k), 1, n)
             kept == SubSeq(Data(k), n + 1, Len(Data(k)))
             chunks == FlattenSeq(FullChunks(output, r.chunk))
             rest == Rest(output, r.chunk)
             new == Bytes(r.pos, k)
  <2>1. given \in Seq(Item) /\ kept \in Seq(Item) /\ given \o kept = r.held \o new
        /\ output \in Seq(Item) /\ output = r.buffer \o given
    BY <1>1, <1>3, DataFacts DEF Data, Output
  <2>2. r'.held = kept /\ r'.buffer = rest
    BY <1>1, <1>9 DEF Turned
  <2>3. writes = FullChunks(output, r.chunk)
    BY <1>9 DEF writes
  <2> HIDE DEF output, given, kept
  <2>4. /\ FullChunks(output, r.chunk) \in Seq(Seq(Item)) /\ rest \in Seq(Item) /\ chunks \o rest = output
    BY <1>4, <2>1, ChunksJoin
  <2>5. chunks \in Seq(Item)
    <3> DEFINE full == FullChunks(output, r.chunk)
    <3>1. full \in Seq(Seq(Item)) /\ <<>> \in Seq(Item)
      BY <2>4
    <3> HIDE DEF full
    <3>2. FlattenSeq(full) \in Seq(Item)
      BY <3>1, FlattenAppend
    <3> QED
      BY <3>2 DEF full
  <2>6. Sent' = Sent \o chunks
    <3> DEFINE full == FullChunks(output, r.chunk)
    <3>1. full \in Seq(Seq(Item))
      BY <2>4
    <3> HIDE DEF full
    <3>2. FlattenSeq(conn.out \o full) = FlattenSeq(conn.out) \o FlattenSeq(full)
      BY <1>6, <3>1, FlattenConcat
    <3> QED
      BY <1>2, <2>3, <3>2 DEF full, Sent
  <2> HIDE DEF chunks, rest, new
  <2>7. new \in Seq(Item)
    BY <1>7 DEF new
  <2>8. ((Sent \o chunks) \o rest) \o kept = ((Sent \o r.buffer) \o r.held) \o new
    <3> DEFINE s == Sent
               b == r.buffer
               h == r.held
    <3>1. s \in Seq(Item)
      BY <1>4
    <3>2. b \in Seq(Item) /\ h \in Seq(Item)
      BY <1>4
    <3>3. chunks \o rest = b \o given /\ given \o kept = h \o new
      BY <2>1, <2>4
    <3> HIDE DEF s, b, h
    <3>4. chunks \in Seq(Item) /\ rest \in Seq(Item)
      BY <2>4, <2>5
    <3>5. (s \o chunks) \o rest = s \o (chunks \o rest)
      BY <3>1, <3>4, ConcatAssociative
    <3>6. s \o (b \o given) = (s \o b) \o given
      <4>1. given \in Seq(Item)
        BY <2>1
      <4>2. b \in Seq(Item)
        BY <3>2
      <4> QED
        BY <3>1, <4>1, <4>2, ConcatAssociative, SMTT(30)
    <3> DEFINE sb == s \o b
    <3>10. sb \in Seq(Item)
      BY <3>1, <3>2, ConcatFacts
    <3>11. given \in Seq(Item) /\ kept \in Seq(Item)
      BY <2>1
    <3>12. h \in Seq(Item) /\ new \in Seq(Item)
      BY <2>7, <3>2
    <3> HIDE DEF sb
    <3>7. (sb \o given) \o kept = sb \o (given \o kept)
      BY <3>10, <3>11, ConcatAssociative
    <3>8. sb \o (h \o new) = (sb \o h) \o new
      BY <3>10, <3>12, ConcatAssociative
    <3>9. ((s \o chunks) \o rest) \o kept = ((s \o b) \o h) \o new
      BY <3>3, <3>5, <3>6, <3>7, <3>8 DEF sb
    <3> QED
      BY <3>9 DEF s, b, h
  <2>9. Produced' = ((Sent \o chunks) \o rest) \o kept
    BY <2>2, <2>6 DEF Produced
  <2> QED
    BY <1>2, <1>5, <2>8, <2>9 DEF Produced, new
<1> QED
  BY <1>8, <1>9

LEMMA ProgressReadBody == Types /\ Heads /\ Progress /\ ReadBody => Progress'
<1> SUFFICES ASSUME Types, Heads, Progress, ReadBody PROVE Progress'
  OBVIOUS
<1>1. PICK k, n : Reads1(k, n)
  BY ReadsSome
<1>2. /\ k \in 0 .. Most /\ n \in 0 .. Len(Data(k)) /\ Turned(k, n)
      /\ LET writes == IF k = 0 THEN <<>> ELSE FullChunks(Output(k, n), r.chunk)
         IN writes \in Seq(Seq(Item)) /\ Write(writes, IF PartEnds(k) THEN "part" ELSE "read")
  BY <1>1, ReadOutcome
<1>3. /\ r'.values = r.values /\ r'.status = r.status /\ r'.encoder = r.encoder /\ r'.todo = r.todo
      /\ r'.pos = r.pos + k /\ r'.forlen = r.forlen - k
  BY <1>2 DEF Turned
<1>4. at = "read" /\ UNCHANGED <<setup, body, ret>>
  BY DEF ReadBody, outside
<1>5. k \in Nat /\ k <= r.forlen /\ k <= ReadSize /\ r.pos + k <= body.size
  <2>1. Most \in Nat /\ Most <= r.forlen /\ Most <= ReadSize /\ r.pos + Most <= body.size
    BY MostFacts
  <2> QED
    <3> DEFINE most == Most
               z == body.size
    <3>1. most \in Nat /\ most <= r.forlen /\ most <= ReadSize /\ r.pos + most <= z /\ k \in 0 .. most
      BY <1>2, <2>1
    <3>2. r.forlen \in Nat /\ r.pos \in Nat /\ ReadSize \in Nat /\ z \in Nat
      BY ResponseFields, SizeFacts, BodyFacts
    <3> HIDE DEF most, z
    <3>3. k \in Nat /\ k <= r.forlen /\ k <= ReadSize /\ r.pos + k <= z
      BY <3>1, <3>2
    <3> QED
      BY <3>3 DEF z
<1>6. /\ Data(k) \in Seq(Item) /\ SubSeq(Data(k), 1, n) \in Seq(Item)
      /\ SubSeq(Data(k), n + 1, Len(Data(k))) \in Seq(Item)
      /\ SubSeq(Data(k), 1, n) \o SubSeq(Data(k), n + 1, Len(Data(k))) = Data(k)
      /\ Output(k, n) \in Seq(Item)
  BY <1>2, <1>5, DataFacts
<1>7. r'.encoder = "none" => r'.held = <<>>
  <2> SUFFICES ASSUME r.encoder = "none" PROVE r'.held = <<>>
    BY <1>3
  <2>1. n = Len(Data(k)) /\ r.held = <<>>
    BY <1>1 DEF Reads1, Progress
  <2> DEFINE data == Data(k)
  <2>2. data \in Seq(Item)
    BY <1>6
  <2> HIDE DEF data
  <2>3. SubSeq(data, Len(data) + 1, Len(data)) = <<>>
    BY <2>2
  <2> QED
    BY <1>2, <2>1, <2>3 DEF Turned, data
<1>8. ASSUME ~setup.short, InRange, at' # "crashed" PROVE Remaining' /\ Between' /\ Midway'
  <2> DEFINE p == Passed
             range == All[p]
             d == Done
             m == Len(All)
  <2>1. /\ All' = All /\ Partial' = Partial /\ \A j : Upto(j)' = Upto(j)
        /\ \A x : Span(x)' = Span(x) /\ HeadOf(x)' = HeadOf(x) /\ Limit(x)' = Limit(x)
        /\ \A from, l : Bytes(from, l)' = Bytes(from, l)
    BY <1>3, <1>4, PartsKept
  <2>2. /\ m \in Nat /\ p \in 1 .. m /\ r.todo = SubSeq(All, p + 1, m)
        /\ d \in 0 .. Span(range) /\ r.forlen = Limit(range) - d
        /\ Produced = (Upto(p - 1) \o HeadOf(range)) \o Bytes(range.begin, d)
    BY <1>4, <1>8, AllTypes, SMTT(30) DEF Progress, Remaining, Midway, Current
  <2>3. /\ range \in ByteRange /\ range.begin \in Nat /\ Span(range) \in Nat
        /\ range.begin + Span(range) <= body.size
        /\ Partial => Limit(range) = Span(range)
        /\ ~Partial => range.begin = 0 /\ Span(range) = body.size /\ Limit(range) = MaxSize + 1
        /\ HeadOf(range) \in Seq(Item) /\ Part(range) \in Seq(Item)
    <3>1. p \in 1 .. Len(All)
      BY <2>2
    <3> HIDE DEF p
    <3> QED
      BY <1>8, <3>1, AllFacts, PartFacts
  <2>4. r.pos = range.begin + d /\ d \in Nat
    <3>1. d = r.pos - range.begin
      BY DEF Done, Current
    <3>2. range.begin \in Nat /\ r.pos \in Nat /\ Span(range) \in Nat /\ d \in 0 .. Span(range)
      BY <2>2, <2>3, ResponseFields
    <3> DEFINE b == range.begin
               l == Span(range)
    <3> HIDE DEF d, range, b, l
    <3>3. b \in Nat /\ r.pos \in Nat /\ l \in Nat /\ d \in 0 .. l /\ d = r.pos - b
      BY <3>1, <3>2 DEF b, l
    <3>4. r.pos = b + d /\ d \in Nat
      BY <3>3
    <3> QED
      BY <3>4 DEF b
  <2>5. Passed' = p /\ Current' = range /\ r'.todo = SubSeq(All, p + 1, m)
    BY <1>3, <2>1, <2>2 DEF Passed, Current
  <2>6. Done' = d + k
    <3>1. Done' = (r.pos + k) - range.begin
      BY <1>3, <2>5 DEF Done
    <3> HIDE DEF d, range
    <3> QED
      BY <1>5, <2>3, <2>4, <3>1
  <2>7. d + k \in 0 .. Span(range) /\ r'.forlen = Limit(range) - (d + k)
    <3> DEFINE b == range.begin
               l == Span(range)
               limit == Limit(range)
               z == body.size
    <3>1. /\ limit \in Nat /\ b \in Nat /\ l \in Nat /\ b + l <= z /\ z \in Nat /\ MaxSize \in Nat
          /\ Partial => limit = l
          /\ ~Partial => b = 0 /\ l = z /\ limit = MaxSize + 1
          /\ d \in 0 .. l /\ r.forlen = limit - d /\ r.pos = b + d
      BY <2>2, <2>3, <2>4, LimitFacts, BodyFacts, SizeFacts
    <3>2. k \in Nat /\ k <= r.forlen /\ r.pos + k <= z /\ r'.forlen = r.forlen - k
      BY <1>3, <1>5
    <3> HIDE DEF d, range, b, l, limit, z
    <3>3. d + k \in 0 .. l
      <4>1. CASE Partial
        BY <3>1, <3>2, <4>1
      <4>2. CASE ~Partial
        BY <3>1, <3>2, <4>2
      <4> QED
        BY <4>1, <4>2
    <3>4. r'.forlen = limit - (d + k)
      BY <3>1, <3>2
    <3> QED
      BY <3>3, <3>4 DEF l, limit
  <2>8. Produced' = (Upto(p - 1) \o HeadOf(range)) \o Bytes(range.begin, d + k)
    <3> DEFINE u == Upto(p - 1) \o HeadOf(range)
    <3>1. u \in Seq(Item)
      <4>1. p - 1 \in 0 .. Len(All)
        BY <2>2
      <4> HIDE DEF p
      <4>2. Upto(p - 1) \in Seq(Item)
        BY <1>8, <4>1, UptoFacts
      <4> QED
        BY <2>3, <4>2, ConcatFacts
    <3>2. Produced' = Produced \o Bytes(r.pos, k)
      BY <1>1, <1>8, ReadMore
    <3> HIDE DEF u, d, range
    <3> DEFINE b == range.begin
    <3>3. b \in Int /\ d \in Nat /\ k \in Nat
      BY <1>5, <2>3, <2>4
    <3> HIDE DEF b
    <3>4. Bytes(b, d) \o Bytes(b + d, k) = Bytes(b, d + k)
      BY <3>3, BytesConcat
    <3>5. Bytes(b, d) \in Seq(Item) /\ Bytes(b + d, k) \in Seq(Item)
      <4>1. b + d \in Int
        BY <3>3
      <4> QED
        BY <3>3, <4>1, BytesFacts
    <3>6. (u \o Bytes(b, d)) \o Bytes(b + d, k) = u \o (Bytes(b, d) \o Bytes(b + d, k))
      BY <3>1, <3>5, ConcatAssociative
    <3> QED
      BY <2>2, <2>4, <3>2, <3>4, <3>6 DEF u, b
  <2>9. Remaining'
    BY <1>3, <2>1, <2>2, <2>5 DEF Remaining
  <2>10. CASE ~PartEnds(k)
    <3>1. at' = "read"
      BY <1>1, <1>8, <2>10, ReadMore
    <3>2. Upto(Passed - 1)' = Upto(p - 1) /\ HeadOf(Current)' = HeadOf(range)
          /\ Span(Current)' = Span(range) /\ Limit(Current)' = Limit(range)
          /\ Bytes(Current.begin, Done)' = Bytes(range.begin, d + k)
      <4> HIDE DEF p, range, d
      <4> QED
        BY <2>1, <2>5, <2>6 DEF Upto, HeadOf, Span, Limit, Bytes
    <3> HIDE DEF range, d, p, m
    <3>3. Midway'
      <4>1. Passed' > 0 /\ Done' \in 0 .. Span(Current)' /\ r'.forlen = Limit(Current)' - Done'
        BY <2>2, <2>5, <2>6, <2>7, <3>2
      <4>2. Produced' = (Upto(Passed - 1)' \o HeadOf(Current)') \o Bytes(Current.begin, Done)'
        BY <2>8, <3>2
      <4> QED
        BY <4>1, <4>2 DEF Midway
    <3> QED
      BY <2>9, <3>1, <3>3 DEF Between
  <2>11. CASE PartEnds(k)
    <3>1. at' = "part"
      BY <1>1, <1>8, <2>11, ReadMore
    <3>2. d + k = Span(range)
      <4> DEFINE b == range.begin
                 l == Span(range)
                 limit == Limit(range)
                 z == body.size
      <4>1. k = Most
        BY <1>1, <1>8 DEF Reads1
      <4>2. /\ limit \in Nat /\ b \in Nat /\ l \in Nat /\ b + l <= z /\ z \in Nat /\ MaxSize \in Nat
            /\ Partial => limit = l
            /\ ~Partial => b = 0 /\ l = z /\ limit = MaxSize + 1
            /\ d \in 0 .. l /\ r.forlen = limit - d /\ r.pos = b + d /\ d + k \in 0 .. l
        BY <2>2, <2>3, <2>4, <2>7, LimitFacts, BodyFacts, SizeFacts
      <4>3. /\ z <= MaxSize /\ ReadSize \in Nat
            /\ PointerSize <= ReadSize /\ PointerSize \in Nat /\ r.forlen \in Nat /\ r.pos \in Nat
        BY BodyFacts, SizeFacts, ResponseFields
      <4>4. k \in Nat /\ r.pos + k <= z
        BY <1>5
      <4>5. k # r.forlen => k < Lesser(r.forlen, PointerSize)
        BY <2>11 DEF PartEnds
      <4>6. Most = Lesser(Lesser(r.forlen, ReadSize), z - r.pos)
        BY DEF Most
      <4> HIDE DEF d, range, b, l, limit, z
      <4>7. ASSUME k = r.forlen PROVE d + k = l
        <5>1. CASE Partial
          BY <4>2, <4>4, <4>7, <5>1
        <5>2. CASE ~Partial
          BY <4>2, <4>3, <4>4, <4>7, <5>2
        <5> QED
          BY <5>1, <5>2
      <4>8. ASSUME k # r.forlen PROVE d + k = l
        <5>1. k < r.forlen /\ k < ReadSize
          BY <4>3, <4>4, <4>5, <4>8 DEF Lesser
        <5>2. k = z - r.pos
          BY <4>1, <4>2, <4>3, <4>4, <4>6, <5>1 DEF Lesser
        <5>3. r.pos + k = z
          BY <4>2, <4>3, <5>2
        <5>4. b \in Nat /\ l \in Nat /\ b + l <= r.pos + k /\ r.pos = b + d /\ d \in Nat /\ d + k <= l
          BY <4>2, <5>3
        <5> QED
          BY <4>4, <5>4
      <4>9. d + k = l
        BY <4>4, <4>7, <4>8
      <4> QED
        BY <4>9 DEF l
    <3>3. Produced' = Upto(p)
      <4>1. p - 1 \in 0 .. Len(All) /\ p - 1 < Len(All) /\ (p - 1) + 1 = p
        BY <2>2
      <4> DEFINE j == p - 1
      <4>2. j \in 0 .. Len(All) /\ j < Len(All) /\ j + 1 = p
        BY <4>1
      <4> HIDE DEF j, p
      <4>3. Upto(j) \in Seq(Item) /\ Upto(p) = Upto(j) \o Part(All[p])
        BY <1>8, <4>2, UptoFacts
      <4>4. Bytes(range.begin, Span(range)) \in Seq(Item)
        <5> DEFINE b == range.begin
                   l == Span(range)
        <5>1. b \in Int /\ l \in Nat
          BY <2>3
        <5> HIDE DEF b, l
        <5>2. Bytes(b, l) \in Seq(Item)
          BY <5>1, BytesFacts
        <5> QED
          BY <5>2 DEF b, l
      <4> DEFINE bytes == Bytes(range.begin, Span(range))
                 h == HeadOf(range)
      <4>5. h \in Seq(Item) /\ bytes \in Seq(Item) /\ Part(range) = h \o bytes
        BY <2>3, <4>4 DEF Part
      <4>6. Produced' = (Upto(j) \o h) \o bytes
        BY <2>8, <3>2 DEF j
      <4> HIDE DEF bytes, h
      <4>7. (Upto(j) \o h) \o bytes = Upto(j) \o (h \o bytes)
        BY <4>3, <4>5, ConcatAssociative
      <4> QED
        BY <4>3, <4>5, <4>6, <4>7
    <3>4. Between'
      <4>1. Upto(Passed)' = Upto(p)
        <5> HIDE DEF p
        <5> QED
          BY <2>1, <2>5 DEF Upto
      <4> QED
        BY <3>3, <4>1 DEF Between
    <3> QED
      BY <2>9, <3>1, <3>4 DEF Midway
  <2> QED
    BY <2>10, <2>11
<1>9. at' \in {"crashed", "part", "read"} /\ setup' = setup /\ InRange' = InRange
  BY <1>2, <1>3, <1>4, WriteFacts, PartsKept
<1>10. CASE at' = "crashed"
  BY <1>7, <1>10 DEF Progress, Remaining, Between, Midway, Behind
<1>11. CASE at' # "crashed"
  <2>1. Behind'
    BY <1>9 DEF Behind
  <2> QED
    BY <1>7, <1>8, <1>9, <1>11, <2>1 DEF Progress
<1> QED
  BY <1>10, <1>11

LEMMA EndsFacts ==
  /\ (IF Multipart THEN <<Close>> ELSE <<>>) \in Seq(Item)
  /\ Ends \in Seq(Item)
<1>1. Close \in Item /\ Trailer \in Item
  BY DEF Item
<1> DEFINE close == IF Multipart THEN <<Close>> ELSE <<>>
           trailer == IF r.encoder = "none" THEN <<>> ELSE <<Trailer>>
<1>2. close \in Seq(Item) /\ trailer \in Seq(Item)
  BY <1>1
<1> HIDE DEF close, trailer
<1>3. close \o trailer \in Seq(Item)
  BY <1>2, ConcatFacts
<1> QED
  BY <1>2, <1>3 DEF close, trailer, Ends

\* The output at the end joins what was kept and held.
LEMMA LastJoins ==
  ASSUME Types, Heads, Progress
  PROVE  Sent \o Remains = Produced \o Ends
<1> DEFINE s == Sent
           b == r.buffer
           h == r.held
           t == <<Trailer>>
           e == <<>>
<1>1. s \in Seq(Item)
  BY SentType DEF Sent, Types
<1>2. b \in Seq(Item) /\ h \in Seq(Item)
  BY ResponseFields
<1>3. t \in Seq(Item) /\ e \in Seq(Item) /\ Trailer \in Item
  BY DEF Item
<1>4. Produced = (s \o b) \o h
  BY DEF Produced
<1>5. CASE r.encoder = "none"
  <2> DEFINE c == IF Multipart THEN <<Close>> ELSE <<>>
  <2>1. c \in Seq(Item)
    BY EndsFacts
  <2>2. h = e
    BY <1>5 DEF Progress
  <2>3. Remains = (b \o c) \o e /\ Ends = c \o e
    BY <1>5 DEF Remains, Ends
  <2> HIDE DEF s, b, h, c
  <2>4. s \o b \in Seq(Item) /\ b \o c \in Seq(Item)
    BY <1>1, <1>2, <2>1, ConcatFacts
  <2>5. (s \o b) \o c = s \o (b \o c)
    BY <1>1, <1>2, <2>1, ConcatAssociative, SMTT(30)
  <2>6. (b \o c) \o e = b \o c /\ c \o e = c /\ (s \o b) \o e = s \o b
    BY <2>1, <2>4, ConcatEmptySeq
  <2> QED
    BY <1>4, <2>2, <2>3, <2>5, <2>6 DEF s
<1>6. CASE r.encoder # "none"
  <2>1. ~Multipart
    BY <1>6 DEF Heads, Started, Multipart
  <2>2. Remains = (b \o e) \o Append(h, Trailer) /\ Ends = e \o t
    BY <1>6, <2>1 DEF Remains, Ends
  <2> HIDE DEF s, b, h, t
  <2>3. Append(h, Trailer) = h \o t
    BY <1>2, <1>3, AppendIsConcat DEF t
  <2> DEFINE sb == s \o b
             ht == h \o t
  <2>4. sb \in Seq(Item)
    BY <1>1, <1>2, ConcatFacts
  <2>5. ht \in Seq(Item)
    BY <1>2, <1>3, ConcatFacts
  <2>6. b \o e = b /\ e \o t = t
    BY <1>2, <1>3, ConcatEmptySeq
  <2>7. s \o (b \o ht) = sb \o ht
    <3> HIDE DEF ht
    <3>1. b \in Seq(Item)
      BY <1>2
    <3> QED
      BY <1>1, <2>5, <3>1, ConcatAssociative, SMTT(30)
  <2>8. (sb \o h) \o t = sb \o ht
    <3> HIDE DEF sb
    <3>1. h \in Seq(Item)
      BY <1>2
    <3>2. t \in Seq(Item)
      BY <1>3
    <3> QED
      BY <2>4, <3>1, <3>2, ConcatAssociative, SMTT(30)
  <2> QED
    BY <1>4, <2>2, <2>3, <2>6, <2>7, <2>8 DEF s
<1> QED
  BY <1>5, <1>6

LEMMA ProgressSendDone == Types /\ Heads /\ Progress /\ SendDone => Progress'
<1> SUFFICES ASSUME Types, Heads, Progress, SendDone PROVE Progress'
  OBVIOUS
<1> DEFINE writes == IF Remains = <<>> THEN <<>> ELSE <<Remains>>
<1>1. at = "part" /\ r.todo = <<>> /\ UNCHANGED <<setup, body, ret>>
  BY DEF SendDone, outside
<1>2. /\ writes \in Seq(Seq(Item)) /\ Write(writes, "finish")
      /\ r'.buffer = <<>> /\ r'.held = <<>> /\ r'.done = r.done
      /\ r'.values = r.values /\ r'.status = r.status /\ r'.encoder = r.encoder
  BY SendDoneOutcome
<1> HIDE DEF writes
<1>3. CASE at' = "crashed"
  BY <1>2, <1>3 DEF Progress, Remaining, Between, Midway, Behind
<1>4. CASE at' = "finish" /\ conn'.out = conn.out \o writes
  <2>1. All' = All /\ Ends' = Ends /\ InRange' = InRange /\ \A j : Upto(j)' = Upto(j)
    BY <1>1, <1>2, PartsKept
  <2>2. Remains \in Seq(Item) /\ conn.out \in Seq(Seq(Item)) /\ Sent \in Seq(Item)
    BY LastType, ConnFields, SentType, ZenonT(60) DEF Types, Sent
  <2>3. Sent' = Sent \o Remains
    <3>1. CASE Remains = <<>>
      <4>1. conn'.out = conn.out
        BY <1>4, <2>2, <3>1, ConcatEmptySeq DEF writes
      <4> QED
        BY <2>2, <3>1, <4>1, ConcatEmptySeq DEF Sent
    <3>2. CASE Remains # <<>>
      <4>1. conn.out \o <<Remains>> = Append(conn.out, Remains)
        BY <2>2, AppendIsConcat
      <4>2. conn'.out = Append(conn.out, Remains)
        BY <1>4, <3>2, <4>1 DEF writes
      <4>3. FlattenSeq(Append(conn.out, Remains)) = FlattenSeq(conn.out) \o Remains
        BY <2>2, FlattenAppend
      <4> QED
        BY <4>2, <4>3 DEF Sent
    <3> QED
      BY <3>1, <3>2
  <2>4. ASSUME ~setup.short, InRange PROVE Behind'
    <3>1. ~r.done /\ BodyPresent
      BY <1>1 DEF Heads, Started
    <3>2. Passed = Len(All)
      BY <1>1, AllTypes DEF Passed
    <3>3. Produced = Upto(Len(All))
      BY <1>1, <2>4, <3>2 DEF Progress, Between
    <3>4. Sent' = Upto(Len(All)) \o Ends
      BY <2>3, <3>3, LastJoins
    <3>5. Upto(Len(All))' = Upto(Len(All))
      BY <2>1 DEF Upto
    <3> QED
      BY <1>1, <1>2, <2>1, <3>1, <3>4, <3>5 DEF Behind, BodyPresent
  <2> QED
    BY <1>1, <1>2, <1>4, <2>1, <2>4 DEF Progress, Remaining, Between, Midway
<1> QED
  BY <1>2, <1>3, <1>4, WriteFacts

LEMMA ProgressFinish == Types /\ Heads /\ Progress /\ Finish => Progress'
<1> SUFFICES ASSUME Types, Heads, Progress, Finish PROVE Progress'
  OBVIOUS
<1>1. /\ at = "finish" /\ r' = r /\ UNCHANGED <<setup, body>> /\ at' \in {"crashed", "returned"}
      /\ conn'.out = conn.out
  BY FinishOutcome DEF Finish, outside
<1>2. All' = All /\ Ends' = Ends /\ InRange' = InRange /\ \A j : Upto(j)' = Upto(j)
  BY <1>1, PartsKept
<1>3. Upto(Len(All))' = Upto(Len(All))
  BY <1>2 DEF Upto
<1>4. Sent' = Sent
  BY <1>1 DEF Sent
<1>5. ~setup.short /\ InRange => Behind'
  BY <1>1, <1>2, <1>3, <1>4 DEF Progress, Behind, BodyPresent
<1> QED
  BY <1>1, <1>2, <1>5 DEF Progress, Remaining, Between, Midway

LEMMA ProgressStutter == Progress /\ UNCHANGED vars => Progress'
<1> SUFFICES ASSUME Progress, UNCHANGED vars PROVE Progress'
  OBVIOUS
<1>1. UNCHANGED <<setup, body, r, conn, at, ret>>
  BY DEF vars
<1>2. /\ All' = All /\ Ends' = Ends /\ InRange' = InRange /\ BodyPresent' = BodyPresent
      /\ \A j : Upto(j)' = Upto(j)
      /\ \A range : Span(range)' = Span(range) /\ HeadOf(range)' = HeadOf(range)
                    /\ Limit(range)' = Limit(range)
      /\ \A from, n : Bytes(from, n)' = Bytes(from, n)
  BY <1>1, PartsKept
<1>3. Passed' = Passed /\ Current' = Current /\ Done' = Done /\ Sent' = Sent /\ Produced' = Produced
  BY <1>1, <1>2 DEF Passed, Current, Done, Sent, Produced
<1>4. Remaining' = Remaining
  BY <1>1, <1>2, <1>3 DEF Remaining
<1>5. Between' = Between
  <2>1. Upto(Passed)' = Upto(Passed)
    BY <1>2, <1>3 DEF Upto
  <2> QED
    BY <1>1, <1>3, <2>1 DEF Between
<1>6. Behind' = Behind
  <2>1. Upto(Len(All))' = Upto(Len(All))
    BY <1>2 DEF Upto
  <2> QED
    BY <1>1, <1>2, <1>3, <2>1 DEF Behind
<1>7. Midway' = Midway
  <2>1. /\ Upto(Passed - 1)' = Upto(Passed - 1) /\ Span(Current)' = Span(Current)
        /\ HeadOf(Current)' = HeadOf(Current) /\ Limit(Current)' = Limit(Current)
        /\ Bytes(Current.begin, Done)' = Bytes(Current.begin, Done)
    BY <1>2, <1>3 DEF Upto, Span, HeadOf, Limit, Bytes
  <2> QED
    BY <1>1, <1>3, <2>1 DEF Midway
<1> QED
  BY <1>1, <1>2, <1>4, <1>5, <1>6, <1>7 DEF Progress

LEMMA ProgressNext == Types /\ Heads /\ Progress /\ [Next]_vars => Progress'
  BY ProgressHead, ProgressBodyDone, ProgressBodyStart, ProgressNextPart, ProgressReadBody,
     ProgressSendDone, ProgressFinish, ProgressStutter DEF Next, Send

THEOREM ResponseProgress == Spec => [](Types /\ Heads /\ Progress)
<1>1. Init => Types /\ Heads /\ Progress
  BY InitTypes, InitHeads, InitProgress
<1>2. (Types /\ Heads /\ Progress) /\ [Next]_vars => (Types /\ Heads /\ Progress)'
  BY TypesNext, HeadsNext, ProgressNext
<1> QED
  BY <1>1, <1>2, PTL DEF Spec

\* One range is one piece.
LEMMA OnePart ==
  ASSUME Types, InRange, Len(All) = 1, ~Multipart
  PROVE  Upto(1) = Bytes(All[1].begin, Span(All[1])) /\ Upto(1) \in Seq(Item)
<1>1. 1 \in 1 .. Len(All) /\ 0 \in 0 .. Len(All) /\ 0 < Len(All) /\ 0 + 1 = 1
  OBVIOUS
<1> DEFINE j == 0
           u == Upto(j + 1)
<1>2. j \in 0 .. Len(All) /\ j < Len(All)
  BY <1>1
<1> HIDE DEF j
<1>3. Upto(0) = <<>> /\ Upto(j + 1) = Upto(j) \o Part(All[j + 1])
  BY <1>2, UptoFacts
<1> USE DEF j
<1>4. Upto(1) = <<>> \o Part(All[1])
  BY <1>1, <1>3
<1> DEFINE b == Bytes(All[1].begin, Span(All[1]))
<1>5. Part(All[1]) = <<>> \o b /\ Part(All[1]) \in Seq(Item)
  BY <1>1, PartFacts DEF Part, HeadOf
<1>6. b \in Seq(Item)
  <2> DEFINE from == All[1].begin
             n == Span(All[1])
  <2>1. from \in Int /\ n \in Nat
    BY <1>1, AllFacts
  <2> HIDE DEF from, n
  <2>2. Bytes(from, n) \in Seq(Item)
    BY <2>1, BytesFacts
  <2> QED
    BY <2>2 DEF from, n
<1> HIDE DEF b
<1>7. <<>> \o b = b
  BY <1>6, ConcatEmptySeq
<1> QED
  BY <1>4, <1>5, <1>6, <1>7 DEF b

\* What is received is what the head announces: nothing behind 304, 412 and
\* 416, each part behind its own head and the last boundary, the bytes of
\* Content-Range, or all of the body and the trailer of the encoder
\* (php_http_env_response_send).
THEOREM BodiesMatchHeads == Spec => []BodyMatchesHead
<1>1. Types /\ Heads /\ Progress => BodyMatchesHead
  <2> SUFFICES ASSUME Types, Heads, Progress, Answered, InRange PROVE BodyMatchesHead
    BY DEF BodyMatchesHead
  <2>1. Sent = IF r.done \/ ~BodyPresent THEN <<>> ELSE Upto(Len(All)) \o Ends
    BY DEF Answered, Progress, Behind
  <2>2. /\ r.done => conn.status \in {304, 412, 416}
        /\ ~r.done => ("Content-Encoding" \in DOMAIN conn.headers <=> r.encoder # "none")
        /\ ~r.done /\ ~Partial => conn.status = setup.code
        /\ ~r.done /\ Partial => conn.status = 206
        /\ ~r.done /\ Partial /\ ~Multipart =>
              conn.headers["Content-Range"] = <<r.values[1].begin, r.values[1].end, r.length>>
    BY DEF Answered, Heads, Final, Headed, Names
  <2>3. setup.code \in {200, 404} /\ r.done \in BOOLEAN
    BY ResponseFields DEF Types, Setup
  <2> DEFINE Nothing == Sent = <<>>
             Ranged ==
                IF Multipart
                THEN Sent = FlattenSeq([i \in DOMAIN r.values |->
                                <<PartHead(r.values[i])>>
                                \o Bytes(r.values[i].begin, r.values[i].end - r.values[i].begin + 1)])
                            \o <<Close>>
                ELSE LET range == conn.headers["Content-Range"]
                     IN Sent = Bytes(range[1], range[2] - range[1] + 1) /\ range[3] = body.size
             Entire ==
                Sent = (IF BodyPresent THEN Bytes(0, body.size) ELSE <<>>)
                       \o (IF BodyPresent /\ "Content-Encoding" \in DOMAIN conn.headers
                           THEN <<Trailer>> ELSE <<>>)
             answer == CASE conn.status \in {304, 412, 416} -> Nothing
                         [] conn.status = 206 -> Ranged
                         [] OTHER -> Entire
  <2>a. answer => BodyMatchesHead
    BY DEF BodyMatchesHead
  <2>b. ASSUME conn.status \in {304, 412, 416}, Nothing PROVE answer
    <3> HIDE DEF Nothing, Ranged, Entire
    <3> QED BY <2>b
  <2>c. ASSUME conn.status = 206, Ranged PROVE answer
    <3> HIDE DEF Nothing, Ranged, Entire
    <3> QED BY <2>c
  <2>d. ASSUME conn.status \notin {206, 304, 412, 416}, Entire PROVE answer
    <3> HIDE DEF Nothing, Ranged, Entire
    <3> QED BY <2>d
  <2> HIDE DEF answer
  <2>4. CASE r.done
    <3>1. Sent = <<>> /\ conn.status \in {304, 412, 416}
      BY <2>1, <2>2, <2>4
    <3> QED
      BY <3>1, <2>a, <2>b
  <2>5. CASE ~r.done /\ Partial /\ Multipart
    <3>1. BodyPresent /\ r.encoder = "none" /\ conn.status = 206
      BY <2>2, <2>5 DEF Heads, Started
    <3>2. All = r.values /\ DOMAIN r.values = 1 .. Len(r.values)
      BY <2>5, ResponseFields DEF All
    <3>3. Upto(Len(All)) =
             FlattenSeq([i \in DOMAIN r.values |->
                 <<PartHead(r.values[i])>>
                 \o Bytes(r.values[i].begin, r.values[i].end - r.values[i].begin + 1)])
      BY <2>5, <3>2 DEF Upto, Part, HeadOf, Span
    <3>4. Ends = <<Close>>
      BY <2>5, <3>1 DEF Ends
    <3>5. Sent = Upto(Len(All)) \o Ends
      BY <2>1, <2>5, <3>1
    <3> QED
      BY <2>5, <3>1, <3>3, <3>4, <3>5, <2>a, <2>c
  <2>6. CASE ~r.done /\ Partial /\ ~Multipart
    <3>1. BodyPresent /\ r.encoder = "none" /\ conn.status = 206 /\ r.length = body.size
      BY <2>2, <2>6 DEF Heads, Started
    <3>2. All = r.values /\ Len(All) = 1
      BY <2>6 DEF All, Multipart
    <3>3. /\ Upto(1) = Bytes(r.values[1].begin, r.values[1].end - r.values[1].begin + 1)
          /\ Upto(1) \in Seq(Item)
      BY <2>6, <3>2, OnePart DEF Span
    <3>4. Ends = <<>>
      BY <2>6, <3>1 DEF Ends
    <3>5. Sent = Upto(1)
      BY <2>1, <2>6, <3>1, <3>2, <3>3, <3>4, ConcatEmptySeq
    <3> DEFINE range == conn.headers["Content-Range"]
    <3>6. range[1] = r.values[1].begin /\ range[2] = r.values[1].end /\ range[3] = r.length
      BY <2>2, <2>6
    <3> HIDE DEF range
    <3>7. Sent = Bytes(range[1], range[2] - range[1] + 1) /\ range[3] = body.size
      BY <3>1, <3>3, <3>5, <3>6
    <3> QED
      BY <2>6, <3>1, <3>7, <2>a, <2>c DEF range
  <2>7. CASE ~r.done /\ ~Partial
    <3> DEFINE trailer == IF BodyPresent /\ "Content-Encoding" \in DOMAIN conn.headers
                          THEN <<Trailer>> ELSE <<>>
               bytes == IF BodyPresent THEN Bytes(0, body.size) ELSE <<>>
    <3>1. conn.status \in {200, 404}
      BY <2>2, <2>3, <2>7
    <3>2. Sent = bytes \o trailer
      <4>1. CASE BodyPresent
        <5>1. ~Multipart /\ Len(All) = 1 /\ All[1] = Whole
          BY <2>7, AllTypes DEF Multipart
        <5>2. Upto(1) = Bytes(0, body.size)
          BY <2>7, <5>1, OnePart DEF Span, Whole
        <5>3. Ends = trailer
          <6>1. trailer = IF r.encoder = "none" THEN <<>> ELSE <<Trailer>>
            BY <2>2, <2>7, <4>1
          <6>2. Ends = <<>> \o (IF r.encoder = "none" THEN <<>> ELSE <<Trailer>>)
            BY <5>1 DEF Ends
          <6>3. Trailer \in Item
            BY DEF Item
          <6> HIDE DEF trailer
          <6>4. trailer \in Seq(Item)
            BY <6>1, <6>3
          <6>5. <<>> \o trailer = trailer
            BY <6>4, ConcatEmptySeq
          <6> QED
            BY <6>1, <6>2, <6>5
        <5> QED
          BY <2>1, <2>7, <4>1, <5>1, <5>2, <5>3
      <4>2. CASE ~BodyPresent
        BY <2>1, <4>2
      <4> QED
        BY <4>1, <4>2
    <3> QED
      BY <3>1, <3>2, <2>a, <2>d
  <2> QED
    BY <2>3, <2>4, <2>5, <2>6, <2>7
<1> QED
  BY <1>1, ResponseProgress, PTL


-----------------------------------------------------------------------------
(* The ranges that were asked for *)

\* Before the head is decided, the response goes by what the request asks for.
RangesChecked ==
  at = "head" =>
     LET ranges == Ranges[request.range][body.size]
     IN /\ r.status = "RANGE_OK" => ranges.status = "RANGE_OK" /\ r.values = ranges.values
        /\ conn.status = 416 => ranges.status = "RANGE_ERR"
        /\ ranges.status = "RANGE_NO" => r.status = "RANGE_NO"

LEMMA RangesCheckedWithoutBody == Types /\ Heads /\ WithoutBody => RangesChecked'
<1> SUFFICES ASSUME Types, Heads, WithoutBody PROVE RangesChecked'
  OBVIOUS
<1>1. at = "send" /\ UNCHANGED <<r, conn>> /\ r = NoResponse
  BY DEF WithoutBody, Types, Fits
<1>2. conn'.status = 200 /\ r'.status = "RANGE_NO"
  BY <1>1, NoResponseFacts DEF Heads, Fresh
<1> QED
  BY <1>2 DEF RangesChecked

LEMMA RangesCheckedCheckRanges == Types /\ Heads /\ CheckRanges => RangesChecked'
<1> SUFFICES ASSUME Types, Heads, CheckRanges PROVE RangesChecked'
  OBVIOUS
<1> DEFINE ranges == Ranges[request.range][body.size]
<1>1. at = "send" /\ UNCHANGED <<body, request>>
  BY DEF CheckRanges, outside
<1>2. ranges' = ranges
  <2>1. Ranges' = Ranges
    BY DEF Ranges
  <2> QED
    BY <1>1, <2>1
<1>3. conn.status = 200
  BY <1>1 DEF Heads, Fresh
<1>4. /\ ~r'.done => conn'.status = 200
      /\ r'.done /\ r'.status = "RANGE_OK" => conn'.status = 412
  BY <1>3, CheckedConn
<1>5. Unranged \/ NotSatisfiable \/ Failed \/ Satisfiable
  BY CheckOutcome
<1> HIDE DEF ranges
<1>6. /\ r'.status = "RANGE_OK" => ranges.status = "RANGE_OK" /\ r'.values = ranges.values
      /\ conn'.status = 416 => ranges.status = "RANGE_ERR"
      /\ ranges.status = "RANGE_NO" => r'.status = "RANGE_NO"
  <2>1. CASE Unranged
    BY <1>4, <2>1 DEF Unranged
  <2>2. CASE NotSatisfiable
    BY <2>2 DEF NotSatisfiable, ranges
  <2>3. CASE Failed
    BY <1>4, <2>3 DEF Failed, ranges
  <2>4. CASE Satisfiable
    BY <1>4, <2>4 DEF Satisfiable, ranges
  <2> QED
    BY <1>5, <2>1, <2>2, <2>3, <2>4
<1> QED
  BY <1>2, <1>6 DEF RangesChecked, ranges

LEMMA RangesCheckedNext == Types /\ Heads /\ RangesChecked /\ [Next]_vars => RangesChecked'
<1> SUFFICES ASSUME Types, Heads, RangesChecked, [Next]_vars PROVE RangesChecked'
  OBVIOUS
<1>1. CASE WithoutBody
  BY <1>1, RangesCheckedWithoutBody
<1>2. CASE CheckRanges
  BY <1>2, RangesCheckedCheckRanges
<1>3. CASE UNCHANGED vars
  <2>1. Ranges' = Ranges
    BY DEF Ranges
  <2> QED
    BY <1>3, <2>1 DEF RangesChecked, vars
<1>4. CASE Ask \/ Change \/ Compare \/ Receive
  <2>1. at' # "head"
    BY <1>4 DEF Ask, Change, Compare, Receive
  <2> QED
    BY <2>1 DEF RangesChecked
<1>5. CASE AcceptRangesRefused \/ HeadDone \/ HeadRefused \/ HeadStart \/ HeadRanges \/ HeadEncoding \/ HeadCaching
  <2>1. at' # "head"
    BY <1>5 DEF AcceptRangesRefused, HeadDone, HeadRefused, HeadStart, HeadRanges, HeadEncoding, HeadCaching, Return
  <2> QED
    BY <2>1 DEF RangesChecked
<1>6. CASE BodyDone \/ BodyStart \/ NextPart \/ ReadBody \/ SendDone \/ Finish
  <2>1. at' # "head"
    BY <1>6 DEF BodyDone, BodyStart, NextPart, ReadBody, SendDone, Finish, Write, Return
  <2> QED
    BY <2>1 DEF RangesChecked
<1> QED
  BY <1>1, <1>2, <1>3, <1>4, <1>5, <1>6 DEF Next, Send

\* For every header, every size and every way to read: what is decided on a
\* Range header that has a meaning is what it means (php_http_env.c:266-419),
\* and the bytes that go out are those the head announces.
THEOREM ResponseAnswers == Spec => []AnswersRequest
<1>1. Init => RangesChecked
  BY DEF Init, RangesChecked
<1>2. Types /\ RangesChecked => RangesMeant
  <2> SUFFICES ASSUME Types, RangesChecked, at = "head", HasMeaning(request.range, body.size)
               PROVE  RangesMeant
    BY DEF RangesMeant
  <2> DEFINE ranges == Ranges[request.range][body.size]
             meant == MeantRanges(request.range, body.size)
  <2>1. ranges = meant
    BY AskedMeant
  <2>2. /\ r.status = "RANGE_OK" => ranges.status = "RANGE_OK" /\ r.values = ranges.values
        /\ conn.status = 416 => ranges.status = "RANGE_ERR"
        /\ ranges.status = "RANGE_NO" => r.status = "RANGE_NO"
    BY DEF RangesChecked
  <2> HIDE DEF ranges
  <2> QED
    BY <2>1, <2>2 DEF RangesMeant
<1> QED
  BY <1>1, <1>2, RangesCheckedNext, ResponseHeads, BodiesMatchHeads, PTL DEF Spec, AnswersRequest

-----------------------------------------------------------------------------
(* What a client has *)

\* Every byte belongs to the body, and to its place behind the head of a part.
Leads(s, p, i) ==
    /\ s[p].t = "part" /\ s[p].begin + i - p - 1 = s[i].no
    /\ \A q \in p + 1 .. i : s[q].t # "part"

OfBody(item) == item.ver = body.ver /\ item.no \in 0 .. body.size - 1

InPlace(s) ==
    \A i \in 1 .. Len(s) :
        s[i].t = "byte" => OfBody(s[i]) /\ \E p \in 1 .. i - 1 : Leads(s, p, i)

LEMMA InPlaceJoins ==
  ASSUME NEW s \in Seq(Item), NEW u \in Seq(Item), InPlace(s), InPlace(u)
  PROVE  InPlace(s \o u)
<1> DEFINE w == s \o u
<1>1. /\ Len(s) \in Nat /\ Len(u) \in Nat /\ Len(w) = Len(s) + Len(u)
      /\ \A i \in 1 .. Len(s) : w[i] = s[i]
      /\ \A i \in 1 .. Len(u) : w[Len(s) + i] = u[i]
  OBVIOUS
<1> SUFFICES ASSUME NEW i \in 1 .. Len(w), w[i].t = "byte"
             PROVE  OfBody(w[i]) /\ \E p \in 1 .. i - 1 : Leads(w, p, i)
  BY DEF InPlace
<1> HIDE DEF w
<1>2. CASE i <= Len(s)
  <2>1. i \in 1 .. Len(s) /\ w[i] = s[i]
    BY <1>1, <1>2
  <2>2. PICK p \in 1 .. i - 1 : OfBody(s[i]) /\ Leads(s, p, i)
    BY <2>1 DEF InPlace
  <2>3. w[p] = s[p] /\ \A q \in p + 1 .. i : w[q] = s[q]
    BY <1>1, <2>1, SMTT(30)
  <2>4. Leads(w, p, i)
    BY <2>1, <2>2, <2>3 DEF Leads
  <2> QED
    BY <2>1, <2>2, <2>4
<1>3. CASE i > Len(s)
  <2> DEFINE n == Len(s)
             j == i - n
  <2>1. n \in Nat /\ j \in 1 .. Len(u) /\ i = n + j /\ w[i] = u[j]
    <3>1. n \in Nat /\ j \in 1 .. Len(u) /\ i = n + j
      BY <1>1, <1>3
    <3>2. w[n + j] = u[j]
      BY <1>1, <3>1
    <3> QED
      BY <3>1, <3>2
  <2>2. PICK p \in 1 .. j - 1 : OfBody(u[j]) /\ Leads(u, p, j)
    BY <2>1 DEF InPlace
  <2>3. \A q \in 1 .. Len(u) : w[n + q] = u[q]
    BY <1>1
  <2> HIDE DEF n, j
  <2>4. n + p \in 1 .. i - 1 /\ w[n + p] = u[p]
    BY <2>1, <2>3
  <2>5. ASSUME NEW q \in n + p + 1 .. i PROVE w[q].t # "part"
    <3>1. q - n \in p + 1 .. j /\ q - n \in 1 .. Len(u) /\ n + (q - n) = q
      BY <2>1
    <3>2. w[q] = u[q - n]
      BY <2>3, <3>1
    <3> QED
      BY <2>2, <3>1, <3>2 DEF Leads
  <2>6. u[p].begin + j - p - 1 = u[j].no /\ u[p].t = "part"
    BY <2>2 DEF Leads
  <2>7. i - (n + p) = j - p
    BY <2>1
  <2>8. Leads(w, n + p, i)
    <3>1. u[p].begin + i - (n + p) - 1 = u[p].begin + j - p - 1
      BY <2>1
    <3> QED
      BY <2>1, <2>4, <2>5, <2>6, <3>1 DEF Leads
  <2> QED
    BY <2>1, <2>2, <2>4, <2>8
<1> QED
  BY <1>1, <1>2, <1>3

LEMMA PartInPlace ==
  ASSUME Types, InRange, Multipart, NEW k \in 1 .. Len(All)
  PROVE  InPlace(Part(All[k]))
<1> DEFINE range == All[k]
           from == range.begin
           n == Span(range)
           s == Part(range)
<1>1. range \in ByteRange /\ from \in Nat /\ from \in Int /\ n \in Nat /\ from + n <= body.size
  BY AllFacts
<1>2. PartHead(range).t = "part" /\ PartHead(range).begin = from
  BY <1>1 DEF PartHead
<1>3. s = <<PartHead(range)>> \o Bytes(from, n)
  BY DEF Part, HeadOf
<1>4. body.size \in Nat
  BY BodyFacts
<1> HIDE DEF from, n
<1>5. /\ Bytes(from, n) \in Seq(Item) /\ Len(Bytes(from, n)) = n
      /\ \A i \in 1 .. n : Bytes(from, n)[i] = Byte(from + i - 1)
  BY <1>1, BytesFacts
<1>6. PartHead(range) \in Item
  BY <1>1, ItemFacts
<1> HIDE DEF range, s
<1>7. /\ Len(s) = n + 1 /\ s[1] = PartHead(range)
      /\ \A i \in 2 .. n + 1 : s[i] = Byte(from + i - 2)
  <2>1. Len(<<PartHead(range)>>) = 1 /\ <<PartHead(range)>>[1] = PartHead(range)
    OBVIOUS
  <2>2. /\ Len(s) = 1 + n /\ s[1] = PartHead(range)
        /\ \A i \in 1 .. n : s[1 + i] = Bytes(from, n)[i]
    BY <1>1, <1>3, <1>5, <1>6
  <2>3. ASSUME NEW i \in 2 .. n + 1 PROVE s[i] = Byte(from + i - 2)
    <3>1. i - 1 \in 1 .. n /\ 1 + (i - 1) = i /\ from + (i - 1) - 1 = from + i - 2
      BY <1>1
    <3> QED
      BY <1>5, <2>2, <3>1
  <2> QED
    BY <1>1, <2>2, <2>3
<1>8. ASSUME NEW i \in 1 .. Len(s), s[i].t = "byte"
      PROVE  OfBody(s[i]) /\ \E p \in 1 .. i - 1 : Leads(s, p, i)
  <2>1. i \in 2 .. n + 1
    BY <1>1, <1>2, <1>7, <1>8
  <2>2. s[i].ver = body.ver /\ s[i].no = from + i - 2
    <3>1. s[i] = Byte(from + i - 2)
      BY <1>7, <2>1
    <3> QED
      BY <3>1 DEF Byte
  <2>3. OfBody(s[i])
    BY <1>1, <1>4, <2>1, <2>2 DEF OfBody
  <2>4. ASSUME NEW q \in 2 .. i PROVE s[q].t # "part"
    <3>1. q \in 2 .. n + 1
      BY <1>1, <2>1
    <3>2. s[q] = Byte(from + q - 2)
      BY <1>7, <3>1
    <3> QED
      BY <3>2 DEF Byte
  <2>5. Leads(s, 1, i)
    BY <1>1, <1>2, <1>7, <2>1, <2>2, <2>4 DEF Leads
  <2> QED
    BY <2>1, <2>3, <2>5
<1> QED
  BY <1>8 DEF InPlace, s, range

LEMMA UptoInPlace ==
  ASSUME Types, InRange, Multipart
  PROVE  InPlace(Upto(Len(All)))
<1> DEFINE T == {j \in 0 .. Len(All) : ~InPlace(Upto(j))}
<1>1. Len(All) \in Nat
  BY AllTypes
<1>2. ASSUME NEW n \in T PROVE \E m \in T : m < n
  <2>1. n # 0
    BY <1>1, UptoFacts DEF InPlace
  <2>2. n - 1 \in 0 .. Len(All) /\ n - 1 < Len(All) /\ (n - 1) + 1 = n /\ n \in 1 .. Len(All) /\ n - 1 < n
    BY <1>1, <2>1
  <2>3. Upto(n) = Upto(n - 1) \o Part(All[n]) /\ Upto(n - 1) \in Seq(Item)
    <3> DEFINE j == n - 1
    <3>1. j \in 0 .. Len(All) /\ j < Len(All) /\ j + 1 = n
      BY <2>2
    <3> HIDE DEF j
    <3>2. Upto(j) \in Seq(Item) /\ Upto(j + 1) = Upto(j) \o Part(All[j + 1])
      BY <3>1, UptoFacts
    <3> QED
      BY <3>1, <3>2 DEF j
  <2>4. Part(All[n]) \in Seq(Item) /\ InPlace(Part(All[n]))
    BY <2>2, PartFacts, PartInPlace
  <2>5. ~InPlace(Upto(n - 1))
    BY <2>3, <2>4, InPlaceJoins
  <2> QED
    BY <2>2, <2>5
<1>3. T \subseteq Nat
  BY <1>1
<1> HIDE DEF T
<1>4. T = {}
  BY <1>2, <1>3, Induction
<1> QED
  BY <1>1, <1>4 DEF T

\* The place the client finds for a byte is the one it belongs to.
LEMMA PlaceFound ==
  ASSUME Sent \in Seq(Item), InPlace(Sent), "Content-Range" \notin Names,
         NEW i \in DOMAIN Sent, Sent[i].t = "byte"
  PROVE  PlaceOf(i) = Sent[i].no
<1>1. i \in 1 .. Len(Sent) /\ Len(Sent) \in Nat
  OBVIOUS
<1>2. PICK p \in 1 .. i - 1 : Leads(Sent, p, i)
  BY <1>1 DEF InPlace
<1> DEFINE I == {q \in 1 .. i : Sent[q].t = "part"}
<1>3. p \in I /\ I \subseteq Nat /\ \A q \in I : q <= i
  BY <1>1, <1>2 DEF Leads
<1>4. \A q \in I : q <= p
  BY <1>1, <1>2 DEF Leads
<1>5. Max(I) \in I /\ \A q \in I : q <= Max(I)
  <2>1. i \in Nat /\ I # {}
    BY <1>1, <1>3
  <2> HIDE DEF I
  <2> QED
    BY <1>3, <2>1, MaxOfBounded
<1>6. Max(I) = p
  <2>1. Max(I) \in Nat /\ p \in Nat /\ Max(I) <= p /\ p <= Max(I)
    BY <1>3, <1>4, <1>5
  <2> QED
    BY <2>1
<1>7. SelectLastInSubSeq(Sent, 1, i, LAMBDA item : item.t = "part") = p
  <2>1. I # {}
    BY <1>3
  <2> QED
    BY <1>6, <2>1 DEF SelectLastInSubSeq
<1>8. p # 0
  BY <1>1
<1>9. PlaceOf(i) = Sent[p].begin + i - p - 1
  BY <1>7, <1>8 DEF PlaceOf, Names
<1> QED
  BY <1>2, <1>9 DEF Leads

CopiedByte == [as : Int, no : Int, ver : Nat]

Placed(b) == b \in CopiedByte /\ b.as = b.no /\ OfBody(b)

\* All of the body is received in its order.
LEMMA AllReceived ==
  ASSUME Types, Heads, Progress, Answered, conn.status = 200
  PROVE  LET new == Received([i \in DOMAIN Sent |-> i - 1])
         IN /\ \A b \in new : Placed(b)
            /\ BodyPresent => {b.no : b \in new} = 0 .. body.size - 1
<1> DEFINE place == [i \in DOMAIN Sent |-> i - 1]
           new == Received(place)
<1>1. ~r.done /\ ~Partial
  BY DEF Heads, Final, Headed, Answered
<1>2. InRange
  BY <1>1 DEF Heads, Started, InRange
<1>3. Sent = IF BodyPresent THEN Upto(Len(All)) \o Ends ELSE <<>>
  BY <1>1, <1>2 DEF Answered, Progress, Behind
<1>4. body.size \in Nat /\ body.ver \in Nat
  BY BodyFacts
<1>5. CASE ~BodyPresent
  <2>1. DOMAIN Sent = {}
    BY <1>3, <1>5
  <2>2. new = {}
    BY <2>1 DEF Received
  <2> QED
    BY <1>5, <2>2
<1>6. CASE BodyPresent
  <2> DEFINE n == body.size
             bytes == Bytes(0, n)
  <2>0. n \in Nat /\ 0 \in Int
    BY <1>4
  <2>1. Upto(1) = bytes /\ Len(All) = 1
    <3>1. ~Multipart /\ Len(All) = 1 /\ All[1] = Whole
      BY <1>1, AllTypes DEF Multipart
    <3> QED
      BY <1>1, <1>2, <3>1, OnePart DEF Span, Whole
  <2> HIDE DEF n
  <2>2. bytes = Bytes(0, n) /\ bytes \in Seq(Item) /\ Len(bytes) = n
    <3>1. bytes = Bytes(0, n)
      OBVIOUS
    <3> HIDE DEF bytes
    <3>2. bytes \in Seq(Item) /\ Len(bytes) = n
      BY <2>0, <3>1, BytesTyped
    <3> QED
      BY <3>1, <3>2
  <2>3. Sent = bytes \o Ends /\ Ends \in Seq(Item) /\ \A i \in 1 .. Len(Ends) : Ends[i].t # "byte"
    <3>1. ~Multipart
      BY <1>1 DEF Multipart
    <3>2. Ends = <<>> \o (IF r.encoder = "none" THEN <<>> ELSE <<Trailer>>)
      BY <3>1 DEF Ends
    <3>3. \A i \in 1 .. Len(Ends) : Ends[i] = Trailer
      BY <3>2
    <3> QED
      BY <1>3, <1>6, <2>1, <3>3, EndsFacts DEF Trailer
  <2> HIDE DEF bytes
  <2>4. /\ Len(Sent) = n + Len(Ends) /\ Len(Ends) \in Nat /\ DOMAIN Sent = 1 .. Len(Sent)
        /\ \A i \in 1 .. n : Sent[i] = bytes[i]
        /\ \A i \in 1 .. Len(Ends) : Sent[n + i] = Ends[i]
    <3> DEFINE e == Ends
               s == Sent
    <3>1. s = bytes \o e /\ e \in Seq(Item)
      BY <2>3
    <3> HIDE DEF e, s
    <3>2. /\ Len(s) = n + Len(e) /\ Len(e) \in Nat /\ DOMAIN s = 1 .. Len(s)
          /\ \A i \in 1 .. n : s[i] = bytes[i]
          /\ \A i \in 1 .. Len(e) : s[n + i] = e[i]
      <4>1. bytes \in Seq(Item) /\ Len(bytes) = n
        BY <2>2
      <4> QED
        BY <2>0, <3>1, <4>1
    <3> QED
      BY <3>2 DEF e, s
  <2>5. ASSUME NEW i \in 1 .. n
        PROVE  Sent[i].t = "byte" /\ Sent[i].no = i - 1 /\ Sent[i].ver = body.ver
    <3>1. bytes[i].t = "byte" /\ bytes[i].no = 0 + i - 1 /\ bytes[i].ver = body.ver
      <4>1. bytes = Bytes(0, n) /\ i \in DOMAIN bytes
        BY <2>0, <2>2
      <4> QED
        BY <2>0, <4>1, ByteAt
    <3>2. Sent[i] = bytes[i] /\ 0 + i - 1 = i - 1
      BY <2>0, <2>4
    <3> QED
      BY <3>1, <3>2
  <2>6. {i \in DOMAIN Sent : Sent[i].t = "byte"} = 1 .. n
    <3>1. ASSUME NEW i \in DOMAIN Sent, i \notin 1 .. n PROVE Sent[i].t # "byte"
      <4> DEFINE j == i - n
      <4>1. j \in 1 .. Len(Ends) /\ n + j = i
        BY <2>0, <2>4, <3>1
      <4> HIDE DEF j
      <4>2. Sent[i] = Ends[j]
        BY <2>4, <4>1
      <4> QED
        BY <2>3, <4>1, <4>2
    <3>2. 1 .. n \subseteq DOMAIN Sent
      BY <2>0, <2>4
    <3> QED
      BY <2>5, <3>1, <3>2
  <2>7. new = {[as |-> i - 1, no |-> i - 1, ver |-> body.ver] : i \in 1 .. n}
    <3>1. new = {[as |-> place[i], no |-> Sent[i].no, ver |-> Sent[i].ver] : i \in 1 .. n}
      BY <2>6 DEF Received
    <3>2. \A i \in 1 .. n : place[i] = i - 1
      BY <2>0, <2>4
    <3> HIDE DEF place
    <3> QED
      BY <2>5, <3>1, <3>2
  <2> HIDE DEF new
  <2>8. ASSUME NEW b \in new PROVE Placed(b) /\ b.no \in 0 .. n - 1
    <3>1. PICK i \in 1 .. n : b = [as |-> i - 1, no |-> i - 1, ver |-> body.ver]
      BY <2>7
    <3> DEFINE k == i - 1
    <3>2. k \in Int /\ k \in 0 .. n - 1
      BY <2>0
    <3> HIDE DEF k
    <3>3. b = [as |-> k, no |-> k, ver |-> body.ver]
      BY <3>1 DEF k
    <3> QED
      BY <1>4, <3>2, <3>3 DEF Placed, CopiedByte, OfBody, n
  <2>9. ASSUME NEW k \in 0 .. n - 1 PROVE \E b \in new : b.no = k
    <3>1. k + 1 \in 1 .. n /\ (k + 1) - 1 = k
      BY <2>0
    <3>2. [as |-> k, no |-> k, ver |-> body.ver] \in new
      BY <2>7, <3>1
    <3> QED
      BY <3>2
  <2>10. {b.no : b \in new} = 0 .. n - 1
    BY <2>8, <2>9
  <2>11. n = body.size
    BY DEF n
  <2> QED
    BY <1>6, <2>8, <2>10, <2>11 DEF new
<1> QED
  BY <1>5, <1>6

\* What is received of parts belongs where the client puts it.
LEMMA PartsReceived ==
  ASSUME Types, Heads, Progress, Answered, InRange, conn.status = 206
  PROVE  \A b \in Received([i \in DOMAIN Sent |-> PlaceOf(i)]) : Placed(b)
<1>1. ~r.done /\ Partial
  <2>1. setup.code \in {200, 404}
    BY DEF Types, Setup
  <2> QED
    BY <2>1 DEF Heads, Final, Headed, Answered
<1>2. BodyPresent /\ r.encoder = "none"
  BY <1>1 DEF Heads, Started
<1>3. Sent = Upto(Len(All)) \o Ends /\ Len(All) \in Nat /\ Upto(Len(All)) \in Seq(Item)
  <2>1. Len(All) \in Nat
    BY AllTypes
  <2> QED
    BY <1>1, <1>2, <2>1, UptoFacts DEF Answered, Progress, Behind
<1>4. body.size \in Nat /\ body.ver \in Nat
  BY BodyFacts
<1> DEFINE place == [i \in DOMAIN Sent |-> PlaceOf(i)]
<1>5. ASSUME NEW i \in DOMAIN Sent, Sent[i].t = "byte"
      PROVE  place[i] = Sent[i].no /\ OfBody(Sent[i])
  <2>1. CASE Multipart
    <3>1. Ends = <<Close>> \o <<>>
      BY <1>2, <2>1 DEF Ends
    <3>2. Ends \in Seq(Item) /\ InPlace(Ends)
      <4>1. Len(Ends) = 1 /\ Ends[1] = Close
        BY <3>1
      <4> QED
        BY <4>1, EndsFacts DEF InPlace, Close
    <3>3. Sent \in Seq(Item) /\ InPlace(Sent)
      <4> DEFINE u == Upto(Len(All))
      <4>1. u \in Seq(Item) /\ InPlace(u) /\ Sent = u \o Ends
        BY <1>3, <2>1, UptoInPlace
      <4> HIDE DEF u
      <4> QED
        BY <3>2, <4>1, InPlaceJoins
    <3>4. "Content-Range" \notin Names
      BY <1>1, <2>1 DEF Heads, Final, Headed, Answered
    <3>5. i \in 1 .. Len(Sent)
      BY <3>3
    <3>6. OfBody(Sent[i])
      BY <1>5, <3>3, <3>5 DEF InPlace
    <3> QED
      BY <1>5, <3>3, <3>4, <3>6, PlaceFound
  <2>2. CASE ~Multipart
    <3> DEFINE range == r.values[1]
               first == range.begin
               count == Span(range)
    <3>1. All = r.values /\ Len(All) = 1 /\ 1 \in 1 .. Len(All)
      BY <1>1, <2>2 DEF All, Multipart
    <3>2. first \in Nat /\ first \in Int /\ count \in Nat /\ first + count <= body.size
      BY <3>1, AllFacts
    <3>3. Upto(1) = Bytes(first, count) /\ Upto(1) \in Seq(Item)
      BY <2>2, <3>1, OnePart
    <3>4. Ends = <<>> \o <<>>
      BY <1>2, <2>2 DEF Ends
    <3>5. Sent = Bytes(first, count)
      BY <1>3, <3>1, <3>3, <3>4, ConcatEmptySeq
    <3>6. /\ "Content-Range" \in DOMAIN conn.headers
          /\ conn.headers["Content-Range"] = <<first, range.end, r.length>>
      BY <1>1, <2>2 DEF Heads, Final, Headed, Answered, Names
    <3>7. PlaceOf(i) = first + i - 1
      BY <3>6 DEF PlaceOf
    <3> HIDE DEF first, count
    <3>8. i \in 1 .. count /\ Sent[i].no = first + i - 1 /\ Sent[i].ver = body.ver
      BY <3>2, <3>5, ByteAt
    <3> QED
      BY <1>4, <3>2, <3>7, <3>8 DEF OfBody
  <2> QED
    BY <2>1, <2>2
<1> HIDE DEF place
<1> SUFFICES ASSUME NEW b \in Received(place) PROVE Placed(b)
  BY DEF place
<1>6. PICK i \in DOMAIN Sent : /\ Sent[i].t = "byte"
                               /\ b = [as |-> place[i], no |-> Sent[i].no, ver |-> Sent[i].ver]
  BY DEF Received
<1>7. b.as = place[i] /\ b.no = Sent[i].no /\ b.ver = Sent[i].ver
  BY <1>6
<1> QED
  BY <1>4, <1>5, <1>6, <1>7 DEF Placed, OfBody, CopiedByte

-----------------------------------------------------------------------------
(* Validators, and what they stand for *)

Known == Copies /\ Validators /\ Decided

LEMMA TagFacts ==
  ASSUME NEW t \in Tags
  PROVE  /\ t.date = 0
         /\ t.given => t.tag = copy.etag /\ copy.etag # NoEtag
         /\ ~t.given => t.tag = NoEtag
  BY DEF Tags, Absent, ByEtag

LEMMA DateFacts ==
  ASSUME NEW d \in Dates
  PROVE  /\ d.tag = NoEtag
         /\ d.given => d.date = copy.date /\ copy.date # 0
         /\ ~d.given => d.date = 0
  BY DEF Dates, Absent, ByDate, NoEtag

LEMMA AbsentFacts == Absent \in Tags /\ Absent \in Dates /\ ~Absent.given /\ Absent.tag = NoEtag /\ Absent.date = 0
  BY DEF Tags, Dates, Absent

\* Conditions are made of the validators the client has, for GET.
LEMMA AskConditions ==
  ASSUME NEW q \in Asks
  PROVE  /\ q.ifMatch \in Tags /\ q.ifNoneMatch \in Tags
         /\ q.ifModifiedSince \in Dates /\ q.ifUnmodifiedSince \in Dates
         /\ q.ifRange \in Tags \cup Dates
         /\ q.ifNoneMatch.given \/ q.ifModifiedSince.given => q.method = "GET" /\ ~q.auth
<1>1. CASE \E t \in Tags, d \in Dates : q = Revalidation(t, d)
  <2>1. PICK t \in Tags, d \in Dates : q = Revalidation(t, d)
    BY <1>1
  <2>2. q \in [method : {"GET"}, auth : {FALSE}, accept : {"absent"}, range : {NoRange},
               ifRange : {Absent}, ifMatch : {Absent}, ifNoneMatch : {t},
               ifModifiedSince : {d}, ifUnmodifiedSince : {Absent}]
    BY <2>1, RevalidationFields
  <2> QED
    BY <2>2, AbsentFacts
<1>2. CASE Plain(q)
  BY <1>2, AbsentFacts DEF Plain
<1>3. CASE Resumption(q)
  BY <1>3, AbsentFacts DEF Resumption
<1> QED
  BY <1>1, <1>2, <1>3, AskKinds

LEMMA AsksKept == UNCHANGED <<setup, copy>> => Asks' = Asks
  BY DEF Asks, Tags, Dates

\* Options that send keeps are those of the current version, or stay.
LEMMA EtagFacts ==
  ASSUME Types
  PROVE  /\ EtagIn(options) # NoEtag
         /\ EtagIn(options) \in {options.etag, EtagOf(body)}
         /\ ModifiedIn(options) \in {options.lastModified, MtimeOf(body)}
         /\ options.lastModified > 0 => ModifiedIn(options) = options.lastModified
         /\ setup.kind = "file" => MtimeOf(body) = body.ver /\ ModifiedIn(options) > 0
         /\ setup.kind # "file" => MtimeOf(body) = 0
  BY BodyFacts, OptionFacts DEF EtagIn, ModifiedIn, MtimeOf

LEMMA OptionsKept ==
  ASSUME Types, Copies, Validators, UNCHANGED <<setup, body, copy>>,
         options' \in {options, KeepEtag(options), KeepModified(options), KeepModified(KeepEtag(options))}
  PROVE  Copies' /\ Validators'
<1>1. Copies'
  BY DEF Copies, IsCurrent, EtagOf, BodyPresent
<1>2. /\ options.etag \in Etag /\ options.lastModified \in Nat /\ body.ver \in Nat \ {0}
      /\ options' \in [etag : Etag, lastModified : Nat]
      /\ options'.etag \in {options.etag, EtagIn(options)}
      /\ options'.lastModified \in {options.lastModified, ModifiedIn(options)}
  <2>1. /\ options \in [etag : Etag, lastModified : Nat]
        /\ KeepEtag(options) \in [etag : Etag, lastModified : Nat]
        /\ KeepEtag(options).lastModified = options.lastModified
        /\ KeepEtag(options).etag = EtagIn(options)
    BY OptionFacts DEF Types
  <2>2. /\ KeepModified(options) \in [etag : Etag, lastModified : Nat]
        /\ KeepModified(options).etag = options.etag
        /\ KeepModified(options).lastModified = ModifiedIn(options)
    BY <2>1, KeepModifiedFacts
  <2>3. /\ KeepModified(KeepEtag(options)) \in [etag : Etag, lastModified : Nat]
        /\ KeepModified(KeepEtag(options)).etag = EtagIn(options)
        /\ KeepModified(KeepEtag(options)).lastModified = ModifiedIn(options)
    BY <2>1, KeepModifiedFacts
  <2> QED
    BY <2>1, <2>2, <2>3, BodyFacts, OptionFacts
<1>3. Validators'
  BY <1>2, EtagFacts, BodyFacts DEF Validators, EtagOf
<1> QED
  BY <1>1, <1>3

LEMMA ValidatorsAsk == Types /\ Copies /\ Validators /\ Ask => Copies' /\ Validators'
<1> SUFFICES ASSUME Types, Copies, Validators, Ask PROVE Copies' /\ Validators'
  OBVIOUS
<1>1. UNCHANGED <<setup, body, copy>> /\ (options' = NewOptions \/ (~setup.tagged /\ options' = options))
  BY DEF Ask
<1>2. Copies'
  BY <1>1 DEF Copies, IsCurrent, EtagOf, BodyPresent
<1>3. CASE options' = options
  BY <1>1, <1>3, OptionsKept
<1>4. CASE options' = NewOptions
  <2>1. CASE setup.tagged
    <3>1. options'.etag = EtagOf(body) /\ options'.lastModified = body.ver
      BY <1>4, <2>1 DEF NewOptions
    <3>2. EtagOf(body)' = EtagOf(body) /\ EtagOf(body).ver = body.ver /\ body.ver \in Nat \ {0}
      BY <1>1, BodyFacts DEF EtagOf
    <3> QED
      BY <1>1, <1>2, <2>1, <3>1, <3>2 DEF Validators
  <2>2. CASE ~setup.tagged
    <3>1. options'.etag = NoEtag /\ options'.lastModified = 0 /\ NoEtag.ver = 0
      BY <1>4, <2>2 DEF NewOptions, NoEtag
    <3>2. body.ver \in Nat \ {0}
      BY BodyFacts
    <3> QED
      BY <1>1, <1>2, <2>2, <3>1, <3>2 DEF Validators
  <2> QED
    BY <2>1, <2>2
<1> QED
  BY <1>1, <1>2, <1>3, <1>4

\* Validators of earlier versions are not those of a new one.
LEMMA ValidatorsChange == Types /\ Copies /\ Validators /\ Change => Copies' /\ Validators'
<1> SUFFICES ASSUME Types, Copies, Validators, Change PROVE Copies' /\ Validators'
  OBVIOUS
<1>1. UNCHANGED <<setup, options, copy>> /\ body'.ver = body.ver + 1 /\ body.ver \in Nat \ {0}
  BY BodyFacts DEF Change
<1>2. /\ copy.etag.ver \in Nat /\ copy.date \in Nat /\ options.etag.ver \in Nat /\ options.lastModified \in Nat
  BY OptionFacts DEF Copies, Etag
<1>3. Copies'
  BY <1>1, <1>2 DEF Copies, BodyPresent
<1>4. Validators'
  BY <1>1, <1>2 DEF Validators
<1> QED
  BY <1>3, <1>4

CopyType == [whole : BOOLEAN, etag : Etag, date : Nat, bytes : SUBSET CopiedByte]

\* The client combines parts with what it has.
Combines == request.ifMatch.given \/ request.ifUnmodifiedSince.given \/ request.ifRange.given

LEMMA CopyFields ==
  ASSUME Copies
  PROVE  /\ copy \in CopyType /\ copy.whole \in BOOLEAN /\ copy.etag \in Etag /\ copy.date \in Nat
         /\ copy.bytes \subseteq CopiedByte
  BY DEF Copies, CopyType, CopiedByte

\* Parts take the places of what was there.
LEMMA Combined ==
  ASSUME Copies, NEW new \in SUBSET CopiedByte, \A b \in new : Placed(b)
  PROVE  LET c == [copy EXCEPT !.bytes = new \cup {b \in @ : \A n \in new : n.as # b.as}]
         IN /\ c \in CopyType /\ c.etag = copy.etag /\ c.date = copy.date
            /\ IsCurrent(copy) => IsCurrent(c)
<1> DEFINE kept == {b \in copy.bytes : \A n \in new : n.as # b.as}
           c == [copy EXCEPT !.bytes = new \cup kept]
<1>1. /\ c \in CopyType /\ c.etag = copy.etag /\ c.date = copy.date /\ c.whole = copy.whole
      /\ c.bytes = new \cup kept
  <2>1. new \cup kept \subseteq CopiedByte
    BY CopyFields
  <2> HIDE DEF kept
  <2> QED
    BY <2>1, CopyFields DEF CopyType
<1> HIDE DEF c
<1>2. ASSUME IsCurrent(copy) PROVE IsCurrent(c)
  <2>1. \A b \in c.bytes : b.as = b.no /\ b.ver = body.ver
    BY <1>1, <1>2 DEF IsCurrent, Placed, OfBody
  <2>2. ASSUME c.whole PROVE {b.no : b \in c.bytes} = 0 .. body.size - 1
    <3>1. {b.no : b \in copy.bytes} = 0 .. body.size - 1
      BY <1>1, <1>2, <2>2 DEF IsCurrent
    <3>2. ASSUME NEW b \in c.bytes PROVE b.no \in 0 .. body.size - 1
      BY <1>1, <3>1 DEF Placed, OfBody
    <3>3. ASSUME NEW n \in 0 .. body.size - 1 PROVE \E b \in c.bytes : b.no = n
      <4>1. PICK b \in copy.bytes : b.no = n
        BY <3>1
      <4>2. CASE b \in kept
        BY <1>1, <4>1, <4>2
      <4>3. CASE b \notin kept
        <5>1. PICK m \in new : m.as = b.as
          BY <4>3
        <5>2. m.no = m.as /\ b.as = b.no
          BY <1>2, <5>1 DEF Placed, IsCurrent
        <5> QED
          BY <1>1, <4>1, <5>1, <5>2
      <4> QED
        BY <4>2, <4>3
    <3> QED
      BY <3>2, <3>3
  <2> QED
    BY <2>1, <2>2 DEF IsCurrent
<1> QED
  BY <1>1, <1>2 DEF c

\* What a client has after a response it can use.
LEMMA CopyFacts ==
  ASSUME Types, Heads, Progress, Copies, Answered, conn.status = 206 => InRange
  PROVE  /\ NewCopy \in CopyType
         /\ conn.status = 200 => /\ NewCopy.etag \in {NoEtag, options.etag}
                                 /\ NewCopy.date \in {0, options.lastModified}
                                 /\ BodyPresent => IsCurrent(NewCopy)
         /\ conn.status = 206 /\ Combines => /\ NewCopy.etag = copy.etag /\ NewCopy.date = copy.date
                                             /\ IsCurrent(copy) => IsCurrent(NewCopy)
         /\ conn.status = 206 /\ ~Combines => /\ NewCopy.etag = NoEtag /\ NewCopy.date = 0
                                              /\ IsCurrent(NewCopy)
         /\ conn.status \notin {200, 206} => NewCopy = copy
<1>1. NoEtag \in Etag /\ options.etag \in Etag /\ options.lastModified \in Nat
  BY OptionFacts DEF NoEtag, Etag
<1>2. CASE conn.status = 200
  <2> DEFINE new == Received([i \in DOMAIN Sent |-> i - 1])
             etag == HeaderOr("ETag", NoEtag)
             date == HeaderOr("Last-Modified", 0)
  <2>1. /\ \A b \in new : Placed(b)
        /\ BodyPresent => {b.no : b \in new} = 0 .. body.size - 1
    BY <1>2, AllReceived
  <2>2. etag \in {NoEtag, options.etag} /\ date \in {0, options.lastModified}
    BY DEF HeaderOr, Heads, Final, Headed, Answered, Names
  <2>3. NewCopy = [whole |-> TRUE, etag |-> etag, date |-> date, bytes |-> new]
    BY <1>2 DEF NewCopy
  <2> HIDE DEF new, etag, date
  <2>4. new \subseteq CopiedByte
    BY <2>1 DEF Placed
  <2>5. NewCopy \in CopyType /\ NewCopy.etag = etag /\ NewCopy.date = date /\ NewCopy.bytes = new
    BY <1>1, <2>2, <2>3, <2>4 DEF CopyType
  <2>6. BodyPresent => IsCurrent(NewCopy)
    BY <2>1, <2>5 DEF IsCurrent, Placed, OfBody
  <2> QED
    BY <1>2, <2>2, <2>5, <2>6
<1>3. CASE conn.status = 206
  <2> DEFINE new == Received([i \in DOMAIN Sent |-> PlaceOf(i)])
             combined == [copy EXCEPT !.bytes = new \cup {b \in @ : \A n \in new : n.as # b.as}]
             alone == [NoCopy EXCEPT !.bytes = new]
  <2>1. \A b \in new : Placed(b)
    BY <1>3, PartsReceived
  <2>2. NewCopy = IF Combines THEN combined ELSE alone
    BY <1>3 DEF NewCopy, Combines
  <2> HIDE DEF new
  <2>3. new \in SUBSET CopiedByte
    BY <2>1 DEF Placed
  <2>4. combined \in CopyType /\ combined.etag = copy.etag /\ combined.date = copy.date
        /\ (IsCurrent(copy) => IsCurrent(combined))
    BY <2>1, <2>3, Combined
  <2>5. /\ alone \in CopyType /\ alone.etag = NoEtag /\ alone.date = 0 /\ ~alone.whole
        /\ alone.bytes = new
    BY <1>1, <2>3 DEF CopyType, NoCopy
  <2> HIDE DEF combined, alone
  <2>6. IsCurrent(alone)
    BY <2>1, <2>5 DEF IsCurrent, Placed, OfBody
  <2> QED
    BY <1>3, <2>2, <2>4, <2>5, <2>6
<1>4. CASE conn.status \notin {200, 206}
  BY <1>4, CopyFields DEF NewCopy
<1> QED
  BY <1>2, <1>3, <1>4

LEMMA ValidatorsReceive ==
  Types /\ Heads /\ Progress /\ Copies /\ Validators /\ Receive => Copies' /\ Validators'
<1> SUFFICES ASSUME Types, Heads, Progress, Copies, Validators, Receive PROVE Copies' /\ Validators'
  OBVIOUS
<1>1. UNCHANGED <<setup, body, options>> /\ copy' = IF Usable THEN NewCopy ELSE copy
  BY DEF Receive
<1>2. CASE ~Usable
  BY <1>1, <1>2, OptionsKept
<1>3. CASE Usable
  <2>1. Answered /\ (conn.status = 206 => InRange) /\ copy' = NewCopy
    BY <1>1, <1>3 DEF Receive, Usable, Answered
  <2>2. /\ copy' \in CopyType
        /\ conn.status = 200 => /\ copy'.etag \in {NoEtag, options.etag}
                                /\ copy'.date \in {0, options.lastModified}
                                /\ BodyPresent => IsCurrent(copy')
        /\ conn.status = 206 /\ Combines => /\ copy'.etag = copy.etag /\ copy'.date = copy.date
                                            /\ IsCurrent(copy) => IsCurrent(copy')
        /\ conn.status = 206 /\ ~Combines => /\ copy'.etag = NoEtag /\ copy'.date = 0
                                             /\ IsCurrent(copy')
        /\ conn.status \notin {200, 206} => copy' = copy
    BY <2>1, CopyFacts
  <2>3. NoEtag.ver = 0 /\ body.ver \in Nat \ {0}
    BY BodyFacts DEF NoEtag
  <2>4. \A c : IsCurrent(c)' <=> IsCurrent(c)
    BY <1>1 DEF IsCurrent
  <2>5. Copies'
    <3>1. copy' \in CopyType
      BY <2>2
    <3>2. ASSUME BodyPresent
          PROVE  /\ copy'.etag.ver <= body.ver /\ copy'.date <= body.ver
                 /\ copy'.etag.ver = body.ver => copy'.etag = EtagOf(body) /\ IsCurrent(copy')
                 /\ copy'.date = body.ver => IsCurrent(copy')
      BY <2>2, <2>3, <3>2 DEF Copies, Validators
    <3> QED
      BY <1>1, <3>1, <3>2 DEF Copies, CopyType, CopiedByte, BodyPresent, IsCurrent
  <2>6. Validators'
    BY <1>1, <2>2 DEF Validators
  <2> QED
    BY <2>5, <2>6
<1> QED
  BY <1>2, <1>3

\* Steps that leave alone what was decided.
LEMMA DecidedKept ==
  ASSUME Decided, UNCHANGED <<setup, body, options, request, copy>>,
         at' # "script" => at # "script",
         at' # "send" /\ Partial' /\ ~r'.done => at # "send" /\ Partial /\ ~r.done,
         Headed' => Headed /\ conn'.status = conn.status,
         at' \in {"head", "ranges"} =>
            at \in {"head", "ranges"} /\ r'.status = r.status /\ r'.done = r.done
  PROVE  Decided'
<1>1. Asks' = Asks
  BY AsksKept
<1>2. BodyPresent' = BodyPresent /\ Stale' = Stale /\ EtagOf(body)' = EtagOf(body)
  BY DEF BodyPresent, Stale, EtagOf
<1>3. \A c : (HoldsTag(c)' <=> HoldsTag(c)) /\ (HoldsDate(c)' <=> HoldsDate(c))
  BY DEF HoldsTag, HoldsDate
<1> QED
  BY <1>1, <1>2, <1>3 DEF Decided, Partial

LEMMA DecidedPass ==
  ASSUME Types, Heads, Decided,
         \/ AcceptRangesRefused \/ HeadRefused \/ HeadStart \/ HeadEncoding
         \/ BodyDone \/ BodyStart \/ NextPart \/ ReadBody \/ SendDone \/ Finish
  PROVE  Decided'
<1>0. r.status \in Statuses /\ r \in Response
  BY ResponseFields
<1>1. CASE AcceptRangesRefused \/ HeadRefused
  <2>1. at = "send" => ~Partial
    BY NoResponseFacts DEF Types, Fits, Partial
  <2> QED
    BY <1>1, <2>1, DecidedKept DEF AcceptRangesRefused, HeadRefused, Return, outside, Headed, Partial
<1>2. CASE HeadStart
  BY <1>2, DecidedKept DEF HeadStart, outside, Headed, Partial
<1>3. CASE HeadEncoding
  <2>1. r'.status = r.status /\ r'.done = r.done
    BY <1>0, <1>3, HeadEncodingOutcome DEF Response
  <2> QED
    BY <1>3, <2>1, DecidedKept DEF HeadEncoding, outside, Headed, Partial
<1>4. CASE BodyDone \/ BodyStart \/ NextPart \/ ReadBody \/ SendDone \/ Finish
  <2>1. /\ UNCHANGED <<setup, body, options, request, copy>>
        /\ at \in {"body", "part", "read", "finish"}
    BY <1>4 DEF outside, BodyDone, BodyStart, NextPart, ReadBody, SendDone, Finish
  <2>2. /\ r'.status = r.status /\ r'.done = r.done /\ conn'.status = conn.status
        /\ at' \notin {"script", "send", "head", "ranges"}
    <3>1. CASE BodyDone
      BY <3>1 DEF BodyDone
    <3>2. CASE BodyStart
      BY <3>2, BodyStartOutcome DEF BodyStart
    <3>3. CASE NextPart
      BY <3>3, NextPartOutcome DEF NextPart
    <3>4. CASE ReadBody
      <4>1. PICK k, n : Reads1(k, n)
        BY <3>4, ReadsSome
      <4>2. r'.status = r.status /\ r'.done = r.done
        BY <4>1, ReadOutcome DEF Turned
      <4>3. conn'.status = conn.status /\ at' \in {"part", "read", "crashed"}
        BY <4>1, ReadOutcome, WriteFacts
      <4> QED
        BY <4>2, <4>3
    <3>5. CASE SendDone
      <4>1. conn'.status = conn.status /\ at' \in {"finish", "crashed"}
        BY <3>5, SendDoneOutcome, WriteFacts
      <4> QED
        BY <3>5, <4>1, SendDoneOutcome
    <3>6. CASE Finish
      BY <3>6, FinishOutcome DEF Finish
    <3> QED
      BY <1>4, <3>1, <3>2, <3>3, <3>4, <3>5, <3>6
  <2>3. Headed /\ at # "send" /\ at # "script" /\ Partial' = Partial
    BY <2>1, <2>2 DEF Headed, Partial
  <2> QED
    BY <2>1, <2>2, <2>3, DecidedKept
<1> QED
  BY <1>1, <1>2, <1>3, <1>4

LEMMA DecidedAsk == Types /\ Decided /\ Ask => Decided'
<1> SUFFICES ASSUME Types, Decided, Ask PROVE Decided'
  OBVIOUS
<1>1. at' = "send" /\ request' \in Asks /\ UNCHANGED <<setup, copy>>
  BY DEF Ask
<1> QED
  BY <1>1, AsksKept DEF Decided, Headed

LEMMA DecidedIdle ==
  ASSUME Types, Decided, Change \/ Receive
  PROVE  Decided'
<1>1. at' = "script" /\ r' = NoResponse
  BY DEF Change, Receive, Types, Fits
<1> QED
  BY <1>1, NoResponseFacts DEF Decided, Headed, Partial

LEMMA DecidedCompare == Types /\ Decided /\ Compare => Decided'
<1> SUFFICES ASSUME Types, Decided, Compare PROVE Decided'
  OBVIOUS
<1>1. at' = "send" /\ at = "send" /\ UNCHANGED <<setup, copy, request>>
  BY DEF Compare, outside
<1> QED
  BY <1>1, AsksKept DEF Decided, Headed

LEMMA DecidedWithoutBody == Types /\ Decided /\ WithoutBody => Decided'
<1> SUFFICES ASSUME Types, Decided, WithoutBody PROVE Decided'
  OBVIOUS
<1>1. at' = "head" /\ at = "send" /\ UNCHANGED <<setup, copy, request, r>>
  BY DEF WithoutBody, outside
<1>2. r = NoResponse
  BY <1>1 DEF Types, Fits
<1> QED
  BY <1>1, <1>2, AsksKept, NoResponseFacts DEF Decided, Headed, Partial

\* Parts are sent if If-Match and If-Unmodified-Since hold; If-Range, which is
\* compared with both validators, never does.
LEMMA DecidedCheckRanges == Types /\ Decided /\ CheckRanges => Decided'
<1> SUFFICES ASSUME Types, Decided, CheckRanges PROVE Decided'
  OBVIOUS
<1>1. at' = "head" /\ at = "send" /\ UNCHANGED <<setup, copy, request, body>>
  BY DEF CheckRanges, outside
<1>2. request \in Asks /\ Asks' = Asks
  BY <1>1, AsksKept DEF Decided
<1>3. request.range = NoRange => ~r'.done /\ r'.status = "RANGE_NO"
  BY CheckOutcome, AskedRanges DEF Unranged, NotSatisfiable, Failed, Satisfiable
<1>4. ASSUME Partial', ~r'.done
      PROVE  /\ ~request.ifRange.given
             /\ request.ifMatch.given => HoldsTag(request.ifMatch)'
             /\ request.ifUnmodifiedSince.given => HoldsDate(request.ifUnmodifiedSince)'
  <2>1. ~IfRangeFails /\ ~PreconditionFails /\ options' = KeepModified(KeepEtag(options))
    BY <1>4, CheckOutcome DEF Partial, Unranged, NotSatisfiable, Failed, Satisfiable
  <2>2. options'.etag = EtagIn(options) /\ options'.lastModified = ModifiedIn(options)
    BY <2>1, OptionFacts, KeepModifiedFacts
  <2>3. ~request.ifRange.given
    <3>1. request.ifRange \in Tags \cup Dates
      BY <1>2, AskConditions
    <3>2. request.ifRange.date = 0 \/ request.ifRange.tag = NoEtag
      BY <3>1, TagFacts, DateFacts
    <3> QED
      BY <2>1, <3>2, EtagFacts DEF IfRangeFails, CachedByEtag, CachedByLastModified
  <2>4. ASSUME request.ifMatch.given PROVE HoldsTag(request.ifMatch)'
    BY <1>1, <2>1, <2>2, <2>4 DEF PreconditionFails, CachedByEtag, HoldsTag
  <2>5. ASSUME request.ifUnmodifiedSince.given PROVE HoldsDate(request.ifUnmodifiedSince)'
    BY <1>1, <2>1, <2>2, <2>5, EtagFacts DEF PreconditionFails, CachedByLastModified, HoldsDate
  <2> QED
    BY <2>3, <2>4, <2>5
<1> QED
  BY <1>1, <1>2, <1>3, <1>4 DEF Decided, Headed, Partial

LEMMA DecidedHeadDone == Types /\ Heads /\ Decided /\ HeadDone => Decided'
<1> SUFFICES ASSUME Types, Heads, Decided, HeadDone PROVE Decided'
  OBVIOUS
<1>1. /\ at = "head" /\ r.done /\ at' = "body"
      /\ UNCHANGED <<setup, body, options, request, copy, r, conn>>
  BY DEF HeadDone, outside
<1>2. conn.status \in {412, 416} /\ request.range # NoRange
  BY <1>1 DEF Heads, Preparing, Decided
<1> QED
  BY <1>1, <1>2, AsksKept DEF Decided, Partial

LEMMA DecidedHeadRanges == Types /\ Heads /\ Decided /\ HeadRanges => Decided'
<1> SUFFICES ASSUME Types, Heads, Decided, HeadRanges PROVE Decided'
  OBVIOUS
<1>1. /\ at = "ranges" /\ at' = "body" /\ UNCHANGED <<setup, body, options, request, copy, r>>
      /\ conn'.status = 206
  BY HeadRangesOutcome DEF HeadRanges, outside
<1>2. request.range # NoRange
  BY <1>1 DEF Heads, Preparing, Decided
<1> QED
  BY <1>1, <1>2, AsksKept DEF Decided, Partial, HoldsTag, HoldsDate

LEMMA GivenFacts ==
  ASSUME Types, BodyPresent
  PROVE  /\ Given.etag = EtagIn(options)
         /\ ~request.ifNoneMatch.given => Given.lastModified = ModifiedIn(options)
<1>1. /\ KeepEtag(options).etag = EtagIn(options)
      /\ KeepModified(KeepEtag(options)).etag = EtagIn(options)
      /\ KeepModified(KeepEtag(options)).lastModified = ModifiedIn(options)
  BY OptionFacts, KeepModifiedFacts
<1> QED
  BY <1>1 DEF Given, CachedByEtag

\* 304 says that a validator of the request is that of the response, and is
\* sent whenever it is that of the current version.
LEMMA DecidedHeadCaching == Types /\ Heads /\ Decided /\ HeadCaching => Decided'
<1> SUFFICES ASSUME Types, Heads, Decided, HeadCaching PROVE Decided'
  OBVIOUS
<1>1. at = "caching" /\ at' = "body" /\ UNCHANGED <<setup, body, request, copy>>
  BY DEF HeadCaching, outside
<1>2. request \in Asks /\ Asks' = Asks
  BY <1>1, AsksKept DEF Decided
<1>3. ~Partial /\ conn.status = setup.code /\ setup.code \in {200, 404}
  BY <1>1 DEF Heads, Preparing, Types, Setup
<1>4. ~Partial'
  <2>1. r'.status = r.status
    BY HeadCachingOutcome, ResponseFields DEF Response
  <2> QED
    BY <1>3, <2>1 DEF Partial
<1> DEFINE tag == request.ifNoneMatch
           date == request.ifModifiedSince
<1>5. /\ tag \in Tags /\ date \in Dates
      /\ tag.given \/ date.given => request.method = "GET" /\ ~request.auth
  BY <1>2, AskConditions
<1>6. /\ IsCacheable(conn) => conn'.status = (IF Hit THEN 304 ELSE conn.status) /\ options' = Given
      /\ ~IsCacheable(conn) => conn'.status = conn.status
  BY HeadCachingOutcome
<1>7. ASSUME conn'.status = 304 PROVE HoldsTag(tag)' \/ HoldsDate(date)'
  <2>1. Hit /\ BodyPresent /\ options' = Given
    BY <1>3, <1>6, <1>7 DEF Hit
  <2>2. options'.etag = EtagIn(options) /\ (~tag.given => options'.lastModified = ModifiedIn(options))
    BY <2>1, GivenFacts
  <2> QED
    BY <1>1, <2>1, <2>2, EtagFacts
       DEF Hit, NotModified, CachedByEtag, CachedByLastModified, HoldsTag, HoldsDate
<1>8. ASSUME BodyPresent, ~Stale', setup.code < 400,
             \/ tag.tag = EtagOf(body)
             \/ ~tag.given /\ date.date = body.ver
      PROVE  conn'.status = 304
  <2>1. EtagOf(body) # NoEtag /\ body.ver \in Nat \ {0}
    BY BodyFacts
  <2>2. tag.given \/ date.given
    BY <1>5, <1>8, <2>1, TagFacts, DateFacts
  <2>3. IsCacheable(conn)
    BY <1>3, <1>5, <1>8, <2>2 DEF IsCacheable
  <2>4. /\ options' = Given /\ options'.etag = EtagIn(options)
        /\ ~tag.given => options'.lastModified = ModifiedIn(options)
    BY <1>6, <1>8, <2>3, GivenFacts
  <2>5. NotModified
    <3>1. CASE tag.tag = EtagOf(body)
      <4>1. tag.given
        BY <1>5, <2>1, <3>1, TagFacts
      <4>2. EtagIn(options) = EtagOf(body)
        BY <1>1, <1>8, <2>4, EtagFacts DEF Stale, EtagOf
      <4> QED
        BY <3>1, <4>1, <4>2 DEF NotModified, CachedByEtag
    <3>2. CASE ~tag.given /\ date.date = body.ver
      <4>1. date.given
        BY <1>5, <2>1, <3>2, DateFacts
      <4>2. ModifiedIn(options) \in {0, body.ver}
        BY <1>1, <1>8, <2>4, <3>2 DEF Stale
      <4> QED
        BY <2>1, <3>2, <4>1, <4>2 DEF NotModified, CachedByEtag, CachedByLastModified
    <3> QED
      BY <1>8, <3>1, <3>2
  <2> QED
    BY <1>6, <1>8, <2>3, <2>5 DEF Hit
<1>9. BodyPresent' = BodyPresent /\ EtagOf(body)' = EtagOf(body)
  BY <1>1 DEF BodyPresent
<1> HIDE DEF tag, date
<1> QED
  BY <1>1, <1>2, <1>4, <1>7, <1>8, <1>9 DEF Decided, tag, date

LEMMA InitKnown == Init => Known
<1> SUFFICES ASSUME Init PROVE Known
  OBVIOUS
<1>1. /\ body.ver = 1 /\ copy = NoCopy /\ options = NewOptions /\ at = "script" /\ r = NoResponse
  BY DEF Init
<1>2. NoEtag \in Etag /\ NoEtag.ver = 0
  BY DEF NoEtag, Etag
<1>3. Copies
  BY <1>1, <1>2 DEF Copies, NoCopy
<1>4. Validators
  BY <1>1, <1>2 DEF Validators, NewOptions, EtagOf, NoCopy
<1>5. Decided
  BY <1>1, NoResponseFacts DEF Decided, Headed, Partial
<1> QED
  BY <1>3, <1>4, <1>5 DEF Known

LEMMA KnownSend == Types /\ Heads /\ Known /\ Send => Known'
<1> SUFFICES ASSUME Types, Heads, Known, Send PROVE Known'
  OBVIOUS
<1>1. Copies /\ Validators /\ Decided
  BY DEF Known
<1>2. UNCHANGED <<setup, body, copy>>
  BY DEF Send, outside, WithoutBody, AcceptRangesRefused, CheckRanges, HeadDone, HeadRefused, HeadStart,
         HeadRanges, HeadEncoding, HeadCaching, BodyDone, BodyStart, NextPart, ReadBody, SendDone, Finish
<1>3. options' \in {options, KeepEtag(options), KeepModified(options), KeepModified(KeepEtag(options))}
  <2>1. CASE CheckRanges
    BY <2>1, CheckOutcome
  <2>2. CASE HeadCaching
    BY <2>2, HeadCachingOutcome DEF Given
  <2> QED
    BY <2>1, <2>2
    DEF Send, WithoutBody, AcceptRangesRefused, HeadDone, HeadRefused, HeadStart, HeadRanges,
        HeadEncoding, BodyDone, BodyStart, NextPart, ReadBody, SendDone, Finish
<1>4. Copies' /\ Validators'
  BY <1>1, <1>2, <1>3, OptionsKept
<1>5. Decided'
  BY <1>1, DecidedPass, DecidedWithoutBody, DecidedCheckRanges, DecidedHeadDone, DecidedHeadRanges,
     DecidedHeadCaching DEF Send
<1> QED
  BY <1>4, <1>5 DEF Known

LEMMA KnownNext == Types /\ Heads /\ Progress /\ Known /\ [Next]_vars => Known'
<1> SUFFICES ASSUME Types, Heads, Progress, Known, [Next]_vars PROVE Known'
  OBVIOUS
<1>1. Copies /\ Validators /\ Decided
  BY DEF Known
<1>2. CASE Ask
  BY <1>1, <1>2, ValidatorsAsk, DecidedAsk DEF Known
<1>3. CASE Change
  BY <1>1, <1>3, ValidatorsChange, DecidedIdle DEF Known
<1>4. CASE Compare
  <2>1. /\ UNCHANGED <<setup, body, copy>>
        /\ options' \in {options, KeepEtag(options), KeepModified(options), KeepModified(KeepEtag(options))}
    BY <1>4 DEF Compare, outside
  <2> QED
    BY <1>1, <1>4, <2>1, OptionsKept, DecidedCompare DEF Known
<1>5. CASE Send
  BY <1>5, KnownSend
<1>6. CASE Receive
  BY <1>1, <1>6, ValidatorsReceive, DecidedIdle DEF Known
<1>7. CASE UNCHANGED vars
  <2>1. Copies' /\ Validators'
    BY <1>1, <1>7, OptionsKept DEF vars
  <2>2. Decided'
    BY <1>1, <1>7, DecidedKept DEF vars, Partial, Headed
  <2> QED
    BY <2>1, <2>2 DEF Known
<1> QED
  BY <1>2, <1>3, <1>4, <1>5, <1>6, <1>7 DEF Next

THEOREM ResponseValidators == Spec => [](Types /\ Heads /\ Progress /\ Known)
  BY ResponseProgress, InitKnown, KnownNext, PTL DEF Spec

\* A condition that holds is about the version the client has.
LEMMA ConditionFacts ==
  ASSUME Types, Copies, Validators, BodyPresent, ~Stale
  PROVE  /\ \A t \in Tags : HoldsTag(t) => IsCurrent(copy)
         /\ \A d \in Dates : HoldsDate(d) => IsCurrent(copy)
<1>1. body.ver \in Nat \ {0} /\ EtagOf(body).ver = body.ver
  BY BodyFacts
<1>2. ASSUME NEW t \in Tags, HoldsTag(t) PROVE IsCurrent(copy)
  <2>1. t.given /\ t.tag = options.etag
    BY <1>2 DEF HoldsTag
  <2>2. copy.etag = options.etag /\ options.etag # NoEtag
    BY <1>2, <2>1, TagFacts
  <2> QED
    BY <1>1, <2>2 DEF Stale, Copies
<1>3. ASSUME NEW d \in Dates, HoldsDate(d) PROVE IsCurrent(copy)
  <2>1. /\ d.given /\ d.date > 0 /\ d.date >= options.lastModified
        /\ setup.kind = "file" => options.lastModified > 0
    BY <1>3 DEF HoldsDate
  <2>2. d.date = copy.date /\ copy.date # 0 /\ copy.date \in Nat
    BY <1>3, <2>1, DateFacts, CopyFields
  <2>3. options.lastModified = body.ver
    BY <2>1, <2>2, OptionFacts DEF Validators, Stale
  <2> QED
    BY <1>1, <2>1, <2>2, <2>3 DEF Copies
<1> QED
  BY <1>2, <1>3

\* Whatever a client asks with the validators it was given, and however often
\* the resource changed in between, what it has afterwards is of the current
\* version, every byte in its place, and it is not sent again what it has: If-*
\* are compared with what the response goes by (php_http_env_is_response_cached_by_etag,
\* php_http_env_is_response_cached_by_last_modified).
THEOREM ClientsCohere == Spec => []CacheCoherent
<1>1. Types /\ Heads /\ Progress /\ Known => CacheCoherent
  <2> SUFFICES ASSUME Types, Heads, Progress, Known PROVE CacheCoherent
    OBVIOUS
  <2>1. Copies /\ Validators /\ Decided
    BY DEF Known
  <2>2. ASSUME Answered, InRange, BodyPresent, ~Stale, conn.status \in {200, 206, 304}
        PROVE  IsCurrent(NewCopy)
    <3>1. Headed /\ request \in Asks
      BY <2>1, <2>2 DEF Answered, Headed, Decided
    <3>2. CASE conn.status = 200
      BY <2>1, <2>2, <3>2, CopyFacts
    <3>3. CASE conn.status = 206
      <4>1. CASE ~Combines
        BY <2>1, <2>2, <3>3, <4>1, CopyFacts
      <4>2. CASE Combines
        <5>1. Partial /\ ~r.done
          <6>1. setup.code \in {200, 404}
            BY DEF Types, Setup
          <6> QED
            BY <3>1, <3>3, <6>1 DEF Heads, Final
        <5>2. \/ request.ifMatch.given /\ HoldsTag(request.ifMatch)
              \/ request.ifUnmodifiedSince.given /\ HoldsDate(request.ifUnmodifiedSince)
          BY <2>1, <2>2, <4>2, <5>1 DEF Decided, Combines, Answered
        <5>3. request.ifMatch \in Tags /\ request.ifUnmodifiedSince \in Dates
          BY <3>1, AskConditions
        <5>4. IsCurrent(copy)
          BY <2>1, <2>2, <5>2, <5>3, ConditionFacts
        <5> QED
          BY <2>1, <2>2, <3>3, <4>2, <5>4, CopyFacts
      <4> QED
        BY <4>1, <4>2
    <3>4. CASE conn.status = 304
      <4>1. NewCopy = copy
        BY <2>1, <2>2, <3>4, CopyFacts
      <4>2. HoldsTag(request.ifNoneMatch) \/ HoldsDate(request.ifModifiedSince)
        BY <2>1, <3>1, <3>4 DEF Decided
      <4>3. request.ifNoneMatch \in Tags /\ request.ifModifiedSince \in Dates
        BY <3>1, AskConditions
      <4> QED
        BY <2>1, <2>2, <4>1, <4>2, <4>3, ConditionFacts
    <3> QED
      BY <2>2, <3>2, <3>3, <3>4
  <2>3. CopyCurrent
    BY <2>2 DEF CopyCurrent, IsCurrent
  <2>4. RevalidationSaves
    BY <2>1 DEF RevalidationSaves, Decided, Answered, Headed
  <2> QED
    BY <2>3, <2>4 DEF CacheCoherent
<1> QED
  BY <1>1, ResponseValidators, PTL
=============================================================================
