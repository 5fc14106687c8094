--------------------------- MODULE DechunkProofs ---------------------------
(***************************************************************************)
(* For every set of messages, every way of cutting them into pieces and    *)
(* every ULONG_MAX: the decoder keeps its types, flush never takes more    *)
(* than the chunk has left, and no byte is passed on twice.  And of every  *)
(* body in chunks of up to fifteen bytes, with either line end, of which   *)
(* no piece ends in a CR: what the decoder has passed on is a beginning of *)
(* what was encoded, and is all of it once the whole message was fed.      *)
(***************************************************************************)
EXTENDS Dechunk, SequenceLemmas

\* The inductive invariant: besides the properties, where the loops of an
\* update are with respect to the chunk size.
IInv ==
    /\ TypeOK
    /\ FlushFitsChunk
    /\ NoByteTwice
    /\ fed <= Len(message)
    /\ at = "last" => hexlen = 0
    /\ at # "idle" => ~zeroed
    /\ at = "idle" => tmp = <<>>
    /\ zeroed => hexlen = 0

LEMMA StrtoulRange == \A bin : Strtoul(bin) \in 0 .. UlongMax
<1>1. \A n : Limited(n) \in 0 .. UlongMax
  BY UlongMaxAssumption DEF Limited
<1> QED
  BY <1>1 DEF Strtoul

LEMMA EolLenRange == \A bin, i : EolLen(bin, i) \in {1, 2}
  BY DEF EolLen

\* A piece of a sequence.
LEMMA SubSeqFacts ==
  ASSUME NEW S, NEW s \in Seq(S), NEW m \in Nat \ {0}, NEW n \in Nat, n <= Len(s)
  PROVE  /\ SubSeq(s, m, n) \in Seq(S)
         /\ Len(SubSeq(s, m, n)) = IF m <= n THEN n - m + 1 ELSE 0
  OBVIOUS

LEMMA InitIInv == Init => IInv
<1> SUFFICES ASSUME Init PROVE IInv
  OBVIOUS
<1>1. message \in Seq(Byte) /\ fed = 0
  BY MessagesAssumption DEF Init
<1>2. buffer = <<>> /\ tmp = <<>> /\ out = <<>>
  BY DEF Init
<1>3. /\ buffer \in Seq(Byte) /\ tmp \in Seq(Byte) /\ out \in Seq(Byte)
      /\ Len(buffer) = 0 /\ Len(tmp) = 0 /\ Len(out) = 0
  BY <1>2
<1>4. hexlen = 0 /\ zeroed = FALSE /\ full \in BOOLEAN /\ at = "idle" /\ status = "SUCCESS"
  BY DEF Init
<1>5. Len(message) \in Nat
  BY <1>1
<1>6. TypeOK
  <2>1. 0 \in 0 .. UlongMax
    BY UlongMaxAssumption
  <2> QED
    BY <1>1, <1>3, <1>4, <2>1, Zenon DEF TypeOK
<1>7. FlushFitsChunk /\ NoByteTwice
  BY <1>1, <1>3, <1>4 DEF FlushFitsChunk, NoByteTwice
<1> QED
  BY <1>1, <1>2, <1>4, <1>5, <1>6, <1>7 DEF IInv

LEMMA NextIInv == IInv /\ [Next]_vars => IInv'
<1> SUFFICES ASSUME IInv, [Next]_vars PROVE IInv'
  OBVIOUS
<1> USE UlongMaxAssumption DEF IInv, TypeOK, FlushFitsChunk, NoByteTwice
<1>1. ASSUME NEW n \in 1 .. Len(message), FeedPiece(n) PROVE IInv'
  <2>1. /\ SubSeq(message, fed + 1, fed + n) \in Seq(Byte)
        /\ Len(SubSeq(message, fed + 1, fed + n)) = n
    BY <1>1, SubSeqFacts DEF FeedPiece
  <2>2. buffer' \in Seq(Byte) /\ Len(buffer') = Len(buffer) + n
    BY <1>1, <2>1, ConcatFacts DEF FeedPiece
  <2> QED
    BY <1>1, <2>2 DEF FeedPiece
<1>2. ASSUME NEW n \in 1 .. Len(message), FeedRefused(n) PROVE IInv'
  BY <1>2 DEF FeedRefused
<1>3. CASE FlushPartial
  <2>1. tmp' \in Seq(Byte) /\ Len(tmp') = Len(tmp) + Len(buffer)
    BY <1>3, ConcatFacts DEF FlushPartial
  <2> QED
    BY <1>3, <2>1 DEF FlushPartial
<1>4. ASSUME NEW result \in {"SUCCESS", "FAILURE"}, Return(result)
      PROVE  /\ out' \in Seq(Byte) /\ tmp' \in Seq(Byte)
             /\ Len(out') + Len(tmp') <= Len(out) + Len(tmp)
             /\ at' = "idle" /\ tmp' = <<>> /\ status' \in {"SUCCESS", "FAILURE"}
  BY <1>4, ConcatFacts DEF Return
<1>5. CASE WaitForData
  BY <1>4, <1>5 DEF WaitForData
<1>6. CASE TakeChunk
  <2>1. /\ SubSeq(buffer, 1, hexlen) \in Seq(Byte) /\ Len(SubSeq(buffer, 1, hexlen)) = hexlen
        /\ SubSeq(buffer, hexlen + 1, Len(buffer)) \in Seq(Byte)
        /\ Len(SubSeq(buffer, hexlen + 1, Len(buffer))) = Len(buffer) - hexlen
    BY <1>6, SubSeqFacts, SMTT(30) DEF TakeChunk
  <2>2. tmp' \in Seq(Byte) /\ Len(tmp') = Len(tmp) + hexlen
    BY <1>6, <2>1, ConcatFacts DEF TakeChunk
  <2>3. buffer' \in Seq(Byte) /\ Len(buffer') = Len(buffer) - hexlen
    BY <1>6, <2>1 DEF TakeChunk
  <2>4. /\ at = "loop" /\ hexlen' = 0
        /\ UNCHANGED <<zeroed, full, at, status, out, message, fed>>
    BY <1>6 DEF TakeChunk
  <2> QED
    BY <2>2, <2>3, <2>4
<1>7. CASE SkipEol
  BY <1>7 DEF SkipEol
<1>8. CASE ReadSize
  <2>1. PICK i \in DOMAIN buffer : buffer' = SubSeq(buffer, i + EolLen(buffer, i), Len(buffer))
    BY <1>8 DEF ReadSize
  <2>2. i + EolLen(buffer, i) \in Nat \ {0}
    <3>1. i \in 1 .. Len(buffer)
      OBVIOUS
    <3>2. EolLen(buffer, i) \in {1, 2}
      BY EolLenRange
    <3> QED
      BY <3>1, <3>2
  <2>3. buffer' \in Seq(Byte) /\ Len(buffer') <= Len(buffer)
    BY <2>1, <2>2, SubSeqFacts
  <2>4. hexlen' \in 0 .. UlongMax
    BY <1>8, StrtoulRange DEF ReadSize
  <2> QED
    BY <1>8, <2>3, <2>4, SMTT(30) DEF ReadSize, AtSizeLine
<1>9. CASE BadSize
  BY <1>4, <1>9 DEF BadSize, AtSizeLine
<1>10. CASE WaitForSizeLine
  BY <1>4, <1>10 DEF WaitForSizeLine, AtSizeLine
<1>11. CASE LastChunk
  BY <1>4, <1>11 DEF LastChunk
<1>12. CASE Drained
  BY <1>4, <1>12 DEF Drained
<1>13. CASE Flush
  <2>1. out \in Seq(Byte) /\ buffer \in Seq(Byte)
    OBVIOUS
  <2>2. out \o buffer \in Seq(Byte) /\ Len(out \o buffer) = Len(out) + Len(buffer)
    BY <2>1, ConcatFacts
  <2> QED
    <3>1. CASE hexlen # 0
      <4>1. out' = out \o buffer /\ hexlen' = hexlen - Len(buffer) /\ buffer' = <<>>
        BY <1>13, <3>1 DEF Flush
      <4>2. Len(buffer) < hexlen /\ at = "idle" /\ ~zeroed
        BY <1>13, <3>1 DEF Flush
      <4>3. buffer' \in Seq(Byte) /\ Len(buffer') = 0
        BY <4>1
      <4>4. out' \in Seq(Byte) /\ Len(out') = Len(out) + Len(buffer)
        BY <4>1, <2>2
      <4>5. status' = "SUCCESS" /\ UNCHANGED <<zeroed, full, at, tmp, message, fed>>
        BY <1>13 DEF Flush
      <4>6. hexlen' \in 0 .. UlongMax
        BY <4>1, <4>2
      <4> QED
        BY <4>2, <4>3, <4>4, <4>5, <4>6
    <3>2. CASE hexlen = 0
      BY <1>13, <3>2 DEF Flush
    <3> QED
      BY <3>1, <3>2
<1>14. CASE Finish
  <2>1. buffer' \in Seq(Byte) /\ Len(buffer') = 0 /\ out' \in Seq(Byte) /\ Len(out') = 0
    <3>1. buffer' = <<>> /\ out' = <<>>
      BY <1>14 DEF Finish
    <3> QED
      BY <3>1
  <2>2. /\ hexlen' = 0 /\ zeroed' = FALSE /\ status' = "SUCCESS" /\ fed' = 0 /\ at = "idle"
        /\ UNCHANGED <<full, at, tmp, message>>
    BY <1>14 DEF Finish
  <2>3. Len(message) \in Nat
    OBVIOUS
  <2>4. tmp = <<>> /\ Len(tmp) = 0
    BY <2>2
  <2>5. 0 \in 0 .. UlongMax
    OBVIOUS
  <2>6. TypeOK'
    BY <2>1, <2>2, <2>5
  <2>7. tmp' = <<>> /\ Len(tmp') = 0 /\ Len(message') \in Nat
    BY <2>2, <2>3, <2>4
  <2>8. FlushFitsChunk' /\ NoByteTwice'
    BY <2>1, <2>2, <2>7
  <2> QED
    BY <2>2, <2>6, <2>7, <2>8
<1>15. CASE UNCHANGED vars
  BY <1>15 DEF vars
<1> QED
  BY <1>1, <1>2, <1>3, <1>5, <1>6, <1>7, <1>8, <1>9, <1>10, <1>11, <1>12, <1>13, <1>14, <1>15
  DEF Next, Update

\* The invariant of every behaviour of the decoder.
THEOREM DecoderInvariant == Spec => []IInv
  BY InitIInv, NextIInv, PTL DEF Spec

\* The decoder keeps its types; in particular hexlen stays an unsigned long.
THEOREM DecoderTypeOK == Spec => []TypeOK
<1>1. IInv => TypeOK
  BY DEF IInv
<1> QED
  BY <1>1, DecoderInvariant, PTL

\* dechunk_flush subtracts what is buffered from hexlen: it never wraps around.
THEOREM DecoderFlushFitsChunk == Spec => []FlushFitsChunk
<1>1. IInv => FlushFitsChunk
  BY DEF IInv
<1> QED
  BY <1>1, DecoderInvariant, PTL

\* No byte of the input is passed on twice and none is made up.
THEOREM DecoderNoByteTwice == Spec => []NoByteTwice
<1>1. IInv => NoByteTwice
  BY DEF IInv
<1> QED
  BY <1>1, DecoderInvariant, PTL

\* Both: whatever is fed and whenever it is flushed.
THEOREM DecoderFlushSafe == Spec => []FlushSafe
<1>1. FlushFitsChunk /\ NoByteTwice => FlushSafe
  BY DEF FlushSafe
<1> QED
  BY <1>1, DecoderFlushFitsChunk, DecoderNoByteTwice, PTL

LEMMA FlattenTyped ==
  ASSUME NEW S, NEW seqs \in Seq(Seq(S))
  PROVE  FlattenSeq(seqs) \in Seq(S)
<1>1. <<>> \in Seq(Seq(S)) /\ seqs \o <<>> = seqs
  BY ConcatEmptySeq
<1> QED
  BY <1>1, FlattenConcat
-----------------------------------------------------------------------------
(* What a sender encoded is decoded *)

\* Bodies whose chunks have a size of one digit that is not cut off.
Proper(chunks) ==
    /\ chunks \in Seq(Seq(Byte))
    /\ \A k \in DOMAIN chunks : Len(chunks[k]) \in 1 .. 15 /\ Len(chunks[k]) <= UlongMax

\* No piece of such a message ends with CR.
LinesWhole(C) ==
    \A chunks \in C, style \in Styles, n \in Nat :
        MayCut(Encoded(chunks, style), n) => Encoded(chunks, style)[n] # "CR"

\* What is not used yet: what is buffered, and what is not fed.
Rest == SubSeq(message, fed - Len(buffer) + 1, Len(message))

\* The chunks behind the first k, and the data of those.
Todo(chunks, style, k) == Encoded(SubSeq(chunks, k + 1, Len(chunks)), style)
Got(chunks, k) == Payload(SubSeq(chunks, 1, k))

\* A size line comes next, behind what is left of the end of the last one.
Between(chunks, style) ==
    \E k \in 0 .. Len(chunks), e \in {<<>>, <<"LF">>, <<"CR", "LF">>} :
        Rest = e \o Todo(chunks, style, k) /\ out \o tmp = Got(chunks, k)

\* The user has the data d of a chunk, s is to come.
Inside(chunks, style) ==
    \E k \in DOMAIN chunks, d \in Seq(Byte), s \in Seq(Byte) :
        /\ chunks[k] = d \o s /\ Len(s) = hexlen
        /\ Rest = s \o (EolBytes(style) \o Todo(chunks, style, k))
        /\ out \o tmp = Got(chunks, k - 1) \o d

Behind(chunks) == Rest = <<>> /\ out \o tmp = Payload(chunks)

Decoding(chunks, style) ==
    IF at = "last" \/ zeroed THEN Behind(chunks)
    ELSE IF hexlen = 0 THEN Between(chunks, style) ELSE Inside(chunks, style)

\* The buffer has the next bytes of the message.
InStep == \A i \in DOMAIN buffer : buffer[i] = Rest[i]

\* Between two calls no size line in the buffer is complete.
Waiting == at = "idle" /\ hexlen = 0 => \A i \in DOMAIN buffer : buffer[i] \notin Eol

CutsWhole == 0 < fed /\ fed < Len(message) => message[fed] # "CR"

Decodes(chunks, style) == Decoding(chunks, style) /\ Waiting /\ CutsWhole

DInv(C) ==
    /\ InStep
    /\ \A chunks \in C, style \in Styles :
         message = Encoded(chunks, style) => Decodes(chunks, style)

-----------------------------------------------------------------------------
(* The size of a chunk *)

LEMMA DigitValues == \A k \in 0 .. 15 : DigitValue[HexDigits[k + 1]] = k /\ HexDigits[k + 1] \in HexDigit
<1> SUFFICES ASSUME NEW k \in 0 .. 15
             PROVE  DigitValue[HexDigits[k + 1]] = k /\ HexDigits[k + 1] \in HexDigit
  OBVIOUS
<1>1. DOMAIN HexDigits = 1 .. 16
  BY DEF HexDigits
<1>2. HexDigits[k + 1] \in HexDigit
  BY <1>1 DEF HexDigit, ToSet
<1>3. \A i \in 0 .. 15 : HexDigits[i + 1] = HexDigits[k + 1] => i = k
  BY SMTT(60) DEF HexDigits
<1> QED
  BY <1>2, <1>3 DEF DigitValue

LEMMA DigitsApart == \A d \in HexDigit : d \notin Space /\ d \notin Eol /\ d \in Byte
<1>1. \A d \in HexDigit : \E i \in 1 .. 16 : d = HexDigits[i]
  BY DEF HexDigit, ToSet, HexDigits
<1>2. \A i \in 1 .. 16 : HexDigits[i] \notin {"SP", "CR", "LF"}
  BY DEF HexDigits
<1> QED
  BY <1>1, <1>2 DEF Space, Eol, Byte

\* strtoul adds up the digits up to the n-th byte.
Adds(value, bin, n) ==
  value = [k \in 0 .. n |->
             IF k = 0 \/ bin[k] \in Space THEN 0 ELSE 16 * value[k - 1] + DigitValue[bin[k]]]

\* There is such a function, by induction on n.
LEMMA AddsExists ==
  ASSUME NEW bin, NEW n \in Nat
  PROVE  \E value : Adds(value, bin, n)
<1> DEFINE T == {k \in Nat : ~ \E value : Adds(value, bin, k)}
<1>1. ASSUME NEW k \in T PROVE \E j \in T : j < k
  <2>1. CASE k = 0
    <3>1. Adds([i \in 0 .. 0 |-> 0], bin, 0)
      BY DEF Adds
    <3> QED
      BY <1>1, <2>1, <3>1
  <2>2. CASE k # 0
    <3>1. k - 1 \in Nat /\ k - 1 < k
      BY <2>2
    <3>2. SUFFICES ASSUME k - 1 \notin T PROVE FALSE
      BY <3>1
    <3>3. PICK v : Adds(v, bin, k - 1)
      BY <3>1, <3>2
    <3> DEFINE w == [i \in 0 .. k |->
                       IF i = 0 \/ bin[i] \in Space THEN 0 ELSE 16 * v[i - 1] + DigitValue[bin[i]]]
    <3>4. \A i \in 0 .. k - 1 : w[i] = v[i]
      BY <3>1, <3>3 DEF Adds
    <3>5. ASSUME NEW i \in 0 .. k, i # 0 PROVE w[i - 1] = v[i - 1]
      <4>1. k \in Nat /\ i - 1 \in 0 .. k - 1
        BY <3>1, <3>5
      <4> HIDE DEF w
      <4> QED
        BY <3>4, <4>1
    <3>6. Adds(w, bin, k)
      BY <3>5 DEF Adds
    <3> QED
      BY <3>6
  <2> QED
    BY <2>1, <2>2
<1>2. T = {}
  <2> HIDE DEF T
  <2>1. T \subseteq Nat
    BY DEF T
  <2> QED
    BY <1>1, <2>1, Induction
<1> QED
  BY <1>2

\* A size line that begins with one digit, with a CR or LF behind it.
LEMMA SizeOfLine ==
  ASSUME NEW bin \in Seq(Byte), Len(bin) >= 2, NEW k \in 0 .. 15, k <= UlongMax,
         bin[1] = HexDigits[k + 1], bin[2] \in Eol
  PROVE  Stop(bin) = 1 /\ Strtoul(bin) = k /\ \A i \in DOMAIN bin : EolAt(bin, i) <=> i = 2
<1>1. DOMAIN bin = 1 .. Len(bin) /\ Len(bin) \in Nat /\ 1 \in DOMAIN bin
  OBVIOUS
<1>2. /\ bin[1] \in HexDigit /\ bin[1] \notin Space /\ bin[1] \notin Eol
      /\ bin[2] \notin HexDigit /\ DigitValue[bin[1]] = k
  BY DigitValues, DigitsApart
<1>3. IsNumber(bin, 1, 1)
  BY <1>1, <1>2 DEF IsNumber
<1>4. ASSUME NEW j \in DOMAIN bin, NEW i \in 1 .. j, IsNumber(bin, i, j) PROVE j = 1
  <2>1. i = 1
    <3>1. i > 1 => 1 \in 1 .. (i - 1)
      BY <1>1
    <3> QED
      BY <1>1, <1>2, <1>4, <3>1 DEF IsNumber
  <2>2. j > 1 => 2 \in i .. j
    BY <1>1, <2>1
  <2> QED
    BY <1>1, <1>2, <1>4, <2>2 DEF IsNumber
<1>5. Stop(bin) = 1
  <2>1. \E j \in DOMAIN bin, i \in DOMAIN bin : i <= j /\ IsNumber(bin, i, j)
    BY <1>1, <1>3
  <2>2. Stop(bin) = CHOOSE j \in DOMAIN bin : \E i \in 1 .. j : IsNumber(bin, i, j)
    BY <2>1 DEF Stop
  <2>3. \E j \in DOMAIN bin : \E i \in 1 .. j : IsNumber(bin, i, j)
    BY <1>1, <1>3
  <2> QED
    BY <1>4, <2>2, <2>3
<1>6. HexValue(bin) = k
  <2> DEFINE value == CHOOSE v : Adds(v, bin, Len(bin))
  <2>1. Adds(value, bin, Len(bin))
    BY <1>1, AddsExists
  <2>2. HexValue(bin) = value[Stop(bin)]
    BY Zenon DEF HexValue, Adds
  <2> HIDE DEF value
  <2>3. value[0] = 0
    BY <1>1, <2>1 DEF Adds
  <2>4. value[1] = 16 * value[1 - 1] + DigitValue[bin[1]]
    BY <1>1, <1>2, <2>1 DEF Adds
  <2> QED
    BY <1>2, <1>5, <2>2, <2>3, <2>4
<1>7. Strtoul(bin) = k
  BY <1>6, UlongMaxAssumption DEF Strtoul, Limited
<1>8. \A i \in DOMAIN bin : EolAt(bin, i) <=> i = 2
  BY <1>1, <1>2 DEF EolAt
<1> QED
  BY <1>5, <1>7, <1>8

-----------------------------------------------------------------------------
(* What a sender encodes *)

\* What comes behind a sequence.
LEMMA BehindConcat ==
  ASSUME NEW S, NEW s \in Seq(S), NEW u \in Seq(S)
  PROVE  SubSeq(s \o u, Len(s) + 1, Len(s \o u)) = u
<1>1. /\ s \o u \in Seq(S) /\ Len(s \o u) = Len(s) + Len(u) /\ Len(s) \in Nat /\ Len(u) \in Nat
      /\ \A i \in 1 .. Len(s) + Len(u) : (s \o u)[i] = IF i <= Len(s) THEN s[i] ELSE u[i - Len(s)]
  BY ConcatProperties
<1> DEFINE w == s \o u
           x == SubSeq(w, Len(s) + 1, Len(w))
<1>2. \A i \in Len(s) + 1 .. Len(w) : w[i] \in S
  BY <1>1
<1> HIDE DEF w
<1>3. /\ x \in Seq(S) /\ Len(x) = Len(u)
      /\ \A i \in 1 .. Len(u) : x[i] = w[i + Len(s)]
  <2>1. Len(s) + 1 \in Int /\ Len(w) \in Int
    BY <1>1 DEF w
  <2>2. /\ x \in Seq(S)
        /\ Len(x) = IF Len(s) + 1 <= Len(w) THEN Len(w) - (Len(s) + 1) + 1 ELSE 0
        /\ \A i \in 1 .. Len(w) - (Len(s) + 1) + 1 : x[i] = w[Len(s) + 1 + i - 1]
    BY <1>2, <2>1, SubSeqProperties
  <2> QED
    BY <1>1, <2>2 DEF w
<1>4. \A i \in 1 .. Len(u) : w[i + Len(s)] = u[i]
  BY <1>1 DEF w
<1>5. x = u
  BY <1>3, <1>4, SeqEqual
<1> QED
  BY <1>5 DEF w

Line(data, style) == <<HexDigits[Len(data) + 1]>> \o EolBytes(style)

LEMMA EolFacts ==
  ASSUME NEW style \in Styles
  PROVE  /\ EolBytes(style) \in Seq(Byte) /\ EolBytes(style) # <<>>
         /\ EolBytes(style) \in {<<"LF">>, <<"CR", "LF">>}
<1>1. EolBytes(style) \in {<<"LF">>, <<"CR", "LF">>}
  BY DEF EolBytes, Styles
<1>2. "LF" \in Byte /\ "CR" \in Byte
  BY DEF Byte
<1>3. <<"LF">> \in Seq(Byte) /\ <<"CR", "LF">> \in Seq(Byte)
  BY <1>2
<1>4. <<"LF">> # <<>> /\ <<"CR", "LF">> # <<>>
  OBVIOUS
<1> QED
  BY <1>1, <1>3, <1>4, Zenon

\* A chunk in front of others.
LEMMA EncodedFirst ==
  ASSUME NEW c \in Seq(Byte), Len(c) \in 1 .. 15, NEW cs \in Seq(Seq(Byte)),
         \A k \in DOMAIN cs : Len(cs[k]) \in 1 .. 15, NEW style \in Styles
  PROVE  /\ Encoded(cs, style) \in Seq(Byte)
         /\ Line(c, style) \in Seq(Byte)
         /\ Encoded(<<c>> \o cs, style)
              = Line(c, style) \o (c \o (EolBytes(style) \o Encoded(cs, style)))
<1> DEFINE eol == EolBytes(style)
           zero == <<"0">>
           f == [i \in DOMAIN cs |-> Chunk(cs[i], style)]
           g == [i \in DOMAIN (<<c>> \o cs) |-> Chunk((<<c>> \o cs)[i], style)]
<1>1. eol \in Seq(Byte)
  BY EolFacts
<1>2. zero \in Seq(Byte)
  <2>1. "0" \in Byte
    BY DigitValues, DigitsApart DEF HexDigits
  <2> QED
    BY <2>1
<1>3. ASSUME NEW d \in Seq(Byte), Len(d) \in 1 .. 15
      PROVE  /\ Line(d, style) \in Seq(Byte)
             /\ Chunk(d, style) = (Line(d, style) \o d) \o eol
             /\ Chunk(d, style) \in Seq(Byte)
  <2>1. HexDigits[Len(d) + 1] \in Byte
    <3>1. Len(d) \in 0 .. 15
      BY <1>3
    <3>2. HexDigits[Len(d) + 1] \in HexDigit
      BY <3>1, DigitValues
    <3> QED
      BY <3>2, DigitsApart
  <2>2. <<HexDigits[Len(d) + 1]>> \in Seq(Byte)
    BY <2>1
  <2>3. Line(d, style) \in Seq(Byte)
    BY <1>1, <2>2, ConcatFacts DEF Line
  <2>4. Chunk(d, style) = (Line(d, style) \o d) \o eol
    BY DEF Chunk, Line
  <2> QED
    BY <1>1, <2>3, <2>4, ConcatFacts
<1>4. /\ DOMAIN cs = 1 .. Len(cs) /\ Len(cs) \in Nat /\ \A i \in DOMAIN cs : cs[i] \in Seq(Byte)
      /\ <<c>> \in Seq(Seq(Byte)) /\ Len(<<c>>) = 1 /\ <<c>>[1] = c
  OBVIOUS
<1>5. /\ <<c>> \o cs \in Seq(Seq(Byte)) /\ Len(<<c>> \o cs) = 1 + Len(cs)
      /\ \A i \in 1 .. 1 + Len(cs) : (<<c>> \o cs)[i] = IF i <= 1 THEN c ELSE cs[i - 1]
  <2>1. /\ <<c>> \o cs \in Seq(Seq(Byte)) /\ Len(<<c>> \o cs) = 1 + Len(cs)
        /\ \A i \in 1 .. 1 + Len(cs) : (<<c>> \o cs)[i] = IF i <= 1 THEN <<c>>[i] ELSE cs[i - 1]
    BY <1>4, ConcatProperties
  <2> QED
    BY <1>4, <2>1
<1>6. f \in Seq(Seq(Byte)) /\ Len(f) = Len(cs)
  <2>1. \A i \in 1 .. Len(cs) : Chunk(cs[i], style) \in Seq(Byte)
    BY <1>3, <1>4
  <2> QED
    BY <1>4, <2>1
<1>7. <<Chunk(c, style)>> \in Seq(Seq(Byte)) /\ Chunk(c, style) \in Seq(Byte)
  BY <1>3
<1>8. g = <<Chunk(c, style)>> \o f
  <2> DEFINE h == <<Chunk(c, style)>> \o f
  <2>1. /\ h \in Seq(Seq(Byte)) /\ Len(h) = 1 + Len(cs)
        /\ \A i \in 1 .. 1 + Len(cs) : h[i] = IF i <= 1 THEN Chunk(c, style) ELSE f[i - 1]
    <3>1. Len(<<Chunk(c, style)>>) = 1 /\ <<Chunk(c, style)>>[1] = Chunk(c, style)
      OBVIOUS
    <3>2. /\ h \in Seq(Seq(Byte)) /\ Len(h) = 1 + Len(f)
          /\ \A i \in 1 .. 1 + Len(f) : h[i] = IF i <= 1 THEN <<Chunk(c, style)>>[i] ELSE f[i - 1]
      <4> HIDE DEF f
      <4> QED
        BY <1>6, <1>7, <3>1, ConcatProperties
    <3> QED
      BY <1>6, <3>1, <3>2
  <2>2. DOMAIN (<<c>> \o cs) = 1 .. 1 + Len(cs)
    BY <1>4, <1>5, LenProperties
  <2>3. \A i \in 1 .. 1 + Len(cs) : h[i] = g[i]
    <3> SUFFICES ASSUME NEW i \in 1 .. 1 + Len(cs) PROVE h[i] = g[i]
      OBVIOUS
    <3>1. CASE i = 1
      BY <1>4, <1>5, <2>1, <2>2, <3>1
    <3>2. CASE i # 1
      <4>1. i - 1 \in DOMAIN cs /\ ~(i <= 1)
        BY <1>4, <3>2
      <4> QED
        BY <1>4, <1>5, <2>1, <2>2, <4>1
    <3> QED
      BY <3>1, <3>2
  <2>4. DOMAIN h = 1 .. 1 + Len(cs) /\ h = [i \in DOMAIN h |-> h[i]]
    <3> HIDE DEF h
    <3> QED
      BY <1>4, <2>1
  <2> HIDE DEF h
  <2>5. g = [i \in 1 .. 1 + Len(cs) |-> g[i]]
    BY <2>2
  <2> HIDE DEF g
  <2>6. h = g
    BY <2>3, <2>4, <2>5
  <2> QED
    BY <2>6 DEF h
<1> DEFINE F == FlattenSeq(f)
<1>9. F \in Seq(Byte) /\ FlattenSeq(g) = Chunk(c, style) \o F
  <2> HIDE DEF f, g
  <2>1. FlattenSeq(<<Chunk(c, style)>>) = Chunk(c, style)
    BY <1>7, FlattenOne
  <2>2. FlattenSeq(f) \in Seq(Byte)
    BY <1>6, FlattenTyped
  <2> QED
    BY <1>6, <1>7, <1>8, <2>1, <2>2, FlattenConcat
<1>10. Encoded(cs, style) = (F \o zero) \o eol /\ Encoded(cs, style) \in Seq(Byte)
  <2>1. Encoded(cs, style) = (F \o zero) \o eol
    BY DEF Encoded
  <2> HIDE DEF F, eol, zero
  <2> QED
    BY <1>1, <1>2, <1>9, <2>1, ConcatFacts
<1>11. Encoded(<<c>> \o cs, style) = ((Chunk(c, style) \o F) \o zero) \o eol
  BY <1>9 DEF Encoded
<1> HIDE DEF F, eol, zero
<1> DEFINE E == Encoded(cs, style)
           L == Line(c, style)
<1>15. \A x, y, z \in Seq(Byte) : (x \o y) \o z = x \o (y \o z)
  BY ConcatAssociative, SMTT(30)
<1>12. L \in Seq(Byte) /\ Chunk(c, style) = (L \o c) \o eol /\ L \o c \in Seq(Byte)
  BY <1>3, ConcatFacts
<1> HIDE DEF L
<1>13. Encoded(<<c>> \o cs, style) = Chunk(c, style) \o E
  <2>1. (Chunk(c, style) \o F) \o zero = Chunk(c, style) \o (F \o zero)
    BY <1>2, <1>7, <1>9, ConcatAssociative, SMTT(30)
  <2>2. F \o zero \in Seq(Byte)
    BY <1>2, <1>9, ConcatFacts
  <2>3. (Chunk(c, style) \o (F \o zero)) \o eol = Chunk(c, style) \o ((F \o zero) \o eol)
    BY <1>1, <1>7, <1>15, <2>2, Zenon
  <2> QED
    BY <1>10, <1>11, <2>1, <2>3, Zenon
<1>14. Chunk(c, style) \o E = L \o (c \o (eol \o E))
  <2>1. E \in Seq(Byte)
    BY <1>10
  <2> HIDE DEF E
  <2>2. ((L \o c) \o eol) \o E = (L \o c) \o (eol \o E)
    BY <1>1, <1>12, <1>15, <2>1, Zenon
  <2>3. eol \o E \in Seq(Byte)
    BY <1>1, <2>1, ConcatFacts
  <2>4. (L \o c) \o (eol \o E) = L \o (c \o (eol \o E))
    BY <1>12, <1>15, <2>3, Zenon
  <2> HIDE DEF eol
  <2> QED
    BY <1>12, <2>2, <2>4
<1> QED
  BY <1>10, <1>12, <1>13, <1>14 DEF L, eol

LEMMA PieceTyped ==
  ASSUME NEW S, NEW s \in Seq(S), NEW m \in 1 .. Len(s) + 1, NEW n \in 0 .. Len(s)
  PROVE  /\ SubSeq(s, m, n) \in Seq(S)
         /\ Len(SubSeq(s, m, n)) = IF m <= n THEN n - m + 1 ELSE 0
         /\ \A i \in 1 .. n - m + 1 : SubSeq(s, m, n)[i] = s[m + i - 1]
<1>1. m \in Int /\ n \in Int /\ \A i \in m .. n : s[i] \in S
  OBVIOUS
<1> QED
  BY <1>1, SubSeqProperties

\* All but the first m.
LEMMA AllBut ==
  ASSUME NEW S, NEW s \in Seq(S), NEW m \in 0 .. Len(s)
  PROVE  /\ SubSeq(s, m + 1, Len(s)) \in Seq(S)
         /\ Len(SubSeq(s, m + 1, Len(s))) = Len(s) - m
         /\ \A i \in 1 .. Len(s) - m : SubSeq(s, m + 1, Len(s))[i] = s[m + i]
<1> DEFINE x == SubSeq(s, m + 1, Len(s))
           n == Len(s)
<1>1. n \in Nat /\ m \in Nat /\ m <= n /\ m + 1 \in 1 .. n + 1 /\ n \in 0 .. n
  OBVIOUS
<1>2. /\ x \in Seq(S) /\ Len(x) = IF m + 1 <= n THEN n - (m + 1) + 1 ELSE 0
      /\ \A i \in 1 .. n - (m + 1) + 1 : x[i] = s[m + 1 + i - 1]
  BY <1>1, PieceTyped
<1> HIDE DEF x, n
<1>3. Len(x) = n - m
  BY <1>1, <1>2
<1>4. ASSUME NEW i \in 1 .. n - m PROVE x[i] = s[m + i]
  <2>1. i \in 1 .. n - (m + 1) + 1 /\ m + 1 + i - 1 = m + i
    BY <1>1
  <2> QED
    BY <1>2, <2>1
<1> QED
  BY <1>2, <1>3, <1>4 DEF x, n

\* What is to be decoded when k chunks are.
LEMMA TodoFacts ==
  ASSUME NEW chunks, Proper(chunks), NEW style \in Styles, NEW k \in 0 .. Len(chunks)
  PROVE  /\ Todo(chunks, style, k) \in Seq(Byte)
         /\ k = Len(chunks) => Todo(chunks, style, k) = <<"0">> \o EolBytes(style)
         /\ k < Len(chunks) =>
              /\ chunks[k + 1] \in Seq(Byte) /\ Len(chunks[k + 1]) \in 1 .. 15
              /\ Line(chunks[k + 1], style) \in Seq(Byte)
              /\ Todo(chunks, style, k) =
                   Line(chunks[k + 1], style)
                     \o (chunks[k + 1] \o (EolBytes(style) \o Todo(chunks, style, k + 1)))
<1>1. /\ chunks \in Seq(Seq(Byte)) /\ Len(chunks) \in Nat /\ DOMAIN chunks = 1 .. Len(chunks)
      /\ \A i \in DOMAIN chunks : chunks[i] \in Seq(Byte) /\ Len(chunks[i]) \in 1 .. 15
  BY DEF Proper
<1>2. ASSUME NEW j \in 0 .. Len(chunks)
      PROVE  /\ SubSeq(chunks, j + 1, Len(chunks)) \in Seq(Seq(Byte))
             /\ \A i \in DOMAIN SubSeq(chunks, j + 1, Len(chunks)) :
                  Len(SubSeq(chunks, j + 1, Len(chunks))[i]) \in 1 .. 15
  <2> DEFINE x == SubSeq(chunks, j + 1, Len(chunks))
  <2>1. /\ x \in Seq(Seq(Byte)) /\ Len(x) = Len(chunks) - j
        /\ \A i \in 1 .. Len(chunks) - j : x[i] = chunks[j + i]
    BY <1>1, AllBut
  <2> HIDE DEF x
  <2>2. DOMAIN x = 1 .. Len(x)
    BY <2>1
  <2>3. ASSUME NEW i \in DOMAIN x PROVE Len(x[i]) \in 1 .. 15
    <3>1. i \in 1 .. Len(chunks) - j
      BY <2>1, <2>2
    <3>2. j + i \in DOMAIN chunks
      BY <1>1, <3>1
    <3> QED
      BY <1>1, <2>1, <3>1, <3>2
  <2> QED
    BY <2>1, <2>3 DEF x
<1>3. \A j \in 0 .. Len(chunks) : Todo(chunks, style, j) \in Seq(Byte)
  <2>1. <<>> \in Seq(Byte) /\ "0" \in Byte
    <3>1. HexDigits[0 + 1] = "0"
      BY DEF HexDigits
    <3> QED
      BY <3>1, DigitValues, DigitsApart
  <2>2. <<"0">> \in Seq(Byte) /\ Len(<<"0">>) \in 1 .. 15
    BY <2>1
  <2> QED
    BY <1>2, <2>2, EncodedFirst DEF Todo
<1>4. ASSUME k = Len(chunks) PROVE Todo(chunks, style, k) = <<"0">> \o EolBytes(style)
  <2>1. SubSeq(chunks, k + 1, Len(chunks)) = <<>>
    BY <1>1, <1>4, SubSeqEmpty
  <2>2. [i \in DOMAIN <<>> |-> Chunk(<<>>[i], style)] = <<>>
    OBVIOUS
  <2>3. "0" \in Byte
    <3>1. HexDigits[0 + 1] = "0"
      BY DEF HexDigits
    <3> QED
      BY <3>1, DigitValues, DigitsApart
  <2>4. <<"0">> \in Seq(Byte)
    BY <2>3
  <2>5. <<>> \o <<"0">> = <<"0">>
    BY <2>4, ConcatEmptySeq
  <2> QED
    BY <2>1, <2>2, <2>5, FlattenEmpty DEF Todo, Encoded
<1>5. ASSUME k < Len(chunks)
      PROVE  /\ chunks[k + 1] \in Seq(Byte) /\ Len(chunks[k + 1]) \in 1 .. 15
             /\ Line(chunks[k + 1], style) \in Seq(Byte)
             /\ Todo(chunks, style, k) =
                  Line(chunks[k + 1], style)
                    \o (chunks[k + 1] \o (EolBytes(style) \o Todo(chunks, style, k + 1)))
  <2>1. k + 1 \in 1 .. Len(chunks) /\ k + 1 \in 0 .. Len(chunks) /\ Len(chunks) \in k + 1 .. Len(chunks)
    BY <1>1, <1>5
  <2>2. SubSeq(chunks, k + 1, Len(chunks)) = <<chunks[k + 1]>> \o SubSeq(chunks, k + 1 + 1, Len(chunks))
    BY <1>1, <2>1, SubSeqRecursiveFirst
  <2>3. chunks[k + 1] \in Seq(Byte) /\ Len(chunks[k + 1]) \in 1 .. 15
    BY <1>1, <2>1
  <2> DEFINE c == chunks[k + 1]
             cs == SubSeq(chunks, k + 1 + 1, Len(chunks))
  <2>4. cs \in Seq(Seq(Byte)) /\ \A i \in DOMAIN cs : Len(cs[i]) \in 1 .. 15
    BY <1>2, <2>1
  <2>5. SubSeq(chunks, k + 1, Len(chunks)) = <<c>> \o cs /\ Todo(chunks, style, k + 1) = Encoded(cs, style)
    BY <2>2 DEF Todo
  <2>6. c \in Seq(Byte) /\ Len(c) \in 1 .. 15
    BY <2>3
  <2> HIDE DEF c, cs
  <2>7. /\ Line(c, style) \in Seq(Byte)
        /\ Encoded(<<c>> \o cs, style)
             = Line(c, style) \o (c \o (EolBytes(style) \o Encoded(cs, style)))
    BY <2>4, <2>6, EncodedFirst
  <2>8. Todo(chunks, style, k) = Encoded(<<c>> \o cs, style)
    BY <2>5 DEF Todo
  <2> QED
    BY <2>5, <2>6, <2>7, <2>8 DEF c
<1> QED
  BY <1>3, <1>4, <1>5

\* What the user has when k chunks are decoded.
LEMMA GotFacts ==
  ASSUME NEW chunks, Proper(chunks), NEW k \in 0 .. Len(chunks)
  PROVE  /\ Got(chunks, k) \in Seq(Byte)
         /\ Got(chunks, 0) = <<>>
         /\ Got(chunks, Len(chunks)) = Payload(chunks)
         /\ k < Len(chunks) => Got(chunks, k + 1) = Got(chunks, k) \o chunks[k + 1]
         /\ \E u \in Seq(Byte) : Payload(chunks) = Got(chunks, k) \o u
<1>1. chunks \in Seq(Seq(Byte)) /\ Len(chunks) \in Nat
  BY DEF Proper
<1>2. SubSeq(chunks, 1, k) \in Seq(Seq(Byte)) /\ SubSeq(chunks, k + 1, Len(chunks)) \in Seq(Seq(Byte))
  <2>1. 1 \in 1 .. Len(chunks) + 1 /\ k + 1 \in 1 .. Len(chunks) + 1 /\ Len(chunks) \in 0 .. Len(chunks)
    BY <1>1
  <2> QED
    BY <1>1, <2>1, PieceTyped
<1>3. Got(chunks, k) \in Seq(Byte)
  BY <1>2, FlattenTyped DEF Got, Payload
<1>4. Got(chunks, 0) = <<>>
  <2>1. SubSeq(chunks, 1, 0) = <<>>
    BY SubSeqEmpty
  <2> QED
    BY <2>1, FlattenEmpty DEF Got, Payload
<1>5. Got(chunks, Len(chunks)) = Payload(chunks)
  BY <1>1, SubSeqFull DEF Got
<1>6. ASSUME k < Len(chunks) PROVE Got(chunks, k + 1) = Got(chunks, k) \o chunks[k + 1]
  <2>1. 1 \in 1 .. Len(chunks) /\ k + 1 \in 1 .. Len(chunks)
    BY <1>1, <1>6
  <2>2. SubSeq(chunks, 1, k + 1) = SubSeq(chunks, 1, k + 1 - 1) \o <<chunks[k + 1]>>
    BY <1>1, <2>1, SubSeqRecursiveSecond
  <2>3. chunks[k + 1] \in Seq(Byte) /\ k + 1 - 1 = k
    BY <1>1, <2>1
  <2>4. <<chunks[k + 1]>> \in Seq(Seq(Byte)) /\ FlattenSeq(<<chunks[k + 1]>>) = chunks[k + 1]
    BY <2>3, FlattenOne
  <2>5. FlattenSeq(SubSeq(chunks, 1, k) \o <<chunks[k + 1]>>)
          = FlattenSeq(SubSeq(chunks, 1, k)) \o FlattenSeq(<<chunks[k + 1]>>)
    BY <1>2, <2>4, FlattenConcat
  <2> QED
    BY <2>2, <2>3, <2>4, <2>5 DEF Got, Payload
<1>7. \E u \in Seq(Byte) : Payload(chunks) = Got(chunks, k) \o u
  <2>1. SubSeq(chunks, 1, k) \o SubSeq(chunks, k + 1, Len(chunks)) = chunks
    <3>1. /\ 1 \in 1 .. Len(chunks) + 1 /\ k \in 1 - 1 .. Len(chunks)
          /\ Len(chunks) \in k .. Len(chunks)
      BY <1>1
    <3>2. SubSeq(chunks, 1, k) \o SubSeq(chunks, k + 1, Len(chunks)) = SubSeq(chunks, 1, Len(chunks))
      BY <1>1, <3>1, ConcatAdjacentSubSeq
    <3> QED
      BY <1>1, <3>2, SubSeqFull
  <2>2. FlattenSeq(SubSeq(chunks, k + 1, Len(chunks))) \in Seq(Byte)
    BY <1>2, FlattenTyped
  <2> QED
    BY <1>2, <2>1, <2>2, FlattenConcat, ZenonT(60) DEF Got, Payload
<1> QED
  BY <1>3, <1>4, <1>5, <1>6, <1>7

-----------------------------------------------------------------------------
(* What the steps use of the message *)

LEMMA RestFacts ==
  ASSUME IInv
  PROVE  /\ Len(buffer) \in Nat /\ fed \in Nat /\ Len(message) \in Nat
         /\ Len(buffer) <= fed /\ fed <= Len(message)
         /\ Rest \in Seq(Byte) /\ Len(Rest) = Len(message) - fed + Len(buffer)
         /\ \A i \in 1 .. Len(Rest) : Rest[i] = message[fed - Len(buffer) + i]
<1>1. /\ Len(buffer) \in Nat /\ Len(out) \in Nat /\ Len(tmp) \in Nat /\ Len(message) \in Nat
      /\ message \in Seq(Byte) /\ fed \in Nat
  BY DEF IInv, TypeOK
<1>2. Len(buffer) <= fed /\ fed <= Len(message)
  BY <1>1 DEF IInv, NoByteTwice
<1>3. fed - Len(buffer) + 1 \in 1 .. Len(message) + 1 /\ Len(message) \in 0 .. Len(message)
  BY <1>1, <1>2
<1>4. /\ Rest \in Seq(Byte)
      /\ Len(Rest) = IF fed - Len(buffer) + 1 <= Len(message)
                     THEN Len(message) - (fed - Len(buffer) + 1) + 1 ELSE 0
      /\ \A i \in 1 .. Len(message) - (fed - Len(buffer) + 1) + 1 :
           Rest[i] = message[fed - Len(buffer) + 1 + i - 1]
  BY <1>1, <1>3, PieceTyped DEF Rest
<1>5. Len(Rest) = Len(message) - fed + Len(buffer)
  BY <1>1, <1>2, <1>4
<1>6. ASSUME NEW i \in 1 .. Len(Rest) PROVE Rest[i] = message[fed - Len(buffer) + i]
  <2>1. /\ i \in 1 .. Len(message) - (fed - Len(buffer) + 1) + 1
        /\ fed - Len(buffer) + 1 + i - 1 = fed - Len(buffer) + i
    BY <1>1, <1>2, <1>5
  <2> QED
    BY <1>4, <2>1
<1> QED
  BY <1>1, <1>2, <1>4, <1>5, <1>6

\* The first m bytes of the buffer are used.
LEMMA Uses ==
  ASSUME IInv, InStep, NEW m \in 0 .. Len(buffer),
         buffer' = SubSeq(buffer, m + 1, Len(buffer)), fed' = fed, message' = message
  PROVE  /\ Rest' = SubSeq(Rest, m + 1, Len(Rest))
         /\ InStep'
         /\ Len(buffer') = Len(buffer) - m
<1>1. /\ Len(buffer) \in Nat /\ fed \in Nat /\ Len(message) \in Nat
      /\ Len(buffer) <= fed /\ fed <= Len(message)
      /\ Rest \in Seq(Byte) /\ Len(Rest) = Len(message) - fed + Len(buffer)
      /\ \A i \in 1 .. Len(Rest) : Rest[i] = message[fed - Len(buffer) + i]
  BY RestFacts
<1>2. buffer \in Seq(Byte) /\ message \in Seq(Byte)
  BY DEF IInv, TypeOK
<1>3. /\ buffer' \in Seq(Byte) /\ Len(buffer') = Len(buffer) - m
      /\ \A i \in 1 .. Len(buffer) - m : buffer'[i] = buffer[m + i]
  BY <1>1, <1>2, AllBut
<1> DEFINE x == SubSeq(Rest, m + 1, Len(Rest))
           y == SubSeq(message, fed - (Len(buffer) - m) + 1, Len(message))
<1>4. Rest' = y
  BY <1>3 DEF Rest
<1>5. /\ x \in Seq(Byte) /\ Len(x) = Len(Rest) - m
      /\ \A i \in 1 .. Len(Rest) - m : x[i] = Rest[m + i]
  <2>1. m \in 0 .. Len(Rest)
    BY <1>1
  <2> QED
    BY <1>1, <2>1, AllBut
<1>6. /\ y \in Seq(Byte) /\ Len(y) = Len(Rest) - m
      /\ \A i \in 1 .. Len(Rest) - m : y[i] = message[fed - (Len(buffer) - m) + i]
  <2> DEFINE a == fed - (Len(buffer) - m)
  <2>1. a \in 0 .. Len(message) /\ Len(message) - a = Len(Rest) - m
    BY <1>1
  <2> HIDE DEF a
  <2>2. /\ SubSeq(message, a + 1, Len(message)) \in Seq(Byte)
        /\ Len(SubSeq(message, a + 1, Len(message))) = Len(message) - a
        /\ \A i \in 1 .. Len(message) - a : SubSeq(message, a + 1, Len(message))[i] = message[a + i]
    BY <1>2, <2>1, AllBut
  <2> QED
    BY <2>1, <2>2 DEF a
<1> HIDE DEF x, y
<1>7. ASSUME NEW i \in 1 .. Len(Rest) - m PROVE x[i] = y[i]
  <2>1. /\ m + i \in 1 .. Len(Rest)
        /\ fed - Len(buffer) + (m + i) = fed - (Len(buffer) - m) + i
    BY <1>1
  <2> QED
    BY <1>1, <1>5, <1>6, <2>1
<1>8. x = y
  BY <1>5, <1>6, <1>7, SeqEqual
<1>9. InStep'
  <2>1. ASSUME NEW i \in DOMAIN (buffer') PROVE buffer'[i] = x[i]
    <3>1. i \in 1 .. Len(buffer) - m
      BY <1>3
    <3>2. m + i \in DOMAIN buffer /\ i \in 1 .. Len(Rest) - m
      BY <1>1, <1>2, <3>1
    <3> QED
      BY <1>3, <1>5, <3>1, <3>2 DEF InStep
  <2> QED
    BY <1>4, <1>8, <2>1 DEF InStep
<1> QED
  BY <1>3, <1>4, <1>8, <1>9 DEF x

\* When what is used is known to be s.
LEMMA UsesFirst ==
  ASSUME IInv, InStep, NEW s \in Seq(Byte), NEW u \in Seq(Byte), Rest = s \o u,
         Len(s) <= Len(buffer),
         buffer' = SubSeq(buffer, Len(s) + 1, Len(buffer)), fed' = fed, message' = message
  PROVE  Rest' = u /\ InStep'
<1>1. Len(s) \in 0 .. Len(buffer)
  BY RestFacts
<1> QED
  BY <1>1, Uses, BehindConcat

LEMMA Associates == \A x, y, z \in Seq(Byte) : (x \o y) \o z = x \o (y \o z)
  BY ConcatAssociative

\* What is fed in the next call or in this one, and what the user gets.
LEMMA OutputFacts ==
  ASSUME IInv
  PROVE  /\ out \in Seq(Byte) /\ tmp \in Seq(Byte) /\ buffer \in Seq(Byte)
         /\ out \o tmp \in Seq(Byte)
         /\ \A s \in Seq(Byte) : out \o (tmp \o s) = (out \o tmp) \o s
         /\ at = "idle" => tmp = <<>> /\ out \o tmp = out
<1>1. out \in Seq(Byte) /\ tmp \in Seq(Byte) /\ buffer \in Seq(Byte)
  BY DEF IInv, TypeOK
<1>2. at = "idle" => tmp = <<>>
  BY DEF IInv
<1>3. \A s \in Seq(Byte) : out \o (tmp \o s) = (out \o tmp) \o s
  BY <1>1, ConcatAssociative, SMTT(30)
<1> QED
  BY <1>1, <1>2, <1>3, ConcatFacts, ConcatEmptySeq

\* The first m bytes of the buffer go to the user.
LEMMA PassesOn ==
  ASSUME IInv, InStep, NEW chunks, Proper(chunks), NEW style \in Styles,
         Inside(chunks, style), NEW m \in 0 .. Len(buffer), m <= hexlen,
         buffer' = SubSeq(buffer, m + 1, Len(buffer)), fed' = fed, message' = message,
         hexlen' = hexlen - m,
         out' \o tmp' = (out \o tmp) \o SubSeq(buffer, 1, m)
  PROVE  /\ InStep'
         /\ m < hexlen => Inside(chunks, style)'
         /\ m = hexlen => Between(chunks, style)'
<1>1. PICK k \in DOMAIN chunks, d \in Seq(Byte), s \in Seq(Byte) :
        /\ chunks[k] = d \o s /\ Len(s) = hexlen
        /\ Rest = s \o (EolBytes(style) \o Todo(chunks, style, k))
        /\ out \o tmp = Got(chunks, k - 1) \o d
  BY DEF Inside
<1>2. k \in 1 .. Len(chunks) /\ k \in 0 .. Len(chunks) /\ k - 1 \in 0 .. Len(chunks) /\ Len(chunks) \in Nat
  BY DEF Proper
<1> DEFINE tail == EolBytes(style) \o Todo(chunks, style, k)
           a == SubSeq(s, 1, m)
           b == SubSeq(s, m + 1, Len(s))
<1>3. tail \in Seq(Byte)
  BY <1>2, EolFacts, TodoFacts, ConcatFacts
<1>4. /\ Len(buffer) \in Nat /\ Rest \in Seq(Byte) /\ Len(s) \in Nat /\ buffer \in Seq(Byte)
      /\ m \in Nat /\ m <= Len(s) /\ m \in 0 .. Len(s) /\ DOMAIN buffer = 1 .. Len(buffer)
  BY <1>1, RestFacts, OutputFacts
<1>5. /\ a \in Seq(Byte) /\ Len(a) = m /\ b \in Seq(Byte) /\ Len(b) = Len(s) - m
      /\ \A i \in 1 .. m : a[i] = s[i]
  <2>1. /\ b \in Seq(Byte) /\ Len(b) = Len(s) - m
    BY <1>4, AllBut
  <2>2. 1 \in 1 .. Len(s) + 1
    BY <1>4
  <2>3. /\ a \in Seq(Byte) /\ Len(a) = IF 1 <= m THEN m - 1 + 1 ELSE 0
        /\ \A i \in 1 .. m - 1 + 1 : a[i] = s[1 + i - 1]
    BY <1>4, <2>2, PieceTyped
  <2> HIDE DEF a, b
  <2>4. Len(a) = m /\ m - 1 + 1 = m /\ \A i \in 1 .. m : 1 + i - 1 = i
    BY <1>4, <2>3
  <2> QED
    BY <2>1, <2>3, <2>4
<1>6. s = a \o b
  <2>1. /\ 1 \in 1 .. Len(s) + 1 /\ m \in 1 - 1 .. Len(s) /\ Len(s) \in m .. Len(s)
    BY <1>4
  <2>2. a \o b = SubSeq(s, 1, Len(s))
    BY <2>1, ConcatAdjacentSubSeq
  <2> QED
    BY <2>2, SubSeqFull
<1>7. SubSeq(buffer, 1, m) = a
  <2> DEFINE c == SubSeq(buffer, 1, m)
  <2>1. 1 \in 1 .. Len(buffer) + 1
    BY <1>4
  <2>2. /\ c \in Seq(Byte) /\ Len(c) = IF 1 <= m THEN m - 1 + 1 ELSE 0
        /\ \A i \in 1 .. m - 1 + 1 : c[i] = buffer[1 + i - 1]
    BY <1>4, <2>1, PieceTyped
  <2> HIDE DEF c
  <2>3. Len(c) = m /\ m - 1 + 1 = m /\ \A i \in 1 .. m : 1 + i - 1 = i
    BY <1>4, <2>2
  <2>4. /\ Rest = s \o tail
        /\ \A i \in 1 .. Len(s) + Len(tail) : (s \o tail)[i] = IF i <= Len(s) THEN s[i] ELSE tail[i - Len(s)]
    BY <1>1, <1>3, ConcatProperties
  <2> HIDE DEF a, tail
  <2>5. ASSUME NEW i \in 1 .. m PROVE c[i] = a[i]
    <3>1. c[i] = buffer[i] /\ i \in DOMAIN buffer
      BY <1>4, <2>2, <2>3
    <3>2. Len(tail) \in Nat
      BY <1>3
    <3>3. i \in 1 .. Len(s) + Len(tail) /\ i <= Len(s)
      BY <1>4, <3>2
    <3>4. buffer[i] = s[i]
      BY <2>4, <3>1, <3>3 DEF InStep
    <3> QED
      BY <1>5, <3>1, <3>4
  <2>6. c = a
    BY <1>5, <2>2, <2>3, <2>5, SeqEqual
  <2> QED
    BY <2>6 DEF c
<1>9. b \o tail \in Seq(Byte)
  BY <1>3, <1>5, ConcatFacts
<1>10. Got(chunks, k - 1) \in Seq(Byte)
  BY <1>2, GotFacts
<1> HIDE DEF a, b, tail
<1>11. Rest = a \o (b \o tail)
  <2>1. Rest = (a \o b) \o tail
    BY <1>1, <1>6 DEF tail
  <2> QED
    BY <1>3, <1>5, <2>1, Associates, Zenon
<1>12. Rest' = b \o tail /\ InStep'
  <2>1. Len(a) <= Len(buffer) /\ buffer' = SubSeq(buffer, Len(a) + 1, Len(buffer))
    BY <1>4, <1>5
  <2> QED
    BY <1>5, <1>9, <1>11, <2>1, UsesFirst
<1>13. out' \o tmp' = Got(chunks, k - 1) \o (d \o a)
  <2>1. out' \o tmp' = (Got(chunks, k - 1) \o d) \o a
    BY <1>1, <1>7
  <2> QED
    BY <1>5, <1>10, <2>1, Associates, Zenon
<1>14. d \o a \in Seq(Byte) /\ chunks[k] = (d \o a) \o b
  <2>1. chunks[k] = d \o (a \o b)
    BY <1>1, <1>6
  <2> QED
    BY <1>5, <2>1, Associates, ConcatFacts, Zenon
<1>15. ASSUME m < hexlen PROVE Inside(chunks, style)'
  <2>1. Len(b) = hexlen'
    BY <1>1, <1>5
  <2> QED
    BY <1>5, <1>12, <1>13, <1>14, <2>1 DEF Inside, tail
<1>16. ASSUME m = hexlen PROVE Between(chunks, style)'
  <2>1. Len(b) = 0
    BY <1>1, <1>4, <1>5, <1>16
  <2>2. b = <<>>
    BY <1>5, <2>1
  <2>3. Rest' = EolBytes(style) \o Todo(chunks, style, k)
    BY <1>3, <1>12, <2>2, ConcatEmptySeq DEF tail
  <2>4. chunks[k] = d \o a
    BY <1>14, <2>2, ConcatEmptySeq
  <2>5. k - 1 < Len(chunks) /\ k - 1 + 1 = k
    BY <1>2
  <2>6. Got(chunks, k) = Got(chunks, k - 1) \o chunks[k]
    <3>1. Got(chunks, k - 1 + 1) = Got(chunks, k - 1) \o chunks[k - 1 + 1]
      BY <1>2, <2>5, GotFacts
    <3> QED
      BY <2>5, <3>1
  <2>7. EolBytes(style) \in {<<>>, <<"LF">>, <<"CR", "LF">>}
    BY EolFacts
  <2> QED
    BY <1>2, <1>13, <2>3, <2>4, <2>6, <2>7 DEF Between
<1> QED
  BY <1>12, <1>15, <1>16

\* What is to be decoded begins with the size line of c, which is the next
\* chunk, or empty at the end, and u is behind it.
LineOf(chunks, style, k, c, u) ==
    /\ Len(c) \in 0 .. 15 /\ Len(c) <= UlongMax
    /\ Todo(chunks, style, k) = Line(c, style) \o u
    /\ k < Len(chunks) =>
         /\ k + 1 \in DOMAIN chunks /\ c = chunks[k + 1] /\ c # <<>>
         /\ u = c \o (EolBytes(style) \o Todo(chunks, style, k + 1))
    /\ k = Len(chunks) => c = <<>> /\ u = <<>>

LEMMA NextLine ==
  ASSUME NEW chunks, Proper(chunks), NEW style \in Styles, NEW k \in 0 .. Len(chunks)
  PROVE  \E c \in Seq(Byte), u \in Seq(Byte) : LineOf(chunks, style, k, c, u)
<1>1. CASE k < Len(chunks)
  <2>1. k + 1 \in DOMAIN chunks /\ k + 1 \in 0 .. Len(chunks)
    BY <1>1 DEF Proper
  <2> DEFINE c == chunks[k + 1]
             u == c \o (EolBytes(style) \o Todo(chunks, style, k + 1))
  <2> HIDE DEF c, u
  <2>2. c \in Seq(Byte) /\ Len(c) \in 1 .. 15 /\ Len(c) <= UlongMax
    BY <2>1 DEF Proper, c
  <2>3. u \in Seq(Byte)
    BY <2>1, <2>2, TodoFacts, EolFacts, ConcatFacts DEF u
  <2>4. Todo(chunks, style, k) = Line(c, style) \o u
    BY <1>1, TodoFacts DEF c, u
  <2>5. Len(c) \in 0 .. 15 /\ c # <<>>
    <3>1. Len(c) \in 1 .. 15
      BY <2>2
    <3>2. Len(c) \in 0 .. 15
      BY <3>1
    <3>3. Len(<<>>) = 0 /\ 0 \notin 1 .. 15
      OBVIOUS
    <3>4. c # <<>>
      BY <3>1, <3>3, Zenon
    <3> QED
      BY <3>2, <3>4
  <2>6. k # Len(chunks)
    BY <1>1, <2>1
  <2>7. c = chunks[k + 1] /\ u = c \o (EolBytes(style) \o Todo(chunks, style, k + 1))
    BY DEF c, u
  <2> QED
    BY <2>1, <2>2, <2>3, <2>4, <2>5, <2>6, <2>7 DEF LineOf
<1>2. CASE ~(k < Len(chunks))
  <2>1. k = Len(chunks) /\ Todo(chunks, style, k) = <<"0">> \o EolBytes(style)
    <3>1. Len(chunks) \in Nat
      BY DEF Proper
    <3>2. k = Len(chunks)
      BY <1>2, <3>1
    <3> QED
      BY <3>2, TodoFacts
  <2>2. Line(<<>>, style) = <<"0">> \o EolBytes(style)
    BY DEF Line, HexDigits
  <2>3. <<"0">> \o EolBytes(style) \in Seq(Byte)
    BY <2>1, TodoFacts
  <2>4. Line(<<>>, style) \o <<>> = Line(<<>>, style)
    BY <2>2, <2>3, ConcatEmptySeq
  <2>5. <<>> \in Seq(Byte) /\ Len(<<>>) \in 0 .. 15 /\ Len(<<>>) <= UlongMax
    BY UlongMaxAssumption
  <2> QED
    BY <1>2, <2>1, <2>2, <2>4, <2>5 DEF LineOf
<1> QED
  BY <1>1, <1>2

\* Its bytes.
LEMMA LineBytes ==
  ASSUME NEW c \in Seq(Byte), Len(c) \in 0 .. 15, NEW style \in Styles, NEW u \in Seq(Byte)
  PROVE  /\ Line(c, style) \in Seq(Byte) /\ Len(Line(c, style)) = 1 + Len(EolBytes(style))
         /\ Len(Line(c, style) \o u) = Len(Line(c, style)) + Len(u)
         /\ (Line(c, style) \o u)[1] = HexDigits[Len(c) + 1]
         /\ \A i \in 1 .. Len(EolBytes(style)) : (Line(c, style) \o u)[i + 1] = EolBytes(style)[i]
<1> DEFINE h == <<HexDigits[Len(c) + 1]>>
           eol == EolBytes(style)
           line == h \o eol
<1>1. HexDigits[Len(c) + 1] \in Byte
  BY DigitValues, DigitsApart
<1>2. h \in Seq(Byte) /\ Len(h) = 1 /\ h[1] = HexDigits[Len(c) + 1]
  BY <1>1
<1>3. eol \in Seq(Byte) /\ Len(eol) \in Nat
  BY EolFacts
<1> HIDE DEF h, eol
<1>4. /\ line \in Seq(Byte) /\ Len(line) = 1 + Len(eol)
      /\ \A i \in 1 .. 1 + Len(eol) : line[i] = IF i <= 1 THEN h[i] ELSE eol[i - 1]
  <2>1. /\ line \in Seq(Byte) /\ Len(line) = Len(h) + Len(eol)
        /\ \A i \in 1 .. Len(h) + Len(eol) : line[i] = IF i <= Len(h) THEN h[i] ELSE eol[i - Len(h)]
    BY <1>2, <1>3, ConcatProperties
  <2> HIDE DEF line
  <2> QED
    BY <1>2, <2>1
<1> HIDE DEF line
<1>5. /\ line \o u \in Seq(Byte) /\ Len(line \o u) = Len(line) + Len(u) /\ Len(u) \in Nat
      /\ \A i \in 1 .. Len(line) + Len(u) : (line \o u)[i] = IF i <= Len(line) THEN line[i] ELSE u[i - Len(line)]
  <2>1. line \in Seq(Byte) /\ Len(u) \in Nat
    BY <1>4
  <2> QED
    BY <2>1, ConcatProperties
<1>6. (line \o u)[1] = HexDigits[Len(c) + 1]
  BY <1>2, <1>3, <1>4, <1>5
<1>7. ASSUME NEW i \in 1 .. Len(eol) PROVE (line \o u)[i + 1] = eol[i]
  <2>1. /\ i + 1 \in 1 .. Len(line) + Len(u) /\ i + 1 <= Len(line) /\ ~(i + 1 <= 1) /\ i + 1 - 1 = i
        /\ i + 1 \in 1 .. 1 + Len(eol)
    BY <1>3, <1>4, <1>5
  <2> QED
    BY <1>4, <1>5, <2>1
<1>8. Line(c, style) = line
  BY DEF Line, line, h, eol
<1> QED
  BY <1>4, <1>5, <1>6, <1>7, <1>8 DEF eol

-----------------------------------------------------------------------------
(* The steps *)

\* The line up to i, with its end, is the size line of c.
LineRead(chunks, style, i, k, c, u) ==
    /\ LineOf(chunks, style, k, c, u)
    /\ Stop(buffer) = 1 /\ Strtoul(buffer) = Len(c)
    /\ i + EolLen(buffer, i) = Len(Line(c, style)) + 1
    /\ Len(Line(c, style)) <= Len(buffer) /\ Line(c, style) \in Seq(Byte)
    /\ Rest = Line(c, style) \o u
    /\ out \o tmp = Got(chunks, k)

\* The line at the front of the buffer, if one is complete.
LEMMA LineAhead ==
  ASSUME IInv, InStep, NEW chunks, Proper(chunks), NEW style \in Styles,
         message = Encoded(chunks, style), Decodes(chunks, style),
         AtSizeLine, NEW i \in DOMAIN buffer, EolAt(buffer, i)
  PROVE  \E k \in 0 .. Len(chunks), c \in Seq(Byte), u \in Seq(Byte) :
           LineRead(chunks, style, i, k, c, u)
<1>1. hexlen = 0 /\ at = "loop" /\ ~zeroed /\ buffer # <<>> /\ Head(buffer) \notin Eol
  BY DEF AtSizeLine, IInv
<1>2. Between(chunks, style)
  BY <1>1 DEF Decodes, Decoding
<1>3. PICK k \in 0 .. Len(chunks), e \in {<<>>, <<"LF">>, <<"CR", "LF">>} :
        Rest = e \o Todo(chunks, style, k) /\ out \o tmp = Got(chunks, k)
  BY <1>2 DEF Between
<1>4. /\ buffer \in Seq(Byte) /\ Len(buffer) \in Nat /\ Len(buffer) > 0 /\ buffer[1] \notin Eol
      /\ DOMAIN buffer = 1 .. Len(buffer) /\ buffer[1] = Rest[1]
  <2>1. buffer \in Seq(Byte) /\ Len(buffer) \in Nat /\ DOMAIN buffer = 1 .. Len(buffer)
    BY OutputFacts
  <2>2. Len(buffer) > 0 /\ Head(buffer) = buffer[1]
    BY <1>1, <2>1
  <2>3. 1 \in DOMAIN buffer
    BY <2>1, <2>2
  <2> QED
    BY <1>1, <2>1, <2>2, <2>3 DEF InStep
<1>5. Todo(chunks, style, k) \in Seq(Byte)
  BY TodoFacts
<1>6. e = <<>>
  <2>1. "LF" \in Byte /\ "CR" \in Byte /\ "LF" \in Eol /\ "CR" \in Eol
    BY DEF Byte, Eol
  <2>2. e # <<>> => e \in Seq(Byte) /\ Len(e) > 0 /\ e[1] \in Eol
    <3>1. CASE e = <<>>
      BY <3>1
    <3>2. CASE e = <<"LF">>
      BY <2>1, <3>2
    <3>3. CASE e = <<"CR", "LF">>
      BY <2>1, <3>3
    <3> QED
      BY <3>1, <3>2, <3>3
  <2>3. ASSUME e # <<>> PROVE Rest[1] = e[1]
    <3>1. /\ Len(e) \in Nat /\ Len(Todo(chunks, style, k)) \in Nat
          /\ \A j \in 1 .. Len(e) + Len(Todo(chunks, style, k)) :
               (e \o Todo(chunks, style, k))[j]
                 = IF j <= Len(e) THEN e[j] ELSE Todo(chunks, style, k)[j - Len(e)]
      BY <1>5, <2>2, <2>3, ConcatProperties
    <3>2. 1 \in 1 .. Len(e) + Len(Todo(chunks, style, k)) /\ 1 <= Len(e)
      BY <2>2, <2>3, <3>1
    <3> QED
      BY <1>3, <3>1, <3>2
  <2> QED
    BY <1>4, <2>2, <2>3
<1>7. Rest = Todo(chunks, style, k)
  BY <1>3, <1>5, <1>6, ConcatEmptySeq
<1>8. PICK c \in Seq(Byte), u \in Seq(Byte) : LineOf(chunks, style, k, c, u)
  BY NextLine
<1> DEFINE eol == EolBytes(style)
           line == Line(c, style)
<1>9. /\ line \in Seq(Byte) /\ Len(line) = 1 + Len(eol) /\ Len(Rest) = Len(line) + Len(u)
      /\ Rest[1] = HexDigits[Len(c) + 1] /\ \A j \in 1 .. Len(eol) : Rest[j + 1] = eol[j]
  BY <1>7, <1>8, LineBytes, SMTT(30) DEF LineOf
<1> HIDE DEF line
<1>10. /\ eol \in {<<"LF">>, <<"CR", "LF">>} /\ Len(eol) \in {1, 2} /\ Len(u) \in Nat
       /\ Rest[2] = eol[1] /\ (Len(eol) = 2 => Rest[3] = eol[2])
  <2>1. eol \in {<<"LF">>, <<"CR", "LF">>}
    BY EolFacts
  <2>2. Len(eol) \in {1, 2}
    BY <2>1
  <2> HIDE DEF eol
  <2>3. 1 \in 1 .. Len(eol) /\ (Len(eol) = 2 => 2 \in 1 .. Len(eol))
    <3>1. CASE Len(eol) = 1
      BY <3>1
    <3>2. CASE Len(eol) = 2
      BY <3>2
    <3> QED
      BY <2>2, <3>1, <3>2
  <2>4. Rest[1 + 1] = eol[1] /\ (Len(eol) = 2 => Rest[2 + 1] = eol[2])
    BY <1>9, <2>3
  <2> QED
    BY <2>1, <2>2, <2>4
<1> HIDE DEF eol
<1>11. Len(buffer) >= 2 /\ buffer[2] = eol[1] /\ buffer[2] \in Eol
  <2>1. i \in 1 .. Len(buffer) /\ buffer[i] \in Eol
    BY <1>4 DEF EolAt
  <2>2. i # 1 /\ Len(buffer) >= 2
    BY <1>4, <2>1
  <2>3. buffer[2] = Rest[2]
    <3>1. 2 \in DOMAIN buffer
      BY <1>4, <2>2
    <3> QED
      BY <3>1 DEF InStep
  <2>4. eol[1] \in Eol
    BY <1>10 DEF Eol
  <2> QED
    BY <1>10, <2>2, <2>3, <2>4
<1>12. Stop(buffer) = 1 /\ Strtoul(buffer) = Len(c) /\ i = 2
  <2>1. buffer[1] = HexDigits[Len(c) + 1] /\ Len(c) \in 0 .. 15 /\ Len(c) <= UlongMax
    BY <1>4, <1>8, <1>9 DEF LineOf
  <2> QED
    BY <1>4, <1>11, <2>1, SizeOfLine
<1>13. EolLen(buffer, 2) = Len(eol) /\ 1 + Len(eol) <= Len(buffer)
  <2>1. CASE eol = <<"LF">>
    BY <1>4, <1>11, <2>1 DEF EolLen
  <2>2. CASE eol = <<"CR", "LF">>
    <3>1. Len(eol) = 2 /\ Rest[2] = "CR" /\ Rest[3] = "LF" /\ buffer[2] = "CR"
      BY <1>10, <1>11, <2>2
    <3>2. CASE Len(buffer) > 2
      <4>1. buffer[3] = Rest[3]
        <5>1. 3 \in DOMAIN buffer
          BY <1>4, <3>2
        <5> QED
          BY <5>1 DEF InStep
      <4> QED
        BY <1>4, <3>1, <3>2, <4>1 DEF EolLen
    <3>3. CASE ~(Len(buffer) > 2)
      <4>1. Len(buffer) = 2 /\ Len(Rest) >= 3
        BY <1>4, <1>9, <1>10, <1>11, <3>1, <3>3
      <4>2. /\ fed \in Nat /\ Len(message) \in Nat /\ Len(buffer) <= fed
            /\ Len(Rest) = Len(message) - fed + Len(buffer)
            /\ \A j \in 1 .. Len(Rest) : Rest[j] = message[fed - Len(buffer) + j]
        BY RestFacts
      <4>3. 0 < fed /\ fed < Len(message) /\ fed - Len(buffer) + 2 = fed /\ 2 \in 1 .. Len(Rest)
        BY <4>1, <4>2
      <4>4. message[fed] = "CR"
        BY <3>1, <4>2, <4>3
      <4> QED
        BY <4>3, <4>4 DEF Decodes, CutsWhole
    <3> QED
      BY <3>2, <3>3
  <2> QED
    BY <1>10, <2>1, <2>2
<1>14. i + EolLen(buffer, i) = Len(line) + 1 /\ Len(line) <= Len(buffer)
  BY <1>9, <1>10, <1>12, <1>13
<1> QED
  <2>1. LineRead(chunks, style, i, k, c, u)
    BY <1>3, <1>7, <1>8, <1>9, <1>12, <1>14 DEF line, LineOf, LineRead
  <2> QED
    BY <2>1

\* A size line is read.
LEMMA ReadSizeDecodes ==
  ASSUME IInv, InStep, NEW chunks, Proper(chunks), NEW style \in Styles,
         message = Encoded(chunks, style), Decodes(chunks, style), ReadSize
  PROVE  Decodes(chunks, style)'
<1>1. PICK i \in DOMAIN buffer :
        /\ EolAt(buffer, i) /\ buffer' = SubSeq(buffer, i + EolLen(buffer, i), Len(buffer))
  BY DEF ReadSize
<1>2. /\ AtSizeLine /\ hexlen' = Strtoul(buffer) /\ at' = IF hexlen' = 0 THEN "last" ELSE "loop"
      /\ out' = out /\ tmp' = tmp /\ zeroed' = zeroed /\ fed' = fed /\ message' = message
  BY DEF ReadSize
<1>3. PICK k \in 0 .. Len(chunks), c \in Seq(Byte), u \in Seq(Byte) :
        LineRead(chunks, style, i, k, c, u)
  BY <1>1, <1>2, LineAhead
<1>4. Rest' = u
  BY <1>1, <1>2, <1>3, UsesFirst DEF LineRead
<1>5. ~zeroed /\ Len(chunks) \in Nat /\ hexlen' = Len(c)
  BY <1>2, <1>3 DEF LineRead, Proper, IInv, AtSizeLine
<1>6. Decoding(chunks, style)'
  <2>1. CASE k < Len(chunks)
    <3>1. c # <<>> /\ Len(c) # 0
      BY <1>3, <2>1 DEF LineRead, LineOf
    <3>2. at' = "loop" /\ ~zeroed' /\ hexlen' # 0
      BY <1>2, <1>5, <3>1
    <3>3. c = <<>> \o c /\ <<>> \in Seq(Byte)
      BY ConcatEmptySeq
    <3>4. out' \o tmp' = Got(chunks, (k + 1) - 1) \o <<>>
      <4>1. Got(chunks, k) \in Seq(Byte) /\ (k + 1) - 1 = k
        BY GotFacts
      <4> QED
        BY <1>2, <1>3, <4>1, ConcatEmptySeq DEF LineRead
    <3>5. /\ k + 1 \in DOMAIN chunks /\ chunks[k + 1] = <<>> \o c
          /\ Rest' = c \o (EolBytes(style) \o Todo(chunks, style, k + 1))
      BY <1>3, <1>4, <2>1, <3>3 DEF LineRead, LineOf
    <3>6. Inside(chunks, style)'
      BY <1>5, <3>3, <3>4, <3>5 DEF Inside
    <3> QED
      BY <3>2, <3>6 DEF Decoding
  <2>2. CASE ~(k < Len(chunks))
    <3>1. k = Len(chunks)
      BY <1>5, <2>2
    <3>2. c = <<>> /\ Rest' = <<>> /\ out' \o tmp' = Payload(chunks)
      BY <1>2, <1>3, <1>4, <3>1, GotFacts DEF LineRead, LineOf
    <3>3. hexlen' = 0 /\ at' = "last"
      BY <1>2, <1>5, <3>2
    <3> QED
      BY <3>2, <3>3 DEF Decoding, Behind
  <2> QED
    BY <2>1, <2>2
<1>7. Waiting' /\ CutsWhole'
  BY <1>2 DEF Waiting, CutsWhole, Decodes
<1> QED
  BY <1>6, <1>7 DEF Decodes

\* A CR or LF in front of a size line is skipped; there is none behind the end.
LEMMA SkipEolDecodes ==
  ASSUME IInv, InStep, NEW chunks, Proper(chunks), NEW style \in Styles,
         message = Encoded(chunks, style), Decodes(chunks, style), SkipEol
  PROVE  Decodes(chunks, style)'
<1>1. /\ at \in {"loop", "last"} /\ hexlen = 0 /\ buffer # <<>> /\ Head(buffer) \in Eol
      /\ buffer' = Tail(buffer)
      /\ UNCHANGED <<hexlen, zeroed, at, tmp, out, message, fed>>
  BY DEF SkipEol
<1>2. /\ buffer \in Seq(Byte) /\ Len(buffer) \in Nat /\ Len(buffer) > 0 /\ Head(buffer) = buffer[1]
      /\ buffer' = SubSeq(buffer, 2, Len(buffer)) /\ buffer[1] = Rest[1]
      /\ Rest \in Seq(Byte) /\ Len(Rest) >= Len(buffer)
  <2>1. /\ buffer \in Seq(Byte) /\ Len(buffer) \in Nat /\ DOMAIN buffer = 1 .. Len(buffer)
        /\ Rest \in Seq(Byte) /\ Len(Rest) >= Len(buffer)
    BY OutputFacts, RestFacts
  <2>2. Len(buffer) > 0 /\ Head(buffer) = buffer[1]
    BY <1>1, <2>1
  <2>3. 1 \in DOMAIN buffer
    BY <2>1, <2>2
  <2> QED
    BY <1>1, <2>1, <2>2, <2>3, TailIsSubSeq DEF InStep
<1>3. at = "loop" /\ ~zeroed
  <2>1. at = "last" => Rest = <<>>
    BY DEF Decodes, Decoding, Behind
  <2> QED
    BY <1>1, <1>2, <2>1 DEF IInv
<1>4. PICK k \in 0 .. Len(chunks), e \in {<<>>, <<"LF">>, <<"CR", "LF">>} :
        Rest = e \o Todo(chunks, style, k) /\ out \o tmp = Got(chunks, k)
  BY <1>1, <1>3 DEF Decodes, Decoding, Between
<1> DEFINE todo == Todo(chunks, style, k)
<1>5. todo \in Seq(Byte)
  BY TodoFacts
<1>6. "LF" \in Byte /\ "CR" \in Byte /\ <<"LF">> \in Seq(Byte) /\ <<"CR">> \in Seq(Byte)
  BY DEF Byte
<1>7. e # <<>>
  <2> SUFFICES ASSUME e = <<>> PROVE FALSE
    OBVIOUS
  <2>1. Rest = todo
    BY <1>4, <1>5, ConcatEmptySeq
  <2>2. PICK c \in Seq(Byte), u \in Seq(Byte) : LineOf(chunks, style, k, c, u)
    BY NextLine
  <2>3. Rest[1] = HexDigits[Len(c) + 1]
    BY <2>1, <2>2, LineBytes DEF LineOf
  <2>4. HexDigits[Len(c) + 1] \notin Eol
    BY <2>2, DigitValues, DigitsApart DEF LineOf
  <2> QED
    BY <1>1, <1>2, <2>3, <2>4
<1> HIDE DEF todo
<1>8. \E f \in {<<>>, <<"LF">>} : Rest' = f \o todo
  <2>1. ASSUME NEW b \in Byte, NEW f \in Seq(Byte), Rest = <<b>> \o f PROVE Rest' = f
    <3>1. <<b>> \in Seq(Byte) /\ Len(<<b>>) = 1
      OBVIOUS
    <3>2. /\ Len(<<b>>) <= Len(buffer) /\ buffer' = SubSeq(buffer, Len(<<b>>) + 1, Len(buffer))
          /\ fed' = fed /\ message' = message
      BY <1>1, <1>2, <3>1
    <3> QED
      BY <2>1, <3>1, <3>2, UsesFirst
  <2>2. CASE e = <<"LF">>
    <3>1. Rest = <<"LF">> \o todo
      BY <1>4, <2>2 DEF todo
    <3>2. Rest' = todo
      BY <1>5, <1>6, <2>1, <3>1
    <3> QED
      BY <1>5, <3>2, ConcatEmptySeq
  <2>3. CASE e = <<"CR", "LF">>
    <3>1. <<"CR", "LF">> = <<"CR">> \o <<"LF">>
      OBVIOUS
    <3>2. Rest = (<<"CR">> \o <<"LF">>) \o todo
      BY <1>4, <2>3, <3>1 DEF todo
    <3>3. Rest = <<"CR">> \o (<<"LF">> \o todo)
      BY <1>5, <1>6, <3>2, Associates, Zenon
    <3>4. <<"LF">> \o todo \in Seq(Byte)
      BY <1>5, <1>6, ConcatFacts
    <3>5. Rest' = <<"LF">> \o todo
      BY <1>6, <2>1, <3>3, <3>4
    <3> QED
      BY <3>5
  <2> QED
    BY <1>7, <2>2, <2>3
<1>9. Between(chunks, style)'
  <2>1. PICK f \in {<<>>, <<"LF">>} : Rest' = f \o Todo(chunks, style, k)
    BY <1>8 DEF todo
  <2>2. f \in {<<>>, <<"LF">>, <<"CR", "LF">>} /\ out' \o tmp' = Got(chunks, k)
    BY <1>1, <1>4
  <2> QED
    BY <2>1, <2>2 DEF Between
<1> QED
  BY <1>1, <1>3, <1>9 DEF Decodes, Decoding, Waiting, CutsWhole

\* What the user gets is not changed by a return; behind a failure there was
\* no line to read.
LEMMA ReturnDecodes ==
  ASSUME IInv, InStep, NEW chunks, Proper(chunks), NEW style \in Styles,
         message = Encoded(chunks, style), Decodes(chunks, style),
         WaitForData \/ BadSize \/ WaitForSizeLine \/ LastChunk \/ Drained
  PROVE  Decodes(chunks, style)'
<1>1. /\ at # "idle" /\ ~zeroed /\ Decoding(chunks, style) /\ CutsWhole
      /\ UNCHANGED <<buffer, hexlen, message, fed>> /\ at' = "idle"
  BY DEF WaitForData, BadSize, WaitForSizeLine, LastChunk, Drained, Return, AtSizeLine, IInv, Decodes
<1>2. Rest' = Rest /\ CutsWhole'
  BY <1>1 DEF Rest, CutsWhole
<1>3. ~BadSize
  <2> SUFFICES ASSUME BadSize PROVE FALSE
    OBVIOUS
  <2>1. PICK i \in DOMAIN buffer : EolAt(buffer, i)
    BY DEF BadSize
  <2>2. AtSizeLine /\ Stop(buffer) = 0
    BY DEF BadSize
  <2>3. \E k \in 0 .. Len(chunks), c \in Seq(Byte), u \in Seq(Byte) :
          LineRead(chunks, style, i, k, c, u)
    BY <2>1, <2>2, LineAhead
  <2> QED
    BY <2>2, <2>3 DEF LineRead
<1>4. out' \o tmp' = out \o tmp
  <2>1. out' = out \o tmp /\ tmp' = <<>>
    BY <1>3 DEF WaitForData, WaitForSizeLine, LastChunk, Drained, Return
  <2> QED
    BY <2>1, OutputFacts, ConcatEmptySeq
<1>5. CASE LastChunk
  <2>1. at = "last" /\ zeroed' /\ hexlen = 0
    BY <1>5 DEF LastChunk, IInv
  <2>2. Behind(chunks)
    BY <1>1, <2>1 DEF Decoding
  <2>3. Rest = <<>> /\ Len(Rest) = 0
    BY <2>2 DEF Behind
  <2>4. Len(buffer) = 0 /\ DOMAIN buffer = 1 .. Len(buffer)
    BY <2>3, RestFacts, OutputFacts
  <2> QED
    BY <1>1, <1>2, <1>4, <2>1, <2>2, <2>4 DEF Decodes, Decoding, Behind, Waiting
<1>6. CASE WaitForData \/ WaitForSizeLine \/ Drained
  <2>1. at = "loop" /\ zeroed' = zeroed
    BY <1>6 DEF WaitForData, WaitForSizeLine, Drained, AtSizeLine
  <2>2. Decoding(chunks, style)'
    <3>1. CASE hexlen = 0
      BY <1>1, <1>2, <1>4, <2>1, <3>1 DEF Decoding, Between
    <3>2. CASE hexlen # 0
      BY <1>1, <1>2, <1>4, <2>1, <3>2 DEF Decoding, Inside
    <3> QED
      BY <3>1, <3>2
  <2>3. Waiting'
    <3>1. CASE WaitForData
      <4>1. hexlen # 0
        <5>1. Len(buffer) \in Nat /\ hexlen \in Nat
          BY UlongMaxAssumption, OutputFacts DEF IInv, TypeOK
        <5> QED
          BY <3>1, <5>1 DEF WaitForData
      <4> QED
        BY <1>1, <4>1 DEF Waiting
    <3>2. CASE WaitForSizeLine
      BY <1>1, <3>2 DEF Waiting, WaitForSizeLine
    <3>3. CASE Drained
      BY <1>1, <3>3 DEF Waiting, Drained
    <3> QED
      BY <1>6, <3>1, <3>2, <3>3
  <2> QED
    BY <1>2, <2>2, <2>3 DEF Decodes
<1> QED
  BY <1>3, <1>5, <1>6

\* A chunk, or the part of it that is there, goes to the user.
LEMMA PassDecodes ==
  ASSUME IInv, InStep, NEW chunks, Proper(chunks), NEW style \in Styles,
         message = Encoded(chunks, style), Decodes(chunks, style),
         FlushPartial \/ TakeChunk \/ (Flush /\ hexlen # 0)
  PROVE  Decodes(chunks, style)'
<1>1. /\ hexlen \in Nat /\ Len(buffer) \in Nat /\ buffer \in Seq(Byte)
      /\ SubSeq(buffer, 1, Len(buffer)) = buffer
      /\ SubSeq(buffer, Len(buffer) + 1, Len(buffer)) = <<>>
  <2>1. hexlen \in Nat /\ Len(buffer) \in Nat /\ buffer \in Seq(Byte)
    BY UlongMaxAssumption, OutputFacts DEF IInv, TypeOK
  <2> QED
    BY <2>1, SubSeqFull, SubSeqEmpty
<1>2. \E m \in 0 .. Len(buffer) :
        /\ m <= hexlen /\ buffer' = SubSeq(buffer, m + 1, Len(buffer)) /\ hexlen' = hexlen - m
        /\ out' \o tmp' = (out \o tmp) \o SubSeq(buffer, 1, m)
  <2>1. CASE FlushPartial
    <3>1. /\ Len(buffer) <= hexlen /\ buffer' = <<>> /\ hexlen' = hexlen - Len(buffer)
          /\ out' = out /\ tmp' = tmp \o buffer
      BY <1>1, <2>1 DEF FlushPartial
    <3>2. out' \o tmp' = (out \o tmp) \o buffer
      BY <3>1, OutputFacts
    <3>3. Len(buffer) \in 0 .. Len(buffer)
      BY <1>1
    <3> QED
      BY <1>1, <3>1, <3>2, <3>3
  <2>2. CASE TakeChunk
    <3>1. /\ hexlen <= Len(buffer) /\ buffer' = SubSeq(buffer, hexlen + 1, Len(buffer)) /\ hexlen' = 0
          /\ out' = out /\ tmp' = tmp \o SubSeq(buffer, 1, hexlen)
      BY <2>2 DEF TakeChunk
    <3>2. hexlen \in 0 .. Len(buffer) /\ hexlen - hexlen = 0
      BY <1>1, <3>1
    <3>3. SubSeq(buffer, 1, hexlen) \in Seq(Byte)
      <4>1. 1 \in 1 .. Len(buffer) + 1
        BY <1>1
      <4> QED
        BY <1>1, <3>2, <4>1, PieceTyped
    <3>4. out' \o tmp' = (out \o tmp) \o SubSeq(buffer, 1, hexlen)
      BY <3>1, <3>3, OutputFacts
    <3> QED
      BY <1>1, <3>1, <3>2, <3>4, SMTT(30)
  <2>3. CASE Flush /\ hexlen # 0
    <3>1. /\ at = "idle" /\ buffer' = <<>> /\ hexlen' = hexlen - Len(buffer)
          /\ out' = out \o buffer /\ tmp' = tmp
      BY <2>3 DEF Flush
    <3>2. Len(buffer) < hexlen
      BY <2>3, <3>1 DEF IInv, FlushFitsChunk
    <3>3. tmp = <<>> /\ out \o tmp = out
      BY <3>1, OutputFacts
    <3>4. out \o buffer \in Seq(Byte)
      BY OutputFacts, ConcatFacts
    <3>5. out' \o tmp' = (out \o tmp) \o buffer
      BY <3>1, <3>3, <3>4, ConcatEmptySeq
    <3>6. Len(buffer) \in 0 .. Len(buffer) /\ Len(buffer) <= hexlen
      BY <1>1, <3>2
    <3> QED
      BY <1>1, <3>1, <3>5, <3>6
  <2> QED
    BY <2>1, <2>2, <2>3
<1>3. /\ UNCHANGED <<zeroed, at, message, fed>> /\ hexlen # 0 /\ at # "last" /\ ~zeroed
      /\ at = "idle" => hexlen' # 0
  <2>1. CASE FlushPartial \/ TakeChunk
    BY <1>1, <2>1 DEF FlushPartial, TakeChunk, IInv
  <2>2. CASE Flush /\ hexlen # 0
    <3>1. at = "idle" /\ hexlen' = hexlen - Len(buffer) /\ UNCHANGED <<zeroed, at, message, fed>>
      BY <2>2 DEF Flush
    <3>2. Len(buffer) < hexlen /\ ~zeroed
      BY <2>2, <3>1 DEF IInv, FlushFitsChunk
    <3>3. \A x, y \in Nat : y < x => x - y # 0
      OBVIOUS
    <3>4. hexlen - Len(buffer) # 0
      BY <1>1, <3>2, <3>3, Zenon
    <3> QED
      BY <2>2, <3>1, <3>2, <3>4
  <2> QED
    BY <2>1, <2>2
<1>4. Inside(chunks, style)
  BY <1>3 DEF Decodes, Decoding
<1>5. PICK m \in 0 .. Len(buffer) :
        /\ m <= hexlen /\ buffer' = SubSeq(buffer, m + 1, Len(buffer)) /\ hexlen' = hexlen - m
        /\ out' \o tmp' = (out \o tmp) \o SubSeq(buffer, 1, m)
  BY <1>2
<1>6. (m < hexlen => Inside(chunks, style)') /\ (m = hexlen => Between(chunks, style)')
  BY <1>3, <1>4, <1>5, PassesOn
<1>7. hexlen' = 0 <=> m = hexlen
  BY <1>1, <1>5
<1>8. Decoding(chunks, style)'
  <2>1. m < hexlen \/ m = hexlen
    BY <1>1, <1>5
  <2> QED
    BY <1>1, <1>3, <1>5, <1>6, <1>7, <2>1 DEF Decoding
<1>9. Waiting' /\ CutsWhole'
  BY <1>3 DEF Waiting, Decodes, CutsWhole
<1> QED
  BY <1>8, <1>9 DEF Decodes

\* Nothing was fed.
Anew ==
    /\ buffer = <<>> /\ fed = 0 /\ hexlen = 0 /\ ~zeroed /\ at = "idle"
    /\ tmp = <<>> /\ out = <<>>

LEMMA AnewDecodes ==
  ASSUME NEW chunks, Proper(chunks), NEW style \in Styles
  PROVE  Anew /\ message = Encoded(chunks, style) => Decodes(chunks, style)
<1> SUFFICES ASSUME Anew, message = Encoded(chunks, style) PROVE Decodes(chunks, style)
  OBVIOUS
<1>1. /\ buffer = <<>> /\ fed = 0 /\ hexlen = 0 /\ ~zeroed /\ at = "idle"
      /\ tmp = <<>> /\ out = <<>>
  BY DEF Anew
<1>2. message \in Seq(Byte) /\ message = Todo(chunks, style, 0) /\ 0 \in 0 .. Len(chunks)
  <2>1. chunks \in Seq(Seq(Byte)) /\ SubSeq(chunks, 1, Len(chunks)) = chunks /\ 0 \in 0 .. Len(chunks)
    BY SubSeqFull DEF Proper
  <2>2. Todo(chunks, style, 0) = message
    <3>1. SubSeq(chunks, 0 + 1, Len(chunks)) = chunks
      BY <2>1
    <3> QED
      BY <3>1 DEF Todo
  <2> QED
    BY <2>1, <2>2, TodoFacts
<1>3. Rest = <<>> \o Todo(chunks, style, 0)
  <2>1. Len(buffer) = 0 /\ 0 - 0 + 1 = 1
    BY <1>1
  <2>2. Rest = SubSeq(message, 1, Len(message))
    BY <1>1, <2>1 DEF Rest
  <2> QED
    BY <1>2, <2>2, SubSeqFull, ConcatEmptySeq
<1>4. out \o tmp = Got(chunks, 0)
  <2>1. <<>> \o <<>> = <<>>
    OBVIOUS
  <2> QED
    BY <1>1, <1>2, <2>1, GotFacts
<1>5. Between(chunks, style)
  BY <1>2, <1>3, <1>4 DEF Between
<1> QED
  BY <1>1, <1>5 DEF Decodes, Decoding, Waiting, CutsWhole

LEMMA AnewDecodesNext ==
  ASSUME NEW chunks, Proper(chunks), NEW style \in Styles
  PROVE  (Anew /\ message = Encoded(chunks, style) => Decodes(chunks, style))'
<1>1. Anew /\ message = Encoded(chunks, style) => Decodes(chunks, style)
  BY AnewDecodes
<1> QED
  BY <1>1, PTL

\* A step that feeds, which ends where the message may be cut.
LEMMA FeedDecodes ==
  ASSUME IInv, InStep, NEW n \in 1 .. Len(message), FeedPiece(n)
  PROVE  /\ InStep'
         /\ \A chunks, style : 
              /\ Decodes(chunks, style)
              /\ fed + n < Len(message) => message[fed + n] # "CR"
              => Decodes(chunks, style)'
<1>1. /\ at = "idle" /\ ~zeroed /\ fed + n <= Len(message)
      /\ buffer' = buffer \o SubSeq(message, fed + 1, fed + n) /\ fed' = fed + n /\ at' = "loop"
      /\ UNCHANGED <<hexlen, zeroed, tmp, out, message>>
  BY DEF FeedPiece
<1>2. /\ Len(buffer) \in Nat /\ fed \in Nat /\ n \in Nat /\ Len(message) \in Nat /\ Len(buffer) <= fed
      /\ Rest \in Seq(Byte) /\ Len(Rest) = Len(message) - fed + Len(buffer)
      /\ \A i \in 1 .. Len(Rest) : Rest[i] = message[fed - Len(buffer) + i]
      /\ buffer \in Seq(Byte) /\ message \in Seq(Byte)
  BY RestFacts, OutputFacts DEF IInv, TypeOK
<1> DEFINE piece == SubSeq(message, fed + 1, fed + n)
<1>3. /\ piece \in Seq(Byte) /\ Len(piece) = n
      /\ \A i \in 1 .. n : piece[i] = message[fed + i]
  <2> DEFINE first == fed + 1
             last == fed + n
  <2>1. /\ first \in 1 .. Len(message) + 1 /\ last \in 0 .. Len(message) /\ first <= last
        /\ last - first + 1 = n /\ \A i \in Int : first + i - 1 = fed + i
    BY <1>1, <1>2
  <2>2. piece = SubSeq(message, first, last)
    OBVIOUS
  <2> HIDE DEF piece, first, last
  <2>3. /\ piece \in Seq(Byte) /\ Len(piece) = IF first <= last THEN last - first + 1 ELSE 0
        /\ \A i \in 1 .. last - first + 1 : piece[i] = message[first + i - 1]
    BY <1>2, <2>1, <2>2, PieceTyped, SMTT(30)
  <2>4. ASSUME NEW i \in 1 .. n PROVE piece[i] = message[fed + i]
    <3>1. i \in 1 .. last - first + 1 /\ first + i - 1 = fed + i
      BY <1>2, <2>1
    <3> QED
      BY <2>3, <3>1
  <2>5. Len(piece) = n
    BY <2>1, <2>3
  <2> QED
    BY <2>3, <2>4, <2>5
<1> HIDE DEF piece
<1>4. /\ buffer' \in Seq(Byte) /\ Len(buffer') = Len(buffer) + n
      /\ \A i \in 1 .. Len(buffer) + n :
           buffer'[i] = IF i <= Len(buffer) THEN buffer[i] ELSE piece[i - Len(buffer)]
  <2>1. buffer' = buffer \o piece
    BY <1>1 DEF piece
  <2>2. /\ buffer \o piece \in Seq(Byte) /\ Len(buffer \o piece) = Len(buffer) + Len(piece)
        /\ \A i \in 1 .. Len(buffer) + Len(piece) :
             (buffer \o piece)[i] = IF i <= Len(buffer) THEN buffer[i] ELSE piece[i - Len(buffer)]
    BY <1>2, <1>3, ConcatProperties
  <2> QED
    BY <1>3, <2>1, <2>2
<1>5. Rest' = Rest
  <2>1. fed' - Len(buffer') + 1 = fed - Len(buffer) + 1
    BY <1>1, <1>2, <1>4
  <2> QED
    BY <1>1, <2>1, Zenon DEF Rest
<1>6. InStep'
  <2>1. ASSUME NEW i \in DOMAIN (buffer') PROVE buffer'[i] = Rest[i]
    <3>1. i \in 1 .. Len(buffer) + n /\ i \in 1 .. Len(Rest)
      BY <1>1, <1>2, <1>4
    <3>2. CASE i <= Len(buffer)
      <4>1. i \in DOMAIN buffer
        BY <1>2, <3>1, <3>2
      <4> QED
        BY <1>4, <3>1, <3>2, <4>1 DEF InStep
    <3>3. CASE ~(i <= Len(buffer))
      <4>1. i - Len(buffer) \in 1 .. n /\ fed + (i - Len(buffer)) = fed - Len(buffer) + i
        BY <1>2, <3>1, <3>3
      <4>2. buffer'[i] = piece[i - Len(buffer)]
        BY <1>4, <3>1, <3>3
      <4> QED
        BY <1>2, <1>3, <3>1, <4>1, <4>2
    <3> QED
      BY <3>2, <3>3
  <2> QED
    BY <1>5, <2>1 DEF InStep
<1>7. ASSUME NEW chunks, NEW style, Decodes(chunks, style),
             fed + n < Len(message) => message[fed + n] # "CR"
      PROVE  Decodes(chunks, style)'
  <2>1. Decoding(chunks, style)'
    <3>1. CASE hexlen = 0
      BY <1>1, <1>5, <1>7, <3>1 DEF Decodes, Decoding, Between
    <3>2. CASE hexlen # 0
      BY <1>1, <1>5, <1>7, <3>2 DEF Decodes, Decoding, Inside
    <3> QED
      BY <3>1, <3>2
  <2>2. Waiting' /\ CutsWhole'
    BY <1>1, <1>7 DEF Waiting, CutsWhole
  <2> QED
    BY <2>1, <2>2 DEF Decodes
<1> QED
  BY <1>6, <1>7

\* The buffer goes on with the message.
LEMMA StaysInStep ==
  ASSUME IInv, InStep, [Next]_vars
  PROVE  InStep'
<1>1. /\ Len(buffer) \in Nat /\ buffer \in Seq(Byte) /\ hexlen \in Nat
      /\ SubSeq(buffer, Len(buffer) + 1, Len(buffer)) = <<>>
  <2>1. Len(buffer) \in Nat /\ buffer \in Seq(Byte) /\ hexlen \in Nat
    BY UlongMaxAssumption, OutputFacts DEF IInv, TypeOK
  <2> QED
    BY <2>1, SubSeqEmpty
<1>2. CASE \E n \in 1 .. Len(message) : FeedPiece(n)
  BY <1>2, FeedDecodes
<1>3. ASSUME NEW m \in 0 .. Len(buffer), buffer' = SubSeq(buffer, m + 1, Len(buffer)),
             fed' = fed, message' = message
      PROVE  InStep'
  BY <1>3, Uses
<1>4. CASE UNCHANGED <<buffer, fed, message>>
  BY <1>4 DEF InStep, Rest
<1>5. CASE FlushPartial \/ Flush
  <2>1. CASE buffer' = <<>>
    <3>1. Len(buffer) \in 0 .. Len(buffer) /\ fed' = fed /\ message' = message
      BY <1>1, <1>5 DEF FlushPartial, Flush
    <3> QED
      BY <1>1, <1>3, <2>1, <3>1
  <2>2. CASE buffer' # <<>>
    BY <1>4, <1>5, <2>2 DEF FlushPartial, Flush
  <2> QED
    BY <2>1, <2>2
<1>6. CASE TakeChunk
  <2>1. /\ hexlen \in 0 .. Len(buffer) /\ buffer' = SubSeq(buffer, hexlen + 1, Len(buffer))
        /\ fed' = fed /\ message' = message
    BY <1>1, <1>6 DEF TakeChunk
  <2> QED
    BY <1>3, <2>1
<1>7. CASE SkipEol
  <2>1. buffer # <<>> /\ buffer' = Tail(buffer) /\ fed' = fed /\ message' = message
    BY <1>7 DEF SkipEol
  <2>2. 1 \in 0 .. Len(buffer) /\ buffer' = SubSeq(buffer, 1 + 1, Len(buffer))
    <3>1. Len(buffer) > 0 /\ 1 \in 0 .. Len(buffer) /\ 1 + 1 = 2
      BY <1>1, <2>1
    <3> QED
      BY <1>1, <2>1, <3>1, TailIsSubSeq
  <2> QED
    BY <1>3, <2>1, <2>2
<1>8. CASE ReadSize
  <2>1. PICK i \in DOMAIN buffer : /\ buffer' = SubSeq(buffer, i + EolLen(buffer, i), Len(buffer))
                                  /\ fed' = fed /\ message' = message
    BY <1>8 DEF ReadSize
  <2> DEFINE m == i + EolLen(buffer, i) - 1
  <2>2. m \in 0 .. Len(buffer) /\ m + 1 = i + EolLen(buffer, i)
    <3>1. i \in 1 .. Len(buffer)
      BY <1>1
    <3>2. EolLen(buffer, i) = 1 \/ (EolLen(buffer, i) = 2 /\ i < Len(buffer))
      BY DEF EolLen
    <3> QED
      BY <1>1, <3>1, <3>2
  <2> HIDE DEF m
  <2> QED
    BY <1>3, <2>1, <2>2
<1>9. CASE Finish
  BY <1>9 DEF Finish, InStep
<1>10. CASE UNCHANGED vars
  BY <1>4, <1>10 DEF vars
<1>11. CASE \E n \in 1 .. Len(message) : FeedRefused(n)
  BY <1>4, <1>11 DEF FeedRefused
<1>12. CASE WaitForData \/ BadSize \/ WaitForSizeLine \/ LastChunk \/ Drained
  BY <1>4, <1>12 DEF WaitForData, BadSize, WaitForSizeLine, LastChunk, Drained
<1> QED
  BY <1>2, <1>5, <1>6, <1>7, <1>8, <1>9, <1>10, <1>11, <1>12 DEF Next, Update

\* What a sender encoded: each step goes on with it.
LEMMA StepDecodes ==
  ASSUME IInv, InStep, NEW chunks, Proper(chunks), NEW style \in Styles,
         message = Encoded(chunks, style), Decodes(chunks, style),
         \A n \in Nat : MayCut(message, n) => message[n] # "CR",
         [Next]_vars
  PROVE  Decodes(chunks, style)'
<1>1. ASSUME UNCHANGED <<buffer, hexlen, zeroed, at, tmp, out, message, fed>>
      PROVE  Decodes(chunks, style)'
  <2>1. Rest' = Rest
    BY <1>1 DEF Rest
  <2>2. Waiting' /\ CutsWhole'
    BY <1>1 DEF Decodes, Waiting, CutsWhole
  <2>3. Decoding(chunks, style)'
    <3>1. (at = "last" \/ zeroed) => Behind(chunks)'
      BY <1>1, <2>1 DEF Decodes, Decoding, Behind
    <3>2. ~(at = "last" \/ zeroed) /\ hexlen = 0 => Between(chunks, style)'
      BY <1>1, <2>1 DEF Decodes, Decoding, Between
    <3>3. ~(at = "last" \/ zeroed) /\ hexlen # 0 => Inside(chunks, style)'
      BY <1>1, <2>1 DEF Decodes, Decoding, Inside
    <3> QED
      BY <1>1, <3>1, <3>2, <3>3 DEF Decoding
  <2> QED
    BY <2>2, <2>3 DEF Decodes
<1>2. ASSUME NEW n \in 1 .. Len(message), FeedPiece(n) PROVE Decodes(chunks, style)'
  <2>1. fed + n < Len(message) => MayCut(message, fed + n)
    BY <1>2 DEF FeedPiece
  <2>2. fed + n \in Nat
    BY DEF IInv, TypeOK
  <2> QED
    BY <1>2, <2>1, <2>2, FeedDecodes
<1>3. ASSUME NEW n \in 1 .. Len(message), FeedRefused(n) PROVE Decodes(chunks, style)'
  BY <1>1, <1>3 DEF FeedRefused
<1>4. CASE Update
  BY <1>4, PassDecodes, SkipEolDecodes, ReadSizeDecodes, ReturnDecodes DEF Update
<1>5. CASE Flush
  <2>1. CASE hexlen # 0
    BY <1>5, <2>1, PassDecodes
  <2>2. CASE hexlen = 0
    BY <1>1, <1>5, <2>2 DEF Flush
  <2> QED
    BY <2>1, <2>2
<1>6. CASE Finish
  <2>1. message' = message /\ Anew'
    BY <1>6 DEF Finish, IInv, Anew
  <2>2. (Anew /\ message = Encoded(chunks, style) => Decodes(chunks, style))'
    BY AnewDecodesNext
  <2> QED
    BY <2>1, <2>2
<1>7. CASE UNCHANGED vars
  BY <1>1, <1>7 DEF vars
<1> QED
  BY <1>2, <1>3, <1>4, <1>5, <1>6, <1>7 DEF Next

\* Of all bodies that are not cut behind a CR.
LEMMA DecodingKept ==
  ASSUME NEW C, \A chunks \in C : Proper(chunks), LinesWhole(C)
  PROVE  /\ Init => DInv(C)
         /\ IInv /\ DInv(C) /\ [Next]_vars => DInv(C)'
<1>1. ASSUME Init PROVE DInv(C)
  <2>1. Anew
    BY <1>1 DEF Init, Anew
  <2>2. InStep
    BY <2>1 DEF Anew, InStep
  <2> QED
    BY <2>1, <2>2, AnewDecodes DEF DInv
<1>2. ASSUME IInv, DInv(C), [Next]_vars PROVE DInv(C)'
  <2>1. InStep'
    BY <1>2, StaysInStep DEF DInv
  <2>2. message' = message
    BY <1>2 DEF Next, Update, vars, FeedPiece, FeedRefused, FlushPartial, WaitForData, TakeChunk, SkipEol,
         ReadSize, BadSize, WaitForSizeLine, LastChunk, Drained, Flush, Finish
  <2>3. ASSUME NEW chunks \in C, NEW style \in Styles, message' = Encoded(chunks, style)
        PROVE  Decodes(chunks, style)'
    <3>1. /\ Proper(chunks) /\ message = Encoded(chunks, style) /\ Decodes(chunks, style) /\ InStep
          /\ \A n \in Nat : MayCut(message, n) => message[n] # "CR"
      BY <1>2, <2>2, <2>3 DEF DInv, LinesWhole
    <3> QED
      BY <1>2, <3>1, StepDecodes
  <2> QED
    BY <2>1, <2>3 DEF DInv
<1> QED
  BY <1>1, <1>2

\* What is passed on is the beginning of the body, and all of it when the
\* message was fed.
LEMMA DecodedBody ==
  ASSUME IInv, InStep, NEW chunks, Proper(chunks), NEW style \in Styles,
         message = Encoded(chunks, style), Decodes(chunks, style)
  PROVE  /\ IsPrefix(out \o tmp, Payload(chunks))
         /\ fed = Len(message) /\ at = "idle" => out = Payload(chunks) /\ zeroed
<1>1. out \o tmp \in Seq(Byte) /\ Len(chunks) \in Nat /\ Len(chunks) \in 0 .. Len(chunks)
  BY OutputFacts DEF Proper
<1>2. ASSUME NEW s \in Seq(Byte), NEW u \in Seq(Byte) PROVE IsPrefix(s, s \o u)
  <2>1. /\ Len(s) \in Nat /\ Len(u) \in Nat /\ Len(s \o u) = Len(s) + Len(u)
        /\ \A i \in 1 .. Len(s) : (s \o u)[i] = s[i]
        /\ s \o u \in Seq(Byte)
    <3>1. /\ Len(s) \in Nat /\ Len(u) \in Nat /\ Len(s \o u) = Len(s) + Len(u) /\ s \o u \in Seq(Byte)
          /\ \A i \in 1 .. Len(s) + Len(u) : (s \o u)[i] = IF i <= Len(s) THEN s[i] ELSE u[i - Len(s)]
      BY ConcatProperties
    <3> QED
      BY <3>1
  <2> DEFINE w == s \o u
             p == SubSeq(w, 1, Len(s))
  <2> HIDE DEF w
  <2>2. p = s
    <3>1. 1 \in 1 .. Len(w) + 1 /\ Len(s) \in 0 .. Len(w)
      BY <2>1 DEF w
    <3>2. /\ p \in Seq(Byte) /\ Len(p) = IF 1 <= Len(s) THEN Len(s) - 1 + 1 ELSE 0
          /\ \A i \in 1 .. Len(s) - 1 + 1 : p[i] = w[1 + i - 1]
      <4>1. w \in Seq(Byte)
        BY <2>1 DEF w
      <4> QED
        BY <3>1, <4>1, PieceTyped
    <3> HIDE DEF p
    <3>3. Len(p) = Len(s) /\ Len(s) - 1 + 1 = Len(s) /\ \A i \in 1 .. Len(s) : 1 + i - 1 = i
      BY <2>1, <3>2
    <3>4. \A i \in 1 .. Len(s) : p[i] = s[i]
      BY <2>1, <3>2, <3>3 DEF w
    <3> QED
      BY <3>2, <3>3, <3>4, SeqEqual
  <2>3. SubSeq(s, 1, Len(s)) = s
    BY SubSeqFull
  <2> QED
    BY <2>1, <2>2, <2>3 DEF IsPrefix, w
<1>3. CASE at = "last" \/ zeroed
  <2>1. out \o tmp = Payload(chunks)
    BY <1>3 DEF Decodes, Decoding, Behind
  <2>2. IsPrefix(out \o tmp, Payload(chunks))
    BY <1>1, <1>2, <2>1, ConcatEmptySeq, EmptySeq, ZenonT(60)
  <2> QED
    BY <1>3, <2>1, <2>2, OutputFacts
<1>4. CASE ~(at = "last" \/ zeroed) /\ hexlen = 0
  <2>1. PICK k \in 0 .. Len(chunks), e \in {<<>>, <<"LF">>, <<"CR", "LF">>} :
          Rest = e \o Todo(chunks, style, k) /\ out \o tmp = Got(chunks, k)
    BY <1>4 DEF Decodes, Decoding, Between
  <2>2. IsPrefix(out \o tmp, Payload(chunks))
    BY <1>1, <1>2, <2>1, GotFacts
  <2>3. ~(fed = Len(message) /\ at = "idle")
    <3> SUFFICES ASSUME fed = Len(message), at = "idle" PROVE FALSE
      OBVIOUS
    <3>1. Len(buffer) = Len(Rest) /\ Rest \in Seq(Byte) /\ Len(Rest) \in Nat
          /\ DOMAIN buffer = 1 .. Len(buffer)
      BY RestFacts, OutputFacts
    <3>2. \A i \in 1 .. Len(Rest) : Rest[i] \notin Eol
      BY <1>4, <3>1 DEF Decodes, Waiting, InStep
    <3>3. "LF" \in Byte /\ "CR" \in Byte
      BY DEF Byte
    <3>4. e \in Seq(Byte) /\ Len(e) \in Nat
      <4>1. <<>> \in Seq(Byte) /\ <<"LF">> \in Seq(Byte) /\ <<"CR", "LF">> \in Seq(Byte)
        BY <3>3
      <4> QED
        BY <4>1
    <3>5. PICK c \in Seq(Byte), u \in Seq(Byte) : LineOf(chunks, style, k, c, u)
      BY NextLine
    <3> DEFINE todo == Todo(chunks, style, k)
    <3>6. /\ todo \in Seq(Byte) /\ Len(todo) \in Nat /\ Len(todo) >= 2 /\ todo[2] \in Eol
      <4>1. /\ Len(todo) = 1 + Len(EolBytes(style)) + Len(u)
            /\ \A i \in 1 .. Len(EolBytes(style)) : todo[i + 1] = EolBytes(style)[i]
        <5>1. todo = Line(c, style) \o u /\ Len(c) \in 0 .. 15
          BY <3>5 DEF LineOf
        <5> HIDE DEF todo
        <5>2. Len(todo) = Len(Line(c, style)) + Len(u) /\ Len(Line(c, style)) = 1 + Len(EolBytes(style))
          BY <5>1, LineBytes
        <5> QED
          BY <5>1, <5>2, LineBytes
      <4>2. EolBytes(style) \in {<<"LF">>, <<"CR", "LF">>}
        BY EolFacts
      <4>3. Len(EolBytes(style)) \in {1, 2} /\ EolBytes(style)[1] \in Eol
        BY <4>2 DEF Eol
      <4>4. 1 \in 1 .. Len(EolBytes(style)) /\ Len(u) \in Nat
        BY <4>3
      <4>5. todo[1 + 1] = EolBytes(style)[1]
        BY <4>1, <4>4
      <4>6. todo \in Seq(Byte)
        BY TodoFacts
      <4> HIDE DEF todo
      <4>7. Len(todo) >= 2
        BY <4>1, <4>3, <4>4
      <4> QED
        BY <4>3, <4>5, <4>6, <4>7
    <3> HIDE DEF todo
    <3>7. /\ Len(Rest) = Len(e) + Len(todo)
          /\ \A i \in 1 .. Len(e) + Len(todo) : Rest[i] = IF i <= Len(e) THEN e[i] ELSE todo[i - Len(e)]
      <4>1. Rest = e \o todo
        BY <2>1 DEF todo
      <4> QED
        BY <3>4, <3>6, <4>1, ConcatProperties
    <3>8. Len(e) + 2 \in 1 .. Len(e) + Len(todo) /\ ~(Len(e) + 2 <= Len(e)) /\ Len(e) + 2 - Len(e) = 2
      BY <3>4, <3>6
    <3>9. Rest[Len(e) + 2] = todo[2]
      BY <3>7, <3>8
    <3> QED
      BY <3>2, <3>6, <3>7, <3>8, <3>9
  <2> QED
    BY <2>2, <2>3
<1>5. CASE ~(at = "last" \/ zeroed) /\ hexlen # 0
  <2>1. PICK k \in DOMAIN chunks, d \in Seq(Byte), s \in Seq(Byte) :
          chunks[k] = d \o s /\ out \o tmp = Got(chunks, k - 1) \o d /\ Len(s) = hexlen
          /\ Rest = s \o (EolBytes(style) \o Todo(chunks, style, k))
    BY <1>5 DEF Decodes, Decoding, Inside
  <2>2. k \in 1 .. Len(chunks) /\ k \in 0 .. Len(chunks) /\ k - 1 \in 0 .. Len(chunks)
        /\ k - 1 < Len(chunks) /\ k - 1 + 1 = k
    BY <1>1 DEF Proper
  <2>3. IsPrefix(out \o tmp, Payload(chunks))
    <3>1. PICK u \in Seq(Byte) : Payload(chunks) = Got(chunks, k) \o u
      BY <2>2, GotFacts
    <3>2. Got(chunks, k) = Got(chunks, k - 1) \o (d \o s) /\ Got(chunks, k - 1) \in Seq(Byte)
      <4>1. Got(chunks, k - 1 + 1) = Got(chunks, k - 1) \o chunks[k - 1 + 1]
        BY <2>2, GotFacts
      <4>2. Got(chunks, k - 1) \in Seq(Byte)
        BY <2>2, GotFacts
      <4> QED
        BY <2>1, <2>2, <4>1, <4>2
    <3> DEFINE passed == out \o tmp
    <3>3. passed = Got(chunks, k - 1) \o d /\ passed \in Seq(Byte)
      BY <1>1, <2>1
    <3> HIDE DEF passed
    <3>4. Got(chunks, k) = passed \o s
      <4>1. (Got(chunks, k - 1) \o d) \o s = Got(chunks, k - 1) \o (d \o s)
        BY <3>2, Associates
      <4> QED
        BY <3>2, <3>3, <4>1
    <3>6. Payload(chunks) = passed \o (s \o u)
      <4>1. (passed \o s) \o u = passed \o (s \o u)
        BY <3>3, Associates
      <4> QED
        BY <3>1, <3>4, <4>1
    <3>5. s \o u \in Seq(Byte)
      BY ConcatFacts
    <3> QED
      BY <1>2, <3>3, <3>5, <3>6 DEF passed
  <2>4. ~(fed = Len(message) /\ at = "idle")
    <3> SUFFICES ASSUME fed = Len(message), at = "idle" PROVE FALSE
      OBVIOUS
    <3>1. Len(buffer) = Len(Rest) /\ Len(buffer) < hexlen /\ Len(Rest) \in Nat /\ hexlen \in Nat
      BY <1>5, RestFacts, UlongMaxAssumption DEF IInv, TypeOK, FlushFitsChunk
    <3>2. EolBytes(style) \o Todo(chunks, style, k) \in Seq(Byte)
      BY <2>2, EolFacts, TodoFacts, ConcatFacts
    <3>3. Len(Rest) >= Len(s)
      BY <2>1, <3>2, ConcatFacts
    <3> QED
      BY <2>1, <3>1, <3>3
  <2> QED
    BY <2>3, <2>4
<1> QED
  BY <1>3, <1>4, <1>5

\* Any body in chunks of up to fifteen bytes, in either style of line ends,
\* fed in any pieces that do not end with CR and flushed at any time: the user
\* gets the beginning of it, and all of it once everything was fed.
THEOREM DecoderDecodesAny ==
  ASSUME NEW C, \A chunks \in C : Proper(chunks), LinesWhole(C)
  PROVE  Spec => [](\A chunks \in C, style \in Styles :
                      message = Encoded(chunks, style) =>
                        /\ IsPrefix(out \o tmp, Payload(chunks))
                        /\ fed = Len(message) /\ at = "idle" => out = Payload(chunks) /\ zeroed)
<1> DEFINE Decoded == \A chunks \in C, style \in Styles :
                        message = Encoded(chunks, style) =>
                          /\ IsPrefix(out \o tmp, Payload(chunks))
                          /\ fed = Len(message) /\ at = "idle" => out = Payload(chunks) /\ zeroed
<1>1. Init => DInv(C)
  BY DecodingKept
<1>2. IInv /\ DInv(C) /\ [Next]_vars => DInv(C)'
  BY DecodingKept
<1>3. IInv /\ DInv(C) => Decoded
  BY DecodedBody DEF DInv
<1> QED
  BY <1>1, <1>2, <1>3, DecoderInvariant, PTL DEF Spec

LEMMA BodiesProper ==
  ASSUME UlongMax >= 2
  PROVE  \A chunks \in Bodies : Proper(chunks)
<1>1. {"z", "1", "LF", "2", "0", "CR"} \subseteq Byte
  <2>1. HexDigits[1] = "0" /\ HexDigits[2] = "1" /\ HexDigits[3] = "2"
    BY DEF HexDigits
  <2>2. HexDigits[0 + 1] \in Byte /\ HexDigits[1 + 1] \in Byte /\ HexDigits[2 + 1] \in Byte
    BY DigitValues, DigitsApart
  <2> QED
    BY <2>1, <2>2 DEF Byte
<1>2. <<>> \in Seq(Seq(Byte)) /\ Proper(<<>>)
  BY DEF Proper
<1>3. \A n \in 1 .. 2 : n \in 1 .. 15 /\ n <= UlongMax
  BY UlongMaxAssumption
<1>4. ASSUME NEW a \in Seq(Byte), Len(a) \in 1 .. 2 PROVE Proper(<<a>>)
  <2>1. <<a>> \in Seq(Seq(Byte)) /\ DOMAIN <<a>> = {1} /\ <<a>>[1] = a
    OBVIOUS
  <2>2. Len(a) \in 1 .. 15 /\ Len(a) <= UlongMax
    BY <1>3, <1>4, Zenon
  <2> QED
    BY <2>1, <2>2 DEF Proper
<1>5. ASSUME NEW a \in Seq(Byte), Len(a) \in 1 .. 2, NEW b \in Seq(Byte), Len(b) \in 1 .. 2
      PROVE  Proper(<<a, b>>)
  <2>1. <<a, b>> \in Seq(Seq(Byte)) /\ DOMAIN <<a, b>> = {1, 2} /\ <<a, b>>[1] = a /\ <<a, b>>[2] = b
    OBVIOUS
  <2>2. /\ Len(a) \in 1 .. 15 /\ Len(a) <= UlongMax
        /\ Len(b) \in 1 .. 15 /\ Len(b) <= UlongMax
    BY <1>3, <1>5, Zenon
  <2> QED
    BY <2>1, <2>2 DEF Proper
<1>6. \A x, y \in Byte : /\ <<x>> \in Seq(Byte) /\ Len(<<x>>) \in 1 .. 2
                         /\ <<x, y>> \in Seq(Byte) /\ Len(<<x, y>>) \in 1 .. 2
  OBVIOUS
<1> QED
  BY <1>1, <1>2, <1>4, <1>5, <1>6 DEF Bodies

\* The bodies of the run, when ULONG_MAX is no less than their chunks.
THEOREM DecoderDecodesBody ==
  ASSUME UlongMax >= 2, LinesWhole(Bodies)
  PROVE  Spec => []DecodesBody
<1>1. Init => DInv(Bodies)
  BY BodiesProper, DecodingKept
<1>2. IInv /\ DInv(Bodies) /\ [Next]_vars => DInv(Bodies)'
  BY BodiesProper, DecodingKept
<1>3. IInv /\ DInv(Bodies) => DecodesBody
  BY BodiesProper, DecodedBody DEF DInv, DecodesBody
<1> QED
  BY <1>1, <1>2, <1>3, DecoderInvariant, PTL DEF Spec
=============================================================================
