------------------------ MODULE MessageParserProofs ------------------------
(***************************************************************************)
(* For every set of uses of the parser, whatever their connections carry   *)
(* and however they are cut into pieces: its state has its type, its        *)
(* stacks keep their shape, and none of its loops spins.                   *)
(***************************************************************************)
EXTENDS MessageParser, SequenceLemmas

-----------------------------------------------------------------------------
(* The fold of the decoder *)

\* The fold over the tokens at the positions s.
Unfolds(iter, d, b, n) ==
  iter = [s \in SUBSET (1 .. n) |->
            IF s = {} THEN d ELSE DechunkToken(iter[s \ {Max(s)}], b[Max(s)])]

\* There is such a function, by induction on n.
LEMMA UnfoldExists ==
  ASSUME NEW d, NEW b, NEW n \in Nat
  PROVE  \E iter : Unfolds(iter, d, b, n)
<1> DEFINE T == {k \in Nat : ~ \E iter : Unfolds(iter, d, b, k)}
<1> SUFFICES ASSUME T # {} PROVE FALSE
  OBVIOUS
<1>1. PICK k \in T : \A m \in T : k <= m
  BY LeastNumber
<1>2. CASE k = 0
  <2> DEFINE iter == [s \in SUBSET (1 .. 0) |-> d]
  <2>1. \A s \in SUBSET (1 .. 0) : s = {}
    OBVIOUS
  <2>2. Unfolds(iter, d, b, 0)
    BY <2>1 DEF Unfolds
  <2> QED
    BY <1>1, <1>2, <2>2
<1>3. CASE k # 0
  <2>1. PICK j \in Nat : k = j + 1
    BY <1>3
  <2>2. j \notin T
    BY <1>1, <2>1
  <2>3. PICK iter : Unfolds(iter, d, b, j)
    BY <2>2
  <2> DEFINE new == [s \in SUBSET (1 .. k) |->
                       IF k \in s THEN DechunkToken(iter[s \ {k}], b[k]) ELSE iter[s]]
  <2>4. ASSUME NEW s \in SUBSET (1 .. k)
        PROVE  new[s] = IF s = {} THEN d ELSE DechunkToken(new[s \ {Max(s)}], b[Max(s)])
    <3>1. CASE k \in s
      <4>1. Max(s) = k
        BY <3>1, <2>1, MaxOfTop
      <4>2. s \ {k} \in SUBSET (1 .. k)  /\ k \notin s \ {k}
        OBVIOUS
      <4>3. new[s \ {k}] = iter[s \ {k}]
        BY <4>2
      <4> HIDE DEF T
      <4> QED
        BY <4>1, <4>3, <3>1
    <3>2. CASE k \notin s
      <4>1. s \in SUBSET (1 .. j)
        BY <3>2, <2>1
      <4>2. new[s] = iter[s]
        BY <3>2
      <4>3. CASE s = {}
        BY <4>1, <4>2, <4>3, <2>3 DEF Unfolds
      <4>4. CASE s # {}
        <5>1. Max(s) \in s
          <6>1. s \subseteq Nat /\ \A y \in s : y <= j
            BY <4>1
          <6> QED
            BY <6>1, <4>4, MaxOfBounded
        <5>2. s \ {Max(s)} \in SUBSET (1 .. k) /\ k \notin s \ {Max(s)}
          BY <3>2
        <5>3. new[s \ {Max(s)}] = iter[s \ {Max(s)}]
          BY <5>2
        <5>4. iter[s] = DechunkToken(iter[s \ {Max(s)}], b[Max(s)])
          BY <4>1, <4>4, <2>3 DEF Unfolds
        <5> QED
          BY <5>3, <5>4, <4>2, <4>4
      <4> QED
        BY <4>3, <4>4
    <3> QED
      BY <3>1, <3>2
  <2>5. Unfolds(new, d, b, k)
    <3>1. new = [s \in SUBSET (1 .. k) |-> new[s]]
      OBVIOUS
    <3> HIDE DEF new
    <3> QED
      BY <3>1, <2>4 DEF Unfolds
  <2> QED
    BY <1>1, <2>5
<1> QED
  BY <1>2, <1>3

\* The fold of the decoder over the data is worked out token by token.
LEMMA FoldUnfolds ==
  ASSUME NEW S, NEW d, NEW b \in Seq(S)
  PROVE  \E iter : /\ Unfolds(iter, d, b, Len(b))
                   /\ FoldLeft(DechunkToken, d, b) = iter[1 .. Len(b)]
<1>0. Len(b) \in Nat
  OBVIOUS
<1>1. PICK iter : Unfolds(iter, d, b, Len(b))
  BY <1>0, UnfoldExists
<1>2. DOMAIN b = 1 .. Len(b)
  OBVIOUS
<1> DEFINE f == CHOOSE it : it = [s \in SUBSET (DOMAIN b) |->
            IF s = {} THEN d ELSE DechunkToken(it[s \ {Max(s)}], b[Max(s)])]
<1>3. FoldLeft(DechunkToken, d, b) = f[DOMAIN b]
  BY DEF FoldLeft, MapThenFoldSet
<1>4. f = [s \in SUBSET (DOMAIN b) |->
            IF s = {} THEN d ELSE DechunkToken(f[s \ {Max(s)}], b[Max(s)])]
  BY <1>1, <1>2 DEF Unfolds
<1> HIDE DEF f
<1> QED
  BY <1>2, <1>3, <1>4 DEF Unfolds

-----------------------------------------------------------------------------
(* Tokens and the decoder *)

\* What the tokens of each kind carry.
LEMMA TokenFacts ==
  ASSUME NEW token \in Token
  PROVE  /\ token.t = "info" => token.of \in Nat
         /\ token.t = "header" => token.name \in STRING /\ token.value \in Seq(Int)
         /\ token.t = "fold" => token.value \in Seq(Int)
         /\ token.t = "size" => token.n \in Nat
         /\ token.t = "byte" => [token EXCEPT !.gz = FALSE] \in Token
  BY DEF Token

\* Pieces of a sequence.
LEMMA SeqFacts ==
  ASSUME NEW S, NEW s \in Seq(S), NEW n \in Nat, n <= Len(s)
  PROVE  /\ Len(s) \in Nat /\ (s = <<>> <=> Len(s) = 0)
         /\ Drop(n, s) \in Seq(S) /\ Len(Drop(n, s)) = Len(s) - n
         /\ SubSeq(s, 1, n) \in Seq(S) /\ Len(SubSeq(s, 1, n)) = n
         /\ s # <<>> => Head(s) \in S /\ Tail(s) \in Seq(S) /\ Len(Tail(s)) = Len(s) - 1
  BY DEF Drop

\* Blank lines are only taken away.
LEMMA BlankFacts ==
  ASSUME NEW b \in Seq(Token)
  PROVE  WithoutBlank(b) \in Seq(Token) /\ Len(WithoutBlank(b)) <= Len(b)
<1> DEFINE I == {i \in 1 .. Len(b) : b[i].t # "eol"}
<1>1. CASE I = {}
  BY <1>1 DEF WithoutBlank, SelectInSeq
<1>2. CASE I # {}
  <2>1. I \subseteq Nat
    OBVIOUS
  <2>2. \E i \in I : \A j \in I : i <= j
    BY <1>2, <2>1, LeastNumber
  <2>3. Min(I) \in I
    BY <2>2 DEF Min
  <2>4. Min(I) \in 1 .. Len(b) /\ Min(I) # 0
    BY <2>3
  <2>5. WithoutBlank(b) = SubSeq(b, Min(I), Len(b))
    <3>1. WithoutBlank(b) = LET i == IF I # {} THEN Min(I) ELSE 0
                            IN  IF i = 0 THEN <<>> ELSE SubSeq(b, i, Len(b))
      BY DEF WithoutBlank, SelectInSeq
    <3> HIDE DEF I
    <3> QED
      BY <1>2, <2>4, <3>1
  <2> HIDE DEF I
  <2> QED
    BY <2>4, <2>5
<1> QED
  BY <1>1, <1>2

\* The parts of the decoder, and what they are after each of its updates.
LEMMA DecoderFields ==
  ASSUME NEW d \in Decoder
  PROVE  /\ d.held \in Seq(Token) /\ d.out \in Seq(Token) /\ d.left \in Seq(Token)
         /\ d.zeroed \in BOOLEAN /\ d.hexlen \in Nat
         /\ Len(d.left) \in Nat
  BY DEF Decoder

LEMMA DecoderUpdates ==
  ASSUME NEW d \in Decoder, NEW s \in Seq(Token)
  PROVE  /\ [d EXCEPT !.out = s] \in Decoder
         /\ [d EXCEPT !.out = s].zeroed = d.zeroed /\ [d EXCEPT !.out = s].left = d.left
         /\ [d EXCEPT !.failed = TRUE] \in Decoder
         /\ [d EXCEPT !.failed = TRUE].zeroed = d.zeroed /\ [d EXCEPT !.failed = TRUE].left = d.left
         /\ [d EXCEPT !.left = s] \in Decoder
         /\ [d EXCEPT !.left = s].zeroed = d.zeroed /\ [d EXCEPT !.left = s].left = s
         /\ [d EXCEPT !.held = s] \in Decoder
         /\ [d EXCEPT !.held = s].zeroed = d.zeroed /\ [d EXCEPT !.held = s].left = d.left
  BY DEF Decoder

LEMMA DecoderReads ==
  ASSUME NEW d \in Decoder, NEW n \in Nat
  PROVE  /\ [d EXCEPT !.hexlen = n, !.zeroed = (n = 0)] \in Decoder
         /\ [d EXCEPT !.hexlen = n, !.zeroed = (n = 0)].left = d.left
  BY DEF Decoder

LEMMA DecoderPasses ==
  ASSUME NEW d \in Decoder, NEW s \in Seq(Token)
  PROVE  LET r == [d EXCEPT !.out = s, !.held = <<>>, !.hexlen = 0] IN
         r \in Decoder /\ r.zeroed = d.zeroed /\ r.left = d.left
<1>1. <<>> \in Seq(Token) /\ 0 \in Nat
  OBVIOUS
<1> QED
  BY <1>1 DEF Decoder

\* A token keeps the type of the decoder; only behind the last chunk tokens are left.
LEMMA DechunkTokenFacts ==
  ASSUME NEW d \in Decoder, NEW token \in Token
  PROVE  LET r == DechunkToken(d, token) IN
         /\ r \in Decoder
         /\ d.zeroed => r.zeroed /\ Len(r.left) <= Len(d.left) + 1
         /\ ~d.zeroed => r.left = d.left
<1>1. token.t = "size" => token.n \in Nat
  BY TokenFacts
<1> DEFINE r == DechunkToken(d, token)
<1> SUFFICES /\ r \in Decoder
             /\ d.zeroed => r.zeroed /\ Len(r.left) <= Len(d.left) + 1
             /\ ~d.zeroed => r.left = d.left
  OBVIOUS
<1>2. CASE d.failed
  <2>1. r = d
    BY <1>2 DEF DechunkToken
  <2> QED
    BY <2>1, DecoderFields
<1>0. \A s \in Seq(Token) : /\ Append(s, token) \in Seq(Token)
                             /\ Len(Append(s, token)) = Len(s) + 1
  OBVIOUS
<1>3. CASE ~d.failed /\ d.zeroed
  <2>1. r = IF token.t = "eol" /\ d.left = <<>> THEN d
            ELSE [d EXCEPT !.left = Append(d.left, token)]
    BY <1>3 DEF DechunkToken
  <2>2. Append(d.left, token) \in Seq(Token) /\ Len(Append(d.left, token)) = Len(d.left) + 1
    BY <1>0, DecoderFields
  <2> HIDE DEF r
  <2>3. CASE r = d
    BY <1>3, <2>3, DecoderFields
  <2>4. CASE r = [d EXCEPT !.left = Append(d.left, token)]
    <3>1. /\ r \in Decoder /\ r.zeroed = d.zeroed /\ r.left = Append(d.left, token)
      BY <2>2, <2>4, DecoderUpdates
    <3> QED
      BY <1>3, <2>2, <3>1, DecoderFields
  <2> QED
    BY <2>1, <2>3, <2>4
<1>4. CASE ~d.failed /\ ~d.zeroed /\ d.hexlen > 0
  <2>1. r = IF Len(d.held) + 1 < d.hexlen THEN [d EXCEPT !.held = Append(d.held, token)]
            ELSE [d EXCEPT !.out = (d.out \o d.held) \o <<token>>, !.held = <<>>, !.hexlen = 0]
    BY <1>4 DEF DechunkToken
  <2>2. /\ Append(d.held, token) \in Seq(Token) /\ (d.out \o d.held) \o <<token>> \in Seq(Token)
    <3>1. d.held \in Seq(Token) /\ d.out \in Seq(Token)
      BY DecoderFields
    <3> QED
      BY <3>1
  <2> HIDE DEF r
  <2>3. CASE r = [d EXCEPT !.held = Append(d.held, token)]
    BY <1>4, <2>2, <2>3, DecoderUpdates
  <2>4. CASE r = [d EXCEPT !.out = (d.out \o d.held) \o <<token>>, !.held = <<>>, !.hexlen = 0]
    BY <1>4, <2>2, <2>4, DecoderPasses
  <2> QED
    BY <2>1, <2>3, <2>4
<1>5. CASE ~d.failed /\ ~d.zeroed /\ ~(d.hexlen > 0)
  <2>1. r = CASE token.t = "eol" -> d
              [] token.t = "size" -> [d EXCEPT !.hexlen = token.n, !.zeroed = (token.n = 0)]
              [] OTHER -> [d EXCEPT !.failed = TRUE]
    BY <1>5 DEF DechunkToken
  <2> HIDE DEF r
  <2>2. CASE r = d
    BY <1>5, <2>2, DecoderFields
  <2>3. CASE token.t = "size" /\ r = [d EXCEPT !.hexlen = token.n, !.zeroed = (token.n = 0)]
    BY <1>1, <1>5, <2>3, DecoderReads
  <2>4. CASE r = [d EXCEPT !.failed = TRUE]
    BY <1>5, <2>4, DecoderFields, DecoderUpdates
  <2> QED
    BY <2>1, <2>2, <2>3, <2>4
<1> QED
  BY <1>2, <1>3, <1>4, <1>5

\* The decoder only leaves what comes after the last chunk, whose line it used.
LEMMA DechunkFacts ==
  ASSUME NEW d \in Decoder, ~d.zeroed, d.left = <<>>, NEW b \in Seq(Token)
  PROVE  LET r == FoldLeft(DechunkToken, d, b) IN
         /\ r \in Decoder
         /\ r.zeroed => Len(r.left) < Len(b)
         /\ ~r.zeroed => r.left = <<>>
<1>1. PICK iter : /\ Unfolds(iter, d, b, Len(b))
                  /\ FoldLeft(DechunkToken, d, b) = iter[1 .. Len(b)]
  BY FoldUnfolds
<1> DEFINE Good(k) == /\ iter[1 .. k] \in Decoder
                      /\ iter[1 .. k].zeroed => Len(iter[1 .. k].left) < k
                      /\ ~iter[1 .. k].zeroed => iter[1 .. k].left = <<>>
           T == {k \in 0 .. Len(b) : ~Good(k)}
<1>2. Len(b) \in Nat
  OBVIOUS
<1>3. Good(0)
  <2>1. iter[{}] = d
    BY <1>1, <1>2 DEF Unfolds
  <2>2. 1 .. 0 = {}
    OBVIOUS
  <2> QED
    BY <2>1, <2>2
<1>4. ASSUME NEW k \in 0 .. Len(b), k + 1 <= Len(b), Good(k)
      PROVE  Good(k + 1)
  <2> HIDE DEF T
  <2>1. 1 .. k + 1 \in SUBSET (1 .. Len(b)) /\ 1 .. k + 1 # {}
    <3>1. k \in Nat /\ k + 1 <= Len(b) /\ Len(b) \in Nat
      BY <1>2, <1>4
    <3> HIDE DEF Good
    <3> QED
      BY <3>1
  <2>2. Max(1 .. k + 1) = k + 1
    BY MaxOfTop
  <2>3. (1 .. k + 1) \ {k + 1} = 1 .. k
    OBVIOUS
  <2>4. iter[1 .. k + 1] = DechunkToken(iter[1 .. k], b[k + 1])
    BY <1>1, <2>1, <2>2, <2>3 DEF Unfolds
  <2>5. b[k + 1] \in Token
    BY <1>4
  <2> DEFINE e == iter[1 .. k]
             r == DechunkToken(e, b[k + 1])
  <2>6. e \in Decoder /\ (e.zeroed => Len(e.left) < k) /\ (~e.zeroed => e.left = <<>>)
    BY <1>4
  <2> HIDE DEF e
  <2>7. /\ r \in Decoder
        /\ e.zeroed => r.zeroed /\ Len(r.left) <= Len(e.left) + 1
        /\ ~e.zeroed => r.left = e.left
    BY <2>5, <2>6, DechunkTokenFacts
  <2>8. iter[1 .. k + 1] = r
    BY <2>4 DEF e
  <2> HIDE DEF r
  <2>9. r.zeroed => Len(r.left) < k + 1
    <3>1. Len(e.left) \in Nat /\ Len(r.left) \in Nat
      BY <2>6, <2>7, SMTT(30) DEF Decoder
    <3>2. Len(<<>>) = 0
      OBVIOUS
    <3> QED
      BY <2>6, <2>7, <3>1, <3>2
  <2>10. ~r.zeroed => r.left = <<>>
    BY <2>6, <2>7 DEF Decoder
  <2> QED
    BY <2>7, <2>8, <2>9, <2>10
<1>5. T = {}
  <2> SUFFICES ASSUME T # {} PROVE FALSE
    OBVIOUS
  <2>1. T \subseteq Nat
    BY <1>2
  <2> HIDE DEF Good
  <2>2. PICK k \in T : \A m \in T : k <= m
    BY <2>1, LeastNumber
  <2>3. k # 0
    BY <1>3
  <2>4. k - 1 \in 0 .. Len(b) /\ k - 1 \notin T
    BY <1>2, <2>2, <2>3
  <2>5. Good(k - 1)
    BY <2>4
  <2>6. Good((k - 1) + 1)
    BY <1>4, <2>4, <2>5
  <2> QED
    BY <2>6
<1>6. Good(Len(b))
  BY <1>2, <1>5
<1> QED
  BY <1>1, <1>6

-----------------------------------------------------------------------------
(* The chain of messages *)

\* A message behind a chain, or in place of its last.
LEMMA ChainFacts ==
  ASSUME NEW chain, IsChain(chain), NEW m, IsMessage(m)
  PROVE  /\ IsChain(Append(chain, m))
         /\ IsChain(<<m>>)
         /\ IsChain(Append(Front(chain), m))
         /\ Append(chain, m) # <<>> /\ <<m>> # <<>> /\ Append(Front(chain), m) # <<>>
<1> DEFINE Ms == {chain[i] : i \in DOMAIN chain}
           All == Ms \cup {m}
<1>1. chain \in Seq(Ms) /\ \A i \in DOMAIN chain : IsMessage(chain[i])
  BY DEF IsChain
<1>2. \A x \in All : IsMessage(x)
  BY <1>1
<1>3. ASSUME NEW S, NEW s \in Seq(S), \A x \in S : IsMessage(x)
      PROVE  IsChain(s)
  <2>1. \A i \in DOMAIN s : IsMessage(s[i])
    BY <1>3
  <2>2. s \in Seq({s[i] : i \in DOMAIN s})
    OBVIOUS
  <2> QED
    BY <2>1, <2>2 DEF IsChain
<1>4. chain \in Seq(All)
  <2> HIDE DEF Ms
  <2> QED
    BY <1>1
<1> HIDE DEF All
<1>5. m \in All
  BY DEF All
<1>6. Front(chain) \in Seq(All)
  BY <1>4 DEF Front
<1>7. ASSUME NEW s \in Seq(All)
      PROVE  Append(s, m) \in Seq(All) /\ Append(s, m) # <<>>
  <2>1. Append(s, m) \in Seq(All) /\ Len(Append(s, m)) = Len(s) + 1 /\ Len(s) \in Nat
    BY <1>5
  <2>2. Len(<<>>) = 0
    OBVIOUS
  <2> QED
    BY <2>1, <2>2
<1>8. /\ Append(chain, m) \in Seq(All) /\ <<m>> \in Seq(All) /\ Append(Front(chain), m) \in Seq(All)
      /\ Append(chain, m) # <<>> /\ <<m>> # <<>> /\ Append(Front(chain), m) # <<>>
  BY <1>4, <1>5, <1>6, <1>7
<1> QED
  BY <1>2, <1>3, <1>8

\* The message at the end of a chain.
LEMMA LastFacts ==
  ASSUME NEW chain, IsChain(chain), chain # <<>>
  PROVE  IsMessage(Last(chain))
<1>1. chain \in Seq({chain[i] : i \in DOMAIN chain}) /\ \A i \in DOMAIN chain : IsMessage(chain[i])
  BY DEF IsChain
<1>2. Len(chain) \in DOMAIN chain
  BY <1>1
<1> QED
  BY <1>1, <1>2 DEF Last

\* A message without headers and body.
LEMMA NewMessage ==
  ASSUME NEW id, NEW kind, NEW redirect
  PROVE  IsMessage(Message(id, kind, redirect))
<1>1. <<>> \in Seq(Token) /\ DOMAIN <<>> = {}
  OBVIOUS
<1> QED
  BY <1>1 DEF IsMessage, Message

\* The parts of a header, if it is there, are numbers, at least one.
Values(h) == \A name \in DOMAIN h : h[name] \in Seq(Int) \ {<<>>}

\* A message with other headers, or another body.
LEMMA MessageUpdates ==
  ASSUME NEW m, IsMessage(m), NEW h, Values(h), NEW body \in Seq(Token)
  PROVE  IsMessage([m EXCEPT !.hdrs = h]) /\ IsMessage([m EXCEPT !.body = body, !.hdrs = h])
  BY DEF IsMessage, Values

\* Adding a header, or giving it another value.
LEMMA WithHeaderFacts ==
  ASSUME NEW h, Values(h), NEW name, NEW value \in Seq(Int) \ {<<>>}
  PROVE  Values(WithHeader(h, name, value))
  BY DEF Values, WithHeader

\* Headers under another name keep their values.
LEMMA MovedFacts ==
  ASSUME NEW h, Values(h), NEW names \in SUBSET {"TE", "CL", "CR", "CE"}
  PROVE  Values(Moved(h, names))
<1> DEFINE moved == names \cap DOMAIN h
           into(n) == CHOOSE m \in moved : Original[m] = n
           g == Moved(h, names)
<1>1. g = [n \in (DOMAIN h \ moved) \cup {Original[m] : m \in moved} |->
             IF \E m \in moved : Original[m] = n THEN h[into(n)] ELSE h[n]]
  BY DEF Moved
<1>2. SUFFICES ASSUME NEW n \in (DOMAIN h \ moved) \cup {Original[m] : m \in moved}
               PROVE  g[n] \in Seq(Int) \ {<<>>}
  BY <1>1 DEF Values
<1>3. CASE \E m \in moved : Original[m] = n
  <2>1. into(n) \in moved
    BY <1>3
  <2> HIDE DEF into
  <2>2. g[n] = h[into(n)]
    BY <1>1, <1>3 DEF into
  <2> HIDE DEF g
  <2> QED
    BY <2>1, <2>2 DEF Values
<1>4. CASE ~ \E m \in moved : Original[m] = n
  <2>1. n \in DOMAIN h
    BY <1>4
  <2>2. g[n] = h[n]
    BY <1>1, <1>4
  <2> HIDE DEF g
  <2> QED
    BY <2>1, <2>2 DEF Values
<1> QED
  BY <1>3, <1>4

\* A first line, a header, and data of a body: the chain stays one.
LEMMA WithInfoFacts ==
  ASSUME IsChain(messages), NEW line
  PROVE  IsChain(WithInfo(line))
<1> DEFINE new == Message(line.of, line.kind, line.redirect)
<1>1. IsMessage(new)
  BY NewMessage
<1>2. WithInfo(line) \in {<<new>>, Append(messages, new), Append(Front(messages), new)}
  BY DEF WithInfo
<1> HIDE DEF new
<1> QED
  BY <1>1, <1>2, ChainFacts

LEMMA AddHeaderFacts ==
  ASSUME IsChain(messages), NEW name, NEW value \in Seq(Int) \ {<<>>}
  PROVE  IsChain(AddHeader(name, value)) /\ AddHeader(name, value) # <<>>
<1> DEFINE chain == IF messages = <<>> THEN <<Message(0, "none", FALSE)>> ELSE messages
           m == Last(chain)
           parts == IF name \in DOMAIN m.hdrs THEN m.hdrs[name] \o value ELSE value
<1>1. IsChain(chain) /\ chain # <<>>
  BY NewMessage, ChainFacts
<1>2. AddHeader(name, value) =
        Append(Front(chain), [m EXCEPT !.hdrs = WithHeader(m.hdrs, name, parts)])
  BY DEF AddHeader
<1> HIDE DEF chain
<1>3. IsMessage(m)
  BY <1>1, LastFacts
<1> HIDE DEF m
<1>4. Values(m.hdrs)
  BY <1>3 DEF IsMessage, Values
<1>5. parts \in Seq(Int) \ {<<>>}
  BY <1>4 DEF Values
<1> HIDE DEF parts
<1>6. Values(WithHeader(m.hdrs, name, parts))
  BY <1>4, <1>5, WithHeaderFacts
<1>7. <<>> \in Seq(Token)
  OBVIOUS
<1>8. IsMessage([m EXCEPT !.hdrs = WithHeader(m.hdrs, name, parts)])
  BY <1>3, <1>6, <1>7, MessageUpdates
<1> QED
  BY <1>1, <1>2, <1>8, ChainFacts

LEMMA AddToBodyFacts ==
  ASSUME IsChain(messages), messages # <<>>, NEW data \in Seq(Token)
  PROVE  IsChain(AddToBody(data)) /\ AddToBody(data) # <<>>
<1> DEFINE m == Last(messages)
           body == m.body \o data
<1>1. IsMessage(m)
  BY LastFacts
<1>2. AddToBody(data) = Append(Front(messages),
          [m EXCEPT !.body = body, !.hdrs = WithHeader(m.hdrs, "CL", <<Len(body)>>)])
  BY DEF AddToBody
<1> HIDE DEF m
<1>3. body \in Seq(Token)
  BY <1>1 DEF IsMessage
<1>4. <<Len(body)>> \in Seq(Int) \ {<<>>}
  BY <1>3
<1> HIDE DEF body
<1>5. Values(m.hdrs)
  BY <1>1 DEF IsMessage, Values
<1>6. Values(WithHeader(m.hdrs, "CL", <<Len(body)>>))
  BY <1>4, <1>5, WithHeaderFacts
<1>7. IsMessage([m EXCEPT !.body = body, !.hdrs = WithHeader(m.hdrs, "CL", <<Len(body)>>)])
  BY <1>1, <1>3, <1>6, MessageUpdates
<1> QED
  BY <1>2, <1>7, ChainFacts

\* Inflating bytes makes bytes.
LEMMA InflatedFacts ==
  ASSUME NEW data \in Seq(Token), CanInflate(data)
  PROVE  Inflated(data) \in Seq(Token)
<1>1. \A i \in DOMAIN data : [data[i] EXCEPT !.gz = FALSE] \in Token
  BY TokenFacts DEF CanInflate
<1>2. DOMAIN data = 1 .. Len(data) /\ Len(data) \in Nat
  OBVIOUS
<1> QED
  BY <1>1, <1>2 DEF Inflated

\* The length of the next body, when it is used.
LEMMA LengthFacts ==
  ASSUME IsChain(messages), messages # <<>>
  PROVE  Length \in Int
<1>1. IsMessage(Last(messages))
  BY LastFacts
<1>2. "CL" \in DOMAIN Last(messages).hdrs => Last(messages).hdrs["CL"][1] \in Int
  BY <1>1 DEF IsMessage
<1> QED
  BY <1>2 DEF Length

-----------------------------------------------------------------------------
(* The inductive invariant *)

Bodies == {"BODY", "BODY_DUMB", "BODY_LENGTH", "BODY_CHUNKED", "BODY_DONE"}
Behind == {"BODY_DONE", "BODY_LENGTH", "BODY_CHUNKED"}

\* One state to go on with, or one that BODY, or its failure, left behind.
Stacks ==
    /\ \/ stack = <<>>
       \/ \E s \in States \ {"START", "BODY"} : stack = <<s>>
       \/ \E s \in {"BODY", "FAILURE"}, r \in Behind : stack = <<s, r>>
    /\ hstack = <<>> \/ \E s \in HeaderStates : hstack = <<s>>
    /\ at = "idle" => TopOf(stack) # "BODY" /\ (TopOf(stack) = "FAILURE" => ret = "FAILURE")
    /\ at = "header" => stack = <<>>
    /\ at # "header" => TopOf(hstack) \notin {"VALUE", "HEADER_DONE", "DONE"}
    /\ ret \in NeedData \cup {"DONE", "FAILURE"}

\* What a state that is still to come finds.
Kept ==
    /\ TopOf(stack) # "BODY" => str = <<>> /\ cut = 0
    /\ \A i \in DOMAIN stack :
         /\ stack[i] \in Bodies => messages # <<>>
         /\ stack[i] = "BODY_LENGTH" => body_length > 0
         /\ stack[i] = "BODY_CHUNKED" => ~dechunk.zeroed /\ dechunk.left = <<>>
    /\ TopOf(hstack) = "VALUE" => buffer # <<>> /\ Head(buffer).t \in {"header", "fold"}

Fits == driver = "stream" => Len(buffer) <= BufferSize

IInv == TypeOK /\ Stacks /\ Kept /\ Fits

\* A turn of one of the loops comes closer to its end.
Advances ==
    {at, at'} \subseteq {"parse", "header"} =>
        \/ Uncut' < Uncut
        \/ Uncut' = Uncut /\ Distance' < Distance

\* Taking the top of a stack, and putting states on it.
LEMMA StackFacts ==
  ASSUME NEW s, NEW r, NEW u
  PROVE  /\ TopOf(<<>>) = "START" /\ Popped(<<>>) = <<>>
         /\ TopOf(<<s>>) = s /\ Popped(<<s>>) = <<>> /\ <<s>> # <<>>
         /\ TopOf(<<s, r>>) = s /\ Popped(<<s, r>>) = <<r>> /\ <<s, r>> # <<>> /\ <<s, r>> # <<u>>
         /\ <<>> \o <<>> = <<>> /\ <<s>> \o <<>> = <<s>> /\ <<s, r>> \o <<>> = <<s, r>>
         /\ <<s>> \o <<r>> = <<s, r>> /\ <<>> \o <<s>> = <<s>>
<1>1. <<s>> # <<>> /\ <<s, r>> # <<>> /\ <<s, r>> # <<u>>
  OBVIOUS
<1>2. Head(<<s>>) = s /\ Head(<<s, r>>) = s
  OBVIOUS
<1>3. Tail(<<s>>) = <<>>
  OBVIOUS
<1>4. Tail(<<s, r>>) = <<r>>
  OBVIOUS
<1>5. <<>> \o <<>> = <<>> /\ <<s>> \o <<>> = <<s>> /\ <<>> \o <<s>> = <<s>>
  OBVIOUS
<1>6. <<s>> \o <<r>> = <<s, r>>
  <2>1. <<s>> \in Seq({s, r}) /\ <<r>> \in Seq({s, r}) /\ <<s, r>> \in Seq({s, r})
    OBVIOUS
  <2>2. <<s>> \o <<r>> \in Seq({s, r}) /\ Len(<<s>> \o <<r>>) = 2
    BY <2>1
  <2>3. (<<s>> \o <<r>>)[1] = s /\ (<<s>> \o <<r>>)[2] = r
    BY <2>1
  <2>4. Len(<<s, r>>) = 2 /\ <<s, r>>[1] = s /\ <<s, r>>[2] = r
    OBVIOUS
  <2>5. \A i \in 1 .. 2 : (<<s>> \o <<r>>)[i] = <<s, r>>[i]
    BY <2>3, <2>4
  <2> QED
    BY <2>1, <2>2, <2>4, <2>5, SeqEqual
<1>7. <<s, r>> \o <<>> = <<s, r>>
  OBVIOUS
<1> QED
  BY <1>1, <1>2, <1>3, <1>4, <1>5, <1>6, <1>7 DEF TopOf, Popped

\* The invariant has the shape of the stacks in it.
LEMMA IInvShape == IInv => StackShape
<1> SUFFICES ASSUME IInv PROVE StackShape
  OBVIOUS
<1>0. Stacks
  BY DEF IInv
<1>1. Len(hstack) <= 1
  <2>1. CASE hstack = <<>>
    BY <2>1
  <2>2. CASE \E s \in HeaderStates : hstack = <<s>>
    BY <2>2
  <2> QED
    BY <1>0, <2>1, <2>2 DEF Stacks
<1>2. at = "idle" /\ ret # "FAILURE" => Len(stack) <= 1 /\ stack # <<"BODY">>
  <2>1. CASE stack = <<>>
    BY <2>1
  <2>2. CASE \E s \in States \ {"START", "BODY"} : stack = <<s>>
    BY <2>2
  <2>3. CASE \E s \in {"BODY", "FAILURE"}, r \in Behind : stack = <<s, r>>
    <3>0. PICK s \in {"BODY", "FAILURE"}, r \in Behind : stack = <<s, r>>
      BY <2>3
    <3>1. TopOf(stack) \in {"BODY", "FAILURE"}
      BY <3>0, StackFacts
    <3> QED
      BY <1>0, <3>1 DEF Stacks
  <2> QED
    BY <1>0, <2>1, <2>2, <2>3 DEF Stacks
<1>3. ASSUME NEW i \in DOMAIN stack, stack[i] = "BODY"
      PROVE  i = 1 /\ Len(stack) = 2 /\ stack[2] \in {"BODY_DONE", "BODY_LENGTH", "BODY_CHUNKED"}
  BY <1>0, <1>3 DEF Stacks, Behind
<1> QED
  BY <1>1, <1>2, <1>3 DEF StackShape

\* It holds before anything is parsed.
LEMMA InitIInv == Init => IInv
<1> SUFFICES ASSUME Init PROVE IInv
  OBVIOUS
<1>1. /\ driver \in Drivers /\ flags \subseteq Flags /\ inOrder \in BOOLEAN /\ wire \in Seq(Token)
  BY UsesAssumption DEF Init
<1>2. <<>> \in Seq(Token) /\ Len(<<>>) = 0 /\ 0 \in 0 .. Len(wire) /\ DOMAIN <<>> = {}
  BY <1>1
<1>3. IsChain(<<>>)
  BY DEF IsChain
<1>4. IsChain(messages)
  BY <1>3, NewMessage, ChainFacts DEF Init
<1>5. NoDechunk \in Decoder
  BY <1>2 DEF NoDechunk, Decoder
<1>6. TypeOK
  <2>1. <<>> \in Seq(States) /\ <<>> \in Seq(HeaderStates) /\ <<>> \in Seq(STRING) /\ <<>> \in Seq(Int)
    OBVIOUS
  <2>2. /\ buffer \in Seq(Token) /\ str \in Seq(Token) /\ stack \in Seq(States)
        /\ hstack \in Seq(HeaderStates) /\ key \in Seq(STRING) /\ Len(key) <= 1 /\ val \in Seq(Int)
        /\ cut \in 0 .. Len(buffer) /\ read \in 0 .. Len(wire)
    BY <1>2, <2>1 DEF Init
  <2>3. /\ body_length \in Nat /\ inflate \in BOOLEAN /\ dechunk \in Decoder
        /\ at = "idle" /\ ret \in States
    BY <1>5 DEF Init, States
  <2> QED
    BY <1>1, <1>4, <2>2, <2>3 DEF TypeOK
<1>7. Stacks
  BY StackFacts DEF Init, Stacks, NeedData
<1>8. Kept
  BY <1>2, StackFacts DEF Init, Kept
<1>9. Fits
  BY <1>2, BufferAssumption DEF Init, Fits
<1> QED
  BY <1>6, <1>7, <1>8, <1>9 DEF IInv

-----------------------------------------------------------------------------
(* The drivers *)

\* More data does not disturb it.
LEMMA GiveStep ==
  ASSUME IInv, NEW n \in Nat, Give(n), driver = "stream" => Len(buffer) + n <= BufferSize
  PROVE  IInv'
<1>1. /\ buffer \in Seq(Token) /\ wire \in Seq(Token) /\ read \in 0 .. Len(wire)
      /\ cut \in 0 .. Len(buffer)
  BY DEF IInv, TypeOK
<1>2. read + n <= Len(wire)
  BY DEF Give
<1>3. SubSeq(wire, read + 1, read + n) \in Seq(Token) /\ Len(SubSeq(wire, read + 1, read + n)) = n
  BY <1>1, <1>2
<1>4. buffer' \in Seq(Token) /\ Len(buffer') = Len(buffer) + n
  BY <1>1, <1>3, ConcatFacts DEF Give
<1>5. read' \in 0 .. Len(wire)
  BY <1>1, <1>2 DEF Give
<1>6. at' = "parse" /\ at = "idle"
  BY DEF Give
<1>7. TypeOK'
  BY <1>1, <1>4, <1>5 DEF IInv, TypeOK, Give, parser, input, IsChain, IsMessage
<1>8. Stacks' /\ Kept'
  BY <1>6, StackFacts DEF IInv, Stacks, Kept, Give, parser, input
<1>9. Fits'
  BY <1>4 DEF IInv, Fits, Give, input
<1> QED
  BY <1>7, <1>8, <1>9 DEF IInv

\* A step of a driver, which never is a turn of a loop.
LEMMA DriverStepIInv ==
  ASSUME IInv, DriverStep
  PROVE  IInv' /\ Advances
<1>1. Len(wire) \in Nat /\ read \in 0 .. Len(wire) /\ Len(buffer) \in Nat
  BY DEF IInv, TypeOK
<1>2. CASE \E n \in 1 .. (Len(wire) - read) : Push(n)
  <2>1. PICK n \in 1 .. (Len(wire) - read) : Push(n)
    BY <1>2
  <2>2. n \in Nat
    BY <1>1
  <2>3. IInv'
    BY <2>1, <2>2, GiveStep DEF Push
  <2> QED
    BY <2>1, <2>3 DEF Push, Give, Advances
<1>3. CASE ParseString
  <2>1. IInv'
    BY <1>1, <1>3, GiveStep DEF ParseString
  <2> QED
    BY <1>3, <2>1 DEF ParseString, Give, Advances
<1>4. CASE ReadStream
  <2>1. wire \in Seq(Token) /\ body_length \in Nat /\ Len(buffer) <= BufferSize
    BY <1>4 DEF IInv, TypeOK, Fits, ReadStream
  <2>2. Ahead \in Seq(Token) /\ Room \in Nat
    BY <1>1, <2>1, BufferAssumption, SeqFacts DEF Ahead, Room
  <2>3. \A k \in Nat : AtMost(k) \in 0 .. k
    BY <2>2 DEF AtMost
  <2>4. LineLength \in 0 .. Room
    <3> DEFINE I == {i \in 1 .. Len(Ahead) : IsLine(Ahead[i])}
               i == SelectInSeq(Ahead, IsLine)
    <3>1. i \in Nat
      <4>1. i = IF I # {} THEN Min(I) ELSE 0
        BY DEF SelectInSeq
      <4>2. I \subseteq Nat
        OBVIOUS
      <4> HIDE DEF I, i
      <4>3. I # {} => \E x \in I : \A y \in I : x <= y
        BY <4>2, LeastNumber
      <4>4. I # {} => Min(I) \in I
        BY <4>3 DEF Min
      <4> QED
        BY <4>1, <4>2, <4>4
    <3> DEFINE k == IF i = 0 \/ Room < i THEN Room ELSE i
    <3>2. k \in 0 .. Room
      BY <2>2, <3>1
    <3>3. LineLength = AtMost(k)
      BY DEF LineLength
    <3> HIDE DEF k
    <3> QED
      BY <2>2, <2>3, <3>2, <3>3
  <2>5. ret \in {"START", "HEADER", "BODY_DUMB", "BODY_LENGTH", "BODY_CHUNKED"}
    BY <1>4 DEF IInv, Stacks, NeedData, ReadStream
  <2>6. ReadLength \in 0 .. Room
    <3>1. CASE ret \in {"START", "HEADER", "BODY_CHUNKED"}
      BY <2>4, <3>1 DEF ReadLength
    <3>2. CASE ret = "BODY_DUMB"
      <4>1. ReadLength = AtMost(Room)
        BY <3>2 DEF ReadLength
      <4> QED
        BY <2>2, <2>3, <4>1
    <3>3. CASE ret = "BODY_LENGTH"
      <4> DEFINE k == IF body_length < Room THEN body_length ELSE Room
      <4>1. ReadLength = AtMost(k)
        BY <3>3 DEF ReadLength
      <4>2. k \in 0 .. Room
        BY <2>1, <2>2
      <4> HIDE DEF k
      <4> QED
        BY <2>2, <2>3, <4>1, <4>2
    <3> QED
      BY <2>5, <3>1, <3>2, <3>3
  <2>7. ReadLength \in Nat /\ Len(buffer) + ReadLength <= BufferSize
    BY <1>1, <2>2, <2>6, BufferAssumption DEF Room
  <2>8. Give(ReadLength)
    BY <1>4 DEF ReadStream
  <2>9. IInv'
    BY <2>7, <2>8, GiveStep
  <2> QED
    BY <2>8, <2>9 DEF Give, Advances
<1>5. CASE StreamReturns
  <2>1. IInv'
    BY <1>5 DEF StreamReturns, IInv, TypeOK, Stacks, Kept, Fits, parser, source, input, IsChain, IsMessage
  <2> QED
    BY <1>5, <2>1 DEF StreamReturns, Advances
<1> QED
  BY <1>2, <1>3, <1>4, <1>5 DEF DriverStep

-----------------------------------------------------------------------------
(* The header parser *)

\* While it runs, nothing of a body is pending.
LEMMA InHeader ==
  ASSUME IInv, at = "header"
  PROVE  /\ stack = <<>> /\ str = <<>> /\ cut = 0
         /\ Uncut = Len(buffer) /\ Len(buffer) \in Nat
         /\ TopOf(hstack) \in HeaderStates
         /\ Distance = [VALUE |-> 1, KEY |-> 2, HEADER_DONE |-> 3, VALUE_EX |-> 4, START |-> 5,
                        FAILURE |-> 5, DONE |-> 14][TopOf(hstack)]
         /\ Popped(hstack) = <<>>
<1>1. stack = <<>> /\ TopOf(stack) = "START"
  BY StackFacts DEF IInv, Stacks
<1>2. str = <<>> /\ cut = 0
  BY <1>1 DEF IInv, Kept
<1>3. Len(buffer) \in Nat
  BY DEF IInv, TypeOK
<1>4. TopOf(hstack) \in HeaderStates /\ Popped(hstack) = <<>>
  <2>1. CASE hstack = <<>>
    BY <2>1, StackFacts DEF HeaderStates
  <2>2. CASE \E s \in HeaderStates : hstack = <<s>>
    <3>1. PICK s \in HeaderStates : hstack = <<s>>
      BY <2>2
    <3> QED
      BY <3>1, StackFacts
  <2> QED
    BY <2>1, <2>2 DEF IInv, Stacks
<1> QED
  BY <1>1, <1>2, <1>3, <1>4 DEF Uncut, Distance

\* A turn that keeps to the header parser.
LEMMA HeaderStays ==
  ASSUME IInv, at = "header", NEW s \in HeaderStates, HeaderGoto(s), UNCHANGED others,
         buffer' \in Seq(Token), Len(buffer') <= Len(buffer),
         key' \in Seq(STRING), Len(key') <= 1, val' \in Seq(Int), IsChain(messages'),
         s = "VALUE" => buffer' # <<>> /\ Head(buffer').t \in {"header", "fold"}
  PROVE  /\ IInv'
         /\ Uncut' = Len(buffer')
         /\ TopOf(hstack)' = s
<1>1. hstack' = <<s>> /\ at' = "header" /\ stack' = <<>> /\ ret' = ret /\ cut' = 0 /\ str' = <<>>
  BY InHeader, StackFacts DEF HeaderGoto, others
<1>2. <<s>> \in Seq(HeaderStates) /\ DOMAIN <<>> = {} /\ cut' \in 0 .. Len(buffer')
  BY <1>1
<1>3. TypeOK'
  BY <1>1, <1>2 DEF IInv, TypeOK, others, source, input
<1>4. Stacks'
  BY <1>1, StackFacts DEF IInv, Stacks
<1>5. Kept'
  BY <1>1, <1>2, StackFacts DEF Kept
<1>6. Fits'
  <2>1. Len(buffer) \in Nat /\ Len(buffer') \in Nat
    BY DEF IInv, TypeOK
  <2> QED
    BY <2>1, BufferAssumption DEF IInv, Fits, others, source, input
<1>7. Uncut' = Len(buffer')
  BY <1>1, StackFacts DEF Uncut
<1> QED
  BY <1>1, <1>3, <1>4, <1>5, <1>6, <1>7, StackFacts DEF IInv

\* A turn with which it returns.
LEMMA HeaderLeaves ==
  ASSUME IInv, at = "header", UNCHANGED <<key, messages, others>>,
         buffer' \in Seq(Token), Len(buffer') <= Len(buffer), val' \in Seq(Int),
         NEW state \in HeaderStates, NEW states, HeaderReturns(states, state),
         \/ states = <<>>
         \/ \E s \in HeaderStates \ {"VALUE", "HEADER_DONE", "DONE"} : states = <<s>>
  PROVE  /\ IInv'
         /\ at' = "parse" =>
              /\ Uncut' = Len(buffer')
              /\ IF state = "DONE" THEN Distance' = 13 ELSE Distance' = 0
<1> DEFINE Form == \/ state = "FAILURE" /\ at' = "idle" /\ ret' = "FAILURE" /\ stack' = <<>>
                   \/ state = "DONE" /\ at' = "parse" /\ ret' = ret /\ stack' = <<"HEADER_DONE">>
                   \/ /\ state # "DONE" /\ stack' = <<"HEADER">>
                      /\ \/ at' = "idle" /\ ret' = "HEADER"
                         \/ at' = "parse" /\ ret' = ret /\ buffer' = <<>>
<1>1. stack = <<>> /\ str = <<>> /\ cut = 0 /\ Uncut = Len(buffer)
  BY InHeader
<1>2. Form
  BY <1>1, StackFacts DEF HeaderReturns
<1>3. hstack' = states
  BY DEF HeaderReturns
<1>4. TopOf(hstack)' \notin {"VALUE", "HEADER_DONE", "DONE"} /\ hstack' \in Seq(HeaderStates)
      /\ (hstack' = <<>> \/ \E s \in HeaderStates : hstack' = <<s>>)
  <2>1. CASE states = <<>>
    <3>1. hstack' = <<>> /\ <<>> \in Seq(HeaderStates)
      BY <1>3, <2>1
    <3>2. TopOf(hstack)' = "START"
      BY <3>1, StackFacts
    <3> QED
      BY <3>1, <3>2
  <2>2. CASE \E s \in HeaderStates \ {"VALUE", "HEADER_DONE", "DONE"} : states = <<s>>
    <3>1. PICK s \in HeaderStates \ {"VALUE", "HEADER_DONE", "DONE"} : states = <<s>>
      BY <2>2
    <3>2. hstack' = <<s>> /\ <<s>> \in Seq(HeaderStates)
      BY <1>3, <3>1
    <3>3. TopOf(hstack)' = s
      BY <3>2, StackFacts
    <3> QED
      BY <3>2, <3>3
  <2> QED
    BY <2>1, <2>2
<1>5. /\ stack' \in Seq(States) /\ at' \in {"idle", "parse"} /\ TopOf(stack)' \notin {"BODY", "FAILURE"}
      /\ ret' \in States /\ ret' \in NeedData \cup {"DONE", "FAILURE"}
      /\ \A i \in DOMAIN stack' : stack'[i] \in {"HEADER", "HEADER_DONE"}
      /\ (stack' = <<>> \/ \E s \in States \ {"START", "BODY"} : stack' = <<s>>)
  <2>1. ret \in States /\ ret \in NeedData \cup {"DONE", "FAILURE"}
    BY DEF IInv, Stacks, TypeOK
  <2>2. stack' \in {<<>>, <<"HEADER">>, <<"HEADER_DONE">>}
    BY <1>2
  <2>3. at' \in {"idle", "parse"} /\ ret' \in {ret, "FAILURE", "HEADER"}
    BY <1>2
  <2>4. TopOf(stack)' \notin {"BODY", "FAILURE"}
    BY <2>2, StackFacts
  <2>5. stack' \in Seq(States) /\ \A i \in DOMAIN stack' : stack'[i] \in {"HEADER", "HEADER_DONE"}
    <3>1. \A s \in {"HEADER", "HEADER_DONE"} : <<s>> \in Seq(States) /\ DOMAIN <<s>> = {1} /\ <<s>>[1] = s
      BY DEF States
    <3>2. <<>> \in Seq(States) /\ DOMAIN <<>> = {}
      OBVIOUS
    <3> QED
      BY <2>2, <3>1, <3>2
  <2> HIDE DEF Form
  <2> QED
    BY <2>1, <2>2, <2>3, <2>4, <2>5 DEF States, NeedData
<1>6. TypeOK'
  <2>1. cut' \in 0 .. Len(buffer')
    BY <1>1 DEF others
  <2> QED
    BY <1>4, <1>5, <2>1 DEF IInv, TypeOK, others, source, input
<1>7. Stacks'
  BY <1>4, <1>5 DEF Stacks
<1>8. Kept'
  BY <1>1, <1>4, <1>5 DEF Kept, others, Bodies
<1>9. Fits'
  <2>1. Len(buffer) \in Nat /\ Len(buffer') \in Nat
    BY DEF IInv, TypeOK
  <2> QED
    BY <2>1, BufferAssumption DEF IInv, Fits, others, source, input
<1>10. ASSUME at' = "parse"
       PROVE  /\ Uncut' = Len(buffer')
              /\ IF state = "DONE" THEN Distance' = 13 ELSE Distance' = 0
  <2>1. Uncut' = Len(buffer')
    BY <1>5 DEF Uncut
  <2>2. CASE state = "DONE"
    <3>1. TopOf(stack)' = "HEADER_DONE"
      BY <1>2, <2>2, <1>10, StackFacts
    <3> QED
      BY <2>1, <2>2, <3>1, <1>10 DEF Distance, NeedData
  <2>3. CASE state # "DONE"
    <3>1. stack' = <<"HEADER">> /\ buffer' = <<>>
      BY <1>2, <2>3, <1>10
    <3>2. TopOf(stack)' = "HEADER"
      BY <3>1, StackFacts
    <3> QED
      BY <2>1, <2>3, <3>1, <3>2, <1>10 DEF Distance, NeedData
  <2> QED
    BY <2>2, <2>3
<1> QED
  BY <1>6, <1>7, <1>8, <1>9, <1>10 DEF IInv

\* A turn of the loop of php_http_header_parser_parse.
LEMMA HeaderStepIInv ==
  ASSUME IInv, HeaderStep
  PROVE  IInv' /\ Advances
<1>1. at = "header"
  BY DEF HeaderStep, HeaderOutOfData, HeaderStillFailing, HeaderStart, HeadEnds, InfoLine, HeaderKey,
         NoHeader, HeaderValue, HeaderValueEx, HeaderDone, HeadDone, HeaderTurn
<1>2. /\ Uncut = Len(buffer) /\ Len(buffer) \in Nat /\ TopOf(hstack) \in HeaderStates
      /\ Distance = [VALUE |-> 1, KEY |-> 2, HEADER_DONE |-> 3, VALUE_EX |-> 4, START |-> 5,
                     FAILURE |-> 5, DONE |-> 14][TopOf(hstack)]
      /\ Popped(hstack) = <<>>
      /\ hstack = <<>> \/ \E s \in HeaderStates : hstack = <<s>>
  BY <1>1, InHeader DEF IInv, Stacks
<1>3. /\ buffer \in Seq(Token) /\ key \in Seq(STRING) /\ Len(key) <= 1 /\ val \in Seq(Int)
      /\ IsChain(messages)
  BY DEF IInv, TypeOK
<1>4. ASSUME buffer # <<>>
      PROVE  /\ Head(buffer) \in Token /\ Tail(buffer) \in Seq(Token)
             /\ Len(Tail(buffer)) = Len(buffer) - 1 /\ Len(Tail(buffer)) <= Len(buffer)
  BY <1>3, <1>4
\* One that cuts data, or comes closer.
<1>5. ASSUME NEW s \in HeaderStates, HeaderGoto(s), Uncut' = Len(buffer'), TopOf(hstack)' = s,
             \/ Len(buffer') < Len(buffer)
             \/ /\ Len(buffer') = Len(buffer)
                /\ [VALUE |-> 1, KEY |-> 2, HEADER_DONE |-> 3, VALUE_EX |-> 4, START |-> 5,
                    FAILURE |-> 5, DONE |-> 14][s] < Distance
      PROVE  Advances
  <2>1. at' = "header"
    BY <1>1, <1>5 DEF HeaderGoto
  <2>2. Distance' = [VALUE |-> 1, KEY |-> 2, HEADER_DONE |-> 3, VALUE_EX |-> 4, START |-> 5,
                    FAILURE |-> 5, DONE |-> 14][s]
    BY <1>5, <2>1 DEF Distance
  <2> QED
    BY <1>2, <1>5, <2>2 DEF Advances
<1>6. CASE HeaderOutOfData
  <2>1. TopOf(hstack) \in HeaderNeedData /\ HeaderReturns(hstack, TopOf(hstack))
    BY <1>6 DEF HeaderOutOfData
  <2>2. TopOf(hstack) # "VALUE"
    BY <1>6 DEF HeaderOutOfData, IInv, Kept
  <2>3. \/ hstack = <<>>
        \/ \E s \in HeaderStates \ {"VALUE", "HEADER_DONE", "DONE"} : hstack = <<s>>
    BY <1>2, <2>1, <2>2, StackFacts, ZenonT(60) DEF HeaderNeedData
  <2>6. IInv' /\ (at' = "parse" => Uncut' = Uncut /\ Distance' = 0)
    BY <1>1, <1>2, <1>3, <1>6, <2>1, <2>3, HeaderLeaves DEF HeaderOutOfData, HeaderNeedData
  <2>4. Distance > 0
    BY <1>2, <2>1 DEF HeaderNeedData
  <2>5. at' # "header"
    BY <2>1 DEF HeaderReturns
  <2> QED
    BY <2>4, <2>5, <2>6 DEF Advances
<1>7. CASE HeaderStillFailing
  <2>1. TopOf(hstack) = "FAILURE" /\ HeaderReturns(hstack, "FAILURE")
    BY <1>7 DEF HeaderStillFailing, HeaderTurn
  <2>2. \/ hstack = <<>>
        \/ \E s \in HeaderStates \ {"VALUE", "HEADER_DONE", "DONE"} : hstack = <<s>>
    BY <1>2, <2>1, StackFacts, ZenonT(60)
  <2>3. IInv'
    BY <1>1, <1>2, <1>3, <1>7, <2>1, <2>2, HeaderLeaves DEF HeaderStillFailing, HeaderStates
  <2>4. at' = "idle"
    BY <2>1 DEF HeaderReturns
  <2> QED
    BY <2>3, <2>4 DEF Advances
<1>8. CASE HeaderStart
  <2>1. buffer' \in Seq(Token) /\ Len(buffer') <= Len(buffer) /\ Len(buffer') \in Nat
    BY <1>3, <1>8, BlankFacts DEF HeaderStart
  <2>2. HeaderGoto("KEY") /\ Distance = 5 /\ "KEY" \in HeaderStates
    BY <1>2, <1>8 DEF HeaderStart, HeaderTurn, HeaderStates
  <2>3. IInv' /\ Uncut' = Len(buffer') /\ TopOf(hstack)' = "KEY"
    BY <1>1, <1>3, <1>8, <2>1, <2>2, HeaderStays DEF HeaderStart
  <2> QED
    BY <1>2, <1>5, <2>1, <2>2, <2>3
<1>9. CASE HeadEnds
  <2>1. buffer # <<>> /\ buffer' = Tail(buffer) /\ HeaderGoto("DONE") /\ "DONE" \in HeaderStates
    BY <1>9 DEF HeadEnds, Is, HeaderStates
  <2>2. IInv' /\ Uncut' = Len(buffer') /\ TopOf(hstack)' = "DONE"
    BY <1>1, <1>3, <1>4, <1>9, <2>1, HeaderStays DEF HeadEnds
  <2> QED
    BY <1>2, <1>4, <1>5, <2>1, <2>2
<1>10. CASE InfoLine
  <2>1. /\ buffer # <<>> /\ buffer' = Tail(buffer) /\ HeaderGoto("HEADER_DONE")
        /\ "HEADER_DONE" \in HeaderStates
    BY <1>10 DEF InfoLine, Is, HeaderStates
  <2>2. IsChain(messages')
    BY <1>3, <1>10, WithInfoFacts DEF InfoLine
  <2>3. IInv' /\ Uncut' = Len(buffer') /\ TopOf(hstack)' = "HEADER_DONE"
    BY <1>1, <1>3, <1>4, <1>10, <2>1, <2>2, HeaderStays DEF InfoLine
  <2> QED
    BY <1>2, <1>4, <1>5, <2>1, <2>3
<1>11. CASE HeaderKey
  <2>1. /\ buffer # <<>> /\ HeaderGoto("VALUE") /\ Head(buffer).t = "header"
        /\ "VALUE" \in HeaderStates /\ Distance = 2
    BY <1>2, <1>11 DEF HeaderKey, HeaderTurn, Is, HeaderStates
  <2>2. key' \in Seq(STRING) /\ Len(key') <= 1
    <3>1. Head(buffer).name \in STRING
      BY <1>4, <2>1, TokenFacts
    <3> QED
      BY <1>11, <3>1 DEF HeaderKey
  <2>3. IInv' /\ Uncut' = Len(buffer') /\ TopOf(hstack)' = "VALUE"
    BY <1>1, <1>2, <1>3, <1>11, <2>1, <2>2, HeaderStays DEF HeaderKey
  <2> QED
    BY <1>2, <1>5, <1>11, <2>1, <2>3 DEF HeaderKey
<1>12. CASE NoHeader
  <2>1. HeaderReturns(<<"FAILURE">> \o Popped(hstack), "FAILURE")
    BY <1>12 DEF NoHeader
  <2>2. <<"FAILURE">> \o Popped(hstack) = <<"FAILURE">>
    BY <1>2, StackFacts
  <2>3. IInv'
    BY <1>1, <1>2, <1>3, <1>12, <2>1, <2>2, HeaderLeaves DEF NoHeader, HeaderStates
  <2>4. at' = "idle"
    BY <2>1 DEF HeaderReturns
  <2> QED
    BY <2>3, <2>4 DEF Advances
<1>13. CASE HeaderValue
  <2>1. /\ buffer # <<>> /\ buffer' = Tail(buffer) /\ TopOf(hstack) = "VALUE"
        /\ UNCHANGED <<key, messages, others>>
    BY <1>13 DEF HeaderValue, HeaderTurn, HeaderNeedData
  <2>2. val' \in Seq(Int)
    <3>1. Head(buffer).value \in Seq(Int)
      BY <1>4, <2>1, TokenFacts DEF IInv, Kept
    <3> QED
      BY <1>3, <1>13, <3>1 DEF HeaderValue
  <2>3. buffer' \in Seq(Token) /\ Len(buffer') < Len(buffer) /\ Len(buffer') <= Len(buffer)
    BY <1>2, <1>4, <2>1
  <2>4. ASSUME NEW s \in {"VALUE", "HEADER_DONE"}, HeaderGoto(s),
               s = "VALUE" => buffer' # <<>> /\ Head(buffer').t = "fold"
        PROVE  IInv' /\ Advances
    <3>1. s \in HeaderStates
      BY DEF HeaderStates
    <3>2. IInv' /\ Uncut' = Len(buffer') /\ TopOf(hstack)' = s
      BY <1>1, <1>3, <2>1, <2>2, <2>3, <2>4, <3>1, HeaderStays
    <3> QED
      BY <1>5, <2>3, <2>4, <3>1, <3>2
  <2>5. CASE HeaderReturns(<<"VALUE_EX">> \o Popped(hstack), "VALUE_EX") /\ buffer' = <<>>
    <3>1. <<"VALUE_EX">> \o Popped(hstack) = <<"VALUE_EX">> /\ "VALUE_EX" \in HeaderStates
      BY <1>2, StackFacts DEF HeaderStates
    <3>2. IInv' /\ (at' = "parse" => Uncut' = Len(buffer'))
      BY <1>1, <2>1, <2>2, <2>3, <2>5, <3>1, HeaderLeaves
    <3>3. at' # "header"
      BY <2>5 DEF HeaderReturns
    <3> QED
      BY <1>2, <2>3, <3>2, <3>3 DEF Advances
  <2>6. CASE buffer' # <<>>
    <3>1. HeaderGoto(IF Head(buffer').t = "fold" THEN "VALUE" ELSE "HEADER_DONE")
      BY <1>13, <2>6 DEF HeaderValue
    <3> QED
      BY <2>4, <2>6, <3>1
  <2>7. CASE buffer' = <<>> /\ "CLEANUP" \in flags
    <3>1. HeaderGoto("HEADER_DONE")
      BY <1>13, <2>7 DEF HeaderValue
    <3> QED
      BY <2>4, <3>1
  <2>8. CASE buffer' = <<>> /\ "CLEANUP" \notin flags
    <3>1. HeaderReturns(<<"VALUE_EX">> \o Popped(hstack), "VALUE_EX")
      BY <1>13, <2>8 DEF HeaderValue
    <3> QED
      BY <2>5, <2>8, <3>1
  <2> QED
    BY <2>6, <2>7, <2>8
<1>14. CASE HeaderValueEx
  <2>1. PICK s \in {"VALUE", "HEADER_DONE"} :
          HeaderGoto(s) /\ (s = "VALUE" => buffer # <<>> /\ Head(buffer).t = "fold")
    BY <1>14 DEF HeaderValueEx, Is
  <2>2. s \in HeaderStates /\ Distance = 4 /\ UNCHANGED <<buffer, key, val, messages, others>>
    BY <1>2, <1>14 DEF HeaderValueEx, HeaderTurn, HeaderStates
  <2>3. IInv' /\ Uncut' = Len(buffer') /\ TopOf(hstack)' = s
    BY <1>1, <1>2, <1>3, <2>1, <2>2, HeaderStays
  <2> QED
    BY <1>2, <1>5, <2>1, <2>2, <2>3
<1>15. CASE HeaderDone
  <2>1. /\ HeaderGoto("KEY") /\ Distance = 3 /\ "KEY" \in HeaderStates /\ buffer' = buffer
        /\ key' = <<>> /\ val' = <<>> /\ UNCHANGED others
    BY <1>2, <1>15 DEF HeaderDone, HeaderTurn, HeaderStates
  <2>2. IsChain(messages')
    BY <1>3, <1>15, AddHeaderFacts DEF HeaderDone
  <2>3. <<>> \in Seq(STRING) /\ <<>> \in Seq(Int) /\ Len(<<>>) = 0
    OBVIOUS
  <2>4. IInv' /\ Uncut' = Len(buffer') /\ TopOf(hstack)' = "KEY"
    BY <1>1, <1>2, <1>3, <2>1, <2>2, <2>3, HeaderStays
  <2> QED
    BY <1>2, <1>5, <2>1, <2>4
<1>16. CASE HeadDone
  <2>1. /\ HeaderReturns(Popped(hstack), "DONE") /\ Popped(hstack) = <<>> /\ Distance = 14
        /\ "DONE" \in HeaderStates
    BY <1>2, <1>16 DEF HeadDone, HeaderTurn, HeaderStates
  <2>2. IInv' /\ (at' = "parse" => Uncut' = Uncut /\ Distance' = 13)
    BY <1>1, <1>2, <1>3, <1>16, <2>1, HeaderLeaves DEF HeadDone
  <2>3. at' = "parse"
    BY <2>1 DEF HeaderReturns
  <2> QED
    BY <2>1, <2>2, <2>3 DEF Advances
<1> QED
  BY <1>6, <1>7, <1>8, <1>9, <1>10, <1>11, <1>12, <1>13, <1>14, <1>15, <1>16 DEF HeaderStep

-----------------------------------------------------------------------------
(* The loop of php_http_message_parser_parse *)

DistanceAt == [FAILURE |-> 0, HEADER |-> 6, START |-> 7, DONE |-> 8, BODY_DONE |-> 9,
               BODY_LENGTH |-> 11, BODY_CHUNKED |-> 11, BODY_DUMB |-> 11, BODY |-> 12,
               HEADER_DONE |-> 13]

\* At a turn: what is left below the top, and how far it is.
LEMMA AtTurn ==
  ASSUME IInv, NEW state \in States, Turn(state)
  PROVE  /\ Distance = DistanceAt[state]
         /\ Uncut = Len(buffer) - cut /\ Len(buffer) \in Nat /\ cut \in 0 .. Len(buffer)
         /\ state # "BODY" => cut = 0 /\ str = <<>>
         /\ state \notin {"BODY", "FAILURE"} => Popped(stack) = <<>>
         /\ state = "BODY" => \E r \in Behind : stack = <<"BODY", r>> /\ Popped(stack) = <<r>>
         /\ state = "FAILURE" => Popped(stack) = <<>> \/ \E r \in Behind : Popped(stack) = <<r>>
         /\ state # "START" => stack # <<>> /\ stack[1] = state
<1>1. at = "parse" /\ TopOf(stack) = state /\ (buffer # <<>> \/ state \notin NeedData)
  BY DEF Turn
<1>2. Len(buffer) \in Nat /\ cut \in 0 .. Len(buffer)
  BY DEF IInv, TypeOK
<1>3. state # "BODY" => cut = 0 /\ str = <<>>
  BY <1>1 DEF IInv, Kept
<1>4. Uncut = Len(buffer) - cut
  BY <1>1, <1>2, <1>3 DEF Uncut
<1>5. Distance = DistanceAt[state]
  BY <1>1 DEF Distance, DistanceAt
<1>6. CASE stack = <<>>
  BY <1>1, <1>2, <1>3, <1>4, <1>5, <1>6, StackFacts
<1>7. CASE \E s \in States \ {"START", "BODY"} : stack = <<s>>
  <2>1. PICK s \in States \ {"START", "BODY"} : stack = <<s>>
    BY <1>7
  <2>2. s = state /\ Popped(stack) = <<>> /\ stack # <<>> /\ stack[1] = s
    BY <1>1, <2>1, StackFacts
  <2> QED
    BY <1>1, <1>2, <1>3, <1>4, <1>5, <2>1, <2>2
<1>8. CASE \E s \in {"BODY", "FAILURE"}, r \in Behind : stack = <<s, r>>
  <2>1. PICK s \in {"BODY", "FAILURE"}, r \in Behind : stack = <<s, r>>
    BY <1>8
  <2>2. s = state /\ Popped(stack) = <<r>> /\ stack # <<>> /\ stack[1] = s
    BY <1>1, <2>1, StackFacts
  <2> QED
    BY <1>1, <1>2, <1>3, <1>4, <1>5, <2>1, <2>2
<1> QED
  BY <1>6, <1>7, <1>8 DEF IInv, Stacks

\* A turn to a stack of at most one state, with nothing of a body pending.
LEMMA ToOne ==
  ASSUME IInv, at = "parse", UNCHANGED <<hstack, key, val, source>>,
         buffer' \in Seq(Token), Len(buffer') <= Len(buffer), str' = <<>>, cut' = 0,
         IsChain(messages'), inflate' \in BOOLEAN, dechunk' \in Decoder, body_length' \in Nat,
         NEW states, stack' = states,
         states = <<>> \/ \E s \in States \ {"START", "BODY"} : states = <<s>>,
         at' \in {"parse", "idle"}, ret' \in {ret, "DONE", "FAILURE"},
         TopOf(states) \in Bodies => messages' # <<>>,
         TopOf(states) = "BODY_LENGTH" => body_length' > 0,
         TopOf(states) = "BODY_CHUNKED" => ~dechunk'.zeroed /\ dechunk'.left = <<>>,
         at' = "idle" /\ TopOf(states) = "FAILURE" => ret' = "FAILURE"
  PROVE  /\ IInv'
         /\ at' = "parse" => /\ Uncut' = Len(buffer')
                             /\ Distance' = IF buffer' = <<>> /\ TopOf(states) \in NeedData THEN 0
                                            ELSE DistanceAt[TopOf(states)]
<1>1. /\ ret \in States /\ ret \in NeedData \cup {"DONE", "FAILURE"}
      /\ TopOf(hstack) \notin {"VALUE", "HEADER_DONE", "DONE"}
      /\ hstack = <<>> \/ \E s \in HeaderStates : hstack = <<s>>
      /\ Len(buffer) \in Nat
  BY DEF IInv, Stacks, TypeOK
<1>2. /\ stack' \in Seq(States) /\ TopOf(stack)' # "BODY" /\ TopOf(stack)' = TopOf(states)
      /\ \A i \in DOMAIN stack' : stack'[i] = TopOf(states)
  <2>1. CASE states = <<>>
    <3>1. stack' = <<>> /\ <<>> \in Seq(States) /\ DOMAIN <<>> = {}
      BY <2>1
    <3>2. TopOf(stack)' = "START"
      BY <3>1, StackFacts
    <3> QED
      BY <3>1, <3>2, <2>1, StackFacts
  <2>2. CASE \E s \in States \ {"START", "BODY"} : states = <<s>>
    <3>1. PICK s \in States \ {"START", "BODY"} : states = <<s>>
      BY <2>2
    <3>2. <<s>> \in Seq(States) /\ DOMAIN <<s>> = {1} /\ <<s>>[1] = s
      OBVIOUS
    <3>3. TopOf(<<s>>) = s /\ TopOf(stack)' = s
      BY <3>1, StackFacts
    <3> QED
      BY <3>1, <3>2, <3>3
  <2> QED
    BY <2>1, <2>2
<1>3. ret' \in States /\ ret' \in NeedData \cup {"DONE", "FAILURE"}
  BY <1>1 DEF States
<1>4. TypeOK'
  <2>1. <<>> \in Seq(Token) /\ 0 \in 0 .. Len(buffer')
    OBVIOUS
  <2> QED
    BY <1>2, <1>3, <2>1 DEF IInv, TypeOK, source, input
<1>5. Stacks'
  BY <1>1, <1>2, <1>3 DEF Stacks
<1>6. Kept'
  BY <1>1, <1>2 DEF Kept
<1>7. Fits'
  <2>1. Len(buffer') \in Nat
    OBVIOUS
  <2> QED
    BY <1>1, <2>1, BufferAssumption DEF IInv, Fits, source, input
<1>8. ASSUME at' = "parse"
      PROVE  /\ Uncut' = Len(buffer')
             /\ Distance' = IF buffer' = <<>> /\ TopOf(states) \in NeedData THEN 0
                            ELSE DistanceAt[TopOf(states)]
  <2>1. Uncut' = Len(buffer')
    BY <1>2 DEF Uncut
  <2>2. at' # "header"
    BY <1>8
  <2>3. Distance' = IF buffer' = <<>> /\ TopOf(states) \in NeedData THEN 0
                            ELSE DistanceAt[TopOf(states)]
    BY <1>2, <2>2 DEF Distance, DistanceAt
  <2> QED
    BY <2>1, <2>3
<1> QED
  BY <1>4, <1>5, <1>6, <1>7, <1>8 DEF IInv

\* A turn that has found data of a body.
LEMMA ToBody ==
  ASSUME IInv, at = "parse", UNCHANGED <<buffer, hstack, key, val, messages, source>>,
         str' \in Seq(Token), cut' \in 1 .. Len(buffer), cut = 0,
         inflate' \in BOOLEAN, dechunk' \in Decoder, body_length' \in Nat,
         NEW r \in Behind, stack' = <<"BODY", r>>, at' = "parse", ret' = ret,
         messages # <<>>,
         r = "BODY_LENGTH" => body_length' > 0,
         r = "BODY_CHUNKED" => ~dechunk'.zeroed /\ dechunk'.left = <<>>
  PROVE  IInv' /\ Uncut' < Len(buffer)
<1>1. /\ ret \in States /\ ret \in NeedData \cup {"DONE", "FAILURE"}
      /\ TopOf(hstack) \notin {"VALUE", "HEADER_DONE", "DONE"}
      /\ hstack = <<>> \/ \E s \in HeaderStates : hstack = <<s>>
      /\ Len(buffer) \in Nat
  BY DEF IInv, Stacks, TypeOK
<1>2. stack' \in Seq(States) /\ DOMAIN stack' = {1, 2} /\ stack'[1] = "BODY" /\ stack'[2] = r
  BY DEF Behind, States
<1>3. TopOf(stack)' = "BODY"
  BY StackFacts
<1>4. TypeOK'
  <2>1. cut' \in 0 .. Len(buffer')
    BY <1>1
  <2> QED
    BY <1>1, <1>2, <2>1 DEF IInv, TypeOK, source, input
<1>5. Stacks'
  BY <1>1, <1>3 DEF Stacks
<1>6. Kept'
  BY <1>1, <1>2, <1>3 DEF Kept, Behind
<1>7. Fits'
  BY DEF IInv, Fits, source, input
<1>8. Uncut' < Len(buffer)
  BY <1>1, <1>3 DEF Uncut
<1> QED
  BY <1>4, <1>5, <1>6, <1>7, <1>8 DEF IInv

\* The headers when the head is complete.
LEMMA HeadersOfBody ==
  ASSUME IsChain(messages), messages # <<>>
  PROVE  LET names == {"TE", "CL", "CR"} \cup (IF Compressed THEN {"CE"} ELSE {})
             chain == Append(Front(messages),
                   [Last(messages) EXCEPT !.hdrs = WithHeader(Moved(@, names), "CL", <<0>>)])
         IN  IsChain(chain) /\ chain # <<>>
<1> DEFINE names == {"TE", "CL", "CR"} \cup (IF Compressed THEN {"CE"} ELSE {})
           m == Last(messages)
           h == WithHeader(Moved(m.hdrs, names), "CL", <<0>>)
<1>1. IsMessage(m)
  BY LastFacts
<1>2. names \in SUBSET {"TE", "CL", "CR", "CE"}
  OBVIOUS
<1> HIDE DEF names, m
<1>3. Values(m.hdrs)
  BY <1>1 DEF IsMessage, Values
<1>4. Values(h)
  <2>1. <<0>> \in Seq(Int) \ {<<>>}
    OBVIOUS
  <2> QED
    BY <1>2, <1>3, <2>1, MovedFacts, WithHeaderFacts
<1>5. IsMessage([m EXCEPT !.hdrs = h])
  <2>1. <<>> \in Seq(Token)
    OBVIOUS
  <2> HIDE DEF h
  <2> QED
    BY <1>1, <1>4, <2>1, MessageUpdates
<1> QED
  BY <1>5, ChainFacts DEF m, names

\* Where the body is parsed, and the length it has there.
LEMMA BodyStateFacts ==
  ASSUME IsChain(messages), messages # <<>>
  PROVE  /\ BodyState \in {"DONE", "BODY_DUMB", "BODY_CHUNKED", "BODY_DONE", "BODY_LENGTH"}
         /\ BodyState = "BODY_LENGTH" => Length \in Nat /\ Length > 0
         /\ BodyState = "BODY_DONE" => Length = 0
<1>1. Length \in Int
  BY LengthFacts
<1>2. ~("DUMB_BODIES" \in flags /\ Chunked)
  BY DEF Chunked
<1>3. "DUMB_BODIES" \in flags \/ Chunked => Length = -1
  BY DEF Length
<1> QED
  BY <1>1, <1>2, <1>3 DEF BodyState

\* A turn of the loop of php_http_message_parser_parse.
LEMMA ParseStepIInv ==
  ASSUME IInv, ParseStep
  PROVE  IInv' /\ Advances
<1>1. /\ buffer \in Seq(Token) /\ Len(buffer) \in Nat /\ IsChain(messages) /\ ret \in States
      /\ inflate \in BOOLEAN /\ dechunk \in Decoder /\ body_length \in Nat /\ str \in Seq(Token)
  BY DEF IInv, TypeOK
<1>2. buffer = <<>> <=> Len(buffer) = 0
  BY <1>1
<1>3. /\ TopOf(<<>>) = "START" /\ \A s : TopOf(<<s>>) = s /\ <<>> \o <<s>> = <<s>> /\ <<s>> \o <<>> = <<s>>
      /\ <<>> \o <<>> = <<>>
  BY StackFacts
<1>4. CASE OutOfData
  <2>1. at' = "idle" /\ ret' \in NeedData
    BY <1>4 DEF OutOfData
  <2>2. TypeOK' /\ Kept' /\ Fits'
    BY <1>4, <2>1 DEF OutOfData, IInv, TypeOK, Kept, Fits, parser, source, input, NeedData, States, IsChain, IsMessage
  <2>3. Stacks'
    BY <1>4, <2>1 DEF OutOfData, IInv, Stacks, parser, source, input, NeedData
  <2> QED
    BY <2>1, <2>2, <2>3 DEF IInv, Advances
<1>5. CASE StillFailing
  <2>1. Turn("FAILURE") /\ "FAILURE" \in States
    BY <1>5 DEF StillFailing, States
  <2>2. stack' = <<"FAILURE">> \o Popped(stack) /\ at' = "idle" /\ ret' = "FAILURE"
        /\ UNCHANGED <<buffer, parser, messages, str, cut, source>>
    BY <1>5 DEF StillFailing, Return
  <2>3. TopOf(stack) = "FAILURE" /\ at = "parse"
    BY <2>1 DEF Turn
  <2>4. stack' = stack
    <3>1. CASE stack = <<>>
      BY <2>3, <3>1, StackFacts
    <3>2. CASE \E s \in States \ {"START", "BODY"} : stack = <<s>>
      <4>1. PICK s \in States \ {"START", "BODY"} : stack = <<s>>
        BY <3>2
      <4>2. s = "FAILURE" /\ Popped(stack) = <<>>
        BY <2>3, <4>1, StackFacts
      <4> QED
        BY <1>3, <2>2, <4>1, <4>2
    <3>3. CASE \E s \in {"BODY", "FAILURE"}, r \in Behind : stack = <<s, r>>
      <4>1. PICK s \in {"BODY", "FAILURE"}, r \in Behind : stack = <<s, r>>
        BY <3>3
      <4>2. s = "FAILURE" /\ Popped(stack) = <<r>>
        BY <2>3, <4>1, StackFacts
      <4>3. <<"FAILURE">> \o <<r>> = <<"FAILURE", r>>
        BY StackFacts
      <4> QED
        BY <2>2, <4>1, <4>2, <4>3
    <3> QED
      BY <3>1, <3>2, <3>3 DEF IInv, Stacks
  <2>5. TypeOK' /\ Kept' /\ Fits'
    BY <2>2, <2>4 DEF IInv, TypeOK, Kept, Fits, parser, source, input, States, IsChain, IsMessage
  <2>6. Stacks'
    BY <2>2, <2>3, <2>4 DEF IInv, Stacks, parser, source, input
  <2> QED
    BY <2>2, <2>5, <2>6 DEF IInv, Advances
<1>6. CASE ParseStart
  <2>1. Turn("START") /\ "START" \in States /\ buffer # <<>> /\ at = "parse"
    BY <1>6 DEF ParseStart, Turn, States, NeedData
  <2>2. /\ Distance = 7 /\ Uncut = Len(buffer) /\ cut = 0 /\ str = <<>> /\ Popped(stack) = <<>>
    BY <1>1, <2>1, AtTurn DEF DistanceAt
  <2>3. buffer' \in Seq(Token) /\ Len(buffer') <= Len(buffer) /\ Len(buffer') \in Nat
        /\ (buffer' = <<>> <=> Len(buffer') = 0)
    BY <1>1, <1>6, BlankFacts DEF ParseStart
  <2>4. /\ stack' = IF buffer' # <<>> THEN <<"HEADER">> ELSE <<>>
        /\ at' = "parse" /\ ret' = ret
    BY <1>3, <1>6, <2>2 DEF ParseStart, Goto
  <2>5. UNCHANGED <<parser, messages, str, cut, source>>
    BY <1>6 DEF ParseStart
  <2>6. TopOf(stack)' = IF buffer' # <<>> THEN "HEADER" ELSE "START"
    BY <1>3, <2>4
  <2>7. stack' = <<>> \/ \E s \in States \ {"START", "BODY"} : stack' = <<s>>
    BY <2>4 DEF States
  <2>8. /\ IInv' /\ Uncut' = Len(buffer')
        /\ Distance' = IF buffer' = <<>> /\ TopOf(stack') \in NeedData THEN 0 ELSE DistanceAt[TopOf(stack')]
    BY <1>1, <2>1, <2>2, <2>3, <2>4, <2>5, <2>6, <2>7, ToOne DEF parser, Bodies
  <2> QED
    BY <1>1, <1>2, <2>1, <2>2, <2>3, <2>6, <2>8 DEF Advances, DistanceAt, NeedData
<1>7. CASE ParseHeader
  <2>1. Turn("HEADER") /\ "HEADER" \in States /\ at = "parse"
    BY <1>7 DEF ParseHeader, Turn, States
  <2>2. /\ Distance = 6 /\ Uncut = Len(buffer) /\ cut = 0 /\ str = <<>> /\ Popped(stack) = <<>>
    BY <1>1, <2>1, AtTurn DEF DistanceAt
  <2>3. stack' = <<>> /\ at' = "header" /\ UNCHANGED <<buffer, parser, messages, str, cut, ret, source>>
    BY <1>7, <2>2 DEF ParseHeader
  <2>4. <<>> \in Seq(States) /\ DOMAIN <<>> = {}
    OBVIOUS
  <2>5. TypeOK' /\ Fits'
    BY <2>3, <2>4 DEF IInv, TypeOK, Fits, parser, source, input, IsChain, IsMessage
  <2>6. Stacks' /\ Kept'
    BY <1>3, <2>1, <2>2, <2>3, <2>4 DEF IInv, Stacks, Kept, parser
  <2>7. TopOf(hstack)' \in HeaderStates \ {"DONE"}
    <3>1. TopOf(hstack) \in HeaderStates
      BY <1>3 DEF IInv, Stacks, HeaderStates
    <3> QED
      BY <2>1, <2>3, <3>1 DEF IInv, Stacks, parser
  <2>8. Distance' < 6
    BY <2>3, <2>7 DEF Distance, HeaderStates
  <2>9. Uncut' = Len(buffer)
    BY <1>1, <1>3, <2>3 DEF Uncut
  <2> QED
    BY <2>2, <2>5, <2>6, <2>8, <2>9 DEF IInv, Advances
<1>8. CASE ParseHeaderDone
  <2>1. Turn("HEADER_DONE") /\ "HEADER_DONE" \in States /\ at = "parse" /\ messages # <<>>
    BY <1>8 DEF ParseHeaderDone, Turn, States
  <2>2. /\ Distance = 13 /\ Uncut = Len(buffer) /\ cut = 0 /\ str = <<>> /\ Popped(stack) = <<>>
    BY <1>1, <2>1, AtTurn DEF DistanceAt
  <2>3. /\ BodyState \in {"DONE", "BODY_DUMB", "BODY_CHUNKED", "BODY_DONE", "BODY_LENGTH"}
        /\ BodyState = "BODY_LENGTH" => Length \in Nat /\ Length > 0
        /\ BodyState = "BODY_DONE" => Length = 0
    BY <1>1, <2>1, BodyStateFacts
  <2>4. stack' = <<BodyState>> /\ at' = "parse" /\ ret' = ret
    BY <1>3, <1>8, <2>2 DEF ParseHeaderDone, Goto
  <2>5. UNCHANGED <<buffer, hstack, key, val, str, cut, source>>
    BY <1>8 DEF ParseHeaderDone
  <2>6. IsChain(messages') /\ messages' # <<>>
    BY <1>1, <1>8, <2>1, HeadersOfBody DEF ParseHeaderDone
  <2>7. inflate' \in BOOLEAN
    BY <1>1, <1>8 DEF ParseHeaderDone
  <2>8. /\ dechunk' \in Decoder
        /\ BodyState = "BODY_CHUNKED" => ~dechunk'.zeroed /\ dechunk'.left = <<>>
    <3>1. [NoDechunk EXCEPT !.live = TRUE] \in Decoder /\ ~[NoDechunk EXCEPT !.live = TRUE].zeroed
          /\ [NoDechunk EXCEPT !.live = TRUE].left = <<>>
      <4>1. <<>> \in Seq(Token)
        OBVIOUS
      <4> QED
        BY <4>1 DEF NoDechunk, Decoder
    <3> QED
      BY <1>1, <1>8, <3>1 DEF ParseHeaderDone
  <2>9. /\ body_length' \in Nat
        /\ BodyState = "BODY_LENGTH" => body_length' > 0
    BY <1>1, <1>8, <2>3 DEF ParseHeaderDone
  <2> DEFINE next == BodyState
  <2>10. next \in States \ {"START", "BODY"} /\ TopOf(<<next>>) = next
    BY <1>3, <2>3 DEF States
  <2>11. /\ IInv' /\ Uncut' = Len(buffer')
         /\ Distance' = IF buffer' = <<>> /\ next \in NeedData THEN 0 ELSE DistanceAt[next]
    BY <1>1, <2>1, <2>2, <2>3, <2>4, <2>5, <2>6, <2>7, <2>8, <2>9, <2>10, ToOne
  <2>12. Distance' < 13
    BY <2>3, <2>11 DEF DistanceAt
  <2> QED
    BY <2>2, <2>5, <2>11, <2>12 DEF Advances
<1>9. CASE Crash
  <2>1. at' = "crashed" /\ at = "parse" /\ UNCHANGED <<buffer, stack, parser, messages, str, cut, ret, source>>
    BY <1>9 DEF Crash, Turn
  <2>2. TypeOK' /\ Kept' /\ Fits'
    BY <2>1 DEF IInv, TypeOK, Kept, Fits, parser, source, input, IsChain, IsMessage
  <2>3. Stacks'
    BY <2>1 DEF IInv, Stacks, parser
  <2> QED
    BY <2>1, <2>2, <2>3 DEF IInv, Advances
<1>10. CASE ParseBody
  <2>1. Turn("BODY") /\ "BODY" \in States /\ at = "parse"
    BY <1>10 DEF ParseBody, Turn, States
  <2>2. /\ Distance = 12 /\ Uncut = Len(buffer) - cut /\ cut \in 0 .. Len(buffer)
        /\ \E r \in Behind : stack = <<"BODY", r>> /\ Popped(stack) = <<r>>
    BY <1>1, <2>1, AtTurn DEF DistanceAt
  <2>3. PICK r \in Behind : stack = <<"BODY", r>> /\ Popped(stack) = <<r>>
    BY <2>2
  <2>4. DOMAIN stack = {1, 2} /\ stack[2] = r
    BY <2>3
  <2>5. /\ messages # <<>>
        /\ r = "BODY_LENGTH" => body_length > 0
        /\ r = "BODY_CHUNKED" => ~dechunk.zeroed /\ dechunk.left = <<>>
    BY <2>4 DEF IInv, Kept, Bodies, Behind
  <2>6. stack' = <<r>> /\ at' = "parse" /\ ret' = ret
    BY <1>3, <1>10, <2>3 DEF ParseBody, Goto
  <2>7. str' = <<>> /\ cut' = 0 /\ UNCHANGED <<parser, source>>
    BY <1>10 DEF ParseBody
  <2>8. buffer' \in Seq(Token) /\ Len(buffer') = Len(buffer) - cut /\ Len(buffer') <= Len(buffer)
    BY <1>1, <1>10, <2>2, SeqFacts DEF ParseBody
  <2>9. IsChain(messages') /\ messages' # <<>>
    <3>1. CASE str = <<>>
      BY <1>1, <1>10, <2>5, <3>1 DEF ParseBody
    <3>2. CASE str # <<>>
      <4> DEFINE data == IF inflate THEN Inflated(str) ELSE str
      <4>1. data \in Seq(Token)
        BY <1>1, <1>10, <3>2, InflatedFacts DEF ParseBody
      <4>2. messages' = AddToBody(data)
        BY <1>10, <3>2 DEF ParseBody
      <4> HIDE DEF data
      <4> QED
        BY <1>1, <2>5, <4>1, <4>2, AddToBodyFacts
    <3> QED
      BY <3>1, <3>2
  <2>10. r \in States \ {"START", "BODY"} /\ TopOf(<<r>>) = r
    BY <1>3 DEF States, Behind
  <2>11. /\ IInv' /\ Uncut' = Len(buffer')
         /\ Distance' = IF buffer' = <<>> /\ r \in NeedData THEN 0 ELSE DistanceAt[r]
    BY <1>1, <2>1, <2>5, <2>6, <2>7, <2>8, <2>9, <2>10, ToOne DEF parser
  <2>12. Distance' < 12
    BY <2>11 DEF DistanceAt, Behind
  <2> QED
    BY <2>2, <2>8, <2>11, <2>12 DEF Advances
<1>11. CASE CannotInflate
  <2>1. Turn("BODY") /\ "BODY" \in States /\ at = "parse"
    BY <1>11 DEF CannotInflate, Turn, States
  <2>2. PICK r \in Behind : stack = <<"BODY", r>> /\ Popped(stack) = <<r>>
    BY <2>1, AtTurn
  <2>3. stack' = <<"FAILURE", r>> /\ at' = "idle" /\ ret' = "FAILURE"
    <3>1. <<"FAILURE">> \o <<r>> = <<"FAILURE", r>>
      BY StackFacts
    <3> QED
      BY <1>11, <2>2, <3>1 DEF CannotInflate, Return
  <2>4. str' = <<>> /\ cut' = 0 /\ UNCHANGED <<buffer, parser, messages, source>>
    BY <1>11 DEF CannotInflate
  <2>5. /\ DOMAIN stack = {1, 2} /\ stack[2] = r /\ DOMAIN stack' = {1, 2}
        /\ stack'[1] = "FAILURE" /\ stack'[2] = r /\ stack' \in Seq(States)
    BY <2>2, <2>3 DEF States, Behind
  <2>6. TopOf(stack)' = "FAILURE"
    BY <2>3, StackFacts
  <2>7. <<>> \in Seq(Token) /\ 0 \in 0 .. Len(buffer)
    BY <1>1
  <2>8. TypeOK'
    BY <2>3, <2>4, <2>5, <2>7 DEF IInv, TypeOK, parser, source, input, States, IsChain, IsMessage
  <2>9. Stacks'
    BY <2>1, <2>3, <2>4, <2>6 DEF IInv, Stacks, parser
  <2>10. Kept'
    BY <2>4, <2>5 DEF IInv, Kept, parser, Bodies
  <2>11. Fits'
    BY <2>4 DEF IInv, Fits, source, input
  <2> QED
    BY <2>3, <2>8, <2>9, <2>10, <2>11 DEF IInv, Advances
<1>12. CASE ParseBodyDumb
  <2>1. Turn("BODY_DUMB") /\ "BODY_DUMB" \in States /\ at = "parse" /\ buffer # <<>>
    BY <1>12 DEF ParseBodyDumb, Turn, States, NeedData
  <2>2. /\ Uncut = Len(buffer) /\ cut = 0 /\ Popped(stack) = <<>> /\ stack # <<>> /\ stack[1] = "BODY_DUMB"
    BY <1>1, <2>1, AtTurn
  <2>3. messages # <<>>
    BY <2>2 DEF IInv, Stacks, Kept, Bodies
  <2>4. stack' = <<"BODY", "BODY_DONE">> /\ at' = "parse" /\ ret' = ret
    BY <1>12, <2>2, StackFacts DEF ParseBodyDumb, Goto
  <2>5. /\ str' = buffer /\ cut' = Len(buffer) /\ UNCHANGED <<buffer, parser, messages, source>>
    BY <1>12 DEF ParseBodyDumb
  <2>6. IInv' /\ Uncut' < Len(buffer)
    BY <1>1, <1>2, <2>1, <2>2, <2>3, <2>4, <2>5, ToBody DEF parser, Behind
  <2> QED
    BY <2>2, <2>6 DEF Advances
<1>13. CASE ParseBodyLength
  <2> DEFINE n == IF Len(buffer) < body_length THEN Len(buffer) ELSE body_length
             r == IF body_length' = 0 THEN "BODY_DONE" ELSE "BODY_LENGTH"
  <2>1. Turn("BODY_LENGTH") /\ "BODY_LENGTH" \in States /\ at = "parse" /\ buffer # <<>>
    BY <1>13 DEF ParseBodyLength, Turn, States, NeedData
  <2>2. /\ Uncut = Len(buffer) /\ cut = 0 /\ Popped(stack) = <<>>
        /\ stack # <<>> /\ stack[1] = "BODY_LENGTH" /\ 1 \in DOMAIN stack
    <3>1. /\ Uncut = Len(buffer) /\ cut = 0 /\ Popped(stack) = <<>>
          /\ stack # <<>> /\ stack[1] = "BODY_LENGTH"
      BY <1>1, <2>1, AtTurn
    <3> QED
      BY <3>1 DEF IInv, Stacks
  <2>3. messages # <<>> /\ body_length > 0
    BY <2>2 DEF IInv, Kept, Bodies
  <2>4. n \in 1 .. Len(buffer) /\ body_length - n \in Nat
    BY <1>1, <1>2, <2>1, <2>3
  <2>5. str' = SubSeq(buffer, 1, n) /\ cut' = n /\ body_length' = body_length - n
        /\ UNCHANGED <<buffer, hstack, key, val, dechunk, inflate, messages, source>>
    BY <1>13 DEF ParseBodyLength
  <2>6. stack' = <<"BODY", r>> /\ at' = "parse" /\ ret' = ret
    BY <1>13, <2>2, StackFacts DEF ParseBodyLength, Goto
  <2> HIDE DEF n
  <2>7. str' \in Seq(Token)
    BY <1>1, <2>4, <2>5
  <2>8. r \in Behind /\ (r = "BODY_LENGTH" => body_length' > 0) /\ r # "BODY_CHUNKED"
    BY <2>4, <2>5 DEF Behind
  <2> HIDE DEF r
  <2>9. IInv' /\ Uncut' < Len(buffer)
    BY <1>1, <2>1, <2>2, <2>3, <2>4, <2>5, <2>6, <2>7, <2>8, ToBody
  <2> QED
    BY <2>2, <2>9 DEF Advances
<1>14. ASSUME Turn("BODY_CHUNKED")
       PROVE  /\ Uncut = Len(buffer) /\ cut = 0 /\ str = <<>> /\ Popped(stack) = <<>>
              /\ messages # <<>> /\ Len(buffer) > 0 /\ at = "parse"
              /\ Dechunked \in Decoder
              /\ Dechunked.zeroed => Len(Dechunked.left) < Len(buffer)
              /\ ~Dechunked.zeroed => Dechunked.left = <<>>
              /\ [Dechunked EXCEPT !.out = <<>>] \in Decoder
              /\ [Dechunked EXCEPT !.out = <<>>].zeroed = Dechunked.zeroed
              /\ [Dechunked EXCEPT !.out = <<>>].left = Dechunked.left
  <2>1. "BODY_CHUNKED" \in States /\ at = "parse" /\ buffer # <<>>
    BY <1>14 DEF Turn, States, NeedData
  <2>2. /\ Uncut = Len(buffer) /\ cut = 0 /\ str = <<>> /\ Popped(stack) = <<>>
        /\ stack # <<>> /\ stack[1] = "BODY_CHUNKED"
    BY <1>1, <1>14, <2>1, AtTurn
  <2>3. 1 \in DOMAIN stack
    BY <2>2 DEF IInv, Stacks
  <2>4. messages # <<>> /\ ~dechunk.zeroed /\ dechunk.left = <<>>
    BY <2>2, <2>3 DEF IInv, Kept, Bodies
  <2>5. <<>> \in Seq(Token)
    OBVIOUS
  <2> DEFINE d == [dechunk EXCEPT !.out = <<>>]
  <2>6. d \in Decoder /\ ~d.zeroed /\ d.left = <<>>
    BY <1>1, <2>4, <2>5, DecoderUpdates
  <2>7. Dechunked = FoldLeft(DechunkToken, d, buffer)
    BY DEF Dechunked
  <2> HIDE DEF d
  <2>8. /\ Dechunked \in Decoder
        /\ Dechunked.zeroed => Len(Dechunked.left) < Len(buffer)
        /\ ~Dechunked.zeroed => Dechunked.left = <<>>
    BY <1>1, <2>6, <2>7, DechunkFacts
  <2>9. /\ [Dechunked EXCEPT !.out = <<>>] \in Decoder
        /\ [Dechunked EXCEPT !.out = <<>>].zeroed = Dechunked.zeroed
        /\ [Dechunked EXCEPT !.out = <<>>].left = Dechunked.left
    BY <2>5, <2>8, DecoderUpdates
  <2> QED
    BY <1>1, <1>2, <2>1, <2>2, <2>4, <2>8, <2>9
<1>15. CASE ParseBodyChunked
  <2> DEFINE r == IF Dechunked.zeroed THEN "BODY_DONE" ELSE "BODY_CHUNKED"
             n == IF Dechunked.zeroed THEN Len(buffer) - Len(Dechunked.left) ELSE Len(buffer)
  <2>1. Turn("BODY_CHUNKED")
    BY <1>15 DEF ParseBodyChunked
  <2>2. /\ Uncut = Len(buffer) /\ cut = 0 /\ Popped(stack) = <<>> /\ messages # <<>>
        /\ Len(buffer) > 0 /\ at = "parse"
    BY <1>14, <2>1
  <2>3. Dechunked \in Decoder /\ (Dechunked.zeroed => Len(Dechunked.left) < Len(buffer))
    BY <1>14, <2>1
  <2>4. n \in 1 .. Len(buffer) /\ Dechunked.out \in Seq(Token)
    BY <1>1, <2>2, <2>3, DecoderFields
  <2>5. /\ dechunk' = [Dechunked EXCEPT !.out = <<>>] /\ str' = Dechunked.out /\ cut' = n
        /\ UNCHANGED <<buffer, hstack, key, val, body_length, inflate, messages, source>>
    BY <1>15 DEF ParseBodyChunked
  <2>6. stack' = <<"BODY", r>> /\ at' = "parse" /\ ret' = ret
    BY <1>15, <2>2, StackFacts DEF ParseBodyChunked, Goto
  <2>7. /\ dechunk' \in Decoder
        /\ r = "BODY_CHUNKED" => ~dechunk'.zeroed /\ dechunk'.left = <<>>
    BY <1>14, <2>1, <2>5
  <2>8. r \in Behind /\ r # "BODY_LENGTH"
    BY DEF Behind
  <2> HIDE DEF r, n
  <2>9. IInv' /\ Uncut' < Len(buffer)
    BY <1>1, <2>2, <2>4, <2>5, <2>6, <2>7, <2>8, ToBody
  <2> QED
    BY <2>2, <2>9 DEF Advances
<1>16. CASE CannotDechunk
  <2>1. Turn("BODY_CHUNKED")
    BY <1>16 DEF CannotDechunk
  <2>2. stack' = <<>> /\ at' = "idle" /\ ret' = "FAILURE" /\ dechunk' = [Dechunked EXCEPT !.out = <<>>]
        /\ UNCHANGED <<buffer, hstack, key, val, body_length, inflate, messages, str, cut, source>>
    BY <1>3, <1>14, <1>16, <2>1 DEF CannotDechunk, Return
  <2>3. at = "parse" /\ str' = <<>> /\ cut' = 0 /\ dechunk' \in Decoder
    BY <1>14, <2>1, <2>2
  <2>4. IInv'
    BY <1>1, <1>3, <2>2, <2>3, ToOne DEF Bodies
  <2> QED
    BY <2>2, <2>4 DEF Advances
<1>17. CASE ParseBodyDone
  <2>1. Turn("BODY_DONE") /\ "BODY_DONE" \in States /\ at = "parse"
    BY <1>17 DEF ParseBodyDone, Turn, States
  <2>2. /\ Distance = 9 /\ Uncut = Len(buffer) /\ cut = 0 /\ str = <<>> /\ Popped(stack) = <<>>
    BY <1>1, <2>1, AtTurn DEF DistanceAt
  <2>3. stack' = <<"DONE">> /\ at' = "parse" /\ ret' = ret /\ dechunk' = NoDechunk
        /\ UNCHANGED <<buffer, hstack, key, val, body_length, inflate, messages, str, cut, source>>
    BY <1>3, <1>17, <2>2 DEF ParseBodyDone, Goto
  <2>4. NoDechunk \in Decoder
    <3>1. <<>> \in Seq(Token)
      OBVIOUS
    <3> QED
      BY <3>1 DEF NoDechunk, Decoder
  <2>5. IInv' /\ Uncut' = Len(buffer') /\ Distance' = DistanceAt["DONE"]
    BY <1>1, <1>3, <2>1, <2>2, <2>3, <2>4, ToOne DEF Bodies, States, NeedData
  <2> QED
    BY <2>2, <2>3, <2>5 DEF Advances, DistanceAt
<1>18. CASE ParseDone
  <2>1. Turn("DONE") /\ "DONE" \in States /\ at = "parse"
    BY <1>18 DEF ParseDone, Turn, States
  <2>2. /\ Distance = 8 /\ Uncut = Len(buffer) /\ cut = 0 /\ str = <<>> /\ Popped(stack) = <<>>
    BY <1>1, <2>1, AtTurn DEF DistanceAt
  <2>3. buffer' \in Seq(Token) /\ Len(buffer') <= Len(buffer) /\ Len(buffer') \in Nat
    BY <1>1, <1>18, BlankFacts DEF ParseDone
  <2>4. stack' = <<>> /\ at' \in {"parse", "idle"} /\ ret' \in {ret, "DONE"}
    BY <1>3, <1>18, <2>2 DEF ParseDone, Goto, Return
  <2>5. UNCHANGED <<parser, messages, str, cut, source>>
    BY <1>18 DEF ParseDone
  <2>6. /\ IInv'
        /\ at' = "parse" => /\ Uncut' = Len(buffer')
                            /\ Distance' = IF buffer' = <<>> /\ "START" \in NeedData THEN 0
                                           ELSE DistanceAt["START"]
    BY <1>1, <1>3, <2>1, <2>2, <2>3, <2>4, <2>5, ToOne DEF parser, Bodies
  <2>7. at' = "parse" => Distance' < 8
    BY <2>6 DEF DistanceAt
  <2> QED
    BY <1>1, <2>2, <2>3, <2>4, <2>6, <2>7 DEF Advances
<1> QED
  BY <1>4, <1>5, <1>6, <1>7, <1>8, <1>9, <1>10, <1>11, <1>12, <1>13, <1>15, <1>16, <1>17, <1>18
     DEF ParseStep

-----------------------------------------------------------------------------
(* The theorems *)

\* What looks at nothing else is not disturbed.
LEMMA StutterIInv == IInv /\ UNCHANGED vars => IInv'
<1> SUFFICES ASSUME IInv, UNCHANGED vars PROVE IInv'
  OBVIOUS
<1>1. TypeOK'
  BY DEF IInv, TypeOK, vars, IsChain, IsMessage
<1>2. Stacks' /\ Kept' /\ Fits'
  BY DEF IInv, Stacks, Kept, Fits, vars
<1> QED
  BY <1>1, <1>2 DEF IInv

\* The inductive invariant holds in every state of every use of the parser.
THEOREM ParserInvariant == Spec => []IInv
<1>1. IInv /\ [Next]_vars => IInv'
  BY DriverStepIInv, HeaderStepIInv, ParseStepIInv, StutterIInv DEF Next
<1> QED
  BY <1>1, InitIInv, PTL DEF Spec

\* In every state of every use, the parser's state has its type: what it buffers, the
\* length of a body, what is to be cut, the chain of messages.
THEOREM ParserTypes == Spec => []TypeOK
<1>1. IInv => TypeOK
  BY DEF IInv
<1> QED
  BY <1>1, ParserInvariant, PTL

\* However a connection is cut into pieces, and whatever it carries, the stacks of
\* both parsers keep their shape.
THEOREM StacksKeepShape == Spec => []StackShape
  BY IInvShape, ParserInvariant, PTL

\* Whatever a connection carries, each turn of the loops cuts data or comes closer to
\* a state that does: no call of parse spins.
THEOREM LoopsAdvance == Spec => ParseAdvances
<1>1. IInv /\ [Next]_vars => [Advances]_vars
  BY DriverStepIInv, HeaderStepIInv, ParseStepIInv DEF Next
<1>2. [Advances]_vars <=> [{at, at'} \subseteq {"parse", "header"} =>
          \/ Uncut' < Uncut
          \/ Uncut' = Uncut /\ Distance' < Distance]_vars
  BY DEF Advances
<1> QED
  BY <1>1, <1>2, ParserInvariant, PTL DEF Spec, ParseAdvances
=============================================================================
