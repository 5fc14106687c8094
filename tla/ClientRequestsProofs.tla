------------------------ MODULE ClientRequestsProofs ------------------------
(***************************************************************************)
(* For all names, values, URLs and flags, and any number of calls: the     *)
(* query of a request's URL is what the calls asked for, as far as values  *)
(* survive the way through texts and tables (Carried, Readings), a URL     *)
(* that was made once is made the same again, and a path that was          *)
(* sanitized is one without dots.  For all                                 *)
(* objects, options and arrays: who never shared an array has the options  *)
(* that were asked for, and who did sees none appear.                      *)
(***************************************************************************)
EXTENDS ClientRequests, SequenceLemmas

-----------------------------------------------------------------------------
(* Values, tables and texts *)

Shapes == {{Bare}} \cup SUBSET Indices

LEMMA ShapedHas ==
  ASSUME NEW W, NEW f \in Shaped(W)
  PROVE  /\ f = [i \in DOMAIN f |-> f[i]] /\ DOMAIN f \in Shapes
         /\ \A i \in DOMAIN f : f[i] \in W
  BY DEF Shaped, Shapes

LEMMA ShapedMade ==
  ASSUME NEW W, NEW S \in Shapes, NEW f \in [S -> W]
  PROVE  f \in Shaped(W)
  BY DEF Shaped, Shapes

LEMMA ShapesAre ==
  ASSUME NEW S \in Shapes
  PROVE  IF Bare \in S THEN S = {Bare} /\ 0 \notin S ELSE S \subseteq Indices
  BY ItemsAssumption DEF Shapes, Indices

LEMMA ValueHas ==
  ASSUME NEW v \in ItemValues
  PROVE  /\ v = [at |-> v.at, ahead |-> v.ahead]
         /\ v.at \in Shaped(Words \cup {Null}) /\ v.ahead \in SUBSET Numbers
         /\ v.ahead # {} => v.ahead \cup {0} \subseteq DOMAIN v.at
         /\ v.at = [i \in DOMAIN v.at |-> v.at[i]]
         /\ \A i \in DOMAIN v.at : v.at[i] \in Words \cup {Null}
         /\ IF IsArray(v) THEN DOMAIN v.at \subseteq Indices
                          ELSE DOMAIN v.at = {Bare} /\ v.ahead = {}
<1>1. /\ v \in [at : Shaped(Words \cup {Null}), ahead : SUBSET Numbers]
      /\ v.ahead # {} => v.ahead \cup {0} \subseteq DOMAIN v.at
  BY DEF ItemValues
<1>2. v = [at |-> v.at, ahead |-> v.ahead] /\ v.at \in Shaped(Words \cup {Null})
      /\ v.ahead \in SUBSET Numbers
  BY <1>1
<1>3. /\ v.at = [i \in DOMAIN v.at |-> v.at[i]] /\ DOMAIN v.at \in Shapes
      /\ \A i \in DOMAIN v.at : v.at[i] \in Words \cup {Null}
  BY <1>2, ShapedHas
<1>4. IF Bare \in DOMAIN v.at THEN DOMAIN v.at = {Bare} /\ 0 \notin DOMAIN v.at
                              ELSE DOMAIN v.at \subseteq Indices
  BY <1>3, ShapesAre
<1> QED
  BY <1>1, <1>2, <1>3, <1>4 DEF IsArray

LEMMA ValueMade ==
  ASSUME NEW f \in Shaped(Words \cup {Null}), NEW A \in SUBSET Numbers,
         A # {} => A \cup {0} \subseteq DOMAIN f
  PROVE  [at |-> f, ahead |-> A] \in ItemValues
  BY DEF ItemValues

QueryTexts == UNION {[S -> TextValues] : S \in SUBSET Names}
ItemTables == UNION {[S -> ItemValues] : S \in SUBSET Names}
UrlParts == UrlsWith(QueryTexts)

LEMMA TextsAndTables ==
  /\ \A t : IsText(t) <=> t \in QueryTexts
  /\ \A t : IsItemTable(t) <=> t \in ItemTables
  BY DEF IsText, IsItemTable, QueryTexts, ItemTables

LEMMA UrlIs == \A u : IsUrl(u) <=> u \in UrlParts
<1>1. ASSUME NEW u, IsUrl(u) PROVE u \in UrlParts
  <2>1. PICK S \in SUBSET Names : u \in UrlsWith([S -> TextValues])
    BY <1>1 DEF IsUrl
  <2>2. [S -> TextValues] \subseteq QueryTexts
    BY DEF QueryTexts
  <2> QED
    BY <2>1, <2>2 DEF UrlParts, UrlsWith
<1>2. ASSUME NEW u \in UrlParts PROVE IsUrl(u)
  <2>1. u \in UrlsWith(QueryTexts) /\ u.query \in QueryTexts \cup {None}
    BY DEF UrlParts, UrlsWith
  <2>2. PICK S \in SUBSET Names : u.query \in [S -> TextValues] \cup {None}
    BY <2>1 DEF QueryTexts
  <2>3. u \in UrlsWith([S -> TextValues])
    BY <2>1, <2>2 DEF UrlsWith
  <2> QED
    BY <2>3 DEF IsUrl
<1> QED
  BY <1>1, <1>2

LEMMA NoneApart == None \notin QueryTexts /\ None \notin UrlParts
<1>1. None \notin QueryTexts
  BY TextsAssumption DEF QueryTexts
<1>2. ~IsUrl(None)
  BY TextsAssumption DEF IsUrl
<1> QED
  BY <1>1, <1>2, UrlIs

\* What is given to the calls.
GivenItems(given) ==
  IF given.kind = "text" THEN given.items \in QueryTexts ELSE given.items \in ItemTables

LEMMA GivenAre ==
  /\ \A g \in GivenQueries : GivenItems(g)
  /\ GivenUrls \subseteq {u \in UrlParts : u.scheme # Empty}
  /\ Server \in [port : Nat, https : BOOLEAN, host : Texts, path : Paths \cup {None},
                 query : QueryTexts]
<1>1. \A g \in GivenQueries : GivenItems(g)
  BY GivenAssumption, TextsAndTables DEF GivenItems
<1>2. GivenUrls \subseteq {u \in UrlParts : u.scheme # Empty}
  BY GivenAssumption, UrlIs
<1>3. Server \in [port : Nat, https : BOOLEAN, host : Texts, path : Paths \cup {None},
                 query : QueryTexts]
  <2>1. PICK S \in SUBSET Names :
          Server \in [port : Nat, https : BOOLEAN, host : Texts, path : Paths \cup {None},
                     query : [S -> TextValues]]
    BY GivenAssumption
  <2>2. [S -> TextValues] \subseteq QueryTexts
    BY DEF QueryTexts
  <2> QED
    BY <2>1, <2>2
<1> QED
  BY <1>1, <1>2, <1>3

LEMMA TableHas ==
  ASSUME NEW t \in ItemTables
  PROVE  /\ t = [n \in DOMAIN t |-> t[n]]
         /\ DOMAIN t \subseteq Names
         /\ \A n \in DOMAIN t : t[n] \in ItemValues
  BY DEF ItemTables

LEMMA TableMade ==
  ASSUME NEW t, NEW S \in SUBSET Names, t \in [S -> ItemValues]
  PROVE  t \in ItemTables
  BY DEF ItemTables

LEMMA TextHas ==
  ASSUME NEW t \in QueryTexts
  PROVE  /\ t = [n \in DOMAIN t |-> t[n]]
         /\ DOMAIN t \subseteq Names
         /\ \A n \in DOMAIN t : t[n] \in Shaped(Words)
  BY DEF QueryTexts, TextValues

LEMMA TextMade ==
  ASSUME NEW t, NEW S \in SUBSET Names, t \in [S -> Shaped(Words)]
  PROVE  t \in QueryTexts
  BY DEF QueryTexts, TextValues

LEMMA ScalarHas ==
  ASSUME NEW s
  PROVE  /\ DOMAIN Scalar(s).at = {Bare} /\ Scalar(s).at[Bare] = s
         /\ Scalar(s).ahead = {} /\ ~IsArray(Scalar(s))
  BY DEF Scalar, IsArray

LEMMA ScalarMade ==
  ASSUME NEW s \in Words \cup {Null}
  PROVE  Scalar(s) \in ItemValues
<1> DEFINE f == [i \in {Bare} |-> s]
<1>1. f \in [{Bare} -> Words \cup {Null}] /\ {Bare} \in Shapes
  BY DEF Shapes
<1>2. Scalar(s) = [at |-> f, ahead |-> {}]
  BY DEF Scalar
<1> HIDE DEF f
<1>3. f \in Shaped(Words \cup {Null})
  BY <1>1, ShapedMade
<1> QED
  BY <1>2, <1>3, ValueMade

LEMMA NoItemsMade ==
  NoItems \in ItemTables /\ NoItems \in QueryTexts /\ DOMAIN NoItems = {}
<1>1. /\ NoItems \in [{} -> ItemValues] /\ NoItems \in [{} -> Shaped(Words)]
      /\ DOMAIN NoItems = {}
  BY DEF NoItems
<1> QED
  BY <1>1, TableMade, TextMade

LEMMA ElementsAre ==
  ASSUME NEW v \in ItemValues
  PROVE  /\ DOMAIN Elements(v) \subseteq Indices
         /\ \A i \in DOMAIN Elements(v) : Elements(v)[i] \in Words \cup {Null}
<1>1. CASE IsArray(v)
  BY <1>1, ValueHas DEF Elements
<1>2. CASE ~IsArray(v)
  <2>1. Elements(v) = [i \in {0} |-> v.at[Bare]]
    BY <1>2 DEF Elements
  <2>2. v.at[Bare] \in Words \cup {Null}
    BY <1>2, ValueHas DEF IsArray
  <2> QED
    BY <2>1, <2>2 DEF Indices
<1> QED
  BY <1>1, <1>2

\* What an array and an array, or a scalar, become.
LEMMA JoinedIs ==
  ASSUME NEW v \in ItemValues, NEW w \in ItemValues, IsArray(w)
  PROVE  /\ Joined(v, w) \in ItemValues
         /\ IsArray(Joined(v, w))
<1> DEFINE old == Elements(v)
           D == (DOMAIN old \cup DOMAIN w.at) \ {n \in DOMAIN w.at : w.at[n] = Null}
           j == [n \in D |-> IF n \notin DOMAIN w.at THEN old[n]
                             ELSE IF n \notin DOMAIN old THEN w.at[n]
                             ELSE IF LooselyEqual(old[n], w.at[n]) THEN old[n] ELSE w.at[n]]
           before == IF 0 \in DOMAIN old THEN v.ahead ELSE (DOMAIN old \cap Numbers) \cup w.ahead
           A == IF 0 \in DOMAIN j THEN before \cap DOMAIN j ELSE {}
<1>1. Joined(v, w) = [at |-> j, ahead |-> A]
  BY DEF Joined, Updated
<1>2. DOMAIN old \subseteq Indices /\ \A i \in DOMAIN old : old[i] \in Words \cup {Null}
  BY ElementsAre
<1>3. DOMAIN w.at \subseteq Indices /\ \A i \in DOMAIN w.at : w.at[i] \in Words \cup {Null}
  BY ValueHas
<1>4. v.ahead \subseteq Numbers /\ w.ahead \subseteq Numbers
  BY ValueHas
<1> HIDE DEF old
<1>5. j \in [D -> Words \cup {Null}] /\ D \subseteq Indices
  BY <1>2, <1>3
<1>6. Bare \notin D
  BY <1>5, ItemsAssumption
<1>7. DOMAIN j = D
  OBVIOUS
<1> HIDE DEF j
<1>8. D \in Shapes
  BY <1>5 DEF Shapes
<1>9. j \in Shaped(Words \cup {Null})
  BY <1>5, <1>8, ShapedMade
<1>10. A \in SUBSET Numbers /\ (A # {} => A \cup {0} \subseteq DOMAIN j)
  BY <1>4
<1> HIDE DEF A
<1>11. [at |-> j, ahead |-> A] \in ItemValues
  BY <1>9, <1>10, ValueMade
<1> QED
  BY <1>1, <1>6, <1>7, <1>11 DEF IsArray

UpdatedValue(v, w) ==
  IF IsArray(w) THEN Joined(v, w)
  ELSE IF ~IsArray(v) /\ LooselyEqual(v.at[Bare], w.at[Bare]) THEN v ELSE w

LEMMA UpdateIs ==
  ASSUME NEW has \in ItemTables, NEW given \in ItemTables
  PROVE  /\ Update(has, given) \in ItemTables
         /\ DOMAIN Update(has, given) =
              (DOMAIN has \cup DOMAIN given) \ {n \in DOMAIN given : given[n] = Scalar(Null)}
         /\ \A n \in DOMAIN Update(has, given) :
              Update(has, given)[n] = IF n \notin DOMAIN given THEN has[n]
                                      ELSE IF n \notin DOMAIN has THEN given[n]
                                      ELSE UpdatedValue(has[n], given[n])
<1> DEFINE D == (DOMAIN has \cup DOMAIN given) \ {n \in DOMAIN given : given[n] = Scalar(Null)}
           u == [n \in D |-> IF n \notin DOMAIN given THEN has[n]
                             ELSE IF n \notin DOMAIN has THEN given[n]
                             ELSE UpdatedValue(has[n], given[n])]
<1>1. Update(has, given) = u
  BY DEF Update, Updated, UpdatedValue
<1>2. /\ DOMAIN has \subseteq Names /\ \A n \in DOMAIN has : has[n] \in ItemValues
      /\ DOMAIN given \subseteq Names /\ \A n \in DOMAIN given : given[n] \in ItemValues
  BY TableHas
<1>3. \A v, w \in ItemValues : UpdatedValue(v, w) \in ItemValues
  BY JoinedIs DEF UpdatedValue
<1>4. u \in [D -> ItemValues] /\ D \in SUBSET Names
  <2>1. \A n \in D : u[n] \in ItemValues
    BY <1>2, <1>3
  <2> QED
    BY <1>2, <2>1
<1>5. u \in ItemTables /\ DOMAIN u = D
  BY <1>4, TableMade
<1> QED
  BY <1>1, <1>5

\* A table in which no item is NULL.
NoNulls(t) == \A n \in DOMAIN t : t[n] # Scalar(Null)

LEMMA UpdateNoNulls ==
  ASSUME NEW has \in ItemTables, NEW given \in ItemTables, NoNulls(has)
  PROVE  NoNulls(Update(has, given))
<1> SUFFICES ASSUME NEW n \in DOMAIN Update(has, given) PROVE Update(has, given)[n] # Scalar(Null)
  BY DEF NoNulls
<1>0. n \in (DOMAIN has \cup DOMAIN given) \ {m \in DOMAIN given : given[m] = Scalar(Null)}
  BY UpdateIs, Zenon
<1>1. n \in DOMAIN given => given[n] # Scalar(Null)
  BY <1>0
<1>2. n \notin DOMAIN given => n \in DOMAIN has
  BY <1>0
<1>v. Update(has, given)[n] = IF n \notin DOMAIN given THEN has[n]
                              ELSE IF n \notin DOMAIN has THEN given[n]
                              ELSE UpdatedValue(has[n], given[n])
  BY UpdateIs, Zenon
<1>3. CASE n \in DOMAIN given /\ n \in DOMAIN has /\ IsArray(given[n])
  <2>1. has[n] \in ItemValues /\ given[n] \in ItemValues
    BY <1>3, TableHas
  <2>2. IsArray(Update(has, given)[n])
    BY <1>3, <1>v, <2>1, JoinedIs DEF UpdatedValue
  <2> QED
    BY <2>2, ScalarHas
<1>4. CASE ~(n \in DOMAIN given /\ n \in DOMAIN has /\ IsArray(given[n]))
  <2>1. \/ n \in DOMAIN has /\ Update(has, given)[n] = has[n]
        \/ n \in DOMAIN given /\ Update(has, given)[n] = given[n]
    BY <1>2, <1>4, <1>v DEF UpdatedValue
  <2> QED
    BY <1>1, <2>1 DEF NoNulls
<1> QED
  BY <1>3, <1>4

LEMMA ParsedIs ==
  ASSUME NEW text \in QueryTexts
  PROVE  /\ Parsed(text) \in ItemTables
         /\ DOMAIN Parsed(text) = DOMAIN text
         /\ \A n \in DOMAIN text :
              /\ Parsed(text)[n].ahead = {} /\ DOMAIN Parsed(text)[n].at = DOMAIN text[n]
              /\ \A i \in DOMAIN text[n] :
                   Parsed(text)[n].at[i] = IF text[n][i] = Empty THEN Null ELSE text[n][i]
<1> DEFINE at(n) == [i \in DOMAIN text[n] |-> IF text[n][i] = Empty THEN Null ELSE text[n][i]]
<1>1. DOMAIN text \in SUBSET Names
  BY TextHas
<1>2. ASSUME NEW n \in DOMAIN text PROVE [at |-> at(n), ahead |-> {}] \in ItemValues
  <2>1. /\ DOMAIN text[n] \in Shapes
        /\ \A i \in DOMAIN text[n] : text[n][i] \in Words
    BY TextHas, ShapedHas
  <2>2. at(n) \in [DOMAIN text[n] -> Words \cup {Null}]
    BY <2>1
  <2> HIDE DEF at
  <2>3. at(n) \in Shaped(Words \cup {Null})
    BY <2>1, <2>2, ShapedMade
  <2> QED
    BY <2>3, ValueMade
<1>3. Parsed(text) = [n \in DOMAIN text |-> [at |-> at(n), ahead |-> {}]]
  BY DEF Parsed
<1>4. \A n \in DOMAIN text : DOMAIN at(n) = DOMAIN text[n] /\ \A i \in DOMAIN text[n] :
         at(n)[i] = IF text[n][i] = Empty THEN Null ELSE text[n][i]
  OBVIOUS
<1> HIDE DEF at
<1>5. Parsed(text) \in [DOMAIN text -> ItemValues]
  BY <1>2, <1>3
<1>6. Parsed(text) \in ItemTables
  BY <1>1, <1>5, TableMade
<1> QED
  BY <1>3, <1>4, <1>6

LEMMA CountedIs ==
  ASSUME NEW v \in ItemValues
  PROVE  /\ Counted(v) \in Shaped(Words \cup {Null})
         /\ v.ahead = {} => Counted(v) = v.at
<1> DEFINE next == IF MaxIndex \in v.ahead THEN MaxIndex ELSE Max(v.ahead) + 1
           f == [i \in (DOMAIN v.at \ {0}) \cup {next} |->
                    IF i \in DOMAIN v.at THEN v.at[i] ELSE v.at[0]]
<1>1. CASE v.ahead = {}
  BY <1>1, ValueHas DEF Counted
<1>2. CASE v.ahead # {}
  <2>1. v.ahead \subseteq Numbers /\ 0 \in DOMAIN v.at /\ DOMAIN v.at \in Shapes
    BY <1>2, ValueHas, ShapedHas
  <2>2. DOMAIN v.at \subseteq Indices
    BY <2>1, ShapesAre
  <2>3. v.ahead \subseteq Nat /\ \A k \in v.ahead : k <= MaxIndex
    BY <2>1, ItemsAssumption DEF Numbers
  <2>4. Max(v.ahead) \in v.ahead
    BY <1>2, <2>3, ItemsAssumption, MaxOfBounded
  <2>5. Max(v.ahead) \in 1 .. MaxIndex
    BY <2>1, <2>4 DEF Numbers
  <2>6. next \in Indices
    <3>1. CASE MaxIndex \in v.ahead
      BY <2>1, <3>1 DEF Indices
    <3>2. CASE MaxIndex \notin v.ahead
      <4>1. Max(v.ahead) # MaxIndex
        BY <2>4, <3>2
      <4> HIDE DEF next
      <4>2. Max(v.ahead) + 1 \in 1 .. MaxIndex
        BY <2>5, <4>1, ItemsAssumption
      <4> USE DEF next
      <4>3. next \in Numbers
        BY <3>2, <4>2 DEF Numbers
      <4> QED
        BY <4>3 DEF Indices
    <3> QED
      BY <3>1, <3>2
  <2>7. Counted(v) = f
    BY <1>2 DEF Counted
  <2> HIDE DEF next
  <2>8. (DOMAIN v.at \ {0}) \cup {next} \in Shapes
    BY <2>2, <2>6 DEF Shapes
  <2>9. f \in [(DOMAIN v.at \ {0}) \cup {next} -> Words \cup {Null}]
    BY <2>1, ValueHas
  <2> HIDE DEF f
  <2>10. f \in Shaped(Words \cup {Null})
    BY <2>8, <2>9, ShapedMade
  <2> QED
    BY <1>2, <2>7, <2>10
<1> QED
  BY <1>1, <1>2

LEMMA EncodedIs ==
  ASSUME NEW t \in ItemTables
  PROVE  /\ Encoded(t) \in QueryTexts
         /\ DOMAIN Encoded(t) = {n \in DOMAIN t : DOMAIN t[n].at # {}}
         /\ \A n \in DOMAIN Encoded(t) : t[n].ahead = {} =>
              /\ DOMAIN Encoded(t)[n] = DOMAIN t[n].at
              /\ \A i \in DOMAIN t[n].at : Encoded(t)[n][i] = Spelling(t[n].at[i])
<1> DEFINE spelt == {n \in DOMAIN t : DOMAIN t[n].at # {}}
           text(n) == [i \in DOMAIN Counted(t[n]) |-> Spelling(Counted(t[n])[i])]
<1>1. DOMAIN t \subseteq Names
  BY TableHas
<1>2. \A s \in Words \cup {Null} : Spelling(s) \in Words
  BY ItemsAssumption DEF Spelling
<1>3. ASSUME NEW n \in DOMAIN t PROVE text(n) \in Shaped(Words)
  <2>1. Counted(t[n]) \in Shaped(Words \cup {Null})
    BY TableHas, CountedIs
  <2>2. /\ DOMAIN Counted(t[n]) \in Shapes
        /\ \A i \in DOMAIN Counted(t[n]) : Counted(t[n])[i] \in Words \cup {Null}
    BY <2>1, ShapedHas
  <2>3. text(n) \in [DOMAIN Counted(t[n]) -> Words]
    BY <1>2, <2>2
  <2> HIDE DEF text
  <2> QED
    BY <2>2, <2>3, ShapedMade
<1>4. Encoded(t) = [n \in spelt |-> text(n)]
  BY DEF Encoded
<1>5. \A n \in spelt : t[n].ahead = {} =>
         DOMAIN text(n) = DOMAIN t[n].at /\ \A i \in DOMAIN t[n].at : text(n)[i] = Spelling(t[n].at[i])
  <2> SUFFICES ASSUME NEW n \in spelt, t[n].ahead = {}
               PROVE  /\ DOMAIN text(n) = DOMAIN t[n].at
                      /\ \A i \in DOMAIN t[n].at : text(n)[i] = Spelling(t[n].at[i])
    OBVIOUS
  <2>1. Counted(t[n]) = t[n].at
    BY TableHas, CountedIs
  <2> QED
    BY <2>1
<1> HIDE DEF text
<1>6. Encoded(t) \in [spelt -> Shaped(Words)] /\ spelt \in SUBSET Names
  BY <1>1, <1>3, <1>4
<1>7. Encoded(t) \in QueryTexts
  BY <1>6, TextMade
<1> QED
  BY <1>4, <1>5, <1>7

LEMMA TableOfTyped ==
  ASSUME NEW given, IF given.kind = "text" THEN given.items \in QueryTexts
                                           ELSE given.items \in ItemTables
  PROVE  TableOf(given) \in ItemTables
  BY ParsedIs DEF TableOf

LEMMA SpeltTyped ==
  ASSUME NEW given, TableOf(given) \in ItemTables
  PROVE  Spelt(given) \in QueryTexts
  BY NoItemsMade, UpdateIs, EncodedIs DEF Spelt

-----------------------------------------------------------------------------
(* What was asked for *)

AskedWords == Words \ {Empty}
AskedValues == {a \in Shaped(AskedWords) : DOMAIN a # {}}

Agrees(f, a) == DOMAIN f = DOMAIN a /\ \A i \in DOMAIN a : f[i] \in Readings(a[i])

Answers(has, said) ==
  /\ DOMAIN has \subseteq DOMAIN said
  /\ \A n \in DOMAIN said : said[n] # Odd =>
        /\ said[n] \in AskedValues
        /\ n \in DOMAIN has /\ has[n].ahead = {} /\ Agrees(has[n].at, said[n])

\* Writing a word again, or keeping one == takes for equal, leaves a reading of
\* what was asked for.
LEMMA ReadingsAre ==
  ASSUME NEW w \in AskedWords
  PROVE  /\ Readings(w) \subseteq AskedWords /\ w \in Readings(w) /\ Plus[w] \in Readings(w)
         /\ \A v \in Readings(w) : Plus[v] \in Readings(w)
         /\ \A v : <<v, Plus[w]>> \in Alike => v \in Readings(w)
<1> DEFINE kept == {w} \cup {u \in Words : <<u, Plus[w]>> \in Alike}
<1>1. Readings(w) = kept \cup {Plus[u] : u \in kept}
  BY DEF Readings
<1>2. \A u, x : <<u, x>> \in Alike => u \in AskedWords
  BY ItemsAssumption DEF AskedWords
<1>3. kept \subseteq AskedWords
  BY <1>2
<1>4. w \in kept /\ \A v : <<v, Plus[w]>> \in Alike => v \in kept
  BY <1>2 DEF AskedWords
<1> HIDE DEF kept
<1>5. \A u \in AskedWords : Plus[u] \in AskedWords /\ Plus[Plus[u]] = Plus[u]
  BY ItemsAssumption DEF AskedWords
<1> QED
  BY <1>1, <1>3, <1>4, <1>5

\* What a value has, and that every conversion carries it.
LEMMA CarriedIs ==
  ASSUME NEW v \in ItemValues
  PROVE  /\ Carried(v) <=> v.ahead = {} /\ v.at \in AskedValues
         /\ Carried(v) => v # Scalar(Null)
<1>1. /\ v.at = [i \in DOMAIN v.at |-> v.at[i]] /\ DOMAIN v.at \in Shapes
      /\ \A i \in DOMAIN v.at : v.at[i] \in Words \cup {Null}
  BY ValueHas, ShapedHas
<1>2. ASSUME Carried(v) PROVE v.ahead = {} /\ v.at \in AskedValues
  <2>1. v.ahead = {} /\ DOMAIN v.at # {} /\ \A i \in DOMAIN v.at : v.at[i] \in AskedWords
    BY <1>1, <1>2 DEF Carried, AskedWords
  <2>2. v.at \in [DOMAIN v.at -> AskedWords]
    BY <1>1, <2>1
  <2>3. v.at \in Shaped(AskedWords)
    BY <1>1, <2>2, ShapedMade
  <2> QED
    BY <2>1, <2>3 DEF AskedValues
<1>3. ASSUME v.ahead = {}, v.at \in AskedValues PROVE Carried(v)
  <2>1. DOMAIN v.at # {} /\ \A i \in DOMAIN v.at : v.at[i] \in AskedWords
    BY <1>3, ShapedHas DEF AskedValues
  <2>2. \A w \in AskedWords : w \notin {Empty, Null}
    BY ItemsAssumption DEF AskedWords
  <2> QED
    BY <1>3, <2>1, <2>2 DEF Carried
<1>4. Carried(v) => v # Scalar(Null)
  BY ScalarHas DEF Carried
<1> QED
  BY <1>2, <1>3, <1>4

LEMMA AskedIs ==
  ASSUME NEW a \in AskedValues
  PROVE  /\ a # Odd /\ DOMAIN a # {} /\ DOMAIN a \in Shapes
         /\ a = [i \in DOMAIN a |-> a[i]] /\ \A i \in DOMAIN a : a[i] \in AskedWords
         /\ [at |-> a, ahead |-> {}] \in ItemValues
<1>1. /\ DOMAIN a # {} /\ a \in Shaped(AskedWords)
      /\ a = [i \in DOMAIN a |-> a[i]] /\ DOMAIN a \in Shapes
      /\ \A i \in DOMAIN a : a[i] \in AskedWords
  BY ShapedHas DEF AskedValues
<1>2. DOMAIN Odd = {}
  BY DEF Odd
<1>3. a \in [DOMAIN a -> Words \cup {Null}]
  BY <1>1 DEF AskedWords
<1>4. a \in Shaped(Words \cup {Null})
  BY <1>1, <1>3, ShapedMade
<1> QED
  BY <1>1, <1>2, <1>4, ValueMade

LEMMA AgreesWithItself ==
  ASSUME NEW a \in AskedValues
  PROVE  Agrees(a, a)
  BY AskedIs, ReadingsAre DEF Agrees

\* What answers is carried on.
LEMMA AgreesCarried ==
  ASSUME NEW v \in ItemValues, NEW a \in AskedValues, v.ahead = {}, Agrees(v.at, a)
  PROVE  Carried(v)
<1>1. DOMAIN v.at # {} /\ \A i \in DOMAIN v.at : v.at[i] \in AskedWords
  BY AskedIs, ReadingsAre DEF Agrees
<1>2. \A w \in AskedWords : w \notin {Empty, Null}
  BY ItemsAssumption DEF AskedWords
<1> QED
  BY <1>1, <1>2 DEF Carried

\* A value that is written and read again.
Respelt(v) == [at |-> [i \in DOMAIN v.at |-> Plus[v.at[i]]], ahead |-> {}]

LEMMA RespeltAgrees ==
  ASSUME NEW v \in ItemValues, NEW a \in AskedValues, Agrees(v.at, a)
  PROVE  Agrees(Respelt(v).at, a)
<1>1. DOMAIN Respelt(v).at = DOMAIN v.at /\ \A i \in DOMAIN v.at : Respelt(v).at[i] = Plus[v.at[i]]
  BY DEF Respelt
<1>2. \A i \in DOMAIN a : \A w \in Readings(a[i]) : Plus[w] \in Readings(a[i])
  BY AskedIs, ReadingsAre
<1> QED
  BY <1>1, <1>2 DEF Agrees

\* What is written and read again.
LEMMA Reparsed ==
  ASSUME NEW t \in ItemTables
  PROVE  /\ Parsed(Encoded(t)) \in ItemTables
         /\ DOMAIN Parsed(Encoded(t)) \subseteq DOMAIN t
         /\ \A n \in DOMAIN t : Carried(t[n]) =>
              n \in DOMAIN Parsed(Encoded(t)) /\ Parsed(Encoded(t))[n] = Respelt(t[n])
<1>1. Encoded(t) \in QueryTexts /\ DOMAIN Encoded(t) = {n \in DOMAIN t : DOMAIN t[n].at # {}}
  BY EncodedIs
<1>2. Parsed(Encoded(t)) \in ItemTables /\ DOMAIN Parsed(Encoded(t)) = DOMAIN Encoded(t)
  BY <1>1, ParsedIs
<1>3. ASSUME NEW n \in DOMAIN t, Carried(t[n])
      PROVE  n \in DOMAIN Parsed(Encoded(t)) /\ Parsed(Encoded(t))[n] = Respelt(t[n])
  <2> DEFINE has == Parsed(Encoded(t))[n]
  <2>1. t[n] \in ItemValues /\ t[n].at \in AskedValues /\ t[n].ahead = {}
    BY <1>3, TableHas, CarriedIs
  <2>2. DOMAIN t[n].at # {} /\ \A i \in DOMAIN t[n].at : t[n].at[i] \in AskedWords
    BY <2>1, AskedIs
  <2>3. n \in DOMAIN Encoded(t)
    BY <1>1, <2>2
  <2>4. /\ DOMAIN Encoded(t)[n] = DOMAIN t[n].at
        /\ \A i \in DOMAIN t[n].at : Encoded(t)[n][i] = Spelling(t[n].at[i])
    BY <2>1, <2>3, EncodedIs
  <2>5. /\ has.ahead = {} /\ DOMAIN has.at = DOMAIN Encoded(t)[n]
        /\ \A i \in DOMAIN Encoded(t)[n] :
             has.at[i] = IF Encoded(t)[n][i] = Empty THEN Null ELSE Encoded(t)[n][i]
    BY <1>1, <2>3, ParsedIs
  <2>6. \A w \in AskedWords : Spelling(w) = Plus[w] /\ Plus[w] # Empty
    BY ItemsAssumption DEF AskedWords, Spelling
  <2>7. \A i \in DOMAIN t[n].at : has.at[i] = Plus[t[n].at[i]]
    BY <2>2, <2>4, <2>5, <2>6
  <2>8. has \in ItemValues
    BY <1>2, <2>3, TableHas
  <2> HIDE DEF has
  <2>9. has = [at |-> has.at, ahead |-> {}] /\ has.at = [i \in DOMAIN has.at |-> has.at[i]]
    BY <2>5, <2>8, ValueHas
  <2>10. has.at = [i \in DOMAIN t[n].at |-> Plus[t[n].at[i]]]
    BY <2>4, <2>5, <2>7, <2>9
  <2>11. has = Respelt(t[n])
    BY <2>9, <2>10 DEF Respelt
  <2> QED
    BY <1>2, <2>3, <2>11 DEF has
<1> QED
  BY <1>1, <1>2, <1>3

\* The values a query that replaces the old one carries.
LEMMA SpeltCarries ==
  ASSUME NEW t \in ItemTables
  PROVE  LET spelt == Encoded(Update(NoItems, t))
         IN /\ Parsed(spelt) \in ItemTables
            /\ DOMAIN Parsed(spelt) \subseteq DOMAIN t
            /\ \A n \in DOMAIN t : Carried(t[n]) =>
                 n \in DOMAIN Parsed(spelt) /\ Parsed(spelt)[n] = Respelt(t[n])
<1> DEFINE u == Update(NoItems, t)
<1>0. NoItems \in ItemTables
  BY NoItemsMade
<1>1. /\ u \in ItemTables
      /\ DOMAIN u = (DOMAIN NoItems \cup DOMAIN t) \ {n \in DOMAIN t : t[n] = Scalar(Null)}
  BY <1>0, UpdateIs
<1>2. \A n \in DOMAIN u : u[n] = IF n \notin DOMAIN t THEN NoItems[n]
                                 ELSE IF n \notin DOMAIN NoItems THEN t[n]
                                 ELSE UpdatedValue(NoItems[n], t[n])
  BY NoItemsMade, UpdateIs
<1>3. DOMAIN NoItems = {}
  BY NoItemsMade
<1>4. DOMAIN u \subseteq DOMAIN t /\ \A n \in DOMAIN u : u[n] = t[n]
  BY <1>1, <1>2, <1>3
<1>5. \A n \in DOMAIN t : Carried(t[n]) => n \in DOMAIN u
  BY <1>1, TableHas, CarriedIs
<1> HIDE DEF u
<1>6. /\ Parsed(Encoded(u)) \in ItemTables
      /\ DOMAIN Parsed(Encoded(u)) \subseteq DOMAIN u
      /\ \A n \in DOMAIN u : Carried(u[n]) =>
           n \in DOMAIN Parsed(Encoded(u)) /\ Parsed(Encoded(u))[n] = Respelt(u[n])
  BY <1>1, Reparsed
<1>7. /\ Parsed(Encoded(u)) \in ItemTables
      /\ DOMAIN Parsed(Encoded(u)) \subseteq DOMAIN t
      /\ \A n \in DOMAIN t : Carried(t[n]) =>
           n \in DOMAIN Parsed(Encoded(u)) /\ Parsed(Encoded(u))[n] = Respelt(t[n])
  BY <1>4, <1>5, <1>6
<1> QED
  BY <1>7 DEF u

\* The elements of what was asked for.
AskedElements(a) == Elements([at |-> a, ahead |-> {}])

LEMMA AskedElementsAre ==
  ASSUME NEW a \in AskedValues
  PROVE  /\ AskedElements(a) = (IF Bare \notin DOMAIN a THEN a ELSE [i \in {0} |-> a[Bare]])
         /\ DOMAIN AskedElements(a) \subseteq Indices /\ DOMAIN AskedElements(a) # {}
         /\ \A i \in DOMAIN AskedElements(a) : AskedElements(a)[i] \in AskedWords
<1>1. AskedElements(a) = (IF Bare \notin DOMAIN a THEN a ELSE [i \in {0} |-> a[Bare]])
  BY DEF AskedElements, Elements, IsArray
<1>2. /\ DOMAIN a # {} /\ DOMAIN a \in Shapes /\ \A i \in DOMAIN a : a[i] \in AskedWords
  BY AskedIs
<1>3. CASE Bare \notin DOMAIN a
  BY <1>1, <1>2, <1>3, ShapesAre
<1>4. CASE Bare \in DOMAIN a
  BY <1>1, <1>2, <1>4 DEF Indices
<1> QED
  BY <1>1, <1>3, <1>4

LEMMA ElementsAgree ==
  ASSUME NEW v \in ItemValues, NEW a \in AskedValues, Agrees(v.at, a)
  PROVE  Agrees(Elements(v), AskedElements(a))
<1>1. CASE Bare \notin DOMAIN a
  <2>1. Elements(v) = v.at /\ AskedElements(a) = a
    BY <1>1, AskedElementsAre DEF Agrees, Elements, IsArray
  <2> QED
    BY <2>1
<1>2. CASE Bare \in DOMAIN a
  <2>1. Elements(v) = [i \in {0} |-> v.at[Bare]] /\ AskedElements(a) = [i \in {0} |-> a[Bare]]
    BY <1>2, AskedElementsAre DEF Agrees, Elements, IsArray
  <2>2. v.at[Bare] \in Readings(a[Bare])
    BY <1>2 DEF Agrees
  <2> QED
    BY <2>1, <2>2 DEF Agrees
<1> QED
  BY <1>1, <1>2

LEMMA RespeltIs ==
  ASSUME NEW w \in ItemValues, Carried(w)
  PROVE  /\ w.at \in AskedValues
         /\ DOMAIN Respelt(w).at = DOMAIN w.at /\ Respelt(w).ahead = {}
         /\ IsArray(Respelt(w)) <=> IsArray(w)
         /\ \A i \in DOMAIN w.at : /\ w.at[i] \in AskedWords /\ Respelt(w).at[i] = Plus[w.at[i]]
                                   /\ Respelt(w).at[i] \notin {Empty, Null}
<1>1. w.at \in AskedValues
  BY CarriedIs
<1>2. /\ DOMAIN Respelt(w).at = DOMAIN w.at /\ Respelt(w).ahead = {}
      /\ \A i \in DOMAIN w.at : Respelt(w).at[i] = Plus[w.at[i]]
  BY DEF Respelt
<1>3. \A i \in DOMAIN w.at : w.at[i] \in AskedWords
  BY <1>1, AskedIs
<1>4. \A x \in AskedWords : Plus[x] \notin {Empty, Null}
  BY ItemsAssumption DEF AskedWords
<1> QED
  BY <1>1, <1>2, <1>3, <1>4 DEF IsArray

\* An element that is kept, or taken, is a reading of the one that was given.
LEMMA KeptReads ==
  ASSUME NEW s, NEW w \in AskedWords, LooselyEqual(s, Plus[w])
  PROVE  s \in Readings(w)
<1>1. Plus[w] \notin {Empty, Null}
  BY ItemsAssumption DEF AskedWords
<1>2. s = Plus[w] \/ <<s, Plus[w]>> \in Alike
  BY <1>1 DEF LooselyEqual
<1> QED
  BY <1>2, ReadingsAre

LEMMA JoinedAgrees ==
  ASSUME NEW v \in ItemValues, NEW a \in AskedValues, v.ahead = {}, Agrees(v.at, a),
         NEW w \in ItemValues, IsArray(w), Carried(w), ~Late(AskedElements(a), w)
  PROVE  /\ Joined(v, Respelt(w)).ahead = {}
         /\ Agrees(Joined(v, Respelt(w)).at, Over(w.at, AskedElements(a)))
         /\ Over(w.at, AskedElements(a)) \in AskedValues
<1> DEFINE old == Elements(v)
           now == AskedElements(a)
           m == Respelt(w)
           D == (DOMAIN old \cup DOMAIN m.at) \ {n \in DOMAIN m.at : m.at[n] = Null}
           j == [n \in D |-> IF n \notin DOMAIN m.at THEN old[n]
                             ELSE IF n \notin DOMAIN old THEN m.at[n]
                             ELSE IF LooselyEqual(old[n], m.at[n]) THEN old[n] ELSE m.at[n]]
           before == IF 0 \in DOMAIN old THEN v.ahead ELSE (DOMAIN old \cap Numbers) \cup m.ahead
           A == IF 0 \in DOMAIN j THEN before \cap DOMAIN j ELSE {}
<1>1. Joined(v, m) = [at |-> j, ahead |-> A]
  BY DEF Joined, Updated
<1>2. Over(w.at, now) = [n \in DOMAIN w.at \cup DOMAIN now |-> IF n \in DOMAIN w.at THEN w.at[n] ELSE now[n]]
  BY DEF Over
<1>3. Agrees(old, now)
  BY ElementsAgree
<1>4. /\ DOMAIN now \subseteq Indices /\ DOMAIN now # {}
      /\ \A i \in DOMAIN now : now[i] \in AskedWords
  BY AskedElementsAre
<1>5. /\ DOMAIN m.at = DOMAIN w.at /\ m.ahead = {}
      /\ \A i \in DOMAIN w.at : /\ w.at[i] \in AskedWords /\ m.at[i] = Plus[w.at[i]]
                                /\ m.at[i] \notin {Empty, Null}
  BY RespeltIs
<1>6. DOMAIN w.at \subseteq Indices
  BY ValueHas
<1>7. A = {}
  <2>1. CASE 0 \in DOMAIN old
    BY <2>1
  <2>2. CASE 0 \notin DOMAIN old /\ 0 \in DOMAIN w.at
    <3>1. DOMAIN now \cap Numbers = {}
      BY <1>3, <2>2 DEF Late, Agrees
    <3> QED
      BY <1>3, <1>5, <2>2, <3>1 DEF Agrees
  <2>3. CASE 0 \notin DOMAIN old /\ 0 \notin DOMAIN w.at
    BY <1>5, <2>3
  <2> QED
    BY <2>1, <2>2, <2>3
<1> HIDE DEF A, old, now, m
<1>8. D = DOMAIN w.at \cup DOMAIN now
  BY <1>3, <1>5 DEF Agrees
<1>9. Agrees(j, Over(w.at, now))
  <2>1. DOMAIN j = DOMAIN w.at \cup DOMAIN now /\ DOMAIN Over(w.at, now) = DOMAIN w.at \cup DOMAIN now
    BY <1>2, <1>8
  <2>2. ASSUME NEW i \in DOMAIN w.at \cup DOMAIN now
        PROVE  j[i] \in Readings(Over(w.at, now)[i])
    <3>1. CASE i \in DOMAIN w.at
      <4>1. Over(w.at, now)[i] = w.at[i]
        BY <1>2, <3>1
      <4>2. j[i] = Plus[w.at[i]] \/ (j[i] = old[i] /\ LooselyEqual(old[i], Plus[w.at[i]]))
        BY <1>5, <1>8, <3>1
      <4> HIDE DEF j
      <4> QED
        BY <1>5, <3>1, <4>1, <4>2, KeptReads, ReadingsAre
    <3>2. CASE i \notin DOMAIN w.at
      <4>1. j[i] = old[i] /\ Over(w.at, now)[i] = now[i] /\ i \in DOMAIN now
        BY <1>2, <1>5, <1>8, <3>2
      <4> HIDE DEF j
      <4> QED
        BY <1>3, <4>1 DEF Agrees
    <3> QED
      BY <3>1, <3>2
  <2> QED
    BY <2>1, <2>2 DEF Agrees
<1>10. Over(w.at, now) \in AskedValues
  <2>1. Over(w.at, now) \in [DOMAIN w.at \cup DOMAIN now -> AskedWords]
    BY <1>2, <1>4, <1>5
  <2>2. DOMAIN w.at \cup DOMAIN now \in Shapes
    BY <1>4, <1>6 DEF Shapes
  <2>3. Over(w.at, now) \in Shaped(AskedWords)
    BY <2>1, <2>2, ShapedMade
  <2> QED
    BY <1>4, <2>1, <2>3 DEF AskedValues
<1> QED
  BY <1>1, <1>7, <1>9, <1>10 DEF now, m

\* A scalar comes, or one it cannot be told from stays.
LEMMA ScalarAgrees ==
  ASSUME NEW v \in ItemValues, NEW w \in ItemValues, ~IsArray(w), Carried(w)
  PROVE  /\ UpdatedValue(v, Respelt(w)).ahead = {}
         /\ Agrees(UpdatedValue(v, Respelt(w)).at, w.at)
<1>1. /\ w.at \in AskedValues /\ ~IsArray(Respelt(w)) /\ Respelt(w).ahead = {}
      /\ DOMAIN w.at = {Bare} /\ Respelt(w).at[Bare] = Plus[w.at[Bare]]
      /\ w.at[Bare] \in AskedWords
  <2>1. DOMAIN w.at = {Bare}
    BY ValueHas
  <2>2. Bare \in DOMAIN w.at
    BY <2>1
  <2> QED
    BY <2>1, <2>2, RespeltIs
<1>2. CASE ~IsArray(v) /\ LooselyEqual(v.at[Bare], Plus[w.at[Bare]])
  <2>1. UpdatedValue(v, Respelt(w)) = v
    BY <1>1, <1>2 DEF UpdatedValue
  <2>2. DOMAIN v.at = {Bare} /\ v.ahead = {}
    BY <1>2, ValueHas
  <2>3. v.at[Bare] \in Readings(w.at[Bare])
    BY <1>1, <1>2, KeptReads
  <2> QED
    BY <1>1, <2>1, <2>2, <2>3 DEF Agrees
<1>3. CASE ~(~IsArray(v) /\ LooselyEqual(v.at[Bare], Plus[w.at[Bare]]))
  <2>1. UpdatedValue(v, Respelt(w)) = Respelt(w)
    BY <1>1, <1>3 DEF UpdatedValue
  <2>2. Agrees(w.at, w.at)
    BY <1>1, AgreesWithItself
  <2> QED
    BY <1>1, <2>1, <2>2, RespeltAgrees
<1> QED
  BY <1>2, <1>3

\* The query that setQuery gives, and that of a URL.
LEMMA AskedAnew ==
  ASSUME NEW t \in ItemTables, NEW has, DOMAIN has \subseteq DOMAIN t,
         \A n \in DOMAIN t : Carried(t[n]) =>
            n \in DOMAIN has /\ (has[n] = t[n] \/ has[n] = Respelt(t[n]))
  PROVE  Answers(has, Ask(NoItems, t))
<1>1. DOMAIN NoItems = {}
  BY NoItemsMade
<1>2. DOMAIN Ask(NoItems, t) = DOMAIN t
  BY <1>1 DEF Ask
<1>3. \A n \in DOMAIN t : Ask(NoItems, t)[n] = IF Carried(t[n]) THEN t[n].at ELSE Odd
  BY <1>1 DEF Ask
<1>4. ASSUME NEW n \in DOMAIN t, Carried(t[n])
      PROVE  /\ t[n].at \in AskedValues /\ n \in DOMAIN has
             /\ has[n].ahead = {} /\ Agrees(has[n].at, t[n].at)
  <2>1. t[n] \in ItemValues
    BY TableHas
  <2>2. t[n].at \in AskedValues /\ t[n].ahead = {} /\ Respelt(t[n]).ahead = {}
    BY <1>4, <2>1, CarriedIs, RespeltIs
  <2>3. Agrees(t[n].at, t[n].at)
    BY <2>2, AgreesWithItself
  <2>4. Agrees(Respelt(t[n]).at, t[n].at)
    BY <2>1, <2>2, <2>3, RespeltAgrees
  <2> QED
    BY <1>4, <2>2, <2>3, <2>4
<1> QED
  BY <1>2, <1>3, <1>4 DEF Answers

\* What is known of a table after an update.
LEMMA UpdateAt ==
  ASSUME NEW has \in ItemTables, NEW given \in ItemTables, NEW n,
         n \in DOMAIN given => given[n] # Scalar(Null)
  PROVE  /\ n \in DOMAIN Update(has, given) <=> n \in DOMAIN has \/ n \in DOMAIN given
         /\ n \in DOMAIN Update(has, given) =>
              Update(has, given)[n] = IF n \notin DOMAIN given THEN has[n]
                                      ELSE IF n \notin DOMAIN has THEN given[n]
                                      ELSE UpdatedValue(has[n], given[n])
<1>1. DOMAIN Update(has, given) =
        (DOMAIN has \cup DOMAIN given) \ {m \in DOMAIN given : given[m] = Scalar(Null)}
  BY UpdateIs, Zenon
<1>2. n \in DOMAIN Update(has, given) =>
        Update(has, given)[n] = IF n \notin DOMAIN given THEN has[n]
                                ELSE IF n \notin DOMAIN has THEN given[n]
                                ELSE UpdatedValue(has[n], given[n])
  BY UpdateIs, Zenon
<1>3. n \in DOMAIN Update(has, given) <=> n \in DOMAIN has \/ n \in DOMAIN given
  BY <1>1
<1> QED
  BY <1>2, <1>3

LEMMA UpdateWithin ==
  ASSUME NEW has \in ItemTables, NEW given \in ItemTables
  PROVE  DOMAIN Update(has, given) \subseteq DOMAIN has \cup DOMAIN given
<1>1. DOMAIN Update(has, given) =
        (DOMAIN has \cup DOMAIN given) \ {m \in DOMAIN given : given[m] = Scalar(Null)}
  BY UpdateIs, Zenon
<1> QED
  BY <1>1

\* The query that addQuery joins to one that answers what was asked for.
LEMMA AskedMore ==
  ASSUME NEW old \in QueryTexts, NEW said, Answers(Parsed(old), said),
         NEW t \in ItemTables
  PROVE  Answers(Parsed(JoinQuery(old, Encoded(Update(NoItems, t)))), Ask(said, t))
<1> DEFINE has == Parsed(old)
           more == Parsed(Encoded(Update(NoItems, t)))
           h == Update(NoItems, has)
           u == Update(h, more)
           now == Ask(said, t)
<1>1. has \in ItemTables
  BY ParsedIs
<1>2. /\ more \in ItemTables /\ DOMAIN more \subseteq DOMAIN t
      /\ \A n \in DOMAIN t : Carried(t[n]) => n \in DOMAIN more /\ more[n] = Respelt(t[n])
  BY SpeltCarries
<1>3. NoItems \in ItemTables /\ DOMAIN NoItems = {}
  BY NoItemsMade
<1>4. h \in ItemTables /\ u \in ItemTables
  BY <1>1, <1>2, <1>3, UpdateIs
<1>5. DOMAIN now = DOMAIN said \cup DOMAIN t
  BY DEF Ask
<1>6. \A n \in DOMAIN now : now[n] =
         IF n \notin DOMAIN t THEN said[n]
         ELSE IF ~Carried(t[n]) THEN Odd
         ELSE IF n \notin DOMAIN said \/ ~IsArray(t[n]) THEN t[n].at
         ELSE IF said[n] = Odd \/ Late(AskedElements(said[n]), t[n]) THEN Odd
         ELSE Over(t[n].at, AskedElements(said[n]))
  BY DEF Ask, AskedElements
<1>7. JoinQuery(old, Encoded(Update(NoItems, t))) = Encoded(u)
  BY DEF JoinQuery
<1> HIDE DEF has, more, now
<1>8. DOMAIN h \subseteq DOMAIN has
  BY <1>1, <1>3, UpdateWithin
<1>9. ASSUME NEW n \in DOMAIN has, Carried(has[n])
      PROVE  n \in DOMAIN h /\ h[n] = has[n]
  <2>1. has[n] # Scalar(Null)
    BY <1>1, <1>9, TableHas, CarriedIs
  <2> QED
    BY <1>1, <1>3, <1>9, <2>1, UpdateAt
<1> HIDE DEF h
<1>10. DOMAIN u \subseteq DOMAIN said \cup DOMAIN t
  <2>1. DOMAIN u \subseteq DOMAIN h \cup DOMAIN more
    BY <1>2, <1>4, UpdateWithin
  <2>2. DOMAIN has \subseteq DOMAIN said
    BY DEF Answers, has
  <2> QED
    BY <1>2, <1>8, <2>1, <2>2
<1>11. ASSUME NEW n \in DOMAIN now, now[n] # Odd
       PROVE  /\ now[n] \in AskedValues /\ n \in DOMAIN u
              /\ u[n].ahead = {} /\ Agrees(u[n].at, now[n])
  <2> DEFINE w == t[n]
             a == said[n]
  <2>1. ASSUME n \in DOMAIN said, a # Odd
        PROVE  /\ a \in AskedValues /\ n \in DOMAIN h
               /\ h[n] \in ItemValues /\ h[n].ahead = {} /\ Agrees(h[n].at, a)
    <3>1. /\ a \in AskedValues /\ n \in DOMAIN has
          /\ has[n].ahead = {} /\ Agrees(has[n].at, a)
      BY <2>1 DEF Answers, has
    <3>2. Carried(has[n])
      BY <1>1, <3>1, TableHas, AgreesCarried
    <3>3. n \in DOMAIN h /\ h[n] = has[n]
      BY <1>9, <3>1, <3>2
    <3>4. h[n] \in ItemValues
      BY <1>4, <3>3, TableHas
    <3> QED
      BY <3>1, <3>3, <3>4
  <2>2. CASE n \notin DOMAIN t
    <3>1. now[n] = a /\ n \in DOMAIN said /\ a # Odd
      BY <1>5, <1>6, <1>11, <2>2
    <3>2. n \notin DOMAIN more
      BY <1>2, <2>2
    <3>3. n \in DOMAIN u /\ u[n] = h[n]
      BY <1>2, <1>4, <2>1, <3>1, <3>2, UpdateAt
    <3> QED
      BY <2>1, <3>1, <3>3
  <2>3. CASE n \in DOMAIN t
    <3>1. Carried(w) /\ w \in ItemValues
      BY <1>6, <1>11, <2>3, TableHas
    <3>r. /\ w.at \in AskedValues /\ Respelt(w).ahead = {}
          /\ (IsArray(Respelt(w)) <=> IsArray(w)) /\ Agrees(Respelt(w).at, w.at)
      BY <3>1, RespeltIs, AgreesWithItself, RespeltAgrees
    <3>2. n \in DOMAIN more /\ more[n] = Respelt(w)
      BY <1>2, <2>3, <3>1
    <3>s. more[n] # Scalar(Null)
      BY <1>2, <3>1, <3>2, RespeltIs, ScalarHas, AskedIs
    <3>3. n \in DOMAIN u /\ u[n] = IF n \notin DOMAIN h THEN Respelt(w) ELSE UpdatedValue(h[n], Respelt(w))
      BY <1>2, <1>4, <3>2, <3>s, UpdateAt
    <3>4. n \in DOMAIN h => h[n] \in ItemValues
      BY <1>4, TableHas
    <3>5. CASE n \notin DOMAIN said
      <4>1. now[n] = w.at
        BY <1>6, <2>3, <3>1, <3>5
      <4>2. n \notin DOMAIN h
        BY <1>8, <3>5 DEF Answers, has
      <4> QED
        BY <3>r, <3>3, <4>1, <4>2
    <3>6. CASE n \in DOMAIN said /\ ~IsArray(w)
      <4>1. now[n] = w.at
        BY <1>6, <2>3, <3>1, <3>6
      <4> QED
        BY <3>1, <3>r, <3>3, <3>4, <3>6, <4>1, ScalarAgrees
    <3>7. CASE n \in DOMAIN said /\ IsArray(w)
      <4>1. a # Odd /\ ~Late(AskedElements(a), w) /\ now[n] = Over(w.at, AskedElements(a))
        BY <1>6, <1>11, <2>3, <3>1, <3>7
      <4>2. u[n] = Joined(h[n], Respelt(w)) /\ n \in DOMAIN u
        BY <2>1, <3>r, <3>3, <3>7, <4>1 DEF UpdatedValue
      <4>3. /\ a \in AskedValues /\ h[n] \in ItemValues /\ h[n].ahead = {} /\ Agrees(h[n].at, a)
        BY <2>1, <3>7, <4>1
      <4> HIDE DEF w, a
      <4>4. /\ Joined(h[n], Respelt(w)).ahead = {}
            /\ Agrees(Joined(h[n], Respelt(w)).at, Over(w.at, AskedElements(a)))
            /\ Over(w.at, AskedElements(a)) \in AskedValues
        BY <3>1, <3>7, <4>1, <4>3, JoinedAgrees
      <4> QED
        BY <4>1, <4>2, <4>4
    <3> QED
      BY <3>5, <3>6, <3>7
  <2> QED
    BY <2>2, <2>3
<1> HIDE DEF u
<1>12. /\ DOMAIN Parsed(Encoded(u)) \subseteq DOMAIN u
       /\ \A n \in DOMAIN u : Carried(u[n]) =>
            n \in DOMAIN Parsed(Encoded(u)) /\ Parsed(Encoded(u))[n] = Respelt(u[n])
  BY <1>4, Reparsed
<1>13. Answers(Parsed(Encoded(u)), now)
  <2>1. DOMAIN Parsed(Encoded(u)) \subseteq DOMAIN now
    BY <1>5, <1>10, <1>12
  <2>2. ASSUME NEW n \in DOMAIN now, now[n] # Odd
        PROVE  /\ now[n] \in AskedValues /\ n \in DOMAIN Parsed(Encoded(u))
               /\ Parsed(Encoded(u))[n].ahead = {} /\ Agrees(Parsed(Encoded(u))[n].at, now[n])
    <3>1. /\ now[n] \in AskedValues /\ n \in DOMAIN u
          /\ u[n].ahead = {} /\ Agrees(u[n].at, now[n]) /\ u[n] \in ItemValues
      BY <1>4, <1>11, <2>2, TableHas
    <3>2. Carried(u[n])
      BY <3>1, AgreesCarried
    <3>3. n \in DOMAIN Parsed(Encoded(u)) /\ Parsed(Encoded(u))[n] = Respelt(u[n])
      BY <1>12, <3>1, <3>2
    <3>4. Respelt(u[n]).ahead = {} /\ Agrees(Respelt(u[n]).at, now[n])
      BY <3>1, <3>2, RespeltIs, RespeltAgrees
    <3> QED
      BY <3>1, <3>3, <3>4
  <2> QED
    BY <2>1, <2>2 DEF Answers
<1> QED
  BY <1>7, <1>13 DEF u, h, more, has, now

-----------------------------------------------------------------------------
(* URLs and their parts *)

LEMMA UrlHas ==
  ASSUME NEW u \in UrlParts
  PROVE  /\ DOMAIN u = Components /\ u = [c \in Components |-> u[c]]
         /\ u.scheme \in Texts /\ u.user \in Texts /\ u.pass \in Texts /\ u.host \in Texts
         /\ u.port \in Nat /\ u.path \in Paths \cup {None}
         /\ u.query \in QueryTexts \cup {None} /\ u.fragment \in Texts
  BY DEF UrlParts, UrlsWith, Components

LEMMA UrlMade ==
  ASSUME NEW u, u = [c \in Components |-> u[c]],
         u.scheme \in Texts, u.user \in Texts, u.pass \in Texts, u.host \in Texts,
         u.port \in Nat, u.path \in Paths \cup {None},
         u.query \in QueryTexts \cup {None}, u.fragment \in Texts
  PROVE  u \in UrlParts
  BY DEF UrlParts, UrlsWith, Components

LEMMA NoUrlIs ==
  /\ NoUrl \in UrlParts /\ NoUrl.port = 0
  /\ \A c \in Components \ {"port"} : NoUrl[c] = None
<1>1. NoUrl = [c \in Components |-> NoUrl[c]] /\ NoUrl.port = 0
  BY DEF NoUrl, Components
<1>2. \A c \in Components \ {"port"} : NoUrl[c] = None
  BY DEF NoUrl
<1>3. /\ NoUrl.scheme = None /\ NoUrl.user = None /\ NoUrl.pass = None /\ NoUrl.host = None
      /\ NoUrl.path = None /\ NoUrl.query = None /\ NoUrl.fragment = None
  BY <1>2 DEF Components
<1>4. NoUrl \in UrlParts
  BY <1>1, <1>3, UrlMade DEF Texts
<1> QED
  BY <1>1, <1>2, <1>4

LEMMA OverOld ==
  ASSUME NEW old \in UrlParts, NEW new \in UrlParts
  PROVE  /\ NewOverOld(old, new, "scheme") \in Texts /\ NewOverOld(old, new, "user") \in Texts
         /\ NewOverOld(old, new, "pass") \in Texts /\ NewOverOld(old, new, "host") \in Texts
         /\ NewOverOld(old, new, "port") \in Nat /\ NewOverOld(old, new, "path") \in Paths \cup {None}
         /\ NewOverOld(old, new, "query") \in QueryTexts \cup {None}
         /\ NewOverOld(old, new, "fragment") \in Texts
  BY UrlHas DEF NewOverOld

LEMMA JoinQueryTyped ==
  ASSUME NEW old \in QueryTexts, NEW new \in QueryTexts
  PROVE  JoinQuery(old, new) \in QueryTexts
  BY NoItemsMade, ParsedIs, UpdateIs, EncodedIs DEF JoinQuery

LEMMA LastOfSome ==
  ASSUME NEW n \in Int, NEW named \in SUBSET (1 .. n), named # {}
  PROVE  (CHOOSE i \in named : \A j \in named : j <= i) \in 1 .. n
<1>1. named \subseteq Nat
  OBVIOUS
<1>2. IsFiniteSet(1 .. n)
  BY FS_Interval
<1>3. IsFiniteSet(named)
  BY <1>2, FS_Subset
<1>4. \E i \in named : \A j \in named : j <= i
  BY <1>1, <1>3, MaxOfFinite
<1> QED
  BY <1>4

LEMMA ShortSequences ==
  ASSUME NEW S, NEW a \in S, NEW b \in S
  PROVE  <<a>> \in Seq(S) /\ <<a, b>> \in Seq(S) /\ <<a>> # <<>> /\ <<a, b>> # <<>>
  OBVIOUS

LEMMA ShortPaths ==
  /\ <<".">> \in Paths /\ <<"">> \in Paths /\ <<"", "">> \in Paths
  /\ <<".">> \in Seq(STRING) /\ <<"">> \in Seq(STRING) /\ <<"", "">> \in Seq(STRING)
<1>1. "." \in STRING /\ "" \in STRING
  BY TextsAssumption
<1> QED
  BY <1>1, ShortSequences, Zenon DEF Paths

LEMMA DirnameTyped ==
  ASSUME NEW path \in Paths
  PROVE  Dirname(path) \in Seq(STRING)
<1> DEFINE named == {i \in 1..(Len(path) - 1) : path[i] # ""}
           last == CHOOSE i \in named : \A j \in named : j <= i
<1>1. path \in Seq(STRING) /\ Len(path) \in Nat
  BY DEF Paths
<1>2. named \in SUBSET (1 .. Len(path) - 1)
  OBVIOUS
<1>3. Dirname(path) = IF Len(path) = 1 THEN <<".">>
                      ELSE IF named = {} THEN <<"", "">> ELSE SubSeq(path, 1, last)
  BY DEF Dirname
<1> HIDE DEF named
<1>4. named # {} => last \in 1 .. Len(path) - 1
  <2>1. Len(path) - 1 \in Int
    BY <1>1
  <2> QED
    BY <1>2, <2>1, LastOfSome
<1> HIDE DEF last
<1>5. named # {} => SubSeq(path, 1, last) \in Seq(STRING)
  BY <1>1, <1>4
<1>6. <<".">> \in Seq(STRING) /\ <<"", "">> \in Seq(STRING)
  BY ShortPaths
<1> QED
  BY <1>3, <1>5, <1>6

LEMMA JoinPathTyped ==
  ASSUME NEW old \in Paths, NEW new \in Paths
  PROVE  JoinPath(old, new) \in Paths
<1>1. Front(old) \in Seq(STRING)
  BY DEF Front, Paths
<1> DEFINE before == IF Last(old) = "" THEN Front(old) ELSE Dirname(old)
<1>2. before \in Seq(STRING)
  BY <1>1, DirnameTyped
<1> HIDE DEF before
<1>3. before \o new \in Seq(STRING) /\ before \o new # <<>>
  BY <1>2 DEF Paths
<1> QED
  BY <1>3 DEF JoinPath, before, Paths

LEMMA CombinedTyped ==
  ASSUME NEW flags, NEW old \in UrlParts, NEW new \in UrlParts
  PROVE  /\ Combined(flags, old, new) \in UrlParts
         /\ Combined(flags, old, new).scheme = NewOverOld(old, new, "scheme")
         /\ Combined(flags, old, new).query =
              IF "strip_query" \in flags THEN None
              ELSE IF "join_query" \in flags /\ Given(old, "query") /\ Given(new, "query")
                   THEN JoinQuery(old.query, new.query)
              ELSE NewOverOld(old, new, "query")
<1> DEFINE c == Combined(flags, old, new)
           path == IF "strip_path" \in flags THEN None
                   ELSE IF /\ "join_path" \in flags /\ Given(old, "path") /\ Given(new, "path")
                           /\ (Head(new.path) # "" \/ new.path = <<"">>)
                        THEN JoinPath(old.path, new.path)
                   ELSE NewOverOld(old, new, "path")
           query == IF "strip_query" \in flags THEN None
                    ELSE IF "join_query" \in flags /\ Given(old, "query") /\ Given(new, "query")
                         THEN JoinQuery(old.query, new.query)
                    ELSE NewOverOld(old, new, "query")
<1>1. path \in Paths \cup {None}
  BY UrlHas, OverOld, JoinPathTyped DEF Given
<1>2. query \in QueryTexts \cup {None}
  BY UrlHas, OverOld, JoinQueryTyped DEF Given
<1> HIDE DEF path, query
<1>3. c = [NoUrl EXCEPT
        !.port = IF "strip_port" \in flags THEN 0 ELSE NewOverOld(old, new, "port"),
        !.user = IF "strip_auth" \in flags THEN None ELSE NewOverOld(old, new, "user"),
        !.pass = IF "strip_auth" \in flags THEN None ELSE NewOverOld(old, new, "pass"),
        !.scheme = NewOverOld(old, new, "scheme"),
        !.host = NewOverOld(old, new, "host"),
        !.path = path,
        !.query = query,
        !.fragment = IF "strip_fragment" \in flags THEN None ELSE NewOverOld(old, new, "fragment")]
  BY DEF Combined, path, query
<1>4. DOMAIN NoUrl = Components
  BY DEF NoUrl
<1>5. /\ c = [x \in Components |-> c[x]]
      /\ c.scheme = NewOverOld(old, new, "scheme") /\ c.host = NewOverOld(old, new, "host")
      /\ c.user = IF "strip_auth" \in flags THEN None ELSE NewOverOld(old, new, "user")
      /\ c.pass = IF "strip_auth" \in flags THEN None ELSE NewOverOld(old, new, "pass")
      /\ c.port = IF "strip_port" \in flags THEN 0 ELSE NewOverOld(old, new, "port")
      /\ c.path = path /\ c.query = query
      /\ c.fragment = IF "strip_fragment" \in flags THEN None ELSE NewOverOld(old, new, "fragment")
  BY <1>3, <1>4 DEF Components
<1> HIDE DEF c
<1>6. /\ c.scheme \in Texts /\ c.user \in Texts /\ c.pass \in Texts /\ c.host \in Texts
      /\ c.port \in Nat /\ c.path \in Paths \cup {None}
      /\ c.query \in QueryTexts \cup {None} /\ c.fragment \in Texts
  BY <1>1, <1>2, <1>5, OverOld DEF Texts
<1>7. c \in UrlParts
  BY <1>5, <1>6, UrlMade
<1> QED
  BY <1>5, <1>7 DEF c, query

LEMMA AbsoluteOf ==
  ASSUME NEW S, NEW e \in S, NEW path \in Seq(S), path # <<>>,
         NEW full, full = IF Head(path) = e /\ Len(path) > 1 THEN path ELSE <<e>> \o path
  PROVE  full \in Seq(S) /\ full # <<>> /\ Len(full) > 1 /\ full[1] = e /\ Head(full) = e
<1>1. Len(path) \in Nat /\ Len(path) > 0 /\ Head(path) = path[1]
  OBVIOUS
<1>2. CASE Head(path) = e /\ Len(path) > 1
  BY <1>1, <1>2
<1>3. CASE ~(Head(path) = e /\ Len(path) > 1)
  <2>1. full = <<e>> \o path
    BY <1>3
  <2> QED
    BY <1>1, <2>1
<1> QED
  BY <1>2, <1>3

LEMMA AbsoluteIs ==
  ASSUME NEW path \in Paths
  PROVE  /\ Absolute(path) \in Paths /\ Len(Absolute(path)) > 1 /\ Absolute(path)[1] = ""
         /\ Absolute(Absolute(path)) = Absolute(path)
<1> DEFINE full == Absolute(path)
<1>1. path \in Seq(STRING) /\ path # <<>> /\ "" \in STRING
  BY TextsAssumption DEF Paths
<1>2. full = IF Head(path) = "" /\ Len(path) > 1 THEN path ELSE <<"">> \o path
  BY DEF Absolute
<1> HIDE DEF full
<1>3. full \in Seq(STRING) /\ full # <<>> /\ Len(full) > 1 /\ full[1] = "" /\ Head(full) = ""
  BY <1>1, <1>2, AbsoluteOf, Zenon
<1>4. Absolute(full) = full
  BY <1>3, Zenon DEF Absolute
<1> QED
  BY <1>3, <1>4, Zenon DEF Paths, full

-----------------------------------------------------------------------------
(* Sanitizing a path *)

Turns(f, path, n) ==
  f = [i \in 0 .. n |-> IF i = 0 THEN [path |-> path, at |-> 2] ELSE Turn(f[i - 1])]

LEMMA TurnsExist ==
  ASSUME NEW path, NEW n \in Nat
  PROVE  \E f : Turns(f, path, n)
<1> DEFINE T == {k \in Nat : ~ \E f : Turns(f, path, k)}
<1>1. ASSUME NEW k \in T PROVE \E j \in T : j < k
  <2>1. k # 0
    <3> DEFINE f == [i \in 0 .. 0 |-> [path |-> path, at |-> 2]]
    <3>1. \A i \in 0 .. 0 : i = 0
      OBVIOUS
    <3>2. Turns(f, path, 0)
      BY <3>1 DEF Turns
    <3> HIDE DEF f
    <3> QED
      BY <3>2
  <2>2. k - 1 \in Nat
    BY <2>1
  <2>3. SUFFICES ASSUME k - 1 \notin T PROVE FALSE
    BY <2>2
  <2>4. PICK f : Turns(f, path, k - 1)
    BY <2>2, <2>3
  <2> DEFINE g == [i \in 0 .. k |-> IF i = 0 THEN [path |-> path, at |-> 2] ELSE Turn(f[i - 1])]
  <2>5. \A i \in 0 .. k - 1 : g[i] = f[i]
    <3>1. \A i \in 0 .. k - 1 : i \in 0 .. k
      BY <2>2
    <3> HIDE DEF T
    <3> QED
      BY <3>1, <2>4 DEF Turns
  <2>6. \A i \in 0 .. k : i # 0 => i - 1 \in 0 .. k - 1
    BY <2>2
  <2>7. g = [i \in 0 .. k |-> IF i = 0 THEN [path |-> path, at |-> 2] ELSE Turn(g[i - 1])]
    BY <2>5, <2>6
  <2> HIDE DEF g
  <2>8. Turns(g, path, k)
    BY <2>7 DEF Turns
  <2> QED
    BY <2>8
<1>2. T = {}
  <2> HIDE DEF T
  <2>1. T \subseteq Nat
    BY DEF T
  <2> QED
    BY <1>1, <2>1, Induction
<1> QED
  BY <1>2

LEMMA Walked ==
  ASSUME NEW path \in Paths
  PROVE  \E f : Turns(f, path, Len(path)) /\ Descent(path) = f[Len(path)].path
<1> DEFINE f == CHOOSE it : it = [i \in 0 .. Len(path) |->
                                    IF i = 0 THEN [path |-> path, at |-> 2] ELSE Turn(it[i - 1])]
<1>1. Len(path) \in Nat
  BY DEF Paths
<1>2. PICK h : Turns(h, path, Len(path))
  BY <1>1, TurnsExist
<1>3. Descent(path) = f[Len(path)].path
  BY DEF Descent
<1>4. f = [i \in 0 .. Len(path) |-> IF i = 0 THEN [path |-> path, at |-> 2] ELSE Turn(f[i - 1])]
  BY <1>2 DEF Turns
<1> HIDE DEF f
<1>5. Turns(f, path, Len(path))
  BY <1>4 DEF Turns
<1> QED
  BY <1>3, <1>5

LEMMA RemoveAtIs ==
  ASSUME NEW S, NEW s \in Seq(S), NEW i \in 1 .. Len(s)
  PROVE  /\ RemoveAt(s, i) \in Seq(S) /\ Len(RemoveAt(s, i)) = Len(s) - 1
         /\ \A j \in 1 .. i - 1 : RemoveAt(s, i)[j] = s[j]
<1> DEFINE a == SubSeq(s, 1, i - 1)
           b == SubSeq(s, i + 1, Len(s))
<1>1. a \in Seq(S) /\ Len(a) = i - 1 /\ \A j \in 1 .. i - 1 : a[j] = s[j]
  OBVIOUS
<1>2. b \in Seq(S) /\ Len(b) = Len(s) - i
  OBVIOUS
<1>3. RemoveAt(s, i) = a \o b
  BY DEF RemoveAt
<1> HIDE DEF a, b
<1>4. a \o b \in Seq(S) /\ Len(a \o b) = Len(s) - 1
  <2>1. a \o b \in Seq(S) /\ Len(a \o b) = Len(a) + Len(b)
    BY <1>1, <1>2, ConcatFacts
  <2> QED
    BY <1>1, <1>2, <2>1
<1>5. ASSUME NEW j \in 1 .. i - 1 PROVE (a \o b)[j] = a[j]
  <2>1. j \in 1 .. Len(a)
    BY <1>1
  <2> QED
    BY <1>1, <1>2, <2>1
<1> QED
  BY <1>1, <1>3, <1>4, <1>5

\* The names a walk got past: all are in P, and the last one is in Q.
WalkedPast(S, P, Q, path, at) ==
  /\ path \in Seq(S) /\ Len(path) > 0
  /\ at \in Nat /\ 2 <= at /\ at <= Len(path) + 1
  /\ \A i \in 2 .. at - 1 : path[i] \in Q /\ (i # Len(path) => path[i] \in P)

LEMMA DropName ==
  ASSUME NEW S, NEW P, NEW Q, NEW path, NEW at, WalkedPast(S, P, Q, path, at), at < Len(path)
  PROVE  /\ WalkedPast(S, P, Q, RemoveAt(path, at), at)
         /\ Len(RemoveAt(path, at)) = Len(path) - 1
<1> DEFINE p == RemoveAt(path, at)
<1>1. /\ path \in Seq(S) /\ Len(path) \in Nat /\ at \in Nat /\ 2 <= at /\ at \in 1 .. Len(path)
  BY DEF WalkedPast
<1>2. p \in Seq(S) /\ Len(p) = Len(path) - 1 /\ \A j \in 1 .. at - 1 : p[j] = path[j]
  BY <1>1, RemoveAtIs
<1>3. ASSUME NEW i \in 2 .. at - 1 PROVE p[i] \in Q /\ p[i] \in P
  <2>1. i \in 1 .. at - 1 /\ i # Len(path)
    BY <1>1
  <2> HIDE DEF p
  <2> QED
    BY <1>2, <2>1 DEF WalkedPast
<1> HIDE DEF p
<1>4. Len(p) > 0 /\ at <= Len(p) + 1
  BY <1>1, <1>2
<1> QED
  BY <1>1, <1>2, <1>3, <1>4 DEF WalkedPast, p

LEMMA GoBack ==
  ASSUME NEW S, NEW P, NEW Q, NEW path, NEW at, WalkedPast(S, P, Q, path, at), at # 2,
         at <= Len(path)
  PROVE  /\ WalkedPast(S, P, Q, RemoveAt(path, at - 1), at - 1)
         /\ Len(RemoveAt(path, at - 1)) = Len(path) - 1
<1> DEFINE p == RemoveAt(path, at - 1)
<1>1. /\ path \in Seq(S) /\ Len(path) \in Nat /\ at \in Nat /\ 2 <= at /\ at - 1 \in 1 .. Len(path)
  BY DEF WalkedPast
<1>2. p \in Seq(S) /\ Len(p) = Len(path) - 1 /\ \A j \in 1 .. (at - 1) - 1 : p[j] = path[j]
  BY <1>1, RemoveAtIs
<1>3. ASSUME NEW i \in 2 .. (at - 1) - 1 PROVE p[i] \in Q /\ p[i] \in P
  <2>1. i \in 1 .. (at - 1) - 1 /\ i \in 2 .. at - 1 /\ i # Len(path)
    BY <1>1
  <2> HIDE DEF p
  <2> QED
    BY <1>2, <2>1 DEF WalkedPast
<1> HIDE DEF p
<1>4. Len(p) > 0 /\ at - 1 <= Len(p) + 1 /\ at - 1 \in Nat /\ 2 <= at - 1
  BY <1>1, <1>2
<1> QED
  BY <1>1, <1>2, <1>3, <1>4 DEF WalkedPast, p

LEMMA GoOn ==
  ASSUME NEW S, NEW P, NEW Q, P \subseteq Q, NEW path, NEW at, WalkedPast(S, P, Q, path, at),
         at <= Len(path), path[at] \in Q, at # Len(path) => path[at] \in P
  PROVE  WalkedPast(S, P, Q, path, at + 1)
<1>1. /\ path \in Seq(S) /\ Len(path) \in Nat /\ at \in Nat /\ 2 <= at
      /\ \A i \in 2 .. at - 1 : path[i] \in Q /\ (i # Len(path) => path[i] \in P)
  BY DEF WalkedPast
<1>2. ASSUME NEW i \in 2 .. (at + 1) - 1 PROVE path[i] \in Q /\ (i # Len(path) => path[i] \in P)
  <2>1. CASE i = at
    BY <2>1
  <2>2. CASE i # at
    <3>1. i \in 2 .. at - 1
      BY <1>1, <2>2
    <3> QED
      BY <1>1, <3>1
  <2> QED
    BY <2>1, <2>2
<1>3. Len(path) > 0 /\ at + 1 <= Len(path) + 1 /\ at + 1 \in Nat /\ 2 <= at + 1
  BY <1>1
<1> QED
  BY <1>1, <1>2, <1>3 DEF WalkedPast

Replaced(p, path, at, e) == p = [path EXCEPT ![at] = e]

LEMMA EraseLast ==
  ASSUME NEW S, NEW P, NEW Q, P \subseteq Q, NEW path, NEW at, WalkedPast(S, P, Q, path, at),
         at = Len(path), NEW e \in S, e \in Q, NEW p, Replaced(p, path, at, e)
  PROVE  WalkedPast(S, P, Q, p, at + 1) /\ Len(p) = Len(path)
<1>1. /\ path \in Seq(S) /\ Len(path) \in Nat /\ at \in Nat /\ 2 <= at /\ at \in 1 .. Len(path)
      /\ \A i \in 2 .. at - 1 : path[i] \in Q /\ (i # Len(path) => path[i] \in P)
  BY DEF WalkedPast
<1>2. p \in Seq(S) /\ Len(p) = Len(path) /\ p[at] = e /\ \A i \in 1 .. Len(path) : i # at => p[i] = path[i]
  BY <1>1 DEF Replaced
<1>3. ASSUME NEW i \in 2 .. at - 1 PROVE p[i] \in Q /\ (i # Len(p) => p[i] \in P)
  <2>1. i \in 1 .. Len(path) /\ i # at
    BY <1>1
  <2> QED
    BY <1>1, <1>2, <2>1
<1>4. WalkedPast(S, P, Q, p, at)
  BY <1>1, <1>2, <1>3 DEF WalkedPast
<1>5. WalkedPast(S, P, Q, p, at + 1)
  <2>1. at <= Len(p) /\ p[at] \in Q /\ (at # Len(p) => p[at] \in P)
    BY <1>1, <1>2
  <2> QED
    BY <1>4, <2>1, GoOn
<1> QED
  BY <1>2, <1>5

\* A turn of the walk, where names are no strings.
TurnWith(e, d, dd, path, at) ==
  IF at > Len(path) THEN [path |-> path, at |-> at]
  ELSE IF at = Len(path)
       THEN [path |-> IF path[at] \in {d, dd} THEN [path EXCEPT ![at] = e] ELSE path,
             at |-> at + 1]
  ELSE IF path[at] \in {e, d} \/ (path[at] = dd /\ at = 2)
       THEN [path |-> RemoveAt(path, at), at |-> at]
  ELSE IF path[at] = dd
       THEN [path |-> RemoveAt(RemoveAt(path, at), at - 1), at |-> at - 1]
  ELSE [path |-> path, at |-> at + 1]

TurnedWell(S, P, Q, path, at, next) ==
  /\ WalkedPast(S, P, Q, next.path, next.at) /\ next = [path |-> next.path, at |-> next.at]
  /\ IF at > Len(path) THEN Len(next.path) = Len(path) /\ next.at = at
     ELSE Len(next.path) - next.at = Len(path) - at - 1

\* A turn of the walk keeps what is behind it, and leaves a name less before it.
LEMMA TurnOf ==
  ASSUME NEW S, NEW e \in S, NEW d \in S, NEW dd \in S, e # d, e # dd, d # dd,
         NEW P, P = S \ {e, d, dd}, NEW Q, Q = S \ {d, dd},
         NEW path, NEW at, WalkedPast(S, P, Q, path, at),
         NEW next, next = TurnWith(e, d, dd, path, at)
  PROVE  TurnedWell(S, P, Q, path, at, next)
<1> DEFINE name == path[at]
<1>1. path \in Seq(S) /\ Len(path) \in Nat /\ at \in Nat /\ 2 <= at /\ at <= Len(path) + 1
  BY DEF WalkedPast
<1>2. at <= Len(path) => name \in S
  <2>1. at <= Len(path) => at \in 1 .. Len(path)
    BY <1>1
  <2> QED
    BY <1>1, <2>1
<1>3. P \subseteq Q
  OBVIOUS
<1>n. next = IF at > Len(path) THEN [path |-> path, at |-> at]
             ELSE IF at = Len(path)
                  THEN [path |-> IF name \in {d, dd} THEN [path EXCEPT ![at] = e] ELSE path,
                        at |-> at + 1]
             ELSE IF name \in {e, d} \/ (name = dd /\ at = 2)
                  THEN [path |-> RemoveAt(path, at), at |-> at]
             ELSE IF name = dd
                  THEN [path |-> RemoveAt(RemoveAt(path, at), at - 1), at |-> at - 1]
             ELSE [path |-> path, at |-> at + 1]
  BY DEF TurnWith
<1> HIDE DEF name
<1>4. CASE at > Len(path)
  <2>1. next = [path |-> path, at |-> at]
    BY <1>4, <1>n
  <2> QED
    BY <1>4, <2>1 DEF TurnedWell
<1>5. CASE at = Len(path) /\ name \in {d, dd}
  <2> DEFINE p == [path EXCEPT ![at] = e]
  <2>1. ~(at > Len(path))
    BY <1>1, <1>5
  <2>2. next = [path |-> p, at |-> at + 1]
    BY <1>5, <1>n, <2>1
  <2>3. e \in S /\ e \in Q
    OBVIOUS
  <2>p. Replaced(p, path, at, e)
    BY DEF Replaced
  <2> HIDE DEF p
  <2>4. WalkedPast(S, P, Q, p, at + 1) /\ Len(p) = Len(path)
    <3>1. WalkedPast(S, P, Q, path, at) /\ at = Len(path)
      BY <1>5
    <3> QED
      BY <1>3, <2>3, <2>p, <3>1, EraseLast
  <2>5. next.path = p /\ next.at = at + 1
    BY <2>2
  <2>6. WalkedPast(S, P, Q, next.path, next.at) /\ next = [path |-> next.path, at |-> next.at]
    BY <2>2, <2>4, <2>5
  <2>7. Len(next.path) - next.at = Len(path) - at - 1
    BY <1>1, <2>4, <2>5
  <2> QED
    BY <2>1, <2>6, <2>7 DEF TurnedWell
<1>6. CASE at <= Len(path) /\ name \notin {d, dd} /\ (name = e => at = Len(path))
  <2>1. ~(at > Len(path))
    BY <1>1, <1>6
  <2>2. next = [path |-> path, at |-> at + 1]
    BY <1>6, <1>n, <2>1
  <2>3. name \in Q /\ (at # Len(path) => name \in P)
    BY <1>2, <1>6
  <2>4. WalkedPast(S, P, Q, path, at + 1)
    <3>1. WalkedPast(S, P, Q, path, at) /\ at <= Len(path)
      BY <1>6
    <3>2. path[at] \in Q /\ (at # Len(path) => path[at] \in P)
      BY <2>3 DEF name
    <3> QED
      BY <1>3, <3>1, <3>2, GoOn
  <2>5. next.path = path /\ next.at = at + 1
    BY <2>2
  <2>6. WalkedPast(S, P, Q, next.path, next.at) /\ next = [path |-> next.path, at |-> next.at]
    BY <2>2, <2>4, <2>5
  <2>7. Len(next.path) - next.at = Len(path) - at - 1
    BY <1>1, <2>5
  <2> QED
    BY <2>1, <2>6, <2>7 DEF TurnedWell
<1>7. CASE at < Len(path) /\ (name \in {e, d} \/ (name = dd /\ at = 2))
  <2>1. ~(at > Len(path)) /\ at # Len(path)
    BY <1>1, <1>7
  <2>2. next = [path |-> RemoveAt(path, at), at |-> at]
    BY <1>7, <1>n, <2>1
  <2>4. WalkedPast(S, P, Q, RemoveAt(path, at), at) /\ Len(RemoveAt(path, at)) = Len(path) - 1
    BY <1>7, DropName
  <2>5. next.path = RemoveAt(path, at) /\ next.at = at
    BY <2>2
  <2>6. WalkedPast(S, P, Q, next.path, next.at) /\ next = [path |-> next.path, at |-> next.at]
    BY <2>2, <2>4, <2>5
  <2>7. Len(next.path) - next.at = Len(path) - at - 1
    BY <1>1, <2>4, <2>5
  <2> QED
    BY <2>1, <2>6, <2>7 DEF TurnedWell
<1>8. CASE at < Len(path) /\ name = dd /\ at # 2
  <2> DEFINE p == RemoveAt(path, at)
             q == RemoveAt(p, at - 1)
  <2>1. ~(at > Len(path)) /\ at # Len(path)
    BY <1>1, <1>8
  <2>2. next = [path |-> q, at |-> at - 1]
    BY <1>8, <1>n, <2>1
  <2>3. WalkedPast(S, P, Q, p, at) /\ Len(p) = Len(path) - 1
    BY <1>8, DropName
  <2> HIDE DEF p
  <2>4. at <= Len(p)
    BY <1>1, <1>8, <2>3
  <2>5. WalkedPast(S, P, Q, q, at - 1) /\ Len(q) = Len(p) - 1
    <3>1. WalkedPast(S, P, Q, p, at) /\ at # 2 /\ at <= Len(p)
      BY <1>8, <2>3, <2>4
    <3>2. /\ WalkedPast(S, P, Q, RemoveAt(p, at - 1), at - 1)
          /\ Len(RemoveAt(p, at - 1)) = Len(p) - 1
      BY <3>1, GoBack
    <3> QED
      BY <3>2
  <2> HIDE DEF q
  <2>6. next.path = q /\ next.at = at - 1
    BY <2>2
  <2>7. WalkedPast(S, P, Q, next.path, next.at) /\ next = [path |-> next.path, at |-> next.at]
    BY <2>2, <2>5, <2>6
  <2>8. Len(next.path) - next.at = Len(path) - at - 1
    BY <1>1, <2>3, <2>5, <2>6
  <2> QED
    BY <2>1, <2>7, <2>8 DEF TurnedWell
<1>9. at > Len(path) \/ at = Len(path) \/ at < Len(path)
  BY <1>1
<1>10. at = Len(path) => at <= Len(path)
  BY <1>1
<1>11. at < Len(path) => at <= Len(path)
  BY <1>1
<1> QED
  BY <1>4, <1>5, <1>6, <1>7, <1>8, <1>9, <1>10, <1>11

Kept == STRING \ {"", ".", ".."}
KeptLast == STRING \ {".", ".."}
Past(walk) ==
  /\ walk = [path |-> walk.path, at |-> walk.at]
  /\ WalkedPast(STRING, Kept, KeptLast, walk.path, walk.at)

\* How many names are before a walk.
Before(walk) == Len(walk.path) + 1 - walk.at

LEMMA TurnKeeps ==
  ASSUME NEW walk, Past(walk)
  PROVE  /\ Past(Turn(walk)) /\ Before(walk) \in Nat
         /\ Before(Turn(walk)) = IF Before(walk) = 0 THEN 0 ELSE Before(walk) - 1
<1> DEFINE path == walk.path
           at == walk.at
           next == Turn(walk)
           e == ""
           d == "."
           dd == ".."
<1>1. WalkedPast(STRING, Kept, KeptLast, path, at)
  BY DEF Past
<1>2. Len(path) \in Nat /\ at \in Nat /\ at <= Len(path) + 1
  BY <1>1 DEF WalkedPast
<1>3. e \in STRING /\ d \in STRING /\ dd \in STRING /\ e # d /\ e # dd /\ d # dd
  BY TextsAssumption
<1>4. next = TurnWith(e, d, dd, path, at)
  <2>1. walk = [path |-> path, at |-> at]
    BY DEF Past
  <2> QED
    BY <2>1 DEF Turn, TurnWith
<1>5. Kept = STRING \ {e, d, dd} /\ KeptLast = STRING \ {d, dd}
  BY DEF Kept, KeptLast
<1> HIDE DEF path, at, next, e, d, dd
<1>6. /\ WalkedPast(STRING, Kept, KeptLast, next.path, next.at)
      /\ next = [path |-> next.path, at |-> next.at]
      /\ IF at > Len(path) THEN Len(next.path) = Len(path) /\ next.at = at
         ELSE Len(next.path) - next.at = Len(path) - at - 1
  <2>1. TurnedWell(STRING, Kept, KeptLast, path, at, next)
    BY <1>1, <1>3, <1>4, <1>5, TurnOf
  <2> QED
    BY <2>1 DEF TurnedWell
<1>7. Len(next.path) \in Nat /\ next.at \in Nat
  BY <1>6 DEF WalkedPast
<1>8. Past(next)
  BY <1>6 DEF Past
<1>9. Len(path) + 1 - at \in Nat
  BY <1>2
<1>10. Len(next.path) + 1 - next.at = IF Len(path) + 1 - at = 0 THEN 0 ELSE Len(path) + 1 - at - 1
  BY <1>2, <1>6, <1>7
<1>11. Before(walk) = Len(path) + 1 - at /\ Before(next) = Len(next.path) + 1 - next.at
  BY DEF Before, path, at
<1>12. Before(next) = IF Before(walk) = 0 THEN 0 ELSE Before(walk) - 1
  BY <1>2, <1>7, <1>9, <1>10, <1>11
<1> QED
  BY <1>8, <1>9, <1>11, <1>12 DEF next

LEMMA Descended ==
  ASSUME NEW path \in Paths, Len(path) > 1
  PROVE  Descent(path) \in Paths /\ Sanitized(Descent(path))
<1>1. PICK f : Turns(f, path, Len(path)) /\ Descent(path) = f[Len(path)].path
  BY Walked
<1> DEFINE N == Len(path)
<1>2. N \in Nat /\ N > 1 /\ path \in Seq(STRING)
  BY DEF Paths
<1>3. f[0] = [path |-> path, at |-> 2] /\ \A k \in 1 .. N : f[k] = Turn(f[k - 1])
  <2>1. f = [i \in 0 .. N |-> IF i = 0 THEN [path |-> path, at |-> 2] ELSE Turn(f[i - 1])]
    BY <1>1 DEF Turns
  <2>2. 0 \in 0 .. N /\ \A k \in 1 .. N : k \in 0 .. N /\ k # 0
    BY <1>2
  <2> HIDE DEF N
  <2> QED
    BY <2>1, <2>2
<1>4. Past(f[0]) /\ Before(f[0]) = N - 1
  <2>1. f[0].path = path /\ f[0].at = 2 /\ f[0] = [path |-> f[0].path, at |-> f[0].at]
    BY <1>3
  <2>2. WalkedPast(STRING, Kept, KeptLast, path, 2)
    BY <1>2 DEF WalkedPast
  <2>3. N + 1 - 2 = N - 1
    BY <1>2
  <2> QED
    BY <2>1, <2>2, <2>3, Zenon DEF Past, Before
<1> HIDE DEF N
<1> DEFINE T == {k \in 0 .. N : ~ (Past(f[k]) /\ Before(f[k]) \in Nat /\ (Before(f[k]) = 0 \/ Before(f[k]) + k <= N - 1))}
<1>5. T = {}
  <2>1. ASSUME NEW k \in T PROVE \E j \in T : j < k
    <3>1. k # 0
      <4>1. Before(f[0]) \in Nat /\ Before(f[0]) + 0 <= N - 1
        BY <1>2, <1>4
      <4> QED
        BY <1>4, <4>1
    <3>2. k - 1 \in 0 .. N /\ k \in 1 .. N /\ k - 1 < k
      BY <1>2, <3>1
    <3>3. SUFFICES ASSUME k - 1 \notin T PROVE FALSE
      BY <3>2
    <3> DEFINE b == f[k - 1]
    <3>4. Past(b) /\ Before(b) \in Nat /\ (Before(b) = 0 \/ Before(b) + (k - 1) <= N - 1)
      BY <3>2, <3>3
    <3>5. f[k] = Turn(b)
      BY <1>3, <3>2
    <3>6. ~ (Past(f[k]) /\ Before(f[k]) \in Nat /\ (Before(f[k]) = 0 \/ Before(f[k]) + k <= N - 1))
      OBVIOUS
    <3> HIDE DEF T, b
    <3>7. Past(f[k]) /\ Before(f[k]) = IF Before(b) = 0 THEN 0 ELSE Before(b) - 1
      BY <3>4, <3>5, TurnKeeps
    <3>8. Before(f[k]) \in Nat /\ (Before(f[k]) = 0 \/ Before(f[k]) + k <= N - 1)
      BY <1>2, <3>2, <3>4, <3>7
    <3> QED
      BY <3>6, <3>7, <3>8
  <2>2. T \subseteq Nat
    BY <1>2
  <2> HIDE DEF T
  <2> QED
    BY <2>1, <2>2, Induction
<1>6. Past(f[N]) /\ Before(f[N]) = 0
  <2>1. N \in 0 .. N
    BY <1>2
  <2>2. Past(f[N]) /\ Before(f[N]) \in Nat /\ (Before(f[N]) = 0 \/ Before(f[N]) + N <= N - 1)
    BY <1>5, <2>1
  <2> HIDE DEF T
  <2> QED
    BY <1>2, <2>2
<1> DEFINE p == f[N].path
<1>7. WalkedPast(STRING, Kept, KeptLast, p, Len(p) + 1)
  <2>1. WalkedPast(STRING, Kept, KeptLast, p, f[N].at) /\ Len(p) + 1 - f[N].at = 0
    BY <1>6 DEF Past, Before
  <2>2. Len(p) \in Nat /\ f[N].at \in Nat
    BY <2>1 DEF WalkedPast
  <2>3. f[N].at = Len(p) + 1
    BY <2>1, <2>2
  <2> QED
    BY <2>1, <2>3
<1> HIDE DEF p, T
<1>8. /\ p \in Seq(STRING) /\ Len(p) > 0
      /\ \A i \in 2 .. Len(p) : p[i] \in KeptLast /\ (i # Len(p) => p[i] \in Kept)
  <2>1. (Len(p) + 1) - 1 = Len(p)
    BY <1>7 DEF WalkedPast
  <2> QED
    BY <1>7, <2>1, Zenon DEF WalkedPast
<1>9. p # <<>>
  BY <1>8
<1>10. p \in Paths /\ Sanitized(p)
  BY <1>8, <1>9, Zenon DEF Paths, Sanitized, Kept, KeptLast
<1> QED
  BY <1>1, <1>10 DEF p, N

-----------------------------------------------------------------------------
(* Making URLs *)

\* The path a URL is completed with.
FullPath(u) == IF u.path = None THEN <<"", "">> ELSE Absolute(u.path)

LEMMA FullPathIs ==
  ASSUME NEW u \in UrlParts
  PROVE  /\ FullPath(u) \in Paths /\ Len(FullPath(u)) > 1 /\ Head(FullPath(u)) = ""
         /\ Absolute(FullPath(u)) = FullPath(u)
<1>1. CASE u.path = None
  <2>1. FullPath(u) = <<"", "">>
    BY <1>1 DEF FullPath
  <2>2. \A e \in STRING : Len(<<e, e>>) > 1 /\ Head(<<e, e>>) = e
    OBVIOUS
  <2>3. Len(<<"", "">>) > 1 /\ Head(<<"", "">>) = ""
    BY <2>2, TextsAssumption
  <2>4. Absolute(<<"", "">>) = <<"", "">>
    BY <2>3, Zenon DEF Absolute
  <2> QED
    BY <2>1, <2>3, <2>4, ShortPaths, Zenon
<1>2. CASE u.path # None
  <2>1. u.path \in Paths
    BY <1>2, UrlHas
  <2>2. FullPath(u) = Absolute(u.path)
    BY <1>2 DEF FullPath
  <2>3. /\ Absolute(u.path) \in Paths /\ Len(Absolute(u.path)) > 1 /\ Absolute(u.path)[1] = ""
        /\ Absolute(Absolute(u.path)) = Absolute(u.path)
    BY <2>1, AbsoluteIs
  <2>4. Head(Absolute(u.path)) = Absolute(u.path)[1]
    <3>1. \A s \in Seq(STRING) : s # <<>> => Head(s) = s[1]
      OBVIOUS
    <3> QED
      BY <2>3, <3>1 DEF Paths
  <2> QED
    BY <2>2, <2>3, <2>4, Zenon
<1> QED
  BY <1>1, <1>2

DefaultFor(scheme, p) == scheme \in DOMAIN DefaultPort /\ p = DefaultPort[scheme]

LEMMA CompletedIs ==
  ASSUME NEW flags, NEW u \in UrlParts
  PROVE  LET c == Completed(flags, u)
         IN /\ c \in UrlParts
            /\ c.scheme = (IF u.scheme = None THEN "http" ELSE u.scheme)
            /\ c.host = (IF u.host = None THEN "localhost" ELSE u.host)
            /\ c.path = (IF "sanitize" \in flags /\ FullPath(u) # <<"", "">>
                         THEN Descent(FullPath(u)) ELSE FullPath(u))
            /\ c.path \in Paths
            /\ c.port = (IF DefaultFor(c.scheme, u.port) THEN 0 ELSE u.port)
            /\ c.user = u.user /\ c.pass = u.pass
            /\ c.query = u.query /\ c.fragment = u.fragment
<1> DEFINE c == Completed(flags, u)
           scheme == IF u.scheme = None THEN "http" ELSE u.scheme
           host == IF u.host = None THEN "localhost" ELSE u.host
           path == IF "sanitize" \in flags /\ FullPath(u) # <<"", "">>
                   THEN Descent(FullPath(u)) ELSE FullPath(u)
           port == IF DefaultFor(scheme, u.port) THEN 0 ELSE u.port
<1>1. path \in Paths
  BY FullPathIs, Descended
<1>2. scheme \in Texts /\ host \in Texts /\ port \in Nat
  BY UrlHas, TextsAssumption DEF Texts
<1> HIDE DEF path, host
<1>3. c = [u EXCEPT !.scheme = scheme, !.host = host, !.path = path, !.port = port]
  BY DEF Completed, FullPath, DefaultFor, path, host
<1> HIDE DEF scheme, port
<1>4. DOMAIN u = Components
  BY UrlHas
<1>5. /\ c = [x \in Components |-> c[x]]
      /\ c.scheme = scheme /\ c.host = host /\ c.path = path /\ c.port = port
      /\ c.user = u.user /\ c.pass = u.pass /\ c.query = u.query /\ c.fragment = u.fragment
  BY <1>3, <1>4 DEF Components
<1> HIDE DEF c
<1>6. c \in UrlParts
  BY <1>1, <1>2, <1>5, UrlHas, UrlMade
<1> QED
  BY <1>1, <1>5, <1>6 DEF c, scheme, host, path, port

LEMMA FromEnvTyped ==
  /\ FromEnv(Server) \in UrlParts
  /\ FromEnv(Server).scheme # Empty
<1> DEFINE u == FromEnv(Server)
           scheme == IF Server.https \/ Server.port = DefaultPort["https"] THEN "https" ELSE "http"
           host == IF Server.host = None THEN "localhost" ELSE Server.host
           query == IF Server.query = NoItems THEN None ELSE Server.query
<1>1. /\ Server.port \in Nat /\ Server.host \in Texts /\ Server.path \in Paths \cup {None}
      /\ Server.query \in QueryTexts
  BY GivenAre
<1>2. scheme \in Texts /\ scheme # Empty /\ host \in Texts /\ query \in QueryTexts \cup {None}
  BY <1>1, TextsAssumption DEF Texts
<1>3. u = [NoUrl EXCEPT !.port = Server.port, !.scheme = scheme, !.host = host,
                        !.path = Server.path, !.query = query]
  BY DEF FromEnv
<1> HIDE DEF scheme, host, query
<1>4. DOMAIN NoUrl = Components
  BY NoUrlIs, UrlHas
<1>5. /\ u = [x \in Components |-> u[x]]
      /\ u.scheme = scheme /\ u.host = host /\ u.path = Server.path /\ u.port = Server.port
      /\ u.user = NoUrl.user /\ u.pass = NoUrl.pass /\ u.query = query
      /\ u.fragment = NoUrl.fragment
  BY <1>3, <1>4 DEF Components
<1> HIDE DEF u
<1>6. u \in UrlParts
  BY <1>1, <1>2, <1>5, NoUrlIs, UrlHas, UrlMade
<1> QED
  BY <1>2, <1>5, <1>6 DEF u

\* A URL whose scheme is not the empty string, and one that has a path as well.
Named(u) == u \in UrlParts /\ u.scheme # Empty
Made(u) == u \in UrlParts /\ u.scheme \notin {None, Empty} /\ u.path \in Paths

\* A URL that is completed, and not sanitized.
Complete(u) ==
  /\ Made(u) /\ u.host # None
  /\ Absolute(u.path) = u.path /\ u.path # <<"">>
  /\ DefaultFor(u.scheme, u.port) => u.port = 0

LEMMA CombinedNamed ==
  ASSUME NEW flags, NEW old, NEW new, Named(old), Named(new)
  PROVE  Named(Combined(flags, old, new))
<1>1. old \in UrlParts /\ new \in UrlParts /\ old.scheme # Empty /\ new.scheme # Empty
  BY DEF Named
<1>2. /\ Combined(flags, old, new) \in UrlParts
      /\ Combined(flags, old, new).scheme = NewOverOld(old, new, "scheme")
  BY <1>1, CombinedTyped
<1>3. NewOverOld(old, new, "scheme") # Empty
  BY <1>1 DEF NewOverOld
<1> QED
  BY <1>2, <1>3 DEF Named

LEMMA SlashSanitized == Sanitized(<<"", "">>)
<1>1. Len(<<"", "">>) = 2 /\ <<"", "">>[2] = ""
  OBVIOUS
<1>2. \A i \in 2 .. 2 : i = 2
  OBVIOUS
<1>3. "" # "." /\ "" # ".."
  OBVIOUS
<1> DEFINE p == <<"", "">>
<1> HIDE DEF p
<1>4. Len(p) = 2 /\ p[2] = ""
  BY <1>1 DEF p
<1>5. Sanitized(p)
  BY <1>2, <1>3, <1>4, Zenon DEF Sanitized
<1> QED
  BY <1>5 DEF p

LEMMA CompletedMade ==
  ASSUME NEW flags, NEW u, Named(u)
  PROVE  /\ Made(Completed(flags, u)) /\ Named(Completed(flags, u))
         /\ "sanitize" \in flags => Sanitized(Completed(flags, u).path)
         /\ "sanitize" \notin flags => Complete(Completed(flags, u))
         /\ Completed(flags, u).query = u.query
<1> DEFINE c == Completed(flags, u)
           full == FullPath(u)
<1>1. u \in UrlParts /\ u.scheme # Empty
  BY DEF Named
<1>2. /\ c \in UrlParts
      /\ c.scheme = (IF u.scheme = None THEN "http" ELSE u.scheme)
      /\ c.host = (IF u.host = None THEN "localhost" ELSE u.host)
      /\ c.path = (IF "sanitize" \in flags /\ full # <<"", "">> THEN Descent(full) ELSE full)
      /\ c.path \in Paths
      /\ c.port = (IF DefaultFor(c.scheme, u.port) THEN 0 ELSE u.port)
      /\ c.query = u.query
  BY <1>1, CompletedIs
<1>3. full \in Paths /\ Len(full) > 1 /\ Absolute(full) = full
  BY <1>1, FullPathIs
<1> HIDE DEF c, full
<1>4. "http" # None /\ "http" # Empty /\ "localhost" # None
  BY TextsAssumption
<1>5. c.scheme \notin {None, Empty} /\ c.host # None
  BY <1>1, <1>2, <1>4
<1>6. Made(c) /\ Named(c)
  BY <1>2, <1>5 DEF Made, Named
<1>7. ASSUME "sanitize" \in flags PROVE Sanitized(c.path)
  <2>1. CASE full = <<"", "">>
    BY <1>2, <2>1, SlashSanitized
  <2>2. CASE full # <<"", "">>
    <3>1. c.path = Descent(full)
      BY <1>2, <1>7, <2>2
    <3> QED
      BY <1>3, <3>1, Descended
  <2> QED
    BY <2>1, <2>2
<1>8. ASSUME "sanitize" \notin flags PROVE Complete(c)
  <2>1. c.path = full
    BY <1>2, <1>8
  <2>2. full # <<"">>
    <3>1. \A e \in STRING : ~ (Len(<<e>>) > 1)
      OBVIOUS
    <3> QED
      BY <1>3, <3>1, TextsAssumption
  <2>3. DefaultFor(c.scheme, c.port) => c.port = 0
    BY <1>2
  <2> QED
    BY <1>3, <1>5, <1>6, <2>1, <2>2, <2>3 DEF Complete
<1> QED
  BY <1>2, <1>6, <1>7, <1>8 DEF c

LEMMA UrlMakes ==
  ASSUME NEW flags, NEW old, NEW new, Named(old), Named(new)
  PROVE  LET u == Url(flags, Server, old, new)
         IN /\ Made(u) /\ Named(u)
            /\ "sanitize" \in flags => Sanitized(u.path)
            /\ flags \cap {"from_env", "sanitize"} = {} => /\ Complete(u)
                                                          /\ u.query = Combined(flags, old, new).query
<1> DEFINE rest == flags \ {"from_env"}
           first == Completed(rest, Combined(rest, FromEnv(Server), old))
<1>1. CASE "from_env" \in flags
  <2>1. Url(flags, Server, old, new) = Completed(rest, Combined(rest, first, new))
    BY <1>1 DEF Url
  <2>2. Named(FromEnv(Server))
    BY FromEnvTyped DEF Named
  <2>3. Named(first)
    BY <2>2, CombinedNamed, CompletedMade
  <2> HIDE DEF first, rest
  <2>4. Named(Combined(rest, first, new))
    BY <2>3, CombinedNamed
  <2>5. "sanitize" \in flags => "sanitize" \in rest
    BY DEF rest
  <2> QED
    BY <1>1, <2>1, <2>4, <2>5, CompletedMade
<1>2. CASE "from_env" \notin flags
  <2>1. Url(flags, Server, old, new) = Completed(flags, Combined(flags, old, new))
    BY <1>2 DEF Url
  <2>2. Named(Combined(flags, old, new))
    BY CombinedNamed
  <2> QED
    BY <1>2, <2>1, <2>2, CompletedMade
<1> QED
  BY <1>1, <1>2

\* What is read of a text has no component that is an empty string.
LEMMA RereadIs ==
  ASSUME NEW u \in UrlParts
  PROVE  LET t == Reread(u)
         IN /\ t \in UrlParts /\ t = [c \in Components |-> t[c]]
            /\ t.scheme = (IF u.scheme = Empty THEN None ELSE u.scheme)
            /\ t.user = (IF u.user = Empty THEN None ELSE u.user)
            /\ t.pass = (IF u.pass = Empty \/ u.user \in {None, Empty} THEN None ELSE u.pass)
            /\ t.host = (IF u.host \in {None, Empty} THEN "localhost" ELSE u.host)
            /\ t.port = u.port
            /\ t.path = (IF u.path = <<"">> THEN None ELSE u.path)
            /\ t.query = (IF u.query = NoItems THEN None ELSE u.query)
            /\ t.fragment = (IF u.fragment = Empty THEN None ELSE u.fragment)
<1> DEFINE t == Reread(u)
           value(c) == IF c = "host" /\ u[c] \in {None, Empty} THEN "localhost"
                       ELSE IF u[c] = Blank(c) \/ (c = "pass" /\ u.user \in {None, Empty}) THEN NoUrl[c]
                       ELSE u[c]
<1>1. t = [c \in Components |-> value(c)]
  BY DEF Reread
<1>2. /\ NoUrl.port = 0 /\ NoUrl.scheme = None /\ NoUrl.user = None /\ NoUrl.pass = None
      /\ NoUrl.path = None /\ NoUrl.query = None /\ NoUrl.fragment = None
  BY NoUrlIs DEF Components
<1>3. /\ Blank("scheme") = Empty /\ Blank("user") = Empty /\ Blank("pass") = Empty
      /\ Blank("host") = Empty /\ Blank("port") = 0 /\ Blank("path") = <<"">>
      /\ Blank("query") = NoItems /\ Blank("fragment") = Empty
  BY DEF Blank
<1>4. /\ value("scheme") = (IF u.scheme = Empty THEN None ELSE u.scheme)
      /\ value("user") = (IF u.user = Empty THEN None ELSE u.user)
      /\ value("pass") = (IF u.pass = Empty \/ u.user \in {None, Empty} THEN None ELSE u.pass)
      /\ value("port") = u.port
      /\ value("query") = (IF u.query = NoItems THEN None ELSE u.query)
      /\ value("fragment") = (IF u.fragment = Empty THEN None ELSE u.fragment)
  BY <1>2, <1>3
<1>5. value("host") = (IF u.host \in {None, Empty} THEN "localhost" ELSE u.host)
  BY <1>3
<1>6. value("path") = (IF u.path = <<"">> THEN None ELSE u.path)
  BY <1>2, <1>3
<1> HIDE DEF value
<1>7. /\ t = [c \in Components |-> t[c]]
      /\ t.scheme = value("scheme") /\ t.user = value("user") /\ t.pass = value("pass")
      /\ t.host = value("host") /\ t.port = value("port") /\ t.path = value("path")
      /\ t.query = value("query") /\ t.fragment = value("fragment")
  BY <1>1 DEF Components
<1> HIDE DEF t
<1>8. /\ t.scheme \in Texts /\ t.user \in Texts /\ t.pass \in Texts /\ t.host \in Texts
      /\ t.fragment \in Texts
  BY <1>4, <1>5, <1>7, UrlHas, TextsAssumption DEF Texts
<1>9. t.port \in Nat /\ t.path \in Paths \cup {None} /\ t.query \in QueryTexts \cup {None}
  BY <1>4, <1>6, <1>7, UrlHas
<1>10. t \in UrlParts
  BY <1>7, <1>8, <1>9, UrlMade
<1> QED
  BY <1>4, <1>5, <1>6, <1>7, <1>10 DEF t

\* Nothing goes over a URL, and it stays as it is.
LEMMA CombinedWithNothing ==
  ASSUME NEW u \in UrlParts
  PROVE  Combined({}, u, NoUrl) = u
<1> DEFINE c == Combined({}, u, NoUrl)
<1>1. /\ NoUrl.port = 0 /\ NoUrl.scheme = None /\ NoUrl.user = None /\ NoUrl.pass = None
      /\ NoUrl.path = None /\ NoUrl.query = None /\ NoUrl.fragment = None /\ NoUrl.host = None
  BY NoUrlIs DEF Components
<1>2. /\ NewOverOld(u, NoUrl, "scheme") = u.scheme /\ NewOverOld(u, NoUrl, "user") = u.user
      /\ NewOverOld(u, NoUrl, "pass") = u.pass /\ NewOverOld(u, NoUrl, "host") = u.host
      /\ NewOverOld(u, NoUrl, "port") = u.port /\ NewOverOld(u, NoUrl, "path") = u.path
      /\ NewOverOld(u, NoUrl, "query") = u.query /\ NewOverOld(u, NoUrl, "fragment") = u.fragment
  BY <1>1 DEF NewOverOld, Given
<1>3. DOMAIN NoUrl = Components
  BY NoUrlIs, UrlHas
<1>4. c = [NoUrl EXCEPT !.port = u.port, !.user = u.user, !.pass = u.pass, !.scheme = u.scheme,
                        !.host = u.host, !.path = u.path, !.query = u.query, !.fragment = u.fragment]
  BY <1>2 DEF Combined
<1>5. /\ c = [x \in Components |-> c[x]]
      /\ c.scheme = u.scheme /\ c.host = u.host /\ c.user = u.user /\ c.pass = u.pass
      /\ c.port = u.port /\ c.path = u.path /\ c.query = u.query /\ c.fragment = u.fragment
  BY <1>3, <1>4 DEF Components
<1> HIDE DEF c
<1>6. \A x \in Components : c[x] = u[x]
  BY <1>5 DEF Components
<1>7. u = [x \in Components |-> u[x]]
  BY UrlHas
<1>8. c = u
  BY <1>5, <1>6, <1>7
<1> QED
  BY <1>8 DEF c

LEMMA CompleteSettled ==
  ASSUME NEW u, Complete(u)
  PROVE  Settled(Reread(u))
<1> DEFINE t == Reread(u)
           c == Completed({}, t)
           s == Reread(c)
<1>1. /\ u \in UrlParts /\ u.scheme # None /\ u.scheme # Empty /\ u.path \in Paths /\ u.host # None
      /\ Absolute(u.path) = u.path /\ u.path # <<"">>
      /\ DefaultFor(u.scheme, u.port) => u.port = 0
  BY DEF Complete, Made
<1>2. /\ t \in UrlParts /\ t = [x \in Components |-> t[x]]
      /\ t.scheme = u.scheme
      /\ t.user = (IF u.user = Empty THEN None ELSE u.user)
      /\ t.pass = (IF u.pass = Empty \/ u.user \in {None, Empty} THEN None ELSE u.pass)
      /\ t.host = (IF u.host \in {None, Empty} THEN "localhost" ELSE u.host)
      /\ t.port = u.port /\ t.path = u.path
      /\ t.query = (IF u.query = NoItems THEN None ELSE u.query)
      /\ t.fragment = (IF u.fragment = Empty THEN None ELSE u.fragment)
  BY <1>1, RereadIs
<1>3. Settled(t) <=> s = t
  BY <1>2, CombinedWithNothing DEF Settled, Url
<1> HIDE DEF t
<1>4. "localhost" # None /\ "localhost" # Empty /\ None # Empty /\ None \notin Paths /\ NoItems # None
  BY TextsAssumption, NoneApart, NoItemsMade
<1>5. t.path # None /\ FullPath(t) = t.path
  BY <1>1, <1>2, <1>4 DEF FullPath
<1>6. t.scheme # None /\ t.scheme # Empty /\ t.host # None /\ t.host # Empty
  BY <1>1, <1>2, <1>4
<1>7. /\ c \in UrlParts
      /\ c.scheme = t.scheme /\ c.host = t.host /\ c.path = t.path /\ c.port = t.port
      /\ c.user = t.user /\ c.pass = t.pass /\ c.query = t.query /\ c.fragment = t.fragment
  <2>1. "sanitize" \notin {}
    OBVIOUS
  <2>2. /\ c \in UrlParts
        /\ c.scheme = (IF t.scheme = None THEN "http" ELSE t.scheme)
        /\ c.host = (IF t.host = None THEN "localhost" ELSE t.host)
        /\ c.path = FullPath(t)
        /\ c.port = (IF DefaultFor(c.scheme, t.port) THEN 0 ELSE t.port)
        /\ c.user = t.user /\ c.pass = t.pass
        /\ c.query = t.query /\ c.fragment = t.fragment
    <3>1. t \in UrlParts
      BY <1>2
    <3>2. /\ c \in UrlParts
          /\ c.scheme = (IF t.scheme = None THEN "http" ELSE t.scheme)
          /\ c.host = (IF t.host = None THEN "localhost" ELSE t.host)
          /\ c.path = (IF "sanitize" \in {} /\ FullPath(t) # <<"", "">>
                       THEN Descent(FullPath(t)) ELSE FullPath(t))
          /\ c.port = (IF DefaultFor(c.scheme, t.port) THEN 0 ELSE t.port)
          /\ c.user = t.user /\ c.pass = t.pass
          /\ c.query = t.query /\ c.fragment = t.fragment
      BY <3>1, CompletedIs, Zenon
    <3> HIDE DEF c
    <3> QED
      BY <2>1, <3>2
  <2> HIDE DEF c
  <2>3. c.scheme = t.scheme
    BY <1>6, <2>2
  <2>4. c.port = t.port
    BY <1>1, <1>2, <2>2, <2>3
  <2> QED
    BY <1>5, <1>6, <2>2, <2>3, <2>4
<1> HIDE DEF c
<1>8. /\ s \in UrlParts /\ s = [x \in Components |-> s[x]]
      /\ s.scheme = (IF c.scheme = Empty THEN None ELSE c.scheme)
      /\ s.user = (IF c.user = Empty THEN None ELSE c.user)
      /\ s.pass = (IF c.pass = Empty \/ c.user \in {None, Empty} THEN None ELSE c.pass)
      /\ s.host = (IF c.host \in {None, Empty} THEN "localhost" ELSE c.host)
      /\ s.port = c.port
      /\ s.path = (IF c.path = <<"">> THEN None ELSE c.path)
      /\ s.query = (IF c.query = NoItems THEN None ELSE c.query)
      /\ s.fragment = (IF c.fragment = Empty THEN None ELSE c.fragment)
  BY <1>7, RereadIs
<1> HIDE DEF s
<1>9. /\ s.scheme = t.scheme /\ s.host = t.host /\ s.port = t.port
      /\ s.query = t.query /\ s.fragment = t.fragment /\ s.user = t.user
  BY <1>2, <1>4, <1>6, <1>7, <1>8
<1>10. s.pass = t.pass
  <2>1. CASE t.pass = None
    BY <1>7, <1>8, <2>1
  <2>2. CASE t.pass # None
    <3>1. t.pass # Empty /\ t.user \notin {None, Empty}
      BY <1>2, <1>4, <2>2
    <3> QED
      BY <1>7, <1>8, <3>1
  <2> QED
    BY <2>1, <2>2
<1>11. s.path = t.path
  BY <1>1, <1>2, <1>7, <1>8
<1>12. \A x \in Components : s[x] = t[x]
  BY <1>9, <1>10, <1>11 DEF Components
<1>13. s = t
  BY <1>2, <1>8, <1>12
<1> QED
  BY <1>3, <1>13 DEF s, c, t

-----------------------------------------------------------------------------
(* The invariant *)

NamedUrls == {u \in UrlParts : u.scheme # Empty}
MadeUrls == {u \in UrlParts : Made(u)}

RequestOK(u, said) ==
  /\ u # None => u \in NamedUrls /\ (Settled(u) \/ \E g \in GivenUrls : u = Reread(g))
  /\ Answers(Parsed(QueryOf(u)), said)

RequestsOK ==
  /\ url \in [Requests -> NamedUrls \cup {None}]
  /\ DOMAIN asked = Requests
  /\ \A r \in Requests : RequestOK(url[r], asked[r])

QueriesOK ==
  /\ queries \in [QueryObjects -> ItemTables]
  /\ \A q \in QueryObjects : NoNulls(queries[q])

UrlsOK ==
  /\ urls \in [UrlObjects -> MadeUrls]
  /\ clean \subseteq UrlObjects
  /\ \A o \in clean : Sanitized(urls[o].path)

RInv == RequestsOK /\ QueriesOK /\ UrlsOK

-----------------------------------------------------------------------------
(* Requests *)

LEMMA QueryOfTyped ==
  ASSUME NEW u, u = None \/ u \in UrlParts
  PROVE  QueryOf(u) \in QueryTexts
  BY UrlHas, NoItemsMade DEF QueryOf

LEMMA QueryOfReread ==
  ASSUME NEW u \in UrlParts, u.query # None
  PROVE  QueryOf(Reread(u)) = u.query
<1>1. Reread(u) \in UrlParts /\ Reread(u).query = (IF u.query = NoItems THEN None ELSE u.query)
  BY RereadIs
<1>2. Reread(u) # None
  BY <1>1, TextsAssumption, NoneApart
<1> QED
  BY <1>1, <1>2 DEF QueryOf

LEMMA RereadNamed ==
  ASSUME NEW u \in UrlParts
  PROVE  Reread(u) \in NamedUrls
<1>1. Reread(u) \in UrlParts /\ Reread(u).scheme = (IF u.scheme = Empty THEN None ELSE u.scheme)
  BY RereadIs
<1> QED
  BY <1>1, TextsAssumption DEF NamedUrls

LEMMA NewQueryIs ==
  ASSUME NEW text \in QueryTexts
  PROVE  Named(NewQuery(text)) /\ NewQuery(text).query = text /\ text # None
<1>1. NewQuery(text) = [NoUrl EXCEPT !.query = text]
  BY DEF NewQuery
<1>2. NoUrl \in UrlParts /\ NoUrl.scheme = None
  BY NoUrlIs DEF Components
<1>3. [NoUrl EXCEPT !.query = text] \in UrlParts
  BY <1>2 DEF UrlParts, UrlsWith
<1>4. [NoUrl EXCEPT !.query = text].scheme = None /\ [NoUrl EXCEPT !.query = text].query = text
  BY <1>2 DEF UrlParts, UrlsWith
<1>5. None # Empty /\ text # None
  BY TextsAssumption, NoneApart
<1> QED
  BY <1>1, <1>3, <1>4, <1>5 DEF Named

LEMMA OldUrlNamed ==
  ASSUME RequestsOK, NEW r \in Requests
  PROVE  /\ Named(OldUrl(r)) /\ OldUrl(r).query \in QueryTexts \cup {None}
         /\ QueryOf(url[r]) = IF OldUrl(r).query = None THEN NoItems ELSE OldUrl(r).query
<1>1. url[r] \in NamedUrls \cup {None}
  BY DEF RequestsOK
<1>2. NoUrl \in UrlParts /\ NoUrl.scheme = None /\ NoUrl.query = None /\ None # Empty
  BY NoUrlIs, TextsAssumption DEF Components
<1>3. Named(OldUrl(r))
  BY <1>1, <1>2 DEF OldUrl, Named, NamedUrls
<1>4. OldUrl(r).query \in QueryTexts \cup {None}
  BY <1>3, UrlHas DEF Named
<1>5. QueryOf(url[r]) = IF OldUrl(r).query = None THEN NoItems ELSE OldUrl(r).query
  BY <1>2 DEF OldUrl, QueryOf
<1> QED
  BY <1>3, <1>4, <1>5

\* The query that setQuery and addQuery leave, and the URL around it.
LEMMA Queried ==
  ASSUME RequestsOK, NEW r \in Requests, NEW text \in QueryTexts,
         NEW flags \in {{}, {"join_query"}},
         NEW new, new = Reread(Url(flags, Server, OldUrl(r), NewQuery(text)))
  PROVE  /\ new \in NamedUrls /\ Settled(new)
         /\ QueryOf(new) = IF flags # {} /\ OldUrl(r).query # None
                           THEN JoinQuery(OldUrl(r).query, text) ELSE text
<1> DEFINE old == OldUrl(r)
           u == Url(flags, Server, old, NewQuery(text))
           c == Combined(flags, old, NewQuery(text))
<1>1. /\ Named(old) /\ old.query \in QueryTexts \cup {None}
  BY OldUrlNamed
<1>2. Named(NewQuery(text)) /\ NewQuery(text).query = text /\ text # None
  BY NewQueryIs
<1>3. flags \cap {"from_env", "sanitize"} = {} /\ "strip_query" \notin flags /\ ("join_query" \in flags <=> flags # {})
  OBVIOUS
<1>4. c.query = IF "strip_query" \in flags THEN None
                ELSE IF "join_query" \in flags /\ Given(old, "query") /\ Given(NewQuery(text), "query")
                     THEN JoinQuery(old.query, NewQuery(text).query)
                ELSE NewOverOld(old, NewQuery(text), "query")
  BY <1>1, <1>2, CombinedTyped DEF Named
<1> HIDE DEF old
<1>5. c.query = IF flags # {} /\ old.query # None THEN JoinQuery(old.query, text) ELSE text
  BY <1>2, <1>3, <1>4 DEF NewOverOld, Given
<1>6. c.query # None
  <2>1. c.query \in QueryTexts
    BY <1>1, <1>5, JoinQueryTyped
  <2> QED
    BY <2>1, TextsAssumption, NoneApart
<1>7. Complete(u) /\ u.query = c.query
  BY <1>1, <1>2, <1>3, UrlMakes
<1> HIDE DEF c
<1>8. u \in UrlParts
  BY <1>7 DEF Complete, Made
<1>9. new = Reread(u)
  BY DEF old
<1> HIDE DEF u
<1>10. new \in NamedUrls /\ Settled(new)
  BY <1>7, <1>8, <1>9, RereadNamed, CompleteSettled
<1>11. QueryOf(new) = c.query
  BY <1>6, <1>7, <1>8, <1>9, QueryOfReread
<1> QED
  BY <1>5, <1>10, <1>11 DEF old

\* Objects keep what a NULL leaves alone, and give empty strings for NULL.
LEMMA ToStructIs ==
  ASSUME NEW object \in UrlParts, NEW u, Made(u)
  PROVE  /\ ToStruct(object, u) \in MadeUrls
         /\ ToStruct(object, u).path = u.path
<1> DEFINE t == ToStruct(object, u)
<1>1. u \in UrlParts /\ u.scheme # None /\ u.scheme # Empty /\ u.path \in Paths /\ u.path # None
  BY TextsAssumption DEF Made
<1>2. t = [c \in Components |-> t[c]]
  BY DEF ToStruct
<1>3. \A c \in Components : t[c] = u[c] \/ t[c] = object[c]
  BY DEF ToStruct
<1>4. Given(u, "scheme") /\ Given(u, "path")
  BY <1>1 DEF Given
<1>5. t.scheme = u.scheme /\ t.path = u.path
  BY <1>4 DEF ToStruct, Components
<1> HIDE DEF t
<1>6. /\ t.user \in {u.user, object.user} /\ t.pass \in {u.pass, object.pass}
      /\ t.host \in {u.host, object.host} /\ t.port \in {u.port, object.port}
      /\ t.query \in {u.query, object.query} /\ t.fragment \in {u.fragment, object.fragment}
  BY <1>3 DEF Components
<1>7. /\ t.scheme \in Texts /\ t.user \in Texts /\ t.pass \in Texts /\ t.host \in Texts
      /\ t.port \in Nat /\ t.path \in Paths \cup {None}
      /\ t.query \in QueryTexts \cup {None} /\ t.fragment \in Texts
  BY <1>1, <1>5, <1>6, UrlHas
<1>8. t \in UrlParts
  BY <1>2, <1>7, UrlMade
<1> QED
  BY <1>1, <1>5, <1>8 DEF t, MadeUrls, Made

LEMMA FromStructIs ==
  ASSUME NEW object, Made(object)
  PROVE  Named(FromStruct(object))
<1> DEFINE t == FromStruct(object)
<1>1. object \in UrlParts /\ object.scheme # None /\ object.scheme # Empty /\ object.path \in Paths
  BY DEF Made
<1>2. /\ Blank("user") = Empty /\ Blank("pass") = Empty
      /\ Blank("host") = Empty /\ Blank("port") = 0 /\ Blank("path") = <<"">>
      /\ Blank("query") = NoItems /\ Blank("fragment") = Empty
  BY DEF Blank
<1>3. t = [c \in Components |-> t[c]]
  BY DEF FromStruct
<1>4. \A c \in Components : t[c] = IF object[c] = None THEN Blank(c) ELSE object[c]
  BY DEF FromStruct
<1> HIDE DEF t
<1>5. /\ t.user \in {object.user, Empty} /\ t.pass \in {object.pass, Empty}
      /\ t.host \in {object.host, Empty} /\ t.port \in {object.port, 0}
      /\ t.query \in {object.query, NoItems} /\ t.fragment \in {object.fragment, Empty}
  BY <1>2, <1>4 DEF Components
<1>6. t.scheme = object.scheme
  BY <1>1, <1>4 DEF Components
<1>7. object.path # None
  BY <1>1, TextsAssumption
<1>8. t.path = object.path
  BY <1>4, <1>7 DEF Components
<1>9. /\ t.scheme \in Texts /\ t.user \in Texts /\ t.pass \in Texts /\ t.host \in Texts
      /\ t.port \in Nat /\ t.path \in Paths \cup {None}
      /\ t.query \in QueryTexts \cup {None} /\ t.fragment \in Texts
  <2>1. /\ object.scheme \in Texts /\ object.user \in Texts /\ object.pass \in Texts
        /\ object.host \in Texts /\ object.port \in Nat /\ object.path \in Paths \cup {None}
        /\ object.query \in QueryTexts \cup {None} /\ object.fragment \in Texts
    BY <1>1, UrlHas
  <2>2. Empty \in Texts /\ 0 \in Nat /\ NoItems \in QueryTexts \cup {None}
    BY NoItemsMade, TextsAssumption DEF Texts
  <2> QED
    BY <1>5, <1>6, <1>8, <2>1, <2>2
<1>10. t \in UrlParts
  BY <1>3, <1>9, UrlMade
<1> QED
  BY <1>1, <1>6, <1>10 DEF t, Named

LEMMA NoUrlNamed == Named(NoUrl)
<1>1. NoUrl \in UrlParts /\ NoUrl.scheme = None /\ None # Empty
  BY NoUrlIs, TextsAssumption DEF Components
<1> QED
  BY <1>1 DEF Named

LEMMA TextIs ==
  ASSUME NEW object, Made(object)
  PROVE  Text(object) \in NamedUrls /\ Settled(Text(object))
<1> DEFINE u == Url({}, Server, FromStruct(object), NoUrl)
<1>1. Named(FromStruct(object)) /\ Named(NoUrl)
  BY FromStructIs, NoUrlNamed
<1>2. {} \cap {"from_env", "sanitize"} = {}
  OBVIOUS
<1>3. Complete(u)
  BY <1>1, <1>2, UrlMakes
<1>4. Text(object) = Reread(u)
  BY DEF Text
<1> HIDE DEF u
<1>5. u \in UrlParts
  BY <1>3 DEF Complete, Made
<1> QED
  BY <1>3, <1>4, <1>5, RereadNamed, CompleteSettled

LEMMA GivenNamed ==
  ASSUME NEW g \in GivenUrls \cup {NoUrl}
  PROVE  Named(g)
  BY GivenAre, NoUrlNamed DEF Named

LEMMA AskedFirst ==
  ASSUME NEW said, Answers(Parsed(NoItems), said), NEW t \in ItemTables
  PROVE  Answers(Parsed(Encoded(Update(NoItems, t))), Ask(said, t))
<1> DEFINE has == Parsed(Encoded(Update(NoItems, t)))
           now == Ask(said, t)
<1>1. \A n \in DOMAIN said : said[n] = Odd
  BY NoItemsMade, ParsedIs DEF Answers
<1>2. /\ DOMAIN has \subseteq DOMAIN t
      /\ \A n \in DOMAIN t : Carried(t[n]) => n \in DOMAIN has /\ has[n] = Respelt(t[n])
  BY SpeltCarries
<1>3. DOMAIN now = DOMAIN said \cup DOMAIN t
  BY DEF Ask
<1>4. \A n \in DOMAIN now : now[n] # Odd => n \in DOMAIN t /\ Carried(t[n]) /\ now[n] = t[n].at
  BY <1>1 DEF Ask
<1> HIDE DEF has, now
<1>5. ASSUME NEW n \in DOMAIN now, now[n] # Odd
      PROVE  /\ now[n] \in AskedValues
             /\ n \in DOMAIN has /\ has[n].ahead = {} /\ Agrees(has[n].at, now[n])
  <2>1. n \in DOMAIN t /\ Carried(t[n]) /\ now[n] = t[n].at
    BY <1>4, <1>5
  <2>2. t[n] \in ItemValues
    BY <2>1, TableHas
  <2>3. has[n] = Respelt(t[n]) /\ n \in DOMAIN has
    BY <1>2, <2>1
  <2>4. now[n] \in AskedValues /\ Respelt(t[n]).ahead = {}
    BY <2>1, <2>2, RespeltIs
  <2>5. Agrees(Respelt(t[n]).at, now[n])
    BY <2>1, <2>2, <2>4, AgreesWithItself, RespeltAgrees
  <2> QED
    BY <2>3, <2>4, <2>5
<1> QED
  BY <1>2, <1>3, <1>5 DEF has, now, Answers

LEMMA NothingAsked == Answers(Parsed(NoItems), NoItems)
  BY NoItemsMade, ParsedIs DEF Answers

\* A request's new URL and what is asked of it are as the invariant has them.
LEMMA RequestsKept ==
  ASSUME RequestsOK, NEW r \in Requests, NEW u, NEW said, RequestOK(u, said),
         url' = [url EXCEPT ![r] = u], asked' = [asked EXCEPT ![r] = said]
  PROVE  RequestsOK'
<1>1. u \in NamedUrls \cup {None}
  BY DEF RequestOK
<1>2. url' \in [Requests -> NamedUrls \cup {None}] /\ DOMAIN asked' = Requests
  BY <1>1 DEF RequestsOK
<1>3. \A s \in Requests : (url'[s] = IF s = r THEN u ELSE url[s]) /\ (asked'[s] = IF s = r THEN said ELSE asked[s])
  BY DEF RequestsOK
<1>4. \A s \in Requests : RequestOK(url'[s], asked'[s])
  BY <1>3 DEF RequestsOK
<1>5. (\A s \in Requests : RequestOK(url[s], asked[s]))' <=> \A s \in Requests : RequestOK(url'[s], asked'[s])
  BY DEF RequestOK
<1> QED
  BY <1>2, <1>4, <1>5 DEF RequestsOK

LEMMA SetQueryKeeps ==
  ASSUME RequestsOK, NEW r \in Requests, NEW given, given # Null => GivenItems(given),
         SetQuery(r, given)
  PROVE  RequestsOK'
<1> DEFINE text == IF given = Null THEN NoItems ELSE Spelt(given)
           said == IF given = Null THEN NoItems ELSE Ask(NoItems, TableOf(given))
           u == Reread(Url({}, Server, OldUrl(r), NewQuery(text)))
<1>1. /\ url' = [url EXCEPT ![r] = u]
      /\ asked' = [asked EXCEPT ![r] = said]
  BY DEF SetQuery
<1>2. text \in QueryTexts
  BY TableOfTyped, SpeltTyped, NoItemsMade DEF GivenItems
<1>3. Answers(Parsed(text), said)
  <2>1. CASE given = Null
    BY <2>1, NothingAsked
  <2>2. CASE given # Null
    <3>1. TableOf(given) \in ItemTables
      BY <2>2, TableOfTyped DEF GivenItems
    <3>2. text = Encoded(Update(NoItems, TableOf(given)))
      BY <2>2 DEF Spelt
    <3>3. Parsed(text) \in ItemTables /\ DOMAIN Parsed(text) \subseteq DOMAIN TableOf(given)
      BY <3>1, <3>2, SpeltCarries
    <3>4. \A n \in DOMAIN TableOf(given) : Carried(TableOf(given)[n]) =>
             n \in DOMAIN Parsed(text) /\ Parsed(text)[n] = Respelt(TableOf(given)[n])
      BY <3>1, <3>2, SpeltCarries
    <3> HIDE DEF text
    <3>5. Answers(Parsed(text), Ask(NoItems, TableOf(given)))
      BY <3>1, <3>3, <3>4, AskedAnew
    <3> QED
      BY <2>2, <3>5
  <2> QED
    BY <2>1, <2>2
<1> HIDE DEF text, said
<1>4. u \in NamedUrls /\ Settled(u) /\ QueryOf(u) = text
  BY <1>2, Queried
<1> HIDE DEF u
<1>5. RequestOK(u, said)
  BY <1>3, <1>4 DEF RequestOK
<1> QED
  BY <1>1, <1>5, RequestsKept

LEMMA AddQueryKeeps ==
  ASSUME RequestsOK, NEW r \in Requests, NEW given, GivenItems(given), AddQuery(r, given)
  PROVE  RequestsOK'
<1> DEFINE text == Spelt(given)
           said == Ask(asked[r], TableOf(given))
           u == Reread(Url({"join_query"}, Server, OldUrl(r), NewQuery(text)))
<1>1. /\ url' = [url EXCEPT ![r] = u]
      /\ asked' = [asked EXCEPT ![r] = said]
  BY DEF AddQuery, RequestsOK
<1>2. text \in QueryTexts /\ TableOf(given) \in ItemTables
  BY SpeltTyped, TableOfTyped DEF GivenItems
<1>3. text = Encoded(Update(NoItems, TableOf(given)))
  BY DEF Spelt
<1>4. Answers(Parsed(QueryOf(url[r])), asked[r])
  BY DEF RequestsOK, RequestOK
<1>5. /\ OldUrl(r).query \in QueryTexts \cup {None}
      /\ QueryOf(url[r]) = IF OldUrl(r).query = None THEN NoItems ELSE OldUrl(r).query
  BY OldUrlNamed
<1>6. /\ u \in NamedUrls /\ Settled(u)
      /\ QueryOf(u) = IF {"join_query"} # {} /\ OldUrl(r).query # None
                      THEN JoinQuery(OldUrl(r).query, text) ELSE text
  BY <1>2, Queried
<1> HIDE DEF u
<1>7. Answers(Parsed(QueryOf(u)), said)
  <2>1. CASE OldUrl(r).query = None
    <3>1. Answers(Parsed(NoItems), asked[r]) /\ QueryOf(u) = text
      BY <1>4, <1>5, <1>6, <2>1
    <3> HIDE DEF text
    <3>2. Answers(Parsed(text), Ask(asked[r], TableOf(given)))
      BY <1>2, <1>3, <3>1, AskedFirst
    <3> QED
      BY <3>1, <3>2
  <2>2. CASE OldUrl(r).query # None
    <3>1. /\ Answers(Parsed(OldUrl(r).query), asked[r]) /\ OldUrl(r).query \in QueryTexts
          /\ QueryOf(u) = JoinQuery(OldUrl(r).query, text)
      BY <1>4, <1>5, <1>6, <2>2
    <3> HIDE DEF text
    <3>2. Answers(Parsed(JoinQuery(OldUrl(r).query, text)), Ask(asked[r], TableOf(given)))
      BY <1>2, <1>3, <3>1, AskedMore
    <3> QED
      BY <3>1, <3>2
  <2> QED
    BY <2>1, <2>2
<1> HIDE DEF text, said
<1>8. RequestOK(u, said)
  BY <1>6, <1>7 DEF RequestOK
<1> QED
  BY <1>1, <1>8, RequestsKept

LEMMA SetUrlKeeps ==
  ASSUME RequestsOK, NEW r \in Requests, NEW text \in NamedUrls,
         Settled(text) \/ \E g \in GivenUrls : text = Reread(g),
         SetUrl(r, text)
  PROVE  RequestsOK'
<1> DEFINE said == Ask(NoItems, Parsed(QueryOf(text)))
<1>1. url' = [url EXCEPT ![r] = text] /\ asked' = [asked EXCEPT ![r] = said]
  BY DEF SetUrl
<1>2. QueryOf(text) \in QueryTexts
  BY QueryOfTyped DEF NamedUrls
<1>3. Parsed(QueryOf(text)) \in ItemTables
  BY <1>2, ParsedIs
<1>4. Answers(Parsed(QueryOf(text)), said)
  BY <1>3, AskedAnew
<1>5. RequestOK(text, said)
  BY <1>4 DEF RequestOK
<1> HIDE DEF said
<1> QED
  BY <1>1, <1>5, RequestsKept

LEMMA CloneKeeps ==
  ASSUME RequestsOK, NEW r \in Requests, NEW s \in Requests, Clone(r, s)
  PROVE  RequestsOK'
<1>1. url' = [url EXCEPT ![s] = url[r]] /\ asked' = [asked EXCEPT ![s] = asked[r]]
  BY DEF Clone
<1>2. RequestOK(url[r], asked[r])
  BY DEF RequestsOK
<1> QED
  BY <1>1, <1>2, RequestsKept

-----------------------------------------------------------------------------
(* Query objects and URL objects *)

LEMMA OneItem ==
  ASSUME NEW n \in Names, NEW v \in ItemValues
  PROVE  [x \in {n} |-> v] \in ItemTables
<1>1. [x \in {n} |-> v] \in [{n} -> ItemValues]
  OBVIOUS
<1> QED
  BY <1>1, TableMade

LEMMA NoItemsNoNulls == NoNulls(NoItems)
  BY NoItemsMade DEF NoNulls

LEMMA QueriesKept ==
  ASSUME QueriesOK, NEW q \in QueryObjects, NEW table \in ItemTables, NoNulls(table),
         ChangeQuery(q, table)
  PROVE  QueriesOK'
<1>1. queries' = [queries EXCEPT ![q] = table]
  BY DEF ChangeQuery
<1>2. queries' \in [QueryObjects -> ItemTables]
  BY <1>1 DEF QueriesOK
<1>3. \A p \in QueryObjects : queries'[p] = IF p = q THEN table ELSE queries[p]
  BY <1>1 DEF QueriesOK
<1>4. \A p \in QueryObjects : NoNulls(queries'[p])
  BY <1>3 DEF QueriesOK
<1> QED
  BY <1>2, <1>4 DEF QueriesOK, NoNulls

\* The methods of a query object leave a table without a NULL.
LEMMA UpdateKeeps ==
  ASSUME NEW has \in ItemTables, NEW given \in ItemTables, NoNulls(has)
  PROVE  Update(has, given) \in ItemTables /\ NoNulls(Update(has, given))
  BY UpdateIs, UpdateNoNulls

LEMMA GivenTyped ==
  ASSUME NEW g \in GivenQueries
  PROVE  GivenItems(g) /\ TableOf(g) \in ItemTables
  BY GivenAre, TableOfTyped DEF GivenItems

LEMMA QueryCallKeeps ==
  ASSUME QueriesOK, QueryCall
  PROVE  QueriesOK'
<1>1. \A q \in QueryObjects : queries[q] \in ItemTables /\ NoNulls(queries[q])
  BY DEF QueriesOK
<1>2. ASSUME NEW p \in QueryObjects, NEW q \in QueryObjects, NEW g \in GivenQueries,
             ChangeQuery(p, Set(queries[q], g))
      PROVE  QueriesOK'
  <2>1. Set(queries[q], g) \in ItemTables /\ NoNulls(Set(queries[q], g))
    BY <1>1, GivenTyped, UpdateKeeps DEF Set
  <2> QED
    BY <1>2, <2>1, QueriesKept
<1>3. ASSUME NEW q \in QueryObjects, NEW g \in GivenQueries, g.kind = "text",
             ChangeQuery(q, Unserialize(g.items))
      PROVE  QueriesOK'
  <2>1. Parsed(g.items) \in ItemTables
    BY <1>3, GivenTyped, ParsedIs DEF GivenItems
  <2>2. Unserialize(g.items) \in ItemTables /\ NoNulls(Unserialize(g.items))
    BY <2>1, NoItemsMade, NoItemsNoNulls, UpdateKeeps DEF Unserialize
  <2> QED
    BY <1>3, <2>2, QueriesKept
<1>4. ASSUME NEW q \in QueryObjects, NEW n \in DOMAIN queries[q]
      PROVE  /\ ChangeQuery(q, OffsetUnset(queries[q], n)) => QueriesOK'
             /\ \A v \in GivenValues : ChangeQuery(q, OffsetSet(n, v)) => QueriesOK'
  <2>1. n \in Names
    BY <1>1, TableHas
  <2>2. ASSUME ChangeQuery(q, OffsetUnset(queries[q], n)) PROVE QueriesOK'
    <3>1. [x \in {n} |-> Scalar(Null)] \in ItemTables
      BY <2>1, ScalarMade, OneItem
    <3>2. OffsetUnset(queries[q], n) \in ItemTables /\ NoNulls(OffsetUnset(queries[q], n))
      BY <1>1, <3>1, UpdateKeeps DEF OffsetUnset
    <3> QED
      BY <2>2, <3>2, QueriesKept
  <2>3. ASSUME NEW v \in GivenValues, ChangeQuery(q, OffsetSet(n, v)) PROVE QueriesOK'
    <3>1. [x \in {n} |-> v] \in ItemTables
      BY <2>1, GivenAssumption, OneItem
    <3>2. OffsetSet(n, v) \in ItemTables /\ NoNulls(OffsetSet(n, v))
      BY <3>1, NoItemsMade, NoItemsNoNulls, UpdateKeeps DEF OffsetSet
    <3> QED
      BY <2>3, <3>2, QueriesKept
  <2> QED
    BY <2>2, <2>3
<1> QED
  BY <1>2, <1>3, <1>4 DEF QueryCall

LEMMA UrlsKept ==
  ASSUME UrlsOK, NEW o \in UrlObjects, NEW made \in MadeUrls, NEW sanitized \in BOOLEAN,
         sanitized => Sanitized(made.path), ChangeUrl(o, made, sanitized)
  PROVE  UrlsOK'
<1>1. /\ urls' = [urls EXCEPT ![o] = made]
      /\ clean' = IF sanitized THEN clean \cup {o} ELSE clean \ {o}
  BY DEF ChangeUrl
<1>2. urls' \in [UrlObjects -> MadeUrls] /\ clean' \subseteq UrlObjects
  BY <1>1 DEF UrlsOK
<1>3. \A p \in UrlObjects : urls'[p] = IF p = o THEN made ELSE urls[p]
  BY <1>1 DEF UrlsOK
<1>4. \A p \in clean' : Sanitized(urls'[p].path)
  <2> SUFFICES ASSUME NEW p \in clean' PROVE Sanitized(urls'[p].path)
    OBVIOUS
  <2>1. CASE p = o
    BY <1>1, <1>2, <1>3, <2>1
  <2>2. CASE p # o
    BY <1>1, <1>2, <1>3, <2>2 DEF UrlsOK
  <2> QED
    BY <2>1, <2>2
<1> QED
  BY <1>2, <1>4 DEF UrlsOK, Sanitized

\* What a URL object is made of, and what a changed one becomes.
LEMMA ObjectMade ==
  ASSUME NEW object \in UrlParts, NEW flags, NEW old, NEW new, Named(old), Named(new)
  PROVE  LET made == ToStruct(object, Url(flags, Server, old, new))
         IN made \in MadeUrls /\ ("sanitize" \in flags => Sanitized(made.path))
<1>1. /\ Made(Url(flags, Server, old, new))
      /\ "sanitize" \in flags => Sanitized(Url(flags, Server, old, new).path)
  BY UrlMakes
<1> QED
  BY <1>1, ToStructIs

LEMMA NewUrlKeeps ==
  ASSUME UrlsOK, NEW o \in UrlObjects, NEW old, NEW new, NEW flags, Named(old), Named(new),
         NewUrl(o, old, new, flags)
  PROVE  UrlsOK'
<1> DEFINE made == ToStruct(NoUrl, Url(flags, Server, old, new))
<1>1. made \in MadeUrls /\ ("sanitize" \in flags => Sanitized(made.path))
  BY ObjectMade, NoUrlNamed DEF Named
<1>2. ChangeUrl(o, made, "sanitize" \in flags)
  BY DEF NewUrl
<1> DEFINE sanitized == "sanitize" \in flags
<1>3. sanitized \in BOOLEAN /\ (sanitized => Sanitized(made.path)) /\ ChangeUrl(o, made, sanitized)
  BY <1>1, <1>2
<1> HIDE DEF made, sanitized
<1> QED
  BY <1>1, <1>3, UrlsKept

LEMMA ModUrlKeeps ==
  ASSUME UrlsOK, NEW o \in UrlObjects, NEW p \in UrlObjects, NEW new, NEW flags, Named(new),
         ModUrl(o, p, new, flags)
  PROVE  UrlsOK'
<1> DEFINE made == ToStruct(urls[p], Url(flags, Server, FromStruct(urls[p]), new))
<1>1. urls[p] \in UrlParts /\ Made(urls[p])
  BY DEF UrlsOK, MadeUrls
<1>2. Named(FromStruct(urls[p]))
  BY <1>1, FromStructIs
<1>3. made \in MadeUrls /\ ("sanitize" \in flags => Sanitized(made.path))
  BY <1>1, <1>2, ObjectMade
<1>4. ChangeUrl(o, made, "sanitize" \in flags)
  BY DEF ModUrl
<1> DEFINE sanitized == "sanitize" \in flags
<1>5. sanitized \in BOOLEAN /\ (sanitized => Sanitized(made.path)) /\ ChangeUrl(o, made, sanitized)
  BY <1>3, <1>4
<1> HIDE DEF made, sanitized
<1> QED
  BY <1>3, <1>5, UrlsKept

-----------------------------------------------------------------------------
(* Every step keeps the invariant *)

LEMMA RequestsStay ==
  ASSUME RequestsOK, UNCHANGED <<url, asked>>
  PROVE  RequestsOK'
  BY DEF RequestsOK, RequestOK

LEMMA QueriesStay ==
  ASSUME QueriesOK, UNCHANGED queries
  PROVE  QueriesOK'
  BY DEF QueriesOK, NoNulls

LEMMA UrlsStay ==
  ASSUME UrlsOK, UNCHANGED <<urls, clean>>
  PROVE  UrlsOK'
  BY DEF UrlsOK, Sanitized

LEMMA OthersStay ==
  ASSUME QueriesOK, UrlsOK, UNCHANGED <<queries, urls, clean>>
  PROVE  QueriesOK' /\ UrlsOK'
  BY QueriesStay, UrlsStay

LEMMA RequestCallKeeps ==
  ASSUME RInv, RequestCall
  PROVE  RInv'
<1>1. RequestsOK /\ QueriesOK /\ UrlsOK
  BY DEF RInv
<1>2. ASSUME NEW r \in Requests, NEW g \in GivenQueries \cup {Null}, SetQuery(r, g)
      PROVE  RInv'
  <2>1. g # Null => GivenItems(g)
    BY <1>2, GivenTyped
  <2>2. RequestsOK'
    BY <1>1, <1>2, <2>1, SetQueryKeeps
  <2>3. UNCHANGED <<queries, urls, clean>>
    BY <1>2 DEF SetQuery
  <2> QED
    BY <1>1, <2>2, <2>3, OthersStay DEF RInv
<1>3. ASSUME NEW r \in Requests, NEW g \in GivenQueries, AddQuery(r, g)
      PROVE  RInv'
  <2>1. RequestsOK'
    BY <1>1, <1>3, GivenTyped, AddQueryKeeps
  <2>2. UNCHANGED <<queries, urls, clean>>
    BY <1>3 DEF AddQuery
  <2> QED
    BY <1>1, <2>1, <2>2, OthersStay DEF RInv
<1>4. ASSUME NEW r \in Requests, NEW q \in QueryObjects
      PROVE  /\ SetQuery(r, Deep(queries[q])) => RInv'
             /\ AddQuery(r, Deep(queries[q])) => RInv'
  <2>1. GivenItems(Deep(queries[q]))
    BY <1>1 DEF QueriesOK, GivenItems, Deep
  <2>2. ASSUME SetQuery(r, Deep(queries[q])) PROVE RInv'
    <3>1. RequestsOK'
      BY <1>1, <2>1, <2>2, SetQueryKeeps
    <3>2. UNCHANGED <<queries, urls, clean>>
      BY <2>2 DEF SetQuery
    <3> QED
      BY <1>1, <3>1, <3>2, OthersStay DEF RInv
  <2>3. ASSUME AddQuery(r, Deep(queries[q])) PROVE RInv'
    <3>1. RequestsOK'
      BY <1>1, <2>1, <2>3, AddQueryKeeps
    <3>2. UNCHANGED <<queries, urls, clean>>
      BY <2>3 DEF AddQuery
    <3> QED
      BY <1>1, <3>1, <3>2, OthersStay DEF RInv
  <2> QED
    BY <2>2, <2>3
<1>5. ASSUME NEW r \in Requests, NEW g \in GivenUrls, SetUrl(r, Reread(g))
      PROVE  RInv'
  <2>1. g \in UrlParts
    BY GivenAre
  <2>2. Reread(g) \in NamedUrls
    BY <2>1, RereadNamed
  <2>3. RequestsOK'
    BY <1>1, <1>5, <2>2, SetUrlKeeps
  <2>4. UNCHANGED <<queries, urls, clean>>
    BY <1>5 DEF SetUrl
  <2> QED
    BY <1>1, <2>3, <2>4, OthersStay DEF RInv
<1> QED
  BY <1>2, <1>3, <1>4, <1>5 DEF RequestCall

LEMMA UrlCallKeeps ==
  ASSUME RInv, UrlCall
  PROVE  RInv'
<1>1. RequestsOK /\ QueriesOK /\ UrlsOK
  BY DEF RInv
<1>2. PICK o \in UrlObjects, flags \in FlagSets, new \in GivenUrls \cup {NoUrl} :
         \/ \E old \in GivenUrls \cup {NoUrl} : NewUrl(o, old, new, flags)
         \/ \E p \in UrlObjects :
               \/ ModUrl(o, p, new, flags)
               \/ ModUrl(o, p, FromStruct(Url({}, Server, NoUrl, new)), flags)
         \/ \E r \in Requests : SetUrl(r, Text(urls[o]))
  BY DEF UrlCall
<1>3. Named(new)
  BY GivenNamed
<1>4. ASSUME NEW old \in GivenUrls \cup {NoUrl}, NewUrl(o, old, new, flags) PROVE RInv'
  <2>1. Named(old)
    BY GivenNamed
  <2>2. UrlsOK'
    BY <1>1, <1>3, <1>4, <2>1, NewUrlKeeps
  <2>3. UNCHANGED <<url, asked, queries>>
    BY <1>4 DEF NewUrl, ChangeUrl
  <2> QED
    BY <1>1, <2>2, <2>3, RequestsStay, QueriesStay DEF RInv
<1>5. ASSUME NEW p \in UrlObjects, NEW given, Named(given), ModUrl(o, p, given, flags) PROVE RInv'
  <2>1. UrlsOK'
    BY <1>1, <1>5, ModUrlKeeps
  <2>2. UNCHANGED <<url, asked, queries>>
    BY <1>5 DEF ModUrl, ChangeUrl
  <2> QED
    BY <1>1, <2>1, <2>2, RequestsStay, QueriesStay DEF RInv
<1>6. Named(FromStruct(Url({}, Server, NoUrl, new)))
  BY <1>3, NoUrlNamed, UrlMakes, FromStructIs
<1>7. ASSUME NEW r \in Requests, SetUrl(r, Text(urls[o])) PROVE RInv'
  <2>1. Made(urls[o])
    BY <1>1 DEF UrlsOK, MadeUrls
  <2>2. Text(urls[o]) \in NamedUrls /\ Settled(Text(urls[o]))
    BY <2>1, TextIs
  <2>3. RequestsOK'
    BY <1>1, <1>7, <2>2, SetUrlKeeps
  <2>4. UNCHANGED <<queries, urls, clean>>
    BY <1>7 DEF SetUrl
  <2> QED
    BY <1>1, <2>3, <2>4, OthersStay DEF RInv
<1> QED
  BY <1>2, <1>3, <1>4, <1>5, <1>6, <1>7

LEMMA StepKeeps ==
  ASSUME RInv, [Next]_vars
  PROVE  RInv'
<1>1. RequestsOK /\ QueriesOK /\ UrlsOK
  BY DEF RInv
<1>2. CASE UNCHANGED requestVars
  <2>1. UNCHANGED <<url, asked, queries, urls, clean>>
    BY <1>2 DEF requestVars
  <2> QED
    BY <1>1, <2>1, RequestsStay, OthersStay DEF RInv
<1>3. ASSUME NEW r \in Requests, NEW s \in Requests, Clone(r, s) PROVE RInv'
  <2>1. RequestsOK'
    BY <1>1, <1>3, CloneKeeps
  <2>2. UNCHANGED <<queries, urls, clean>>
    BY <1>3 DEF Clone
  <2> QED
    BY <1>1, <2>1, <2>2, OthersStay DEF RInv
<1>4. CASE QueryCall
  <2>1. QueriesOK'
    BY <1>1, <1>4, QueryCallKeeps
  <2>2. UNCHANGED <<url, asked, urls, clean>>
    BY <1>4 DEF QueryCall, ChangeQuery
  <2> QED
    BY <1>1, <2>1, <2>2, RequestsStay, UrlsStay DEF RInv
<1>5. CASE RequestCall
  BY <1>5, RequestCallKeeps
<1>6. CASE UrlCall
  BY <1>6, UrlCallKeeps
<1> QED
  BY <1>2, <1>3, <1>4, <1>5, <1>6 DEF Next, vars

LEMMA InitKeeps ==
  ASSUME Init
  PROVE  RInv
<1>1. /\ url = [r \in Requests |-> None] /\ asked = [r \in Requests |-> NoItems]
      /\ queries = [q \in QueryObjects |-> NoItems] /\ clean = {}
      /\ urls = [o \in UrlObjects |-> ToStruct(NoUrl, Url({}, Server, NoUrl, NoUrl))]
  BY DEF Init
<1>2. RequestsOK
  <2>1. RequestOK(None, NoItems)
    BY NothingAsked DEF RequestOK, QueryOf
  <2> QED
    BY <1>1, <2>1 DEF RequestsOK
<1>3. QueriesOK
  BY <1>1, NoItemsMade, NoItemsNoNulls DEF QueriesOK
<1>4. UrlsOK
  <2> DEFINE made == ToStruct(NoUrl, Url({}, Server, NoUrl, NoUrl))
  <2>1. made \in MadeUrls
    BY ObjectMade, NoUrlNamed DEF Named
  <2> HIDE DEF made
  <2> QED
    BY <1>1, <2>1 DEF UrlsOK, made
<1> QED
  BY <1>2, <1>3, <1>4 DEF RInv

-----------------------------------------------------------------------------
(* Arrays, tables and heaps of options *)

IsTable(t) ==
  /\ t = [k \in DOMAIN t |-> t[k]] /\ DOMAIN t \subseteq Keys
  /\ \A k \in DOMAIN t \cap Parts : t[k] \in PartIds

IsHeap(h) ==
  /\ h = [options |-> h.options, tables |-> h.tables, parts |-> h.parts, properties |-> h.properties]
  /\ h.options \in [Objects -> Tables]
  /\ h.tables = [i \in Tables |-> h.tables[i]] /\ \A i \in Tables : IsTable(h.tables[i])
  /\ h.parts \in [PartIds -> Arrays]

LEMMA HeapHas ==
  ASSUME NEW h, NEW os, NEW ts, NEW ps, NEW rs,
         h = [options |-> os, tables |-> ts, parts |-> ps, properties |-> rs]
  PROVE  /\ h = [options |-> h.options, tables |-> h.tables, parts |-> h.parts, properties |-> h.properties]
         /\ h.options = os /\ h.tables = ts /\ h.parts = ps /\ h.properties = rs
  OBVIOUS

\* The arrays of an object, and what a script reads of it.
ArraysOf(h, o) == DOMAIN Table(h, o) \cap Parts
View(h, o) == [k \in DOMAIN Table(h, o) |->
                  IF k \in Parts THEN h.parts[Table(h, o)[k]] ELSE Table(h, o)[k]]

Filled(h) == \A o \in Objects : \A k \in ArraysOf(h, o) : h.parts[Table(h, o)[k]] # NoOptions

\* Who is not in K shares no part; v is the one the variable holds.
Alone(h, v, K, o, key, part) ==
  /\ \A p \in Objects : \A l \in ArraysOf(h, p) :
        Table(h, p)[l] = part => (p = o /\ l = key) \/ (p \in K /\ o \in K)
  /\ part = v => o \in K /\ Variable \in K

Apart(h, v, K) ==
  /\ \A o, p \in Objects : o # p /\ h.options[o] = h.options[p] => o \in K /\ p \in K
  /\ \A o \in Objects : \A k \in ArraysOf(h, o) : Alone(h, v, K, o, k, Table(h, o)[k])

LEMMA ArrayIs ==
  ASSUME NEW a \in Arrays
  PROVE  /\ a = [x \in DOMAIN a |-> a[x]] /\ DOMAIN a \subseteq Fields
         /\ \A x \in DOMAIN a : a[x] \in Settings
         /\ a = NoOptions <=> DOMAIN a = {}
<1>1. /\ a = [x \in DOMAIN a |-> a[x]] /\ DOMAIN a \subseteq Fields
      /\ \A x \in DOMAIN a : a[x] \in Settings
  BY DEF Arrays
<1>2. ASSUME DOMAIN a = {} PROVE a = NoOptions
  BY <1>1, <1>2 DEF NoOptions
<1>3. DOMAIN NoOptions = {}
  BY DEF NoOptions
<1> QED
  BY <1>1, <1>2, <1>3

LEMMA ArrayMade ==
  ASSUME NEW a, NEW S \in SUBSET Fields, a \in [S -> Settings]
  PROVE  a \in Arrays
  BY DEF Arrays

LEMMA NoOptionsIs == NoOptions \in Arrays /\ IsTable(NoOptions) /\ DOMAIN NoOptions = {}
<1>1. NoOptions \in [{} -> Settings] /\ DOMAIN NoOptions = {}
  BY DEF NoOptions
<1>2. NoOptions \in Arrays
  BY <1>1, ArrayMade
<1> QED
  BY <1>1, <1>2 DEF IsTable

LEMMA OverMade ==
  ASSUME NEW a \in Arrays, NEW b \in Arrays
  PROVE  /\ Over(a, b) \in Arrays
         /\ b # NoOptions => Over(a, b) # NoOptions
<1>1. \A x \in DOMAIN a \cup DOMAIN b : Over(a, b)[x] \in Settings
  <2>1. \A x \in DOMAIN a : a[x] \in Settings
    BY ArrayIs
  <2>2. \A x \in DOMAIN b : b[x] \in Settings
    BY ArrayIs
  <2> QED
    BY <2>1, <2>2 DEF Over
<1>2. DOMAIN a \cup DOMAIN b \in SUBSET Fields
  BY ArrayIs
<1>3. Over(a, b) \in [DOMAIN a \cup DOMAIN b -> Settings]
  BY <1>1 DEF Over
<1>4. Over(a, b) \in Arrays
  BY <1>2, <1>3, ArrayMade
<1>5. ASSUME b # NoOptions PROVE Over(a, b) # NoOptions
  <2>1. DOMAIN b # {}
    BY <1>5, ArrayIs
  <2>2. DOMAIN Over(a, b) # {}
    BY <2>1 DEF Over
  <2> QED
    BY <2>2, NoOptionsIs
<1> QED
  BY <1>4, <1>5

LEMMA DropIs ==
  ASSUME NEW f, NEW k
  PROVE  /\ DOMAIN Drop(f, k) = DOMAIN f \ {k}
         /\ Drop(f, k) = [x \in DOMAIN Drop(f, k) |-> Drop(f, k)[x]]
         /\ \A x \in DOMAIN f \ {k} : Drop(f, k)[x] = f[x]
  BY DEF Drop

\* There is a table for an object next to those of the others.
LEMMA FreshTableIs ==
  ASSUME NEW os \in [Objects -> Tables], NEW o \in Objects
  PROVE  /\ FreshTable(o, os) \in Tables
         /\ \A p \in Objects \ {o} : os[p] # FreshTable(o, os)
<1> DEFINE others == Objects \ {o}
           taken == {os[p] : p \in others}
           f == [p \in others |-> os[p]]
           n == Cardinality(Objects)
<1>1. IsFiniteSet(Objects) /\ n \in Nat
  BY OptionsAssumption, FS_CardinalityType
<1>2. IsFiniteSet(others) /\ Cardinality(others) = n - 1
  BY <1>1, FS_RemoveElement
<1>3. f \in Surjection(others, taken)
  BY DEF Surjection
<1>4. IsFiniteSet(taken) /\ Cardinality(taken) <= n - 1
  <2> HIDE DEF f, taken, others
  <2> QED
    BY <1>2, <1>3, FS_Surjection
<1>5. IsFiniteSet(Tables) /\ Cardinality(Tables) = n
  <2>1. Tables = 1 .. n
    BY DEF Tables
  <2> HIDE DEF n
  <2> QED
    BY <1>1, <2>1, FS_Interval
<1>6. ~ Tables \subseteq taken
  <2> HIDE DEF taken, n
  <2> SUFFICES ASSUME Tables \subseteq taken PROVE FALSE
    OBVIOUS
  <2>1. Cardinality(Tables) <= Cardinality(taken)
    BY <1>4, FS_Subset
  <2>2. Cardinality(taken) \in Nat
    BY <1>4, FS_CardinalityType
  <2> QED
    BY <1>1, <1>4, <1>5, <2>1, <2>2
<1>7. \E i \in Tables : \A p \in Objects \ {o} : os[p] # i
  BY <1>6
<1> QED
  BY <1>7 DEF FreshTable

-----------------------------------------------------------------------------
(* A new table *)

\* Object o alone got table t.
Moved(h, r, o, t) ==
  /\ IsHeap(r) /\ Table(r, o) = t
  /\ \A p \in Objects \ {o} : /\ Table(r, p) = Table(h, p)
                              /\ r.options[p] = h.options[p] /\ r.options[p] # r.options[o]

LEMMA ReplaceIs ==
  ASSUME NEW h, IsHeap(h), NEW o \in Objects, NEW t, IsTable(t)
  PROVE  Moved(h, Replace(h, o, t), o, t) /\ Replace(h, o, t).parts = h.parts
<1> DEFINE i == FreshTable(o, h.options)
           r == Replace(h, o, t)
<1>1. /\ h = [options |-> h.options, tables |-> h.tables, parts |-> h.parts, properties |-> h.properties]
      /\ h.options \in [Objects -> Tables]
      /\ h.tables = [j \in Tables |-> h.tables[j]] /\ \A j \in Tables : IsTable(h.tables[j])
      /\ h.parts \in [PartIds -> Arrays]
  BY DEF IsHeap
<1>2. i \in Tables /\ \A p \in Objects \ {o} : h.options[p] # i
  BY <1>1, FreshTableIs
<1>3. r = [h EXCEPT !.options[o] = i, !.tables[i] = t]
  BY DEF Replace
<1> HIDE DEF i
<1>4. r = [options |-> [h.options EXCEPT ![o] = i], tables |-> [h.tables EXCEPT ![i] = t],
           parts |-> h.parts, properties |-> h.properties]
  BY <1>1, <1>3
<1> HIDE DEF r
<1>5. /\ r.options = [h.options EXCEPT ![o] = i] /\ r.tables = [h.tables EXCEPT ![i] = t]
      /\ r.parts = h.parts /\ r.properties = h.properties
      /\ r = [options |-> r.options, tables |-> r.tables, parts |-> r.parts, properties |-> r.properties]
  BY <1>4
<1>6. r.options \in [Objects -> Tables]
  BY <1>1, <1>2, <1>5
<1>7. \A j \in Tables : r.tables[j] = IF j = i THEN t ELSE h.tables[j]
  BY <1>1, <1>2, <1>5
<1>8. r.tables = [j \in Tables |-> r.tables[j]]
  BY <1>1, <1>5
<1>9. IsHeap(r)
  BY <1>1, <1>5, <1>6, <1>7, <1>8 DEF IsHeap
<1>10. r.options[o] = i /\ \A p \in Objects \ {o} : r.options[p] = h.options[p]
  BY <1>1, <1>5
<1>11. Table(r, o) = t
  BY <1>2, <1>7, <1>10 DEF Table
<1>12. \A p \in Objects \ {o} : Table(r, p) = Table(h, p)
  BY <1>1, <1>2, <1>7, <1>10 DEF Table
<1> QED
  BY <1>2, <1>5, <1>9, <1>10, <1>11, <1>12 DEF Moved, r

\* An object has a table of its own, in which a key is new or gone.
LEMMA MovedApart ==
  ASSUME NEW h, NEW v, NEW K, Apart(h, v, K), NEW o \in Objects,
         NEW r, NEW t, Moved(h, r, o, t), NEW key,
         \A k \in DOMAIN t \cap Parts : k # key => k \in ArraysOf(h, o) /\ t[k] = Table(h, o)[k],
         key \in DOMAIN t \cap Parts => Alone(h, v, K, o, key, t[key])
  PROVE  Apart(r, v, K)
<1>1. /\ Table(r, o) = t
      /\ \A p \in Objects \ {o} : /\ Table(r, p) = Table(h, p)
                                  /\ r.options[p] = h.options[p] /\ r.options[p] # r.options[o]
  BY DEF Moved
<1>2. \A p, q \in Objects : p # q /\ r.options[p] = r.options[q] => p \in K /\ q \in K
  BY <1>1 DEF Apart
<1>3. \A p \in Objects \ {o} : ArraysOf(r, p) = ArraysOf(h, p)
  BY <1>1 DEF ArraysOf
<1>4. ArraysOf(r, o) = DOMAIN t \cap Parts
  BY <1>1 DEF ArraysOf
<1>5. ASSUME NEW p \in Objects, NEW k \in ArraysOf(r, p)
      PROVE  Alone(h, v, K, p, k, Table(r, p)[k])
  <2>1. CASE p # o
    BY <1>1, <1>3, <2>1 DEF Apart
  <2>2. CASE p = o /\ k # key
    BY <1>1, <1>4, <2>2 DEF Apart
  <2>3. CASE p = o /\ k = key
    BY <1>1, <1>4, <2>3
  <2> QED
    BY <2>1, <2>2, <2>3
<1>6. ASSUME NEW p \in Objects, NEW k \in ArraysOf(r, p),
             NEW q \in Objects, NEW l \in ArraysOf(r, q), Table(r, q)[l] = Table(r, p)[k]
      PROVE  (q = p /\ l = k) \/ (q \in K /\ p \in K)
  <2>1. CASE q # o \/ l # key
    <3>1. l \in ArraysOf(h, q) /\ Table(h, q)[l] = Table(r, q)[l]
      BY <1>1, <1>3, <1>4, <2>1
    <3> QED
      BY <1>5, <1>6, <3>1 DEF Alone
  <2>2. CASE q = o /\ l = key
    <3>1. Alone(h, v, K, o, key, Table(r, p)[k])
      BY <1>5, <1>6, <2>2
    <3>2. CASE p = o /\ k = key
      BY <2>2, <3>2
    <3>3. CASE p # o \/ k # key
      <4>1. k \in ArraysOf(h, p) /\ Table(h, p)[k] = Table(r, p)[k]
        BY <1>1, <1>3, <1>4, <3>3
      <4> QED
        BY <2>2, <3>1, <3>3, <4>1 DEF Alone
    <3> QED
      BY <3>2, <3>3
  <2> QED
    BY <2>1, <2>2
<1>7. \A p \in Objects : \A k \in ArraysOf(r, p) : Alone(r, v, K, p, k, Table(r, p)[k])
  BY <1>5, <1>6 DEF Alone
<1> QED
  BY <1>2, <1>7 DEF Apart

LEMMA MovedFilled ==
  ASSUME NEW h, Filled(h), NEW o \in Objects,
         NEW r, NEW t, Moved(h, r, o, t), r.parts = h.parts, NEW key,
         \A k \in DOMAIN t \cap Parts : k # key => k \in ArraysOf(h, o) /\ t[k] = Table(h, o)[k],
         key \in DOMAIN t \cap Parts => h.parts[t[key]] # NoOptions
  PROVE  Filled(r)
<1>1. /\ Table(r, o) = t
      /\ \A p \in Objects \ {o} : Table(r, p) = Table(h, p)
  BY DEF Moved
<1> SUFFICES ASSUME NEW p \in Objects, NEW k \in ArraysOf(r, p)
             PROVE  r.parts[Table(r, p)[k]] # NoOptions
  BY DEF Filled
<1>2. CASE p # o
  BY <1>1, <1>2 DEF Filled, ArraysOf
<1>3. CASE p = o /\ k # key
  BY <1>1, <1>3 DEF Filled, ArraysOf
<1>4. CASE p = o /\ k = key
  BY <1>1, <1>4 DEF ArraysOf
<1> QED
  BY <1>2, <1>3, <1>4

LEMMA MovedOthers ==
  ASSUME NEW h, NEW o \in Objects, NEW r, NEW t, Moved(h, r, o, t), r.parts = h.parts
  PROVE  \A p \in Objects \ {o} : View(r, p) = View(h, p) /\ ArraysOf(r, p) = ArraysOf(h, p)
  BY DEF Moved, View, ArraysOf

LEMMA ViewIs ==
  ASSUME NEW h, NEW o
  PROVE  /\ DOMAIN View(h, o) = DOMAIN Table(h, o)
         /\ View(h, o) = [k \in DOMAIN View(h, o) |-> View(h, o)[k]]
         /\ \A k \in DOMAIN Table(h, o) :
               View(h, o)[k] = IF k \in Parts THEN h.parts[Table(h, o)[k]] ELSE Table(h, o)[k]
  BY DEF View

LEMMA TableIs ==
  ASSUME NEW h, IsHeap(h), NEW o \in Objects
  PROVE  /\ IsTable(Table(h, o)) /\ \A k \in ArraysOf(h, o) : Table(h, o)[k] \in PartIds
         /\ h.parts \in [PartIds -> Arrays]
  BY DEF IsHeap, IsTable, Table, ArraysOf

\* An array that gets more entries where it is.
JoinedAt(h, x, content) == [h EXCEPT !.parts[x] = Over(content, @)]

LEMMA JoinedAtIs ==
  ASSUME NEW h, IsHeap(h), NEW x \in PartIds, NEW content \in Arrays
  PROVE  LET j == JoinedAt(h, x, content)
         IN /\ IsHeap(j) /\ j.options = h.options
            /\ \A p \in Objects : Table(j, p) = Table(h, p)
            /\ \A i \in PartIds : j.parts[i] = IF i = x THEN Over(content, h.parts[x]) ELSE h.parts[i]
<1> DEFINE j == JoinedAt(h, x, content)
           new == Over(content, h.parts[x])
<1>1. /\ h = [options |-> h.options, tables |-> h.tables, parts |-> h.parts, properties |-> h.properties]
      /\ h.parts \in [PartIds -> Arrays]
  BY DEF IsHeap
<1>2. new \in Arrays
  BY <1>1, OverMade
<1>3. j = [h EXCEPT !.parts[x] = new]
  BY <1>1 DEF JoinedAt
<1> HIDE DEF new
<1>4. j = [options |-> h.options, tables |-> h.tables, parts |-> [h.parts EXCEPT ![x] = new],
           properties |-> h.properties]
  BY <1>1, <1>3
<1> HIDE DEF j
<1>5. /\ j = [options |-> j.options, tables |-> j.tables, parts |-> j.parts, properties |-> j.properties]
      /\ j.options = h.options /\ j.tables = h.tables /\ j.parts = [h.parts EXCEPT ![x] = new]
  BY <1>4
<1>6. j.parts \in [PartIds -> Arrays]
  BY <1>1, <1>2, <1>5
<1>7. IsHeap(j)
  BY <1>5, <1>6 DEF IsHeap
<1>8. \A p \in Objects : Table(j, p) = Table(h, p)
  BY <1>5 DEF Table
<1>9. \A i \in PartIds : j.parts[i] = IF i = x THEN new ELSE h.parts[i]
  BY <1>1, <1>5
<1> QED
  BY <1>5, <1>7, <1>8, <1>9 DEF j, new

-----------------------------------------------------------------------------
(* What is seen of an object's options, and what it was told *)

Follows(seen, said, own) ==
  /\ DOMAIN seen \subseteq DOMAIN said
  /\ \A k \in DOMAIN seen \ Parts : seen[k] = said[k]
  /\ own => seen = said

LEMMA FollowsItself ==
  ASSUME NEW seen, NEW own
  PROVE  Follows(seen, seen, own)
  BY DEF Follows

LEMMA FollowsOn ==
  ASSUME NEW a, NEW b, NEW c, NEW own \in BOOLEAN, Follows(a, b, own), Follows(b, c, own)
  PROVE  Follows(a, c, own)
  BY DEF Follows

LEMMA FollowsDrop ==
  ASSUME NEW seen, NEW said, NEW own \in BOOLEAN, Follows(seen, said, own), NEW key
  PROVE  Follows(Drop(seen, key), Drop(said, key), own)
<1>1. DOMAIN Drop(seen, key) = DOMAIN seen \ {key} /\ DOMAIN Drop(said, key) = DOMAIN said \ {key}
  BY DEF Drop
<1>2. \A k \in DOMAIN seen \ {key} : Drop(seen, key)[k] = seen[k]
  BY DEF Drop
<1>3. \A k \in DOMAIN said \ {key} : Drop(said, key)[k] = said[k]
  BY DEF Drop
<1> QED
  BY <1>1, <1>2, <1>3 DEF Follows

LEMMA FollowsWith ==
  ASSUME NEW seen, NEW said, NEW own \in BOOLEAN, Follows(seen, said, own), NEW key, NEW x, NEW y,
         key \in Parts \/ x = y, own => x = y
  PROVE  Follows(With(seen, key, x), With(said, key, y), own)
<1>1. DOMAIN With(seen, key, x) = DOMAIN seen \cup {key} /\ DOMAIN With(said, key, y) = DOMAIN said \cup {key}
  BY DEF With
<1>2. \A k \in DOMAIN seen \cup {key} : With(seen, key, x)[k] = IF k = key THEN x ELSE seen[k]
  BY DEF With
<1>3. \A k \in DOMAIN said \cup {key} : With(said, key, y)[k] = IF k = key THEN y ELSE said[k]
  BY DEF With
<1>4. ASSUME own PROVE With(seen, key, x) = With(said, key, y)
  BY <1>4 DEF Follows
<1> QED
  BY <1>1, <1>2, <1>3, <1>4 DEF Follows

LEMMA FollowsPart ==
  ASSUME NEW seen, NEW said, NEW own \in BOOLEAN, Follows(seen, said, own), NEW key \in Parts,
         NEW x, NEW y, x = NoOptions <=> y = NoOptions, own => x = y, NEW ow \in BOOLEAN
  PROVE  Follows(ToldPart(seen, key, x, ow), ToldPart(said, key, y, ow), own)
<1>1. CASE own
  <2>1. seen = said /\ x = y
    BY <1>1 DEF Follows
  <2> QED
    BY <2>1, FollowsItself
<1>2. CASE ~own
  <2>1. DOMAIN seen \subseteq DOMAIN said /\ \A k \in DOMAIN seen \ Parts : seen[k] = said[k]
    BY DEF Follows
  <2>2. CASE x = NoOptions
    <3>1. CASE ow
      BY <2>2, <3>1, FollowsDrop DEF ToldPart
    <3>2. CASE ~ow
      BY <2>2, <3>2 DEF ToldPart
    <3> QED
      BY <3>1, <3>2
  <2>3. CASE x # NoOptions
    <3> DEFINE a == ToldPart(seen, key, x, ow)
               b == ToldPart(said, key, y, ow)
    <3>1. DOMAIN a = DOMAIN seen \cup {key} /\ \A k \in DOMAIN seen \ {key} : a[k] = seen[k]
      <4>1. CASE ow \/ key \notin DOMAIN seen
        <5>1. a = With(seen, key, x)
          BY <2>3, <4>1 DEF ToldPart
        <5> QED
          BY <5>1 DEF With
      <4>2. CASE ~ow /\ key \in DOMAIN seen
        <5>1. a = [seen EXCEPT ![key] = Over(x, seen[key])]
          BY <2>3, <4>2 DEF ToldPart
        <5> QED
          BY <4>2, <5>1
      <4> QED
        BY <4>1, <4>2
    <3>2. DOMAIN b = DOMAIN said \cup {key} /\ \A k \in DOMAIN said \ {key} : b[k] = said[k]
      <4>1. CASE ow \/ key \notin DOMAIN said
        <5>1. b = With(said, key, y)
          BY <2>3, <4>1 DEF ToldPart
        <5> QED
          BY <5>1 DEF With
      <4>2. CASE ~ow /\ key \in DOMAIN said
        <5>1. b = [said EXCEPT ![key] = Over(y, said[key])]
          BY <2>3, <4>2 DEF ToldPart
        <5> QED
          BY <4>2, <5>1
      <4> QED
        BY <4>1, <4>2
    <3> HIDE DEF a, b
    <3>3. Follows(a, b, own)
      BY <1>2, <2>1, <3>1, <3>2 DEF Follows
    <3> QED
      BY <3>3 DEF a, b
  <2> QED
    BY <2>2, <2>3
<1> QED
  BY <1>1, <1>2

-----------------------------------------------------------------------------
(* One array is set or joined: SetSubr *)

SubrDone(h, r, v, K, o, key, part) ==
  /\ IsHeap(r) /\ Filled(r) /\ Apart(r, v, K)
  /\ \A p \in Objects \ {o} : Follows(View(r, p), View(h, p), p \notin K)
  /\ Variable \notin K => r.parts[v] = h.parts[v]
  /\ \A p \in Objects \ {o} : Table(r, p) = Table(h, p)
  /\ \A l \in ArraysOf(r, o) \ {key} : l \in ArraysOf(h, o) /\ Table(r, o)[l] = Table(h, o)[l]
  /\ key \in ArraysOf(r, o) =>
        Table(r, o)[key] = part \/ (key \in ArraysOf(h, o) /\ Table(r, o)[key] = Table(h, o)[key])
  /\ \A i \in PartIds :
        /\ r.parts[i] = NoOptions <=> h.parts[i] = NoOptions
        /\ r.parts[i] = h.parts[i] \/ (key \in ArraysOf(h, o) /\ i = Table(h, o)[key])

LEMMA SubrMoves ==
  ASSUME NEW h, IsHeap(h), Filled(h), NEW v \in PartIds, NEW K, Apart(h, v, K), NEW o \in Objects,
         NEW key \in Parts, NEW part \in PartIds, NEW t, IsTable(t),
         \A k \in DOMAIN t \cap Parts : k # key => k \in ArraysOf(h, o) /\ t[k] = Table(h, o)[k],
         key \in DOMAIN t => t[key] = part /\ Alone(h, v, K, o, key, part) /\ h.parts[part] # NoOptions
  PROVE  SubrDone(h, Replace(h, o, t), v, K, o, key, part)
<1> DEFINE r == Replace(h, o, t)
<1>1. Moved(h, r, o, t) /\ r.parts = h.parts
  BY ReplaceIs
<1> HIDE DEF r
<1>2. /\ IsHeap(r) /\ Table(r, o) = t
      /\ \A p \in Objects \ {o} : Table(r, p) = Table(h, p)
  BY <1>1 DEF Moved
<1>3. Apart(r, v, K)
  BY <1>1, MovedApart
<1>4. Filled(r)
  BY <1>1, MovedFilled
<1>5. ArraysOf(r, o) = DOMAIN t \cap Parts
  BY <1>2 DEF ArraysOf
<1>6. \A p \in Objects \ {o} : Follows(View(r, p), View(h, p), p \notin K)
  <2> TAKE p \in Objects \ {o}
  <2>1. View(r, p) = View(h, p)
    BY <1>1, MovedOthers
  <2> QED
    BY <2>1, FollowsItself
<1> SUFFICES SubrDone(h, r, v, K, o, key, part)
  BY DEF r
<1> QED
  BY <1>1, <1>2, <1>3, <1>4, <1>5, <1>6 DEF SubrDone

LEMMA SubrDrops ==
  ASSUME NEW h, IsHeap(h), Filled(h), NEW v \in PartIds, NEW K, Apart(h, v, K), NEW o \in Objects,
         NEW key \in Parts, NEW part \in PartIds
  PROVE  LET r == Replace(h, o, Drop(Table(h, o), key))
         IN SubrDone(h, r, v, K, o, key, part) /\ View(r, o) = Drop(View(h, o), key)
<1> DEFINE t == Table(h, o)
           d == Drop(t, key)
           r == Replace(h, o, d)
<1>1. IsTable(t)
  BY TableIs
<1>2. DOMAIN d = DOMAIN t \ {key} /\ \A x \in DOMAIN t \ {key} : d[x] = t[x]
  BY DropIs
<1>3. d = [x \in DOMAIN d |-> d[x]]
  BY DropIs
<1>4. ArraysOf(h, o) = DOMAIN t \cap Parts
  BY DEF ArraysOf
<1> HIDE DEF d, t
<1>5. IsTable(d)
  BY <1>1, <1>2, <1>3 DEF IsTable
<1>6. Moved(h, r, o, d) /\ r.parts = h.parts
  BY <1>5, ReplaceIs
<1>7. Table(r, o) = d
  BY <1>6 DEF Moved
<1>8. SubrDone(h, r, v, K, o, key, part)
  <2>1. \A k \in DOMAIN d \cap Parts : k # key => k \in ArraysOf(h, o) /\ d[k] = Table(h, o)[k]
    BY <1>2, <1>4 DEF t
  <2>2. key \notin DOMAIN d
    BY <1>2
  <2> QED
    BY <1>5, <2>1, <2>2, SubrMoves
<1>9. View(r, o) = Drop(View(h, o), key)
  <2> HIDE DEF r
  <2>1. View(r, o) = [k \in DOMAIN t \ {key} |-> IF k \in Parts THEN h.parts[t[k]] ELSE t[k]]
    BY <1>2, <1>6, <1>7 DEF View
  <2>2. Drop(View(h, o), key) = [k \in DOMAIN t \ {key} |-> IF k \in Parts THEN h.parts[t[k]] ELSE t[k]]
    BY DEF Drop, View, t
  <2> QED
    BY <2>1, <2>2
<1> QED
  BY <1>8, <1>9 DEF d, t

LEMMA SubrSets ==
  ASSUME NEW h, IsHeap(h), Filled(h), NEW v \in PartIds, NEW K, Apart(h, v, K), NEW o \in Objects,
         NEW key \in Parts, NEW part \in PartIds,
         Alone(h, v, K, o, key, part), h.parts[part] # NoOptions
  PROVE  LET r == Replace(h, o, With(Table(h, o), key, part))
         IN SubrDone(h, r, v, K, o, key, part) /\ View(r, o) = With(View(h, o), key, h.parts[part])
<1> DEFINE t == Table(h, o)
           d == With(t, key, part)
           r == Replace(h, o, d)
<1>1. IsTable(t)
  BY TableIs
<1>2. DOMAIN d = DOMAIN t \cup {key} /\ \A x \in DOMAIN t \cup {key} : d[x] = IF x = key THEN part ELSE t[x]
  BY DEF With
<1>3. d = [x \in DOMAIN d |-> d[x]]
  BY DEF With
<1>4. ArraysOf(h, o) = DOMAIN t \cap Parts
  BY DEF ArraysOf
<1> HIDE DEF d, t
<1>5. IsTable(d)
  BY <1>1, <1>2, <1>3, OptionsAssumption DEF IsTable
<1>6. Moved(h, r, o, d) /\ r.parts = h.parts
  BY <1>5, ReplaceIs
<1>7. Table(r, o) = d
  BY <1>6 DEF Moved
<1>8. SubrDone(h, r, v, K, o, key, part)
  <2>1. \A k \in DOMAIN d \cap Parts : k # key => k \in ArraysOf(h, o) /\ d[k] = Table(h, o)[k]
    BY <1>2, <1>4 DEF t
  <2>2. d[key] = part
    BY <1>2
  <2> QED
    BY <1>5, <2>1, <2>2, SubrMoves
<1>9. View(r, o) = With(View(h, o), key, h.parts[part])
  <2> HIDE DEF r
  <2> DEFINE w == [k \in DOMAIN t \cup {key} |->
                      IF k = key THEN h.parts[part] ELSE IF k \in Parts THEN h.parts[t[k]] ELSE t[k]]
  <2>1. View(r, o) = w
    BY <1>2, <1>6, <1>7 DEF View
  <2>2. With(View(h, o), key, h.parts[part]) = w
    BY DEF With, View, t
  <2> QED
    BY <2>1, <2>2
<1> QED
  BY <1>8, <1>9 DEF d, t

LEMMA JoinedApart ==
  ASSUME NEW h, NEW j, NEW v, NEW K, Apart(h, v, K), j.options = h.options,
         \A p \in Objects : Table(j, p) = Table(h, p)
  PROVE  Apart(j, v, K)
<1>1. \A p \in Objects : ArraysOf(j, p) = ArraysOf(h, p)
  BY DEF ArraysOf
<1>2. ASSUME NEW p \in Objects, NEW k \in ArraysOf(j, p)
      PROVE  Alone(j, v, K, p, k, Table(j, p)[k])
  <2>1. Alone(h, v, K, p, k, Table(h, p)[k])
    BY <1>1, <1>2 DEF Apart
  <2> QED
    BY <1>1, <2>1 DEF Alone
<1> QED
  BY <1>2 DEF Apart

LEMMA SubrJoins ==
  ASSUME NEW h, IsHeap(h), Filled(h), NEW v \in PartIds, NEW K, Apart(h, v, K), NEW o \in Objects,
         NEW key \in Parts, NEW part \in PartIds, h.parts[part] # NoOptions, key \in DOMAIN Table(h, o)
  PROVE  LET r == Replace(JoinedAt(h, Table(h, o)[key], h.parts[part]), o, Table(h, o))
         IN /\ SubrDone(h, r, v, K, o, key, part)
            /\ Follows(View(r, o), [View(h, o) EXCEPT ![key] = Over(h.parts[part], View(h, o)[key])],
                       o \notin K)
<1> DEFINE t == Table(h, o)
           x == t[key]
           content == h.parts[part]
           both == Over(content, h.parts[x])
           j == JoinedAt(h, x, content)
           r == Replace(j, o, t)
<1>1. /\ IsTable(t) /\ key \in ArraysOf(h, o) /\ x \in PartIds /\ content \in Arrays
      /\ ArraysOf(h, o) = DOMAIN t \cap Parts
  <2>1. IsTable(t) /\ h.parts \in [PartIds -> Arrays]
    BY TableIs
  <2> QED
    BY <2>1 DEF IsTable, ArraysOf
<1>2. h.parts[x] # NoOptions /\ h.parts[x] \in Arrays
  BY <1>1, TableIs DEF Filled
<1>3. Alone(h, v, K, o, key, x)
  BY <1>1 DEF Apart
<1>4. both \in Arrays /\ both # NoOptions
  BY <1>1, <1>2, OverMade
<1>5. /\ IsHeap(j) /\ j.options = h.options
      /\ \A p \in Objects : Table(j, p) = Table(h, p)
      /\ \A i \in PartIds : j.parts[i] = IF i = x THEN both ELSE h.parts[i]
  BY <1>1, JoinedAtIs
<1> HIDE DEF j
<1>6. Apart(j, v, K)
  BY <1>5, JoinedApart
<1>7. Moved(j, r, o, t) /\ r.parts = j.parts
  BY <1>1, <1>5, ReplaceIs
<1> HIDE DEF r
<1>8. /\ IsHeap(r) /\ Table(r, o) = t
      /\ \A p \in Objects \ {o} : Table(r, p) = Table(h, p)
      /\ \A i \in PartIds : r.parts[i] = IF i = x THEN both ELSE h.parts[i]
  BY <1>5, <1>7 DEF Moved
<1>9. ArraysOf(j, o) = DOMAIN t \cap Parts /\ Table(j, o) = t
  BY <1>5 DEF ArraysOf
<1>10. \A p \in Objects : Table(r, p) = Table(h, p) /\ ArraysOf(r, p) = ArraysOf(h, p)
  BY <1>8 DEF ArraysOf
<1>11. Apart(r, v, K)
  <2>1. \A k \in DOMAIN t \cap Parts : k # key => k \in ArraysOf(j, o) /\ t[k] = Table(j, o)[k]
    BY <1>9
  <2>2. key \in DOMAIN t \cap Parts => Alone(j, v, K, o, key, t[key])
    BY <1>6, <1>9 DEF Apart
  <2> HIDE DEF t
  <2> QED
    BY <1>6, <1>7, <2>1, <2>2, MovedApart
<1>12. \A p \in Objects : \A k \in ArraysOf(h, p) : Table(h, p)[k] \in PartIds
  BY TableIs
<1>13. Filled(r)
  BY <1>4, <1>8, <1>10, <1>12 DEF Filled
<1>14. Variable \notin K => r.parts[v] = h.parts[v]
  BY <1>3, <1>8 DEF Alone
<1>15. ASSUME NEW p \in Objects \ {o} PROVE Follows(View(r, p), View(h, p), p \notin K)
  <2>1. DOMAIN View(r, p) = DOMAIN View(h, p) /\ DOMAIN View(h, p) = DOMAIN Table(h, p)
    BY <1>10 DEF View
  <2>2. \A k \in DOMAIN Table(h, p) \ Parts : View(r, p)[k] = View(h, p)[k]
    BY <1>10 DEF View
  <2>3. ASSUME p \notin K, NEW k \in ArraysOf(h, p)
        PROVE  r.parts[Table(h, p)[k]] = h.parts[Table(h, p)[k]]
    <3>1. Table(h, p)[k] # x
      BY <1>3, <2>3 DEF Alone
    <3> QED
      BY <1>8, <1>12, <3>1
  <2>4. ASSUME p \notin K PROVE View(r, p) = View(h, p)
    <3>1. \A k \in DOMAIN Table(h, p) \cap Parts :
             r.parts[Table(h, p)[k]] = h.parts[Table(h, p)[k]]
      BY <2>3, <2>4 DEF ArraysOf
    <3>2. Table(r, p) = Table(h, p)
      BY <1>10
    <3> QED
      BY <3>1, <3>2 DEF View
  <2> QED
    BY <2>1, <2>2, <2>4 DEF Follows
<1>16. \A i \in PartIds :
          /\ r.parts[i] = NoOptions <=> h.parts[i] = NoOptions
          /\ r.parts[i] = h.parts[i] \/ (key \in ArraysOf(h, o) /\ i = Table(h, o)[key])
  BY <1>1, <1>2, <1>4, <1>8
<1>17. SubrDone(h, r, v, K, o, key, part)
  <2> HIDE DEF x, both, content
  <2>1. /\ \A l \in ArraysOf(r, o) \ {key} : l \in ArraysOf(h, o) /\ Table(r, o)[l] = Table(h, o)[l]
        /\ key \in ArraysOf(r, o) =>
              Table(r, o)[key] = part \/ (key \in ArraysOf(h, o) /\ Table(r, o)[key] = Table(h, o)[key])
    BY <1>10
  <2> QED
    BY <1>8, <1>10, <1>11, <1>13, <1>14, <1>15, <1>16, <2>1 DEF SubrDone
<1>18. Follows(View(r, o), [View(h, o) EXCEPT ![key] = Over(content, View(h, o)[key])], o \notin K)
  <2> DEFINE w == [View(h, o) EXCEPT ![key] = Over(content, View(h, o)[key])]
             s == View(r, o)
  <2>1. View(h, o)[key] = h.parts[x] /\ DOMAIN View(h, o) = DOMAIN t
    BY <1>1 DEF View
  <2>2. w = [View(h, o) EXCEPT ![key] = both]
    BY <2>1
  <2>3. w = [k \in DOMAIN t |-> IF k = key THEN both ELSE View(h, o)[k]]
    BY <2>1, <2>2 DEF View
  <2> HIDE DEF w, both
  <2>4. s = [k \in DOMAIN t |-> IF k \in Parts THEN r.parts[t[k]] ELSE t[k]]
    BY <1>8 DEF View
  <2>5. \A k \in DOMAIN t : View(h, o)[k] = IF k \in Parts THEN h.parts[t[k]] ELSE t[k]
    BY DEF View
  <2> HIDE DEF s
  <2>6. ASSUME o \notin K, NEW k \in DOMAIN t PROVE s[k] = w[k]
    <3>1. CASE k \notin Parts
      BY <2>3, <2>4, <2>5, <3>1
    <3>2. CASE k = key
      BY <1>1, <1>8, <2>3, <2>4, <3>2
    <3>3. CASE k \in Parts /\ k # key
      <4>1. k \in ArraysOf(h, o)
        BY <3>3 DEF ArraysOf
      <4>2. t[k] # x
        BY <1>3, <2>6, <3>3, <4>1 DEF Alone
      <4>3. r.parts[t[k]] = h.parts[t[k]]
        BY <1>8, <1>12, <4>1, <4>2
      <4> QED
        BY <2>3, <2>4, <2>5, <3>3, <4>3
    <3> QED
      BY <3>1, <3>2, <3>3
  <2>7. o \notin K => s = w
    <3> SUFFICES ASSUME o \notin K PROVE s = w
      OBVIOUS
    <3>1. \A k \in DOMAIN t : s[k] = w[k]
      BY <2>6
    <3> HIDE DEF t
    <3>2. s = [k \in DOMAIN t |-> s[k]]
      BY <2>4
    <3>3. w = [k \in DOMAIN t |-> w[k]]
      BY <2>3
    <3> QED
      BY <3>1, <3>2, <3>3
  <2>8. \A k \in DOMAIN t \ Parts : s[k] = w[k]
    <3> HIDE DEF t
    <3> QED
      BY <2>3, <2>4, <2>5
  <2>9. DOMAIN s = DOMAIN t /\ DOMAIN w = DOMAIN t
    BY <2>3, <2>4
  <2>10. Follows(s, w, o \notin K)
    BY <2>7, <2>8, <2>9 DEF Follows
  <2> QED
    BY <2>10 DEF s, w
<1> QED
  BY <1>17, <1>18 DEF r, j

LEMMA SetSubrIs ==
  ASSUME NEW h, IsHeap(h), Filled(h), NEW v \in PartIds, NEW K, Apart(h, v, K), NEW o \in Objects,
         NEW key \in Parts, NEW part \in PartIds, Alone(h, v, K, o, key, part), NEW ow \in BOOLEAN
  PROVE  LET r == SetSubr(h, o, key, part, ow)
         IN /\ SubrDone(h, r, v, K, o, key, part)
            /\ Follows(View(r, o), ToldPart(View(h, o), key, h.parts[part], ow), o \notin K)
<1> DEFINE r == SetSubr(h, o, key, part, ow)
           t == Table(h, o)
           content == h.parts[part]
           seen == View(h, o)
<1>0. part # 0 /\ DOMAIN seen = DOMAIN t
  BY DEF PartIds, View
<1>1. CASE ~ow /\ content = NoOptions
  <2>1. r = h
    BY <1>1 DEF SetSubr
  <2>2. ToldPart(seen, key, content, ow) = seen
    BY <1>1 DEF ToldPart
  <2>3. SubrDone(h, h, v, K, o, key, part)
    BY FollowsItself DEF SubrDone
  <2>4. Follows(View(h, o), seen, o \notin K)
    BY FollowsItself
  <2> QED
    BY <2>1, <2>2, <2>3, <2>4
<1>2. CASE ow /\ content = NoOptions
  <2>1. r = Replace(h, o, Drop(t, key))
    BY <1>2 DEF SetSubr
  <2>2. ToldPart(seen, key, content, ow) = Drop(seen, key)
    BY <1>2 DEF ToldPart
  <2>3. SubrDone(h, r, v, K, o, key, part) /\ View(r, o) = Drop(seen, key)
    BY <2>1, SubrDrops
  <2>4. Follows(View(r, o), Drop(seen, key), o \notin K)
    BY <2>3, FollowsItself
  <2> QED
    BY <2>2, <2>3, <2>4
<1>3. CASE content # NoOptions /\ (ow \/ key \notin DOMAIN t)
  <2>1. r = Replace(h, o, With(t, key, part))
    BY <1>0, <1>3 DEF SetSubr
  <2>2. ToldPart(seen, key, content, ow) = With(seen, key, content)
    BY <1>0, <1>3 DEF ToldPart
  <2>3. SubrDone(h, r, v, K, o, key, part) /\ View(r, o) = With(seen, key, content)
    BY <1>3, <2>1, SubrSets
  <2>4. Follows(View(r, o), With(seen, key, content), o \notin K)
    BY <2>3, FollowsItself
  <2> QED
    BY <2>2, <2>3, <2>4
<1>4. CASE content # NoOptions /\ ~ow /\ key \in DOMAIN t
  <2>1. r = Replace(JoinedAt(h, t[key], content), o, t)
    BY <1>0, <1>4 DEF SetSubr, JoinedAt
  <2>2. ToldPart(seen, key, content, ow) = [seen EXCEPT ![key] = Over(content, seen[key])]
    BY <1>0, <1>4 DEF ToldPart
  <2>3. /\ SubrDone(h, r, v, K, o, key, part)
        /\ Follows(View(r, o), [seen EXCEPT ![key] = Over(content, seen[key])], o \notin K)
    BY <1>4, <2>1, SubrJoins
  <2> QED
    BY <2>2, <2>3
<1> QED
  BY <1>1, <1>2, <1>3, <1>4

-----------------------------------------------------------------------------
(* The entries one after another: SetOne *)

LEMMA OverFollows ==
  ASSUME NEW rest, NEW seen, NEW said, NEW own \in BOOLEAN, Follows(seen, said, own)
  PROVE  Follows(Over(rest, seen), Over(rest, said), own)
<1>1. /\ DOMAIN Over(rest, seen) = DOMAIN rest \cup DOMAIN seen
      /\ \A k \in DOMAIN rest \cup DOMAIN seen :
            Over(rest, seen)[k] = IF k \in DOMAIN rest THEN rest[k] ELSE seen[k]
  BY DEF Over
<1>2. /\ DOMAIN Over(rest, said) = DOMAIN rest \cup DOMAIN said
      /\ \A k \in DOMAIN rest \cup DOMAIN said :
            Over(rest, said)[k] = IF k \in DOMAIN rest THEN rest[k] ELSE said[k]
  BY DEF Over
<1> QED
  BY <1>1, <1>2 DEF Follows

LEMMA OverDrop ==
  ASSUME NEW rest, NEW has, NEW key, key \notin DOMAIN rest
  PROVE  Over(rest, Drop(has, key)) = Drop(Over(rest, has), key)
<1>1. (DOMAIN rest \cup DOMAIN has) \ {key} = DOMAIN rest \cup (DOMAIN has \ {key})
  OBVIOUS
<1> QED
  BY <1>1 DEF Over, Drop

LEMMA OverWith ==
  ASSUME NEW rest, NEW has, NEW key, NEW x, key \notin DOMAIN rest
  PROVE  /\ Over(rest, With(has, key, x)) = With(Over(rest, has), key, x)
         /\ Over(With(rest, key, x), has) = With(Over(rest, has), key, x)
<1>1. (DOMAIN rest \cup DOMAIN has) \cup {key} = DOMAIN rest \cup (DOMAIN has \cup {key})
  OBVIOUS
<1>2. (DOMAIN rest \cup DOMAIN has) \cup {key} = (DOMAIN rest \cup {key}) \cup DOMAIN has
  OBVIOUS
<1> DEFINE w == [k \in (DOMAIN rest \cup DOMAIN has) \cup {key} |->
                    IF k = key THEN x ELSE IF k \in DOMAIN rest THEN rest[k] ELSE has[k]]
<1>3. With(Over(rest, has), key, x) = w
  BY DEF Over, With
<1>4. Over(rest, With(has, key, x)) = w
  BY <1>1 DEF Over, With
<1>5. Over(With(rest, key, x), has) = w
  BY <1>2 DEF Over, With
<1> QED
  BY <1>3, <1>4, <1>5

LEMMA OverPart ==
  ASSUME NEW rest, NEW has, has = [k \in DOMAIN has |-> has[k]], NEW key, key \notin DOMAIN rest,
         NEW x, NEW ow \in BOOLEAN
  PROVE  Over(rest, ToldPart(has, key, x, ow)) = ToldPart(Over(rest, has), key, x, ow)
<1> DEFINE over == Over(rest, has)
<1>1. /\ DOMAIN over = DOMAIN rest \cup DOMAIN has
      /\ key \in DOMAIN has => over[key] = has[key]
  BY DEF Over
<1>2. CASE x = NoOptions /\ ow
  BY <1>2, OverDrop DEF ToldPart
<1>3. CASE x = NoOptions /\ ~ow
  BY <1>3 DEF ToldPart
<1>4. CASE x # NoOptions /\ (ow \/ key \notin DOMAIN has)
  <2>1. ToldPart(has, key, x, ow) = With(has, key, x)
    BY <1>4 DEF ToldPart
  <2>2. ToldPart(over, key, x, ow) = With(over, key, x)
    BY <1>1, <1>4 DEF ToldPart
  <2> QED
    BY <2>1, <2>2, OverWith
<1>5. CASE x # NoOptions /\ ~ow /\ key \in DOMAIN has
  <2> DEFINE y == Over(x, has[key])
             a == [has EXCEPT ![key] = y]
  <2>1. ToldPart(has, key, x, ow) = a
    BY <1>5 DEF ToldPart
  <2>2. ToldPart(over, key, x, ow) = [over EXCEPT ![key] = y]
    BY <1>1, <1>5 DEF ToldPart
  <2> HIDE DEF y
  <2>3. DOMAIN a = DOMAIN has /\ \A k \in DOMAIN has : a[k] = IF k = key THEN y ELSE has[k]
    OBVIOUS
  <2> HIDE DEF a
  <2> DEFINE w == [k \in DOMAIN rest \cup DOMAIN has |->
                      IF k = key THEN y ELSE IF k \in DOMAIN rest THEN rest[k] ELSE has[k]]
  <2>4. Over(rest, a) = w
    BY <2>3 DEF Over
  <2>5. [over EXCEPT ![key] = y] = w
    BY DEF Over
  <2> QED
    BY <2>1, <2>2, <2>4, <2>5
<1> QED
  BY <1>2, <1>3, <1>4, <1>5

\* What an entry says of an array.
Said(e) == IF e.val = Variable THEN parts[held] ELSE e.val
IsPart(e) == e.key \in Parts /\ e.val # Unset

\* An entry e to come, given as array g.val.
Pending(h, v, K, o, g, e) ==
  /\ Alone(h, v, K, o, g.key, g.val)
  /\ h.parts[g.val] = NoOptions <=> Said(e) = NoOptions
  /\ o \notin K => h.parts[g.val] = Said(e)

\* What a call is given, and what it says.
Asks(h, v, K, o, given, says) ==
  /\ Len(given) \in Nat /\ Len(says) = Len(given)
  /\ given = [i \in 1..Len(given) |-> given[i]] /\ says = [i \in 1..Len(given) |-> says[i]]
  /\ \A i \in 1..Len(given) :
        /\ given[i].key = says[i].key /\ given[i].key \in Keys
        /\ given[i].key \notin Parts => given[i].val = says[i].val
        /\ given[i].key \in Parts => (given[i].val = Unset <=> says[i].val = Unset)
        /\ IsPart(given[i]) => given[i].val \in PartIds /\ Pending(h, v, K, o, given[i], says[i])
  /\ \A i, j \in 1..Len(given) : i # j =>
        /\ given[i].key # given[j].key
        /\ IsPart(given[i]) /\ IsPart(given[j]) /\ given[i].val = given[j].val => o \in K

\* The others keep what they have, as far as they share nothing.
OthersKeep(h, r, v, K, o) ==
  /\ IsHeap(r) /\ Filled(r) /\ Apart(r, v, K)
  /\ \A p \in Objects \ {o} : Follows(View(r, p), View(h, p), p \notin K)
  /\ Variable \notin K => r.parts[v] = h.parts[v]

LEMMA OthersKeepOn ==
  ASSUME NEW h, NEW g, NEW r, NEW v, NEW K, NEW o, OthersKeep(h, g, v, K, o), OthersKeep(g, r, v, K, o)
  PROVE  OthersKeep(h, r, v, K, o)
<1>1. \A p \in Objects \ {o} : Follows(View(r, p), View(h, p), p \notin K)
  <2> TAKE p \in Objects \ {o}
  <2>1. Follows(View(r, p), View(g, p), p \notin K) /\ Follows(View(g, p), View(h, p), p \notin K)
    BY DEF OthersKeep
  <2> DEFINE own == p \notin K
  <2>2. own \in BOOLEAN
    OBVIOUS
  <2> HIDE DEF own
  <2>3. Follows(View(r, p), View(g, p), own) /\ Follows(View(g, p), View(h, p), own)
    BY <2>1 DEF own
  <2>4. Follows(View(r, p), View(h, p), own)
    BY <2>2, <2>3, FollowsOn
  <2> QED
    BY <2>4 DEF own
<1> QED
  BY <1>1 DEF OthersKeep

\* What is true once the first j entries are taken; u is what they say.
Taken(h, s, u, j, v, K, o, given, says) ==
  /\ s = [heap |-> s.heap, rest |-> s.rest] /\ OthersKeep(h, s.heap, v, K, o)
  /\ s.rest = [k \in DOMAIN s.rest |-> s.rest[k]]
  /\ \A k \in DOMAIN s.rest : k \in Keys \ Parts /\ \E i \in 1..j : k = given[i].key
  /\ Follows(Over(s.rest, View(s.heap, o)), u, o \notin K)
  /\ \A i \in j+1..Len(given) : IsPart(given[i]) => Pending(s.heap, v, K, o, given[i], says[i])

LEMMA PendingKept ==
  ASSUME NEW h, NEW r, NEW v, NEW K, Apart(h, v, K), NEW o \in Objects, NEW key \in Parts,
         NEW part \in PartIds, SubrDone(h, r, v, K, o, key, part),
         NEW g, NEW e, g.key \in Parts, g.key # key, g.val \in PartIds, g.val = part => o \in K,
         Pending(h, v, K, o, g, e)
  PROVE  Pending(r, v, K, o, g, e)
<1> DEFINE x == g.val
<1>1. Alone(h, v, K, o, g.key, x)
  BY DEF Pending
<1>2. ASSUME NEW p \in Objects, NEW l \in ArraysOf(r, p), Table(r, p)[l] = x
      PROVE  (p = o /\ l = g.key) \/ (p \in K /\ o \in K)
  <2>1. CASE p # o
    <3>1. l \in ArraysOf(h, p) /\ Table(h, p)[l] = x
      BY <1>2, <2>1 DEF SubrDone, ArraysOf
    <3> QED
      BY <1>1, <3>1 DEF Alone
  <2>2. CASE p = o /\ l # key
    <3>1. l \in ArraysOf(h, p) /\ Table(h, p)[l] = x
      BY <1>2, <2>2 DEF SubrDone
    <3> QED
      BY <1>1, <3>1 DEF Alone
  <2>3. CASE p = o /\ l = key
    <3>1. x = part \/ (key \in ArraysOf(h, o) /\ Table(h, o)[key] = x)
      BY <1>2, <2>3 DEF SubrDone
    <3>2. CASE x = part
      BY <2>3, <3>2
    <3>3. CASE key \in ArraysOf(h, o) /\ Table(h, o)[key] = x
      BY <1>1, <2>3, <3>3 DEF Alone
    <3> QED
      BY <3>1, <3>2, <3>3
  <2> QED
    BY <2>1, <2>2, <2>3
<1>3. Alone(r, v, K, o, g.key, x)
  BY <1>1, <1>2 DEF Alone
<1>4. /\ r.parts[x] = NoOptions <=> h.parts[x] = NoOptions
      /\ r.parts[x] = h.parts[x] \/ (key \in ArraysOf(h, o) /\ x = Table(h, o)[key])
  BY DEF SubrDone
<1>5. o \notin K => r.parts[x] = h.parts[x]
  BY <1>1, <1>4 DEF Alone
<1> QED
  BY <1>3, <1>4, <1>5 DEF Pending

LEMMA AsksOne ==
  ASSUME NEW h, NEW v, NEW K, NEW o, NEW given, NEW says, Asks(h, v, K, o, given, says),
         NEW s, NEW u, NEW j \in 1..Len(given), Taken(h, s, u, j - 1, v, K, o, given, says)
  PROVE  /\ given[j].key = says[j].key /\ given[j].key \in Keys
         /\ given[j].key \notin Parts => given[j].val = says[j].val
         /\ given[j].key \in Parts => (given[j].val = Unset <=> says[j].val = Unset)
         /\ IsPart(given[j]) =>
               given[j].val \in PartIds /\ Pending(s.heap, v, K, o, given[j], says[j])
         /\ given[j].key \notin DOMAIN s.rest
<1>1. /\ Len(given) \in Nat
      /\ given[j].key = says[j].key /\ given[j].key \in Keys
      /\ given[j].key \notin Parts => given[j].val = says[j].val
      /\ given[j].key \in Parts => (given[j].val = Unset <=> says[j].val = Unset)
      /\ IsPart(given[j]) => given[j].val \in PartIds
      /\ \A i, k \in 1..Len(given) : i # k => given[i].key # given[k].key
  BY DEF Asks
<1>2. j \in (j - 1) + 1 .. Len(given)
  BY <1>1
<1>3. IsPart(given[j]) => Pending(s.heap, v, K, o, given[j], says[j])
  BY <1>2 DEF Taken
<1>4. ASSUME given[j].key \in DOMAIN s.rest PROVE FALSE
  <2>1. PICK i \in 1..(j - 1) : given[j].key = given[i].key
    BY <1>4 DEF Taken
  <2>2. i \in 1..Len(given) /\ i # j
    BY <1>1
  <2> QED
    BY <1>1, <2>1, <2>2
<1> QED
  BY <1>1, <1>3, <1>4

\* The next entry changes the heap, not the rest.
LEMMA TakenHeap ==
  ASSUME NEW h, NEW v, NEW K, NEW o, NEW given, NEW says, Len(given) \in Nat,
         NEW s, NEW u, NEW j \in 1..Len(given), Taken(h, s, u, j - 1, v, K, o, given, says),
         NEW r, OthersKeep(s.heap, r, v, K, o), NEW w, Follows(Over(s.rest, View(r, o)), w, o \notin K),
         \A i \in j+1..Len(given) : IsPart(given[i]) /\ Pending(s.heap, v, K, o, given[i], says[i]) =>
            Pending(r, v, K, o, given[i], says[i])
  PROVE  Taken(h, [heap |-> r, rest |-> s.rest], w, j, v, K, o, given, says)
<1> DEFINE n == [heap |-> r, rest |-> s.rest]
<1>1. n.heap = r /\ n.rest = s.rest /\ n = [heap |-> n.heap, rest |-> n.rest]
  OBVIOUS
<1> HIDE DEF n
<1>2. OthersKeep(h, r, v, K, o)
  <2>1. OthersKeep(h, s.heap, v, K, o)
    BY DEF Taken
  <2> QED
    BY <2>1, OthersKeepOn
<1>3. \A i \in j+1..Len(given) : i \in (j - 1)+1..Len(given)
  OBVIOUS
<1>4. \A i \in j+1..Len(given) : IsPart(given[i]) => Pending(r, v, K, o, given[i], says[i])
  BY <1>3 DEF Taken
<1>5. \A i \in 1..(j - 1) : i \in 1..j
  OBVIOUS
<1>6. /\ s.rest = [k \in DOMAIN s.rest |-> s.rest[k]]
      /\ \A k \in DOMAIN s.rest : k \in Keys \ Parts /\ \E i \in 1..j : k = given[i].key
  BY <1>5 DEF Taken
<1> SUFFICES Taken(h, n, w, j, v, K, o, given, says)
  BY DEF n
<1> QED
  BY <1>1, <1>2, <1>4, <1>6 DEF Taken

LEMMA TakePart ==
  ASSUME NEW h, NEW v \in PartIds, NEW K, NEW o \in Objects, NEW given, NEW says,
         Asks(h, v, K, o, given, says),
         NEW s, NEW u, NEW j \in 1..Len(given), Taken(h, s, u, j - 1, v, K, o, given, says),
         IsPart(given[j])
  PROVE  Taken(h, SetOne(s, o, given[j]), ToldOne(u, o, says[j]), j, v, K, o, given, says)
<1> DEFINE g == given[j]
           e == says[j]
           key == g.key
           part == g.val
           r == SetSubr(s.heap, o, key, part, FALSE)
           own == o \notin K
           seen == View(s.heap, o)
<1>1. /\ g.key = e.key /\ g.key \in Keys
      /\ g.key \in Parts => (g.val = Unset <=> e.val = Unset)
      /\ part \in PartIds /\ Pending(s.heap, v, K, o, g, e)
      /\ g.key \notin DOMAIN s.rest
  BY AsksOne
<1>2. key \in Parts /\ part # Unset /\ e.val # Unset
  BY <1>1 DEF IsPart
<1>3. Len(given) \in Nat /\ \A i \in 1..Len(given) : i # j =>
        /\ given[i].key # given[j].key
        /\ IsPart(given[i]) => given[i].val \in PartIds
        /\ IsPart(given[i]) /\ IsPart(given[j]) /\ given[i].val = given[j].val => o \in K
  BY DEF Asks
<1> HIDE DEF g, e
<1>4. SetOne(s, o, g) = [heap |-> r, rest |-> s.rest]
  <2>1. s = [heap |-> s.heap, rest |-> s.rest]
    BY DEF Taken
  <2>2. SetOne(s, o, g) = [s EXCEPT !.heap = r]
    BY <1>2 DEF SetOne
  <2> HIDE DEF r
  <2> QED
    BY <2>1, <2>2
<1>5. ToldOne(u, o, e) = ToldPart(u, key, Said(e), FALSE)
  BY <1>1, <1>2 DEF ToldOne, Said
<1>6. OthersKeep(h, s.heap, v, K, o)
  BY DEF Taken
<1>7. /\ SubrDone(s.heap, r, v, K, o, key, part)
      /\ Follows(View(r, o), ToldPart(seen, key, s.heap.parts[part], FALSE), own)
  <2>1. IsHeap(s.heap) /\ Filled(s.heap) /\ Apart(s.heap, v, K) /\ Alone(s.heap, v, K, o, key, part)
    BY <1>1, <1>6 DEF OthersKeep, Pending
  <2> QED
    BY <1>1, <1>2, <2>1, SetSubrIs
<1> HIDE DEF r
<1>8. OthersKeep(s.heap, r, v, K, o)
  BY <1>7 DEF SubrDone, OthersKeep
<1>9. own \in BOOLEAN /\ (o \notin K => own) /\ (own => o \notin K)
  OBVIOUS
<1> HIDE DEF own
<1>10. Follows(Over(s.rest, View(r, o)), ToldPart(u, key, Said(e), FALSE), own)
  <2> DEFINE c == s.heap.parts[part]
             ow == FALSE
             seesPart == ToldPart(seen, key, c, ow)
  <2>0. ow \in BOOLEAN
    OBVIOUS
  <2>1. Follows(Over(s.rest, View(r, o)), Over(s.rest, seesPart), own)
    <3> HIDE DEF seesPart
    <3>1. Follows(View(r, o), seesPart, own)
      BY <1>7 DEF seesPart, own
    <3> QED
      BY <1>9, <3>1, OverFollows
  <2>2. Over(s.rest, seesPart) = ToldPart(Over(s.rest, seen), key, c, ow)
    <3>1. seen = [k \in DOMAIN seen |-> seen[k]]
      BY ViewIs
    <3> HIDE DEF seen, c, ow
    <3> QED
      BY <1>1, <2>0, <3>1, OverPart
  <2>3. Follows(Over(s.rest, seen), u, own)
    BY DEF Taken, own
  <2>4. /\ c = NoOptions <=> Said(e) = NoOptions
        /\ own => c = Said(e)
    BY <1>1, <1>9 DEF Pending
  <2> HIDE DEF c, seen, ow
  <2>5. Follows(ToldPart(Over(s.rest, seen), key, c, ow), ToldPart(u, key, Said(e), ow), own)
    BY <1>2, <1>9, <2>0, <2>3, <2>4, FollowsPart
  <2> HIDE DEF seesPart
  <2>6. Follows(Over(s.rest, View(r, o)), ToldPart(u, key, Said(e), ow), own)
    <3> DEFINE a == Over(s.rest, View(r, o))
               b == ToldPart(Over(s.rest, seen), key, c, ow)
               d == ToldPart(u, key, Said(e), ow)
    <3>1. Follows(a, b, own) /\ Follows(b, d, own)
      BY <2>1, <2>2, <2>5
    <3> HIDE DEF a, b, d
    <3>2. Follows(a, d, own)
      BY <1>9, <3>1, FollowsOn
    <3> QED
      BY <3>2 DEF a, d
  <2> QED
    BY <2>6 DEF ow
<1>11. ASSUME NEW i \in j+1..Len(given), IsPart(given[i]), Pending(s.heap, v, K, o, given[i], says[i])
       PROVE  Pending(r, v, K, o, given[i], says[i])
  <2>1. i \in 1..Len(given) /\ i # j
    BY <1>3
  <2>2. given[i].key \in Parts /\ given[i].key # key /\ given[i].val \in PartIds
    BY <1>3, <1>11, <2>1 DEF IsPart, g
  <2>3. given[i].val = part => o \in K
    BY <1>3, <1>11, <2>1 DEF g
  <2>4. Apart(s.heap, v, K)
    BY <1>6 DEF OthersKeep
  <2> QED
    BY <1>1, <1>2, <1>7, <1>11, <2>2, <2>3, <2>4, PendingKept
<1>12. Follows(Over(s.rest, View(r, o)), ToldOne(u, o, e), o \notin K)
  BY <1>5, <1>10 DEF own
<1>13. Taken(h, [heap |-> r, rest |-> s.rest], ToldOne(u, o, e), j, v, K, o, given, says)
  BY <1>3, <1>8, <1>11, <1>12, TakenHeap
<1> QED
  BY <1>4, <1>13 DEF g, e

\* An option that is a property of the client.
WithProperty(h, o, e) == [h EXCEPT !.properties[o] = With(@, e.key, e.val)]

LEMMA TakeSpecial ==
  ASSUME NEW h, NEW v \in PartIds, NEW K, NEW o \in Objects, NEW given, NEW says,
         Asks(h, v, K, o, given, says),
         NEW s, NEW u, NEW j \in 1..Len(given), Taken(h, s, u, j - 1, v, K, o, given, says),
         ~IsPart(given[j]), o \in Clients /\ given[j].key \in Special
  PROVE  Taken(h, SetOne(s, o, given[j]), ToldOne(u, o, says[j]), j, v, K, o, given, says)
<1> DEFINE r == WithProperty(s.heap, o, given[j])
<1>1. ToldOne(u, o, says[j]) = u
  <2>1. /\ given[j].key = says[j].key
        /\ given[j].key \in Parts => (given[j].val = Unset <=> says[j].val = Unset)
    BY AsksOne
  <2> QED
    BY <2>1 DEF ToldOne, IsPart
<1>2. SetOne(s, o, given[j]) = [heap |-> r, rest |-> s.rest]
  <2>1. s = [heap |-> s.heap, rest |-> s.rest]
    BY DEF Taken
  <2>2. SetOne(s, o, given[j]) = [s EXCEPT !.heap = r]
    BY DEF SetOne, IsPart, WithProperty
  <2> HIDE DEF r
  <2> QED
    BY <2>1, <2>2
<1>3. OthersKeep(h, s.heap, v, K, o) /\ IsHeap(s.heap)
  BY DEF Taken, OthersKeep
<1>4. /\ r = [options |-> r.options, tables |-> r.tables, parts |-> r.parts, properties |-> r.properties]
      /\ r.options = s.heap.options /\ r.tables = s.heap.tables /\ r.parts = s.heap.parts
  <2> DEFINE g == s.heap
             new == [g.properties EXCEPT ![o] = With(g.properties[o], given[j].key, given[j].val)]
  <2>1. g = [options |-> g.options, tables |-> g.tables, parts |-> g.parts, properties |-> g.properties]
    BY <1>3 DEF IsHeap
  <2>2. r = [g EXCEPT !.properties = new]
    BY <2>1 DEF WithProperty
  <2> HIDE DEF g, new
  <2>3. r = [options |-> g.options, tables |-> g.tables, parts |-> g.parts, properties |-> new]
    BY <2>1, <2>2
  <2> HIDE DEF r
  <2> QED
    BY <2>3 DEF g
<1> HIDE DEF r
<1>5. IsHeap(r)
  BY <1>3, <1>4 DEF IsHeap
<1>6. \A p \in Objects : Table(r, p) = Table(s.heap, p)
  BY <1>4 DEF Table
<1>7. \A p \in Objects : View(r, p) = View(s.heap, p) /\ ArraysOf(r, p) = ArraysOf(s.heap, p)
  BY <1>4, <1>6 DEF View, ArraysOf
<1>8. OthersKeep(s.heap, r, v, K, o)
  <2>1. Filled(r)
    BY <1>3, <1>4, <1>6, <1>7 DEF OthersKeep, Filled
  <2>2. Apart(r, v, K)
    BY <1>3, <1>4, <1>6, JoinedApart DEF OthersKeep
  <2>3. \A p \in Objects \ {o} : Follows(View(r, p), View(s.heap, p), p \notin K)
    BY <1>7, FollowsItself
  <2> QED
    BY <1>4, <1>5, <2>1, <2>2, <2>3 DEF OthersKeep
<1>9. Follows(Over(s.rest, View(r, o)), u, o \notin K)
  BY <1>7 DEF Taken
<1>10. ASSUME NEW i, Pending(s.heap, v, K, o, given[i], says[i])
       PROVE  Pending(r, v, K, o, given[i], says[i])
  <2>1. Alone(s.heap, v, K, o, given[i].key, given[i].val)
    BY <1>10 DEF Pending
  <2>2. Alone(r, v, K, o, given[i].key, given[i].val)
    BY <1>6, <1>7, <2>1 DEF Alone
  <2> QED
    BY <1>4, <1>10, <2>2 DEF Pending
<1>11. Len(given) \in Nat
  BY DEF Asks
<1>12. Taken(h, [heap |-> r, rest |-> s.rest], u, j, v, K, o, given, says)
  BY <1>8, <1>9, <1>10, <1>11, TakenHeap
<1> QED
  BY <1>1, <1>2, <1>12

\* NULL: the option is deleted where it is.
Dropped(h, o, key) == [h EXCEPT !.tables[h.options[o]] = Drop(@, key)]

LEMMA DroppedIs ==
  ASSUME NEW h, IsHeap(h), NEW o \in Objects, NEW key
  PROVE  LET r == Dropped(h, o, key)
         IN /\ IsHeap(r) /\ r.options = h.options /\ r.parts = h.parts
            /\ \A p \in Objects :
                  Table(r, p) = IF h.options[p] = h.options[o] THEN Drop(Table(h, p), key) ELSE Table(h, p)
<1> DEFINE x == h.options[o]
           new == Drop(h.tables[x], key)
           r == Dropped(h, o, key)
<1>1. /\ h = [options |-> h.options, tables |-> h.tables, parts |-> h.parts, properties |-> h.properties]
      /\ h.options \in [Objects -> Tables]
      /\ h.tables = [i \in Tables |-> h.tables[i]] /\ \A i \in Tables : IsTable(h.tables[i])
      /\ h.parts \in [PartIds -> Arrays]
  BY DEF IsHeap
<1>2. x \in Tables
  BY <1>1
<1>3. r = [h EXCEPT !.tables = [h.tables EXCEPT ![x] = new]]
  BY <1>1 DEF Dropped
<1>4. IsTable(new)
  <2> DEFINE t == h.tables[x]
  <2>1. IsTable(t)
    BY <1>1, <1>2
  <2> HIDE DEF t
  <2>2. IsTable(Drop(t, key))
    BY <2>1 DEF IsTable, Drop
  <2> QED
    BY <2>2 DEF t
<1>5. \A p \in Objects : h.options[p] = x => new = Drop(Table(h, p), key)
  BY DEF Table
<1> HIDE DEF new, x
<1>6. r = [options |-> h.options, tables |-> [h.tables EXCEPT ![x] = new], parts |-> h.parts,
           properties |-> h.properties]
  BY <1>1, <1>3
<1> HIDE DEF r
<1>7. /\ r = [options |-> r.options, tables |-> r.tables, parts |-> r.parts, properties |-> r.properties]
      /\ r.options = h.options /\ r.parts = h.parts
      /\ r.tables = [i \in Tables |-> r.tables[i]]
      /\ \A i \in Tables : r.tables[i] = IF i = x THEN new ELSE h.tables[i]
  BY <1>1, <1>6
<1>8. IsHeap(r)
  BY <1>1, <1>4, <1>7 DEF IsHeap
<1>9. ASSUME NEW p \in Objects
      PROVE  Table(r, p) = IF h.options[p] = x THEN Drop(Table(h, p), key) ELSE Table(h, p)
  <2>1. h.options[p] \in Tables /\ r.options[p] = h.options[p]
    BY <1>1, <1>7
  <2> QED
    BY <1>5, <1>7, <2>1 DEF Table
<1> QED
  BY <1>7, <1>8, <1>9 DEF r, x

LEMMA TakeNull ==
  ASSUME NEW h, NEW v \in PartIds, NEW K, NEW o \in Objects, NEW given, NEW says,
         Asks(h, v, K, o, given, says),
         NEW s, NEW u, NEW j \in 1..Len(given), Taken(h, s, u, j - 1, v, K, o, given, says),
         ~(o \in Clients /\ given[j].key \in Special), given[j].val = Unset
  PROVE  Taken(h, SetOne(s, o, given[j]), ToldOne(u, o, says[j]), j, v, K, o, given, says)
<1> DEFINE key == given[j].key
           r == Dropped(s.heap, o, key)
           g == s.heap
<1>0. /\ key = says[j].key /\ says[j].val = Unset /\ key \notin DOMAIN s.rest
      /\ Len(given) \in Nat
  <2>1. /\ given[j].key = says[j].key /\ given[j].key \in Keys
        /\ given[j].key \notin Parts => given[j].val = says[j].val
        /\ given[j].key \in Parts => (given[j].val = Unset <=> says[j].val = Unset)
        /\ IsPart(given[j]) =>
              given[j].val \in PartIds /\ Pending(s.heap, v, K, o, given[j], says[j])
        /\ given[j].key \notin DOMAIN s.rest
    BY AsksOne
  <2> QED
    BY <2>1 DEF Asks
<1>1. ToldOne(u, o, says[j]) = Drop(u, key)
  BY <1>0 DEF ToldOne
<1>2. SetOne(s, o, given[j]) = [heap |-> r, rest |-> s.rest]
  <2>1. s = [heap |-> s.heap, rest |-> s.rest]
    BY DEF Taken
  <2>2. SetOne(s, o, given[j]) = [s EXCEPT !.heap = r]
    <3>1. r = [s.heap EXCEPT !.tables[s.heap.options[o]] = Drop(@, key)]
      BY DEF Dropped
    <3>2. SetOne(s, o, given[j]) = [s EXCEPT !.heap.tables[s.heap.options[o]] = Drop(@, key)]
      BY DEF SetOne
    <3> QED
      BY <3>1, <3>2
  <2> HIDE DEF r
  <2> QED
    BY <2>1, <2>2
<1>3. IsHeap(g) /\ Filled(g) /\ Apart(g, v, K)
  BY DEF Taken, OthersKeep
<1>4. /\ IsHeap(r) /\ r.options = g.options /\ r.parts = g.parts
      /\ \A p \in Objects :
            Table(r, p) = IF g.options[p] = g.options[o] THEN Drop(Table(g, p), key) ELSE Table(g, p)
  BY <1>3, DroppedIs
<1> HIDE DEF r, g
<1>5. \A p \in Objects : \A l \in ArraysOf(r, p) :
         l \in ArraysOf(g, p) /\ Table(r, p)[l] = Table(g, p)[l]
  BY <1>4 DEF ArraysOf, Drop
<1>6. Filled(r)
  BY <1>3, <1>4, <1>5 DEF Filled
<1>7. ASSUME NEW p, NEW k, NEW x, Alone(g, v, K, p, k, x)
      PROVE  Alone(r, v, K, p, k, x)
  BY <1>5, <1>7 DEF Alone
<1>8. Apart(r, v, K)
  <2>1. \A p \in Objects : \A k \in ArraysOf(r, p) : Alone(r, v, K, p, k, Table(r, p)[k])
    BY <1>3, <1>5, <1>7 DEF Apart
  <2> QED
    BY <1>3, <1>4, <2>1 DEF Apart
<1>9. ASSUME NEW p \in Objects
      PROVE  View(r, p) = IF g.options[p] = g.options[o] THEN Drop(View(g, p), key) ELSE View(g, p)
  <2>1. CASE g.options[p] = g.options[o]
    <3> DEFINE t == Table(g, p)
               w == [k \in DOMAIN t \ {key} |-> IF k \in Parts THEN g.parts[t[k]] ELSE t[k]]
    <3>1. Table(r, p) = Drop(t, key)
      BY <1>4, <2>1
    <3>2. Drop(View(g, p), key) = w
      BY DEF Drop, View
    <3> HIDE DEF t
    <3>3. View(r, p) = w
      BY <1>4, <3>1 DEF Drop, View
    <3> QED
      BY <2>1, <3>2, <3>3
  <2>2. CASE g.options[p] # g.options[o]
    BY <1>4, <2>2 DEF View
  <2> QED
    BY <2>1, <2>2
<1>10. OthersKeep(g, r, v, K, o)
  <2>1. ASSUME NEW p \in Objects \ {o} PROVE Follows(View(r, p), View(g, p), p \notin K)
    <3>1. CASE g.options[p] = g.options[o]
      <4>1. p \in K
        BY <1>3, <3>1 DEF Apart
      <4>2. View(r, p) = Drop(View(g, p), key)
        BY <1>9, <3>1
      <4> QED
        BY <4>1, <4>2 DEF Follows, Drop
    <3>2. CASE g.options[p] # g.options[o]
      <4>1. View(r, p) = View(g, p)
        BY <1>9, <3>2
      <4> QED
        BY <4>1, FollowsItself
    <3> QED
      BY <3>1, <3>2
  <2> QED
    BY <1>4, <1>6, <1>8, <2>1 DEF OthersKeep
<1>11. Follows(Over(s.rest, View(r, o)), Drop(u, key), o \notin K)
  <2> DEFINE own == o \notin K
             over == Over(s.rest, View(g, o))
  <2>1. Follows(over, u, own)
    BY DEF Taken, g
  <2>2. own \in BOOLEAN
    OBVIOUS
  <2>3. Over(s.rest, View(r, o)) = Drop(over, key)
    BY <1>0, <1>9, OverDrop
  <2> HIDE DEF own, over
  <2>4. Follows(Drop(over, key), Drop(u, key), own)
    BY <2>1, <2>2, FollowsDrop
  <2> QED
    BY <2>3, <2>4 DEF own
<1>12. ASSUME NEW i, Pending(g, v, K, o, given[i], says[i])
       PROVE  Pending(r, v, K, o, given[i], says[i])
  BY <1>4, <1>7, <1>12 DEF Pending
<1>13. Taken(h, [heap |-> r, rest |-> s.rest], Drop(u, key), j, v, K, o, given, says)
  BY <1>0, <1>10, <1>11, <1>12, TakenHeap DEF g
<1> QED
  BY <1>1, <1>2, <1>13

LEMMA TakePlain ==
  ASSUME NEW h, NEW v \in PartIds, NEW K, NEW o \in Objects, NEW given, NEW says,
         Asks(h, v, K, o, given, says),
         NEW s, NEW u, NEW j \in 1..Len(given), Taken(h, s, u, j - 1, v, K, o, given, says),
         ~(o \in Clients /\ given[j].key \in Special), given[j].key \notin Parts, given[j].val # Unset
  PROVE  Taken(h, SetOne(s, o, given[j]), ToldOne(u, o, says[j]), j, v, K, o, given, says)
<1> DEFINE key == given[j].key
           x == given[j].val
           rest == With(s.rest, key, x)
           seen == View(s.heap, o)
<1>0. /\ key = says[j].key /\ says[j].val = x /\ key \notin DOMAIN s.rest /\ key \in Keys
      /\ Len(given) \in Nat
  <2>1. /\ given[j].key = says[j].key /\ given[j].key \in Keys
        /\ given[j].key \notin Parts => given[j].val = says[j].val
        /\ given[j].key \in Parts => (given[j].val = Unset <=> says[j].val = Unset)
        /\ IsPart(given[j]) =>
              given[j].val \in PartIds /\ Pending(s.heap, v, K, o, given[j], says[j])
        /\ given[j].key \notin DOMAIN s.rest
    BY AsksOne
  <2> QED
    BY <2>1 DEF Asks
<1>1. ToldOne(u, o, says[j]) = With(u, key, x)
  BY <1>0 DEF ToldOne
<1>2. SetOne(s, o, given[j]) = [heap |-> s.heap, rest |-> rest]
  <2>1. s = [heap |-> s.heap, rest |-> s.rest]
    BY DEF Taken
  <2>2. SetOne(s, o, given[j]) = [s EXCEPT !.rest = rest]
    BY DEF SetOne
  <2> HIDE DEF rest
  <2> QED
    BY <2>1, <2>2
<1>3. Over(rest, seen) = With(Over(s.rest, seen), key, x)
  BY <1>0, OverWith
<1>4. Follows(Over(rest, seen), With(u, key, x), o \notin K)
  <2> DEFINE own == o \notin K
             over == Over(s.rest, seen)
  <2>1. Follows(over, u, own)
    BY DEF Taken
  <2>2. own \in BOOLEAN
    OBVIOUS
  <2> HIDE DEF own, over
  <2>3. Follows(With(over, key, x), With(u, key, x), own)
    BY <2>1, <2>2, FollowsWith
  <2> QED
    BY <1>3, <2>3 DEF own, over
<1>5. /\ DOMAIN rest = DOMAIN s.rest \cup {key}
      /\ rest = [k \in DOMAIN rest |-> rest[k]]
  BY DEF With
<1>6. \A k \in DOMAIN rest : k \in Keys \ Parts /\ \E i \in 1..j : k = given[i].key
  <2>1. \A k \in DOMAIN s.rest : k \in Keys \ Parts /\ \E i \in 1..(j - 1) : k = given[i].key
    BY DEF Taken
  <2>2. j \in 1..j /\ \A i \in 1..(j - 1) : i \in 1..j
    BY <1>0
  <2> HIDE DEF rest
  <2> QED
    BY <1>0, <1>5, <2>1, <2>2
<1>7. \A i \in j+1..Len(given) : IsPart(given[i]) => Pending(s.heap, v, K, o, given[i], says[i])
  <2>1. \A i \in j+1..Len(given) : i \in (j - 1)+1..Len(given)
    BY <1>0
  <2> QED
    BY <2>1 DEF Taken
<1> DEFINE n == [heap |-> s.heap, rest |-> rest]
<1>8. n.heap = s.heap /\ n.rest = rest /\ n = [heap |-> n.heap, rest |-> n.rest]
  OBVIOUS
<1>9. OthersKeep(h, s.heap, v, K, o)
  BY DEF Taken
<1> HIDE DEF n, rest
<1>10. Taken(h, n, With(u, key, x), j, v, K, o, given, says)
  BY <1>4, <1>5, <1>6, <1>7, <1>8, <1>9 DEF Taken
<1> QED
  BY <1>1, <1>2, <1>10 DEF n

LEMMA TakeOne ==
  ASSUME NEW h, NEW v \in PartIds, NEW K, NEW o \in Objects, NEW given, NEW says,
         Asks(h, v, K, o, given, says),
         NEW s, NEW u, NEW j \in 1..Len(given), Taken(h, s, u, j - 1, v, K, o, given, says)
  PROVE  Taken(h, SetOne(s, o, given[j]), ToldOne(u, o, says[j]), j, v, K, o, given, says)
<1>1. CASE IsPart(given[j])
  BY <1>1, TakePart
<1>2. CASE ~IsPart(given[j]) /\ o \in Clients /\ given[j].key \in Special
  BY <1>2, TakeSpecial
<1>3. CASE ~(o \in Clients /\ given[j].key \in Special) /\ given[j].val = Unset
  BY <1>3, TakeNull
<1>4. CASE ~(o \in Clients /\ given[j].key \in Special) /\ given[j].val # Unset /\ ~IsPart(given[j])
  <2>1. given[j].key \notin Parts
    BY <1>4 DEF IsPart
  <2> QED
    BY <1>4, <2>1, TakePlain
<1> QED
  BY <1>1, <1>2, <1>3, <1>4

-----------------------------------------------------------------------------
(* All entries: OptionsSet *)

\* One more entry, of what is done or of what is said.
OneMore(done, o, x, e) == IF done THEN SetOne(x, o, e) ELSE ToldOne(x, o, e)

\* The fold over the entries at the positions s.
Entries(iter, done, o, b, given, n) ==
  iter = [s \in SUBSET (1 .. n) |->
            IF s = {} THEN b ELSE OneMore(done, o, iter[s \ {Max(s)}], given[Max(s)])]

LEMMA EntriesExist ==
  ASSUME NEW done \in BOOLEAN, NEW o, NEW b, NEW given, NEW n \in Nat
  PROVE  \E iter : Entries(iter, done, o, b, given, n)
<1> DEFINE T == {k \in Nat : ~ \E iter : Entries(iter, done, o, b, given, k)}
<1> SUFFICES ASSUME T # {} PROVE FALSE
  OBVIOUS
<1>1. PICK k \in T : \A m \in T : k <= m
  BY LeastNumber
<1>2. CASE k = 0
  <2> DEFINE iter == [s \in SUBSET (1 .. 0) |-> b]
  <2>1. \A s \in SUBSET (1 .. 0) : s = {}
    OBVIOUS
  <2>2. Entries(iter, done, o, b, given, 0)
    BY <2>1 DEF Entries
  <2> QED
    BY <1>1, <1>2, <2>2
<1>3. CASE k # 0
  <2>1. PICK j \in Nat : k = j + 1
    BY <1>3
  <2>2. j \notin T
    BY <1>1, <2>1
  <2>3. PICK iter : Entries(iter, done, o, b, given, j)
    BY <2>2
  <2> DEFINE new == [s \in SUBSET (1 .. k) |->
                       IF k \in s THEN OneMore(done, o, iter[s \ {k}], given[k]) ELSE iter[s]]
  <2>4. ASSUME NEW s \in SUBSET (1 .. k)
        PROVE  new[s] = IF s = {} THEN b ELSE OneMore(done, o, new[s \ {Max(s)}], given[Max(s)])
    <3>1. CASE k \in s
      <4>1. Max(s) = k
        BY <3>1, <2>1, MaxOfTop
      <4>2. s \ {k} \in SUBSET (1 .. k)  /\ k \notin s \ {k}
        OBVIOUS
      <4>3. new[s \ {k}] = iter[s \ {k}]
        BY <4>2
      <4> HIDE DEF T
      <4> QED
        BY <4>1, <4>3, <3>1
    <3>2. CASE k \notin s
      <4>1. s \in SUBSET (1 .. j)
        BY <3>2, <2>1
      <4>2. new[s] = iter[s]
        BY <3>2
      <4>3. CASE s = {}
        BY <4>1, <4>2, <4>3, <2>3 DEF Entries
      <4>4. CASE s # {}
        <5>1. Max(s) \in s
          <6>1. s \subseteq Nat /\ \A y \in s : y <= j
            BY <4>1
          <6> QED
            BY <6>1, <4>4, MaxOfBounded
        <5>2. s \ {Max(s)} \in SUBSET (1 .. k) /\ k \notin s \ {Max(s)}
          BY <3>2
        <5>3. new[s \ {Max(s)}] = iter[s \ {Max(s)}]
          BY <5>2
        <5>4. iter[s] = OneMore(done, o, iter[s \ {Max(s)}], given[Max(s)])
          BY <4>1, <4>4, <2>3 DEF Entries
        <5> QED
          BY <5>3, <5>4, <4>2, <4>4
      <4> QED
        BY <4>3, <4>4
    <3> QED
      BY <3>1, <3>2
  <2>5. Entries(new, done, o, b, given, k)
    <3>1. new = [s \in SUBSET (1 .. k) |-> new[s]]
      OBVIOUS
    <3> HIDE DEF new
    <3> QED
      BY <3>1, <2>4 DEF Entries
  <2> QED
    BY <1>1, <2>5
<1> QED
  BY <1>2, <1>3

Does(o, b, given) == FoldLeft(LAMBDA s, e : SetOne(s, o, e), b, given)
Says(o, u, says) == FoldLeft(LAMBDA t, e : ToldOne(t, o, e), u, says)

LEMMA EntriesDone ==
  ASSUME NEW o, NEW b, NEW given, DOMAIN given = 1 .. Len(given), Len(given) \in Nat
  PROVE  \E iter : /\ Entries(iter, TRUE, o, b, given, Len(given))
                   /\ Does(o, b, given) = iter[1 .. Len(given)]
<1>1. PICK iter : Entries(iter, TRUE, o, b, given, Len(given))
  <2> DEFINE done == TRUE
  <2>1. done \in BOOLEAN
    OBVIOUS
  <2> HIDE DEF done
  <2>2. \E iter : Entries(iter, done, o, b, given, Len(given))
    BY <2>1, EntriesExist
  <2> QED
    BY <2>2 DEF done
<1> DEFINE f == CHOOSE it : it = [s \in SUBSET (DOMAIN given) |->
            IF s = {} THEN b ELSE SetOne(it[s \ {Max(s)}], o, given[Max(s)])]
<1>2. Does(o, b, given) = f[DOMAIN given]
  BY DEF Does, FoldLeft, MapThenFoldSet
<1>3. f = [s \in SUBSET (DOMAIN given) |->
            IF s = {} THEN b ELSE SetOne(f[s \ {Max(s)}], o, given[Max(s)])]
  BY <1>1 DEF Entries, OneMore
<1> HIDE DEF f
<1>4. Entries(f, TRUE, o, b, given, Len(given))
  BY <1>3 DEF Entries, OneMore
<1> QED
  BY <1>2, <1>4

LEMMA EntriesSaid ==
  ASSUME NEW o, NEW b, NEW given, DOMAIN given = 1 .. Len(given), Len(given) \in Nat
  PROVE  \E iter : /\ Entries(iter, FALSE, o, b, given, Len(given))
                   /\ Says(o, b, given) = iter[1 .. Len(given)]
<1>1. PICK iter : Entries(iter, FALSE, o, b, given, Len(given))
  <2> DEFINE done == FALSE
  <2>1. done \in BOOLEAN
    OBVIOUS
  <2> HIDE DEF done
  <2>2. \E iter : Entries(iter, done, o, b, given, Len(given))
    BY <2>1, EntriesExist
  <2> QED
    BY <2>2 DEF done
<1> DEFINE f == CHOOSE it : it = [s \in SUBSET (DOMAIN given) |->
            IF s = {} THEN b ELSE ToldOne(it[s \ {Max(s)}], o, given[Max(s)])]
<1>2. Says(o, b, given) = f[DOMAIN given]
  BY DEF Says, FoldLeft, MapThenFoldSet
<1>3. f = [s \in SUBSET (DOMAIN given) |->
            IF s = {} THEN b ELSE ToldOne(f[s \ {Max(s)}], o, given[Max(s)])]
  BY <1>1 DEF Entries, OneMore
<1> HIDE DEF f
<1>4. Entries(f, FALSE, o, b, given, Len(given))
  BY <1>3 DEF Entries, OneMore
<1> QED
  BY <1>2, <1>4

LEMMA EntriesNext ==
  ASSUME NEW done \in BOOLEAN, NEW o, NEW b, NEW given, NEW n \in Nat, NEW iter,
         Entries(iter, done, o, b, given, n)
  PROVE  /\ iter[{}] = b
         /\ \A j \in 1 .. n : iter[1 .. j] = OneMore(done, o, iter[1 .. (j - 1)], given[j])
<1>1. iter[{}] = b
  <2>1. {} \in SUBSET (1 .. n)
    OBVIOUS
  <2> QED
    BY <2>1 DEF Entries
<1>2. ASSUME NEW j \in 1 .. n
      PROVE  iter[1 .. j] = OneMore(done, o, iter[1 .. (j - 1)], given[j])
  <2>1. PICK k \in Nat : j = k + 1
    <3>1. j - 1 \in Nat /\ j = (j - 1) + 1
      OBVIOUS
    <3> QED
      BY <3>1
  <2>2. 1 .. k + 1 \in SUBSET (1 .. n) /\ 1 .. k + 1 # {}
    BY <2>1
  <2>3. Max(1 .. k + 1) = k + 1
    <3>1. k + 1 \in 1 .. k + 1
      OBVIOUS
    <3> QED
      BY <3>1, MaxOfTop
  <2>4. (1 .. k + 1) \ {k + 1} = 1 .. k
    OBVIOUS
  <2>5. iter[1 .. k + 1] = OneMore(done, o, iter[1 .. k], given[k + 1])
    BY <2>2, <2>3, <2>4 DEF Entries
  <2>6. j - 1 = k
    BY <2>1
  <2> QED
    BY <2>1, <2>5, <2>6
<1> QED
  BY <1>1, <1>2

LEMMA TakenAll ==
  ASSUME NEW h, IsHeap(h), Filled(h), NEW v \in PartIds, NEW K, Apart(h, v, K), NEW o \in Objects,
         NEW given, NEW says, Asks(h, v, K, o, given, says), NEW u, Follows(View(h, o), u, o \notin K)
  PROVE  Taken(h, Does(o, [heap |-> h, rest |-> NoOptions], given), Says(o, u, says), Len(given),
               v, K, o, given, says)
<1> DEFINE first == [heap |-> h, rest |-> NoOptions]
           n == Len(given)
<1>1. n \in Nat /\ DOMAIN given = 1 .. n /\ DOMAIN says = 1 .. n /\ Len(says) = n
  BY DEF Asks
<1> HIDE DEF n
<1>2. PICK does : /\ Entries(does, TRUE, o, first, given, n)
                  /\ Does(o, first, given) = does[1 .. n]
  <2> HIDE DEF first
  <2>1. DOMAIN given = 1 .. Len(given) /\ Len(given) \in Nat
    BY <1>1 DEF n
  <2> QED
    BY <2>1, EntriesDone DEF n
<1>3. PICK said : /\ Entries(said, FALSE, o, u, says, n)
                  /\ Says(o, u, says) = said[1 .. n]
  <2>1. DOMAIN says = 1 .. Len(says) /\ Len(says) \in Nat
    BY <1>1
  <2> QED
    BY <1>1, <2>1, EntriesSaid
<1> DEFINE Good(k) == Taken(h, does[1 .. k], said[1 .. k], k, v, K, o, given, says)
           T == {k \in 0 .. n : ~Good(k)}
<1>4. does[{}] = first /\ \A j \in 1 .. n : does[1 .. j] = SetOne(does[1 .. (j - 1)], o, given[j])
  <2> DEFINE done == TRUE
  <2>1. done \in BOOLEAN /\ Entries(does, done, o, first, given, n)
    BY <1>2
  <2>2. \A x, e : OneMore(done, o, x, e) = SetOne(x, o, e)
    BY DEF OneMore
  <2> HIDE DEF done, first
  <2>3. /\ does[{}] = first
        /\ \A j \in 1 .. n : does[1 .. j] = OneMore(done, o, does[1 .. (j - 1)], given[j])
    BY <1>1, <2>1, EntriesNext
  <2> QED
    BY <2>2, <2>3
<1>5. said[{}] = u /\ \A j \in 1 .. n : said[1 .. j] = ToldOne(said[1 .. (j - 1)], o, says[j])
  <2> DEFINE done == FALSE
  <2>1. done \in BOOLEAN /\ Entries(said, done, o, u, says, n)
    BY <1>3
  <2>2. \A x, e : OneMore(done, o, x, e) = ToldOne(x, o, e)
    BY DEF OneMore
  <2> HIDE DEF done
  <2>3. /\ said[{}] = u
        /\ \A j \in 1 .. n : said[1 .. j] = OneMore(done, o, said[1 .. (j - 1)], says[j])
    BY <1>1, <2>1, EntriesNext
  <2> QED
    BY <2>2, <2>3
<1>6. Good(0)
  <2>1. first = [heap |-> first.heap, rest |-> first.rest] /\ first.heap = h /\ first.rest = NoOptions
    OBVIOUS
  <2> HIDE DEF first
  <2>2. OthersKeep(h, h, v, K, o)
    BY FollowsItself DEF OthersKeep
  <2>3. DOMAIN NoOptions = {} /\ NoOptions = [k \in DOMAIN NoOptions |-> NoOptions[k]]
    BY DEF NoOptions
  <2>4. Over(NoOptions, View(h, o)) = View(h, o)
    BY <2>3 DEF Over, View
  <2>5. \A i \in 1 .. n : IsPart(given[i]) => Pending(h, v, K, o, given[i], says[i])
    BY DEF Asks, n
  <2>6. 0 + 1 = 1 /\ n = Len(given)
    BY DEF n
  <2>7. Taken(h, first, u, 0, v, K, o, given, says)
    BY <2>1, <2>2, <2>3, <2>4, <2>5, <2>6 DEF Taken
  <2>8. 1 .. 0 = {}
    OBVIOUS
  <2> QED
    BY <1>4, <1>5, <2>7, <2>8
<1>7. ASSUME NEW j \in 1 .. n, Good(j - 1) PROVE Good(j)
  <2> DEFINE s == does[1 .. (j - 1)]
             w == said[1 .. (j - 1)]
  <2>1. Taken(h, s, w, j - 1, v, K, o, given, says)
    BY <1>7
  <2>2. does[1 .. j] = SetOne(s, o, given[j]) /\ said[1 .. j] = ToldOne(w, o, says[j])
    BY <1>4, <1>5
  <2> HIDE DEF s, w
  <2>3. j \in 1 .. Len(given)
    BY DEF n
  <2>4. Taken(h, SetOne(s, o, given[j]), ToldOne(w, o, says[j]), j, v, K, o, given, says)
    BY <2>1, <2>3, TakeOne
  <2> QED
    BY <2>2, <2>4
<1>8. T = {}
  <2> HIDE DEF Good
  <2>1. \A k \in T : \E m \in T : m < k
    <3> TAKE k \in T
    <3>1. k # 0
      BY <1>6
    <3>2. k \in 1 .. n /\ k - 1 \in 0 .. n
      BY <1>1, <3>1
    <3>3. k - 1 \in T
      BY <1>7, <3>2
    <3>4. k - 1 < k
      BY <3>2
    <3> QED
      BY <3>3, <3>4
  <2>2. T \subseteq Nat
    OBVIOUS
  <2> HIDE DEF T
  <2> QED
    BY <2>1, <2>2, Induction
<1>9. Good(n)
  <2> HIDE DEF Good
  <2>1. n \in 0 .. n
    BY <1>1
  <2> QED
    BY <1>8, <2>1
<1> HIDE DEF first
<1>10. Taken(h, Does(o, first, given), Says(o, u, says), n, v, K, o, given, says)
  BY <1>2, <1>3, <1>9
<1> QED
  BY <1>10 DEF first, n

LEMMA OptionsSetIs ==
  ASSUME NEW h, IsHeap(h), Filled(h), NEW v \in PartIds, NEW K, Apart(h, v, K), NEW o \in Objects,
         NEW given, NEW says, Asks(h, v, K, o, given, says), NEW u, Follows(View(h, o), u, o \notin K),
         given # <<>>
  PROVE  LET r == OptionsSet(h, o, given)
         IN /\ OthersKeep(h, r, v, K, o)
            /\ Follows(View(r, o), Says(o, u, says), o \notin K)
<1> DEFINE s == Does(o, [heap |-> h, rest |-> NoOptions], given)
           w == Says(o, u, says)
           r == OptionsSet(h, o, given)
<1>1. Taken(h, s, w, Len(given), v, K, o, given, says)
  BY TakenAll
<1>2. r = Replace(s.heap, o, Over(s.rest, Table(s.heap, o)))
  BY DEF OptionsSet, Does
<1> HIDE DEF s, w, r
<1> DEFINE g == s.heap
           old == Table(g, o)
           t == Over(s.rest, old)
<1>3. OthersKeep(h, g, v, K, o) /\ IsHeap(g) /\ Filled(g) /\ Apart(g, v, K)
  BY <1>1 DEF Taken, OthersKeep
<1>4. \A k \in DOMAIN s.rest : k \in Keys \ Parts
  BY <1>1 DEF Taken
<1>5. IsTable(old)
  BY <1>3, TableIs
<1>6. ArraysOf(g, o) = DOMAIN old \cap Parts
  BY DEF ArraysOf
<1> HIDE DEF g, old
<1>7. /\ DOMAIN t = DOMAIN s.rest \cup DOMAIN old
      /\ t = [x \in DOMAIN t |-> t[x]]
      /\ \A x \in DOMAIN s.rest \cup DOMAIN old : t[x] = IF x \in DOMAIN s.rest THEN s.rest[x] ELSE old[x]
  BY DEF Over
<1> HIDE DEF t
<1>8. DOMAIN t \cap Parts = DOMAIN old \cap Parts /\ \A k \in DOMAIN t \cap Parts : t[k] = old[k]
  BY <1>4, <1>7
<1>9. IsTable(t)
  BY <1>4, <1>5, <1>7, <1>8 DEF IsTable
<1>10. Moved(g, r, o, t) /\ r.parts = g.parts
  BY <1>2, <1>3, <1>9, ReplaceIs DEF g, t, old
<1>11. Apart(r, v, K) /\ Filled(r)
  <2> DEFINE key == 0
  <2>1. \A k \in DOMAIN t \cap Parts : k # key => k \in ArraysOf(g, o) /\ t[k] = Table(g, o)[k]
    BY <1>6, <1>8 DEF old
  <2>2. key \in DOMAIN t \cap Parts => Alone(g, v, K, o, key, t[key])
    BY <1>3, <1>6, <1>8 DEF Apart, old
  <2>3. key \in DOMAIN t \cap Parts => g.parts[t[key]] # NoOptions
    BY <1>3, <1>6, <1>8 DEF Filled, old
  <2> HIDE DEF key
  <2>4. Apart(r, v, K)
    BY <1>3, <1>10, <2>1, <2>2, MovedApart
  <2>5. Filled(r)
    BY <1>3, <1>10, <2>1, <2>3, MovedFilled
  <2> QED
    BY <2>4, <2>5
<1>12. OthersKeep(g, r, v, K, o)
  <2>1. \A p \in Objects \ {o} : View(r, p) = View(g, p)
    BY <1>10, MovedOthers
  <2>2. \A p \in Objects \ {o} : Follows(View(r, p), View(g, p), p \notin K)
    BY <2>1, FollowsItself
  <2>3. IsHeap(r)
    BY <1>10 DEF Moved
  <2> QED
    BY <1>10, <1>11, <2>2, <2>3 DEF OthersKeep
<1>13. View(r, o) = Over(s.rest, View(g, o))
  <2>1. Table(r, o) = t
    BY <1>10 DEF Moved
  <2>2. View(r, o) = [k \in DOMAIN t |-> IF k \in Parts THEN g.parts[t[k]] ELSE t[k]]
    BY <1>10, <2>1 DEF View
  <2>3. DOMAIN View(g, o) = DOMAIN old
        /\ \A k \in DOMAIN old : View(g, o)[k] = IF k \in Parts THEN g.parts[old[k]] ELSE old[k]
    BY DEF View, old
  <2> DEFINE a == View(g, o)
             b == Over(s.rest, a)
             c == View(r, o)
  <2>4. /\ DOMAIN b = DOMAIN s.rest \cup DOMAIN a
        /\ b = [x \in DOMAIN b |-> b[x]]
        /\ \A x \in DOMAIN s.rest \cup DOMAIN a : b[x] = IF x \in DOMAIN s.rest THEN s.rest[x] ELSE a[x]
    BY DEF Over
  <2>5. DOMAIN c = DOMAIN t /\ c = [k \in DOMAIN c |-> c[k]]
        /\ \A k \in DOMAIN t : c[k] = IF k \in Parts THEN g.parts[t[k]] ELSE t[k]
    BY <2>2
  <2>6. DOMAIN a = DOMAIN old
        /\ \A k \in DOMAIN old : a[k] = IF k \in Parts THEN g.parts[old[k]] ELSE old[k]
    BY <2>3
  <2> HIDE DEF a, b, c
  <2>7. DOMAIN b = DOMAIN t /\ DOMAIN c = DOMAIN t
    BY <1>7, <2>4, <2>5, <2>6
  <2>8. \A k \in DOMAIN t : c[k] = b[k]
    BY <1>4, <1>7, <2>4, <2>5, <2>6
  <2>9. c = b
    BY <2>4, <2>5, <2>7, <2>8
  <2> QED
    BY <2>9 DEF a, b, c
<1>14. Follows(View(r, o), w, o \notin K)
  BY <1>1, <1>13 DEF Taken, g
<1>15. OthersKeep(h, r, v, K, o)
  BY <1>3, <1>12, OthersKeepOn
<1> QED
  BY <1>14, <1>15 DEF r, w

-----------------------------------------------------------------------------
(* Places on the heap *)

LEMMA InjectionExists ==
  ASSUME NEW S, NEW T, IsFiniteSet(S), IsFiniteSet(T), Cardinality(S) <= Cardinality(T)
  PROVE  \E f \in [S -> T] : IsInjective(f)
<1> DEFINE n == Cardinality(S)
           m == Cardinality(T)
<1>1. n \in Nat /\ ExistsBijection(1 .. n, S) /\ m \in Nat /\ ExistsBijection(1 .. m, T) /\ n <= m
  BY FS_CardinalityType
<1> HIDE DEF n, m
<1>2. PICK b \in [1 .. n -> S] : IsInjective(b) /\ \A x \in S : \E i \in 1 .. n : b[i] = x
  BY <1>1 DEF ExistsBijection, Bijection, Injection, Surjection
<1>3. PICK c \in [1 .. m -> T] : IsInjective(c)
  BY <1>1 DEF ExistsBijection, Bijection, Injection
<1> DEFINE at(x) == CHOOSE i \in 1 .. n : b[i] = x
           f == [x \in S |-> c[at(x)]]
<1>4. \A x \in S : at(x) \in 1 .. n /\ b[at(x)] = x
  BY <1>2
<1>5. \A i \in 1 .. n : i \in 1 .. m
  BY <1>1
<1> HIDE DEF at
<1>6. f \in [S -> T]
  BY <1>3, <1>4, <1>5
<1>7. \A x, y \in S : f[x] = f[y] => x = y
  <2> SUFFICES ASSUME NEW x \in S, NEW y \in S, f[x] = f[y] PROVE x = y
    OBVIOUS
  <2>1. at(x) \in DOMAIN c /\ at(y) \in DOMAIN c /\ c[at(x)] = c[at(y)]
    BY <1>3, <1>4, <1>5
  <2>2. at(x) = at(y)
    BY <1>3, <2>1 DEF IsInjective
  <2> QED
    BY <1>4, <2>2
<1>8. IsInjective(f)
  BY <1>7 DEF IsInjective
<1> QED
  BY <1>6, <1>8

\* A place no object and no variable refers to.
Free(i) == /\ i \in PartIds /\ i # held
           /\ \A p \in Objects : \A l \in ArraysOf(Heap, p) : Table(Heap, p)[l] # i

LEMMA PartsOfIs ==
  ASSUME NEW h
  PROVE  /\ \A p \in Objects : \A l \in ArraysOf(h, p) :
               Table(h, p)[l] \in PartsOf(h.tables, h.options)
         /\ \A i \in PartsOf(h.tables, h.options) :
               \E p \in Objects : \E l \in ArraysOf(h, p) : Table(h, p)[l] = i
<1> DEFINE of(p) == {Table(h, p)[k] : k \in ArraysOf(h, p)}
<1>1. PartsOf(h.tables, h.options) = UNION {of(p) : p \in Objects}
  BY DEF PartsOf, ArraysOf, Table
<1>2. \A p \in Objects : \A i : i \in of(p) <=> \E l \in ArraysOf(h, p) : Table(h, p)[l] = i
  OBVIOUS
<1> HIDE DEF of
<1>3. \A i : i \in PartsOf(h.tables, h.options) <=> \E p \in Objects : i \in of(p)
  BY <1>1
<1> QED
  BY <1>2, <1>3

LEMMA FreeIs == \A i : i \in FreeParts <=> Free(i)
<1> TAKE i
<1>1. /\ \A p \in Objects : \A l \in ArraysOf(Heap, p) : Table(Heap, p)[l] \in PartsOf(tables, options)
      /\ \A x \in PartsOf(tables, options) :
            \E p \in Objects : \E l \in ArraysOf(Heap, p) : Table(Heap, p)[l] = x
  BY DEF PartsOf, ArraysOf, Table, Heap
<1> QED
  BY <1>1 DEF FreeParts, Free

LEMMA EnoughFree ==
  ASSUME IsHeap(Heap), held \in PartIds
  PROVE  /\ IsFiniteSet(FreeParts) /\ IsFiniteSet(Parts)
         /\ Cardinality(Parts) <= Cardinality(FreeParts)
         /\ FreeParts # {}
<1> DEFINE a == Cardinality(Objects)
           b == Cardinality(Parts)
           used == PartsOf(tables, options)
           F == [x \in Objects \X Parts |-> IF x[2] \in DOMAIN Table(Heap, x[1])
                                            THEN Table(Heap, x[1])[x[2]] ELSE held]
           reached == {F[x] : x \in Objects \X Parts}
<1>1. IsFiniteSet(Objects) /\ IsFiniteSet(Keys) /\ Parts \subseteq Keys /\ Parts # {}
  BY OptionsAssumption
<1>2. IsFiniteSet(Parts)
  BY <1>1, FS_Subset
<1>3. a \in Nat /\ b \in Nat /\ b # 0
  BY <1>1, <1>2, FS_CardinalityType, FS_EmptySet
<1>4. IsFiniteSet(Objects \X Parts) /\ Cardinality(Objects \X Parts) = a * b
  BY <1>1, <1>2, FS_Product
<1>5. IsFiniteSet(reached) /\ Cardinality(reached) <= a * b
  <2>1. F \in Surjection(Objects \X Parts, reached)
    BY DEF Surjection
  <2> HIDE DEF F, reached, a, b
  <2> QED
    BY <1>4, <2>1, FS_Surjection
<1>6. used \subseteq reached
  <2> SUFFICES ASSUME NEW i \in used PROVE i \in reached
    OBVIOUS
  <2>1. \A x \in PartsOf(Heap.tables, Heap.options) :
            \E p \in Objects : \E l \in ArraysOf(Heap, p) : Table(Heap, p)[l] = x
    BY PartsOfIs
  <2>2. PICK p \in Objects : \E l \in ArraysOf(Heap, p) : Table(Heap, p)[l] = i
    BY <2>1 DEF Heap
  <2>3. PICK l \in ArraysOf(Heap, p) : Table(Heap, p)[l] = i
    BY <2>2
  <2>4. <<p, l>> \in Objects \X Parts /\ F[<<p, l>>] = i
    BY <2>3 DEF ArraysOf
  <2> HIDE DEF F
  <2> QED
    BY <2>4
<1> HIDE DEF F
<1>7. IsFiniteSet(used) /\ Cardinality(used) <= a * b /\ Cardinality(used) \in Nat
  <2>1. IsFiniteSet(used) /\ Cardinality(used) <= Cardinality(reached)
    BY <1>5, <1>6, FS_Subset
  <2>2. Cardinality(used) \in Nat /\ Cardinality(reached) \in Nat
    BY <1>5, <2>1, FS_CardinalityType
  <2>3. a * b \in Nat
    BY <1>3
  <2> HIDE DEF reached, used, a, b
  <2> QED
    BY <1>5, <2>1, <2>2, <2>3
<1> HIDE DEF reached, used
<1> DEFINE taken == used \cup {held}
<1>8. IsFiniteSet(taken) /\ Cardinality(taken) <= a * b + 1
  <2>1. IsFiniteSet(taken)
        /\ Cardinality(taken) = IF held \in used THEN Cardinality(used) ELSE Cardinality(used) + 1
    BY <1>7, FS_AddElement
  <2>2. a * b \in Nat
    BY <1>3
  <2> HIDE DEF a, b, taken
  <2> QED
    BY <1>7, <2>1, <2>2
<1>9. IsFiniteSet(PartIds) /\ Cardinality(PartIds) = a * b + b + 1
  <2>1. (a + 1) * b + 1 = a * b + b + 1 /\ a * b \in Nat
    <3> HIDE DEF a, b
    <3> QED
      BY <1>3
  <2>2. PartIds = 1 .. (a + 1) * b + 1
    BY DEF PartIds
  <2> DEFINE c == (a + 1) * b + 1
  <2>3. c \in Nat /\ c >= 1 /\ c = a * b + b + 1
    <3> HIDE DEF a, b
    <3> QED
      BY <1>3, <2>1
  <2> HIDE DEF c
  <2>4. IsFiniteSet(1 .. c) /\ Cardinality(1 .. c) = c
    BY <2>3, FS_Interval
  <2> QED
    BY <2>2, <2>3, <2>4 DEF c
<1>10. FreeParts = PartIds \ taken
  BY DEF FreeParts, used
<1> HIDE DEF taken
<1>11. IsFiniteSet(FreeParts) /\ Cardinality(FreeParts) = Cardinality(PartIds) - Cardinality(PartIds \cap taken)
  BY <1>9, <1>10, FS_Difference
<1>12. Cardinality(PartIds \cap taken) <= Cardinality(taken) /\ Cardinality(PartIds \cap taken) \in Nat
  <2>1. IsFiniteSet(PartIds \cap taken) /\ Cardinality(PartIds \cap taken) <= Cardinality(taken)
    BY <1>8, FS_Intersection
  <2> QED
    BY <2>1, FS_CardinalityType
<1>13. b <= Cardinality(FreeParts)
  <2>1. a * b \in Nat /\ Cardinality(taken) \in Nat
    BY <1>3, <1>8, FS_CardinalityType
  <2> HIDE DEF a, b
  <2> QED
    BY <1>3, <1>8, <1>9, <1>11, <1>12, <2>1
<1>14. FreeParts # {}
  <2> HIDE DEF b
  <2>1. Cardinality({}) = 0
    BY FS_EmptySet
  <2> QED
    BY <1>3, <1>13, <2>1
<1> QED
  BY <1>2, <1>11, <1>13, <1>14

-----------------------------------------------------------------------------
(* The invariant *)

ToldOK(h, v, says, K) ==
  /\ \A o \in Objects : Follows(View(h, o), says[o], o \notin K)
  /\ Variable \notin K => h.parts[v] = says[Variable]

OInv ==
  /\ IsHeap(Heap) /\ held \in PartIds
  /\ told = [m \in Members |-> told[m]]
  /\ Filled(Heap) /\ Apart(Heap, held, kin) /\ ToldOK(Heap, held, told, kin)

LEMMA CollectedIs ==
  ASSUME NEW h, IsHeap(h), held \in PartIds
  PROVE  LET c == Collected(h)
         IN /\ IsHeap(c) /\ c.options = h.options /\ c.parts[held] = h.parts[held]
            /\ \A p \in Objects : Table(c, p) = Table(h, p)
            /\ \A p \in Objects : \A k \in ArraysOf(h, p) :
                  c.parts[Table(h, p)[k]] = h.parts[Table(h, p)[k]]
<1> DEFINE c == Collected(h)
           ts == [i \in Tables |-> IF i \in InUse(h.tables, h.options) THEN h.tables[i] ELSE NoOptions]
           ps == [i \in PartIds |-> IF i \in PartsOf(h.tables, h.options) \cup {held}
                                    THEN h.parts[i] ELSE NoOptions]
<1>1. /\ h = [options |-> h.options, tables |-> h.tables, parts |-> h.parts, properties |-> h.properties]
      /\ h.options \in [Objects -> Tables]
      /\ h.tables = [j \in Tables |-> h.tables[j]] /\ \A j \in Tables : IsTable(h.tables[j])
      /\ h.parts \in [PartIds -> Arrays]
  BY DEF IsHeap
<1>2. c = [h EXCEPT !.tables = ts, !.parts = ps]
  BY <1>1 DEF Collected
<1>3. /\ ts = [i \in Tables |-> ts[i]] /\ ps \in [PartIds -> Arrays]
      /\ \A i \in Tables : IsTable(ts[i])
  BY <1>1, NoOptionsIs
<1>4. \A i \in Tables : i \in InUse(h.tables, h.options) => ts[i] = h.tables[i]
  OBVIOUS
<1>5. \A i \in PartIds : i \in PartsOf(h.tables, h.options) \cup {held} => ps[i] = h.parts[i]
  OBVIOUS
<1> HIDE DEF ts, ps
<1>6. c = [options |-> h.options, tables |-> ts, parts |-> ps, properties |-> h.properties]
  BY <1>1, <1>2
<1> HIDE DEF c
<1>7. /\ c = [options |-> c.options, tables |-> c.tables, parts |-> c.parts, properties |-> c.properties]
      /\ c.options = h.options /\ c.tables = ts /\ c.parts = ps
  BY <1>6
<1>8. IsHeap(c)
  BY <1>1, <1>3, <1>7 DEF IsHeap
<1>9. \A p \in Objects : Table(c, p) = Table(h, p)
  BY <1>1, <1>4, <1>7 DEF Table, InUse
<1>10. \A p \in Objects : \A k \in ArraysOf(h, p) :
          Table(h, p)[k] \in PartIds /\ Table(h, p)[k] \in PartsOf(h.tables, h.options)
  BY TableIs, PartsOfIs
<1>11. /\ c.parts[held] = h.parts[held]
       /\ \A p \in Objects : \A k \in ArraysOf(h, p) :
             c.parts[Table(h, p)[k]] = h.parts[Table(h, p)[k]]
  BY <1>5, <1>7, <1>10
<1> QED
  BY <1>7, <1>8, <1>9, <1>11 DEF c

LEMMA Committed ==
  ASSUME NEW h, IsHeap(h), Filled(h), Apart(h, held, kin'), held \in PartIds,
         Commit(h), held' = held, told' = [m \in Members |-> told'[m]], ToldOK(h, held, told', kin')
  PROVE  OInv'
<1> DEFINE c == Collected(h)
           K == kin'
           g == Heap'
<1>1. /\ IsHeap(c) /\ c.options = h.options /\ c.parts[held] = h.parts[held]
      /\ \A p \in Objects : Table(c, p) = Table(h, p)
      /\ \A p \in Objects : \A k \in ArraysOf(h, p) :
            c.parts[Table(h, p)[k]] = h.parts[Table(h, p)[k]]
  BY CollectedIs
<1>2. g = c
  <2>1. options' = c.options /\ tables' = c.tables /\ parts' = c.parts /\ properties' = c.properties
    BY DEF Commit
  <2> HIDE DEF c
  <2>2. c = [options |-> c.options, tables |-> c.tables, parts |-> c.parts, properties |-> c.properties]
    BY <1>1 DEF IsHeap
  <2> QED
    BY <2>1, <2>2 DEF Heap
<1> HIDE DEF c
<1>3. \A p \in Objects : ArraysOf(c, p) = ArraysOf(h, p)
  BY <1>1 DEF ArraysOf
<1>4. Filled(c)
  BY <1>1, <1>3 DEF Filled
<1>5. Apart(c, held, K)
  BY <1>1, JoinedApart
<1>6. \A p \in Objects : View(c, p) = View(h, p)
  <2> TAKE p \in Objects
  <2>1. Table(c, p) = Table(h, p)
    BY <1>1
  <2>2. \A k \in DOMAIN Table(h, p) : k \in Parts => c.parts[Table(h, p)[k]] = h.parts[Table(h, p)[k]]
    BY <1>1 DEF ArraysOf
  <2> QED
    BY <2>1, <2>2 DEF View
<1>7. ToldOK(c, held, told', K)
  BY <1>1, <1>6 DEF ToldOK
<1> HIDE DEF g
<1>8. /\ IsHeap(g) /\ held' \in PartIds /\ told' = [m \in Members |-> told'[m]]
      /\ Filled(g) /\ Apart(g, held', K) /\ ToldOK(g, held', told', K)
  BY <1>1, <1>2, <1>4, <1>5, <1>7
<1>9. Heap' = g
  BY DEF g
<1> QED
  BY <1>8, <1>9 DEF OInv, g, K

\* Sharing more.
LEMMA ApartMore ==
  ASSUME NEW h, NEW v, NEW K, Apart(h, v, K), NEW L, K \subseteq L
  PROVE  Apart(h, v, L)
  BY DEF Apart, Alone

LEMMA ToldMore ==
  ASSUME NEW h, NEW v, NEW says, NEW K, ToldOK(h, v, says, K), NEW L, K \subseteq L
  PROVE  ToldOK(h, v, says, L)
  BY DEF ToldOK, Follows

LEMMA ToldMoves ==
  ASSUME NEW h, NEW r, NEW v, NEW K, NEW o \in Objects, NEW w, NEW says, NEW new,
         says = [m \in Members |-> says[m]], ToldOK(h, v, says, K), OthersKeep(h, r, v, K, o),
         Follows(View(r, o), w, o \notin K), new = [says EXCEPT ![o] = w]
  PROVE  ToldOK(r, v, new, K) /\ new = [m \in Members |-> new[m]]
<1>1. new = [m \in Members |-> IF m = o THEN w ELSE says[m]]
  BY DEF Members
<1>2. ASSUME NEW p \in Objects PROVE Follows(View(r, p), new[p], p \notin K)
  <2>1. CASE p = o
    BY <1>1, <2>1 DEF Members
  <2>2. CASE p # o
    <3> DEFINE own == p \notin K
    <3>1. own \in BOOLEAN
      OBVIOUS
    <3>2. Follows(View(r, p), View(h, p), own) /\ Follows(View(h, p), says[p], own)
      BY <2>2 DEF OthersKeep, ToldOK
    <3> HIDE DEF own
    <3>3. Follows(View(r, p), says[p], own)
      BY <3>1, <3>2, FollowsOn
    <3>4. new[p] = says[p]
      BY <1>1, <2>2 DEF Members
    <3> QED
      BY <3>3, <3>4 DEF own
  <2> QED
    BY <2>1, <2>2
<1>3. Variable \notin K => r.parts[v] = new[Variable]
  <2>1. Variable \in Members /\ Variable # o
    BY OptionsAssumption DEF Members
  <2> QED
    BY <1>1, <2>1 DEF OthersKeep, ToldOK
<1> QED
  BY <1>1, <1>2, <1>3 DEF ToldOK

\* A call that leaves the others what they have.
LEMMA CallKeeps ==
  ASSUME OInv, NEW h, NEW r, NEW o \in Objects, NEW w,
         ToldOK(h, held, told, kin'), OthersKeep(h, r, held, kin', o),
         Follows(View(r, o), w, o \notin kin'), Commit(r), held' = held, Tell(o, w)
  PROVE  OInv'
<1> DEFINE K == kin'
           new == told'
<1>1. told = [m \in Members |-> told[m]] /\ held \in PartIds
  BY DEF OInv
<1>2. new = [told EXCEPT ![o] = w]
  BY DEF Tell
<1> HIDE DEF new
<1>3. ToldOK(r, held, new, K) /\ new = [m \in Members |-> new[m]]
  BY <1>1, <1>2, ToldMoves
<1>4. IsHeap(r) /\ Filled(r) /\ Apart(r, held, K)
  BY DEF OthersKeep
<1> QED
  BY <1>1, <1>3, <1>4, Committed DEF new

\* An object without options shares nothing.
LEMMA Emptied ==
  ASSUME NEW h, IsHeap(h), Filled(h), NEW v \in PartIds, NEW K, Apart(h, v, K), NEW o \in Objects
  PROVE  LET r == Replace(h, o, NoOptions)
         IN OthersKeep(h, r, v, K \ {o}, o) /\ View(r, o) = NoOptions
<1> DEFINE r == Replace(h, o, NoOptions)
           t == NoOptions
           L == K \ {o}
<1>1. IsTable(t) /\ DOMAIN t = {}
  BY NoOptionsIs
<1>2. t = [k \in {} |-> 0]
  BY DEF NoOptions
<1> HIDE DEF t
<1>3. Moved(h, r, o, t) /\ r.parts = h.parts
  BY <1>1, ReplaceIs DEF t
<1> HIDE DEF r
<1>4. /\ IsHeap(r) /\ Table(r, o) = t
      /\ \A p \in Objects \ {o} : /\ Table(r, p) = Table(h, p)
                                  /\ r.options[p] = h.options[p] /\ r.options[p] # r.options[o]
  BY <1>3 DEF Moved
<1>5. ArraysOf(r, o) = {} /\ \A p \in Objects \ {o} : ArraysOf(r, p) = ArraysOf(h, p)
  BY <1>1, <1>4 DEF ArraysOf
<1>6. ASSUME NEW p \in Objects, NEW k \in ArraysOf(r, p) PROVE Alone(r, v, L, p, k, Table(r, p)[k])
  <2>1. p # o
    BY <1>5
  <2>2. Alone(h, v, K, p, k, Table(r, p)[k])
    BY <1>4, <1>5, <2>1 DEF Apart
  <2>3. Variable # o
    BY OptionsAssumption
  <2> QED
    BY <1>4, <1>5, <2>1, <2>2, <2>3 DEF Alone
<1>7. \A p, q \in Objects : p # q /\ r.options[p] = r.options[q] => p \in L /\ q \in L
  BY <1>4 DEF Apart
<1>8. Apart(r, v, L)
  BY <1>6, <1>7 DEF Apart
<1>9. Filled(r)
  BY <1>3, <1>4, <1>5 DEF Filled
<1>10. \A p \in Objects \ {o} : Follows(View(r, p), View(h, p), p \notin L)
  <2> TAKE p \in Objects \ {o}
  <2>1. View(r, p) = View(h, p)
    BY <1>3, MovedOthers
  <2> QED
    BY <2>1, FollowsItself
<1>11. View(r, o) = t
  BY <1>1, <1>2, <1>4 DEF View
<1> QED
  BY <1>3, <1>4, <1>8, <1>9, <1>10, <1>11 DEF OthersKeep, r, t

\* New arrays in free places.
WithParts(h, ps) == h = [Heap EXCEPT !.parts = ps] /\ \A i \in PartIds : ~Free(i) => ps[i] = parts[i]

LEMMA Placed ==
  ASSUME OInv, NEW h, NEW ps \in [PartIds -> Arrays], WithParts(h, ps)
  PROVE  /\ IsHeap(h) /\ h.options = options /\ h.tables = tables /\ h.parts = ps
         /\ \A p \in Objects : Table(h, p) = Table(Heap, p) /\ ArraysOf(h, p) = ArraysOf(Heap, p)
         /\ Filled(h) /\ Apart(h, held, kin) /\ ToldOK(h, held, told, kin)
         /\ h.parts[held] = parts[held]
         /\ \A p \in Objects : View(h, p) = View(Heap, p)
<1>1. /\ Heap.options = options /\ Heap.tables = tables /\ Heap.parts = parts /\ Heap.properties = properties
      /\ Heap = [options |-> Heap.options, tables |-> Heap.tables, parts |-> Heap.parts,
                 properties |-> Heap.properties]
  BY DEF Heap
<1>2. h = [options |-> options, tables |-> tables, parts |-> ps, properties |-> properties]
  BY <1>1 DEF WithParts
<1>3. /\ h = [options |-> h.options, tables |-> h.tables, parts |-> h.parts, properties |-> h.properties]
      /\ h.options = options /\ h.tables = tables /\ h.parts = ps
  BY <1>2, HeapHas
<1>4. IsHeap(Heap) /\ held \in PartIds /\ Filled(Heap) /\ Apart(Heap, held, kin) /\ ToldOK(Heap, held, told, kin)
  BY DEF OInv
<1>5. IsHeap(h)
  BY <1>1, <1>3, <1>4 DEF IsHeap
<1>6. \A p \in Objects : Table(h, p) = Table(Heap, p)
  BY <1>1, <1>3 DEF Table
<1>7. \A p \in Objects : ArraysOf(h, p) = ArraysOf(Heap, p)
  BY <1>6 DEF ArraysOf
<1>8. \A p \in Objects : \A k \in ArraysOf(Heap, p) : Table(Heap, p)[k] \in PartIds
  BY <1>4, TableIs
<1>0. \A i \in PartIds : ~Free(i) => ps[i] = parts[i]
  BY DEF WithParts
<1>9. \A p \in Objects : \A k \in ArraysOf(Heap, p) : h.parts[Table(Heap, p)[k]] = Heap.parts[Table(Heap, p)[k]]
  BY <1>0, <1>1, <1>3, <1>8 DEF Free
<1>10. h.parts[held] = parts[held]
  BY <1>0, <1>3, <1>4 DEF Free
<1>11. Filled(h)
  BY <1>4, <1>6, <1>7, <1>9 DEF Filled
<1>12. Apart(h, held, kin)
  BY <1>1, <1>3, <1>4, <1>6, JoinedApart
<1>13. \A p \in Objects : View(h, p) = View(Heap, p)
  <2> TAKE p \in Objects
  <2>1. Table(h, p) = Table(Heap, p)
    BY <1>6
  <2>2. \A k \in DOMAIN Table(Heap, p) : k \in Parts =>
           h.parts[Table(Heap, p)[k]] = Heap.parts[Table(Heap, p)[k]]
    BY <1>9 DEF ArraysOf
  <2> QED
    BY <2>1, <2>2 DEF View
<1>14. ToldOK(h, held, told, kin)
  BY <1>1, <1>4, <1>10, <1>13 DEF ToldOK
<1> QED
  BY <1>3, <1>5, <1>6, <1>7, <1>10, <1>11, <1>12, <1>13, <1>14

-----------------------------------------------------------------------------
(* The calls *)

LEMMA FreshIs ==
  ASSUME OInv
  PROVE  FreshPart \in PartIds /\ Free(FreshPart)
<1>1. FreeParts # {}
  BY EnoughFree DEF OInv
<1>2. FreshPart \in FreeParts
  BY <1>1 DEF FreshPart
<1> QED
  BY <1>2, FreeIs DEF Free

LEMMA SetPartKeeps ==
  ASSUME OInv, NEW o \in Objects, NEW key \in Parts, NEW content \in Contents, NEW ow \in BOOLEAN,
         SetPart(o, key, content, ow)
  PROVE  OInv'
<1> DEFINE i == FreshPart
           ps == [parts EXCEPT ![i] = content]
           h == [Heap EXCEPT !.parts = ps]
           r == SetSubr(h, o, key, i, ow)
           w == ToldPart(told[o], key, content, ow)
           own == o \notin kin
<1>1. IsHeap(Heap) /\ held \in PartIds /\ parts \in [PartIds -> Arrays] /\ Heap.parts = parts
      /\ ToldOK(Heap, held, told, kin)
  BY DEF OInv, IsHeap, Heap
<1>2. i \in PartIds /\ Free(i)
  BY FreshIs
<1>3. content \in Arrays
  BY OptionsAssumption
<1>4. [Heap EXCEPT !.parts[i] = content] = h
  BY <1>1
<1>5. Commit(r) /\ Tell(o, w) /\ held' = held /\ kin' = kin
  BY <1>4 DEF SetPart
<1> HIDE DEF i
<1>6. ps \in [PartIds -> Arrays] /\ ps[i] = content /\ \A j \in PartIds : j # i => ps[j] = parts[j]
  BY <1>1, <1>2, <1>3
<1> HIDE DEF ps
<1>7. WithParts(h, ps)
  BY <1>2, <1>6 DEF WithParts
<1> HIDE DEF h
<1>8. /\ IsHeap(h) /\ h.parts = ps
      /\ \A p \in Objects : Table(h, p) = Table(Heap, p) /\ ArraysOf(h, p) = ArraysOf(Heap, p)
      /\ Filled(h) /\ Apart(h, held, kin) /\ ToldOK(h, held, told, kin)
  BY <1>6, <1>7, Placed
<1>9. Alone(h, held, kin, o, key, i)
  BY <1>2, <1>8 DEF Alone, Free
<1>10. SubrDone(h, r, held, kin, o, key, i) /\ Follows(View(r, o), ToldPart(View(h, o), key, content, ow), own)
  <2>1. h.parts[i] = content
    BY <1>6, <1>8
  <2> QED
    BY <1>1, <1>2, <1>8, <1>9, <2>1, SetSubrIs
<1> HIDE DEF r
<1>11. OthersKeep(h, r, held, kin, o)
  BY <1>10 DEF SubrDone, OthersKeep
<1>12. Follows(View(r, o), w, own)
  <2> DEFINE a == View(r, o)
             b == ToldPart(View(h, o), key, content, ow)
  <2>1. own \in BOOLEAN /\ Follows(View(h, o), told[o], own)
    BY <1>8 DEF ToldOK
  <2> HIDE DEF own
  <2>2. Follows(b, w, own)
    BY <2>1, FollowsPart
  <2>3. Follows(a, b, own)
    BY <1>10
  <2> HIDE DEF a, b, w
  <2>4. Follows(a, w, own)
    BY <2>1, <2>2, <2>3, FollowsOn
  <2> QED
    BY <2>4 DEF a
<1> HIDE DEF w
<1> QED
  BY <1>5, <1>8, <1>11, <1>12, CallKeeps

LEMMA CloneOptionsKeeps ==
  ASSUME OInv, NEW o \in Objects, NEW p \in Objects, CloneOptions(o, p)
  PROVE  OInv'
<1> DEFINE os == [options EXCEPT ![p] = options[o]]
           h == [Heap EXCEPT !.options = os]
           K == kin \cup {o, p}
           new == told'
<1>1. /\ Heap.options = options /\ Heap.tables = tables /\ Heap.parts = parts /\ Heap.properties = properties
      /\ Heap = [options |-> Heap.options, tables |-> Heap.tables, parts |-> Heap.parts,
                 properties |-> Heap.properties]
  BY DEF Heap
<1>2. /\ IsHeap(Heap) /\ held \in PartIds /\ Filled(Heap) /\ Apart(Heap, held, kin) /\ ToldOK(Heap, held, told, kin)
      /\ told = [m \in Members |-> told[m]]
  BY DEF OInv
<1>3. options \in [Objects -> Tables]
  BY <1>1, <1>2 DEF IsHeap
<1>4. os \in [Objects -> Tables] /\ \A q \in Objects : os[q] = IF q = p THEN options[o] ELSE options[q]
  BY <1>3
<1>5. Commit(h) /\ held' = held /\ kin' = K /\ o # p /\ new = [told EXCEPT ![p] = told[o]]
  <2>1. h = [Heap EXCEPT !.options[p] = options[o]]
    BY <1>1
  <2> QED
    BY <2>1 DEF CloneOptions, Share, Tell
<1> HIDE DEF os, K, new
<1>6. h = [options |-> os, tables |-> tables, parts |-> parts, properties |-> properties]
  BY <1>1
<1> HIDE DEF h
<1>7. /\ h = [options |-> h.options, tables |-> h.tables, parts |-> h.parts, properties |-> h.properties]
      /\ h.options = os /\ h.tables = tables /\ h.parts = parts
  BY <1>6
<1>8. IsHeap(h)
  BY <1>1, <1>2, <1>4, <1>7 DEF IsHeap
<1>9. \A q \in Objects : Table(h, q) = IF q = p THEN Table(Heap, o) ELSE Table(Heap, q)
  BY <1>1, <1>4, <1>7 DEF Table
<1>10. \A q \in Objects : ArraysOf(h, q) = IF q = p THEN ArraysOf(Heap, o) ELSE ArraysOf(Heap, q)
  BY <1>9 DEF ArraysOf
<1>11. \A q \in Objects : View(h, q) = IF q = p THEN View(Heap, o) ELSE View(Heap, q)
  BY <1>1, <1>7, <1>9 DEF View
<1>12. Filled(h)
  BY <1>1, <1>2, <1>7, <1>9, <1>10 DEF Filled
<1>13. ASSUME NEW q \in Objects, NEW k \in ArraysOf(h, q) PROVE Alone(h, held, K, q, k, Table(h, q)[k])
  <2> DEFINE of(s) == IF s = p THEN o ELSE s
  <2>1. \A s \in Objects : of(s) \in Objects /\ Table(h, s) = Table(Heap, of(s)) /\ ArraysOf(h, s) = ArraysOf(Heap, of(s))
    BY <1>9, <1>10
  <2>2. Alone(Heap, held, kin, of(q), k, Table(h, q)[k])
    BY <1>2, <1>13, <2>1 DEF Apart
  <2>3. \A s \in Objects : of(s) \in kin => s \in K
    BY DEF K
  <2>4. \A s \in Objects : s # q /\ of(s) = of(q) => s \in K /\ q \in K
    BY DEF K
  <2>5. Variable \in kin => Variable \in K
    BY DEF K
  <2> HIDE DEF of
  <2> QED
    BY <1>13, <2>1, <2>2, <2>3, <2>4, <2>5 DEF Alone
<1>14. \A q, s \in Objects : q # s /\ h.options[q] = h.options[s] => q \in K /\ s \in K
  BY <1>1, <1>2, <1>4, <1>7 DEF Apart, K
<1>15. Apart(h, held, K)
  BY <1>13, <1>14 DEF Apart
<1>16. new = [m \in Members |-> IF m = p THEN told[o] ELSE told[m]]
  BY <1>2, <1>5 DEF Members
<1>17. ToldOK(h, held, new, K)
  <2>1. ASSUME NEW q \in Objects PROVE Follows(View(h, q), new[q], q \notin K)
    <3>1. new[q] = IF q = p THEN told[o] ELSE told[q]
      BY <1>16 DEF Members
    <3>2. CASE q = p
      <4>1. Follows(View(Heap, o), told[o], o \notin kin) /\ q \in K
        BY <1>2, <3>2 DEF ToldOK, K
      <4> QED
        BY <1>11, <3>1, <3>2, <4>1 DEF Follows
    <3>3. CASE q # p
      <4>1. Follows(View(Heap, q), told[q], q \notin kin) /\ (q \in kin => q \in K)
        BY <1>2 DEF ToldOK, K
      <4> QED
        BY <1>11, <3>1, <3>3, <4>1 DEF Follows
    <3> QED
      BY <3>2, <3>3
  <2>2. Variable \notin K => h.parts[held] = new[Variable]
    <3>1. Variable \in Members /\ Variable # p
      BY OptionsAssumption DEF Members
    <3> QED
      BY <1>1, <1>2, <1>7, <1>16, <3>1 DEF ToldOK, K
  <2> QED
    BY <2>1, <2>2 DEF ToldOK
<1>18. new = [m \in Members |-> new[m]]
  BY <1>16
<1> QED
  BY <1>2, <1>5, <1>8, <1>12, <1>15, <1>17, <1>18, Committed DEF new

LEMMA AssignKeeps ==
  ASSUME OInv, NEW content \in Contents, Assign(content)
  PROVE  OInv'
<1> DEFINE i == FreshPart
           ps == [j \in PartIds |-> IF j = i THEN content
                                    ELSE IF j \in PartsOf(tables, options) THEN parts[j] ELSE NoOptions]
           h == Heap'
           K == kin \ {Variable}
           new == told'
<1>1. /\ IsHeap(Heap) /\ Filled(Heap) /\ Apart(Heap, held, kin) /\ ToldOK(Heap, held, told, kin)
      /\ told = [m \in Members |-> told[m]] /\ parts \in [PartIds -> Arrays]
  BY DEF OInv, IsHeap, Heap
<1>2. i \in PartIds /\ Free(i)
  BY FreshIs
<1>3. content \in Arrays /\ NoOptions \in Arrays
  BY OptionsAssumption, NoOptionsIs
<1>4. /\ held' = i /\ parts' = ps /\ new = [told EXCEPT ![Variable] = content] /\ kin' = K
      /\ options' = options /\ tables' = tables /\ properties' = properties
  BY DEF Assign, Tell, Part
<1>5. /\ ps \in [PartIds -> Arrays] /\ ps[i] = content
      /\ \A j \in PartIds : j # i /\ j \in PartsOf(tables, options) => ps[j] = parts[j]
  <2> HIDE DEF i
  <2> QED
    BY <1>1, <1>2, <1>3
<1> HIDE DEF i, ps, new
<1>6. /\ h.options = Heap.options /\ h.tables = Heap.tables /\ h.parts = ps /\ Heap.parts = parts
      /\ h = [options |-> h.options, tables |-> h.tables, parts |-> h.parts, properties |-> h.properties]
      /\ Heap.tables = tables /\ Heap.options = options
  BY <1>4 DEF Heap
<1>7. Heap' = h
  OBVIOUS
<1> HIDE DEF h
<1>8. IsHeap(h)
  BY <1>1, <1>5, <1>6 DEF IsHeap
<1>9. \A p \in Objects : Table(h, p) = Table(Heap, p)
  BY <1>6 DEF Table
<1>10. \A p \in Objects : ArraysOf(h, p) = ArraysOf(Heap, p)
  BY <1>9 DEF ArraysOf
<1>11. \A p \in Objects : \A k \in ArraysOf(Heap, p) :
          h.parts[Table(Heap, p)[k]] = Heap.parts[Table(Heap, p)[k]]
  <2>1. \A p \in Objects : \A k \in ArraysOf(Heap, p) :
           /\ Table(Heap, p)[k] \in PartIds /\ Table(Heap, p)[k] \in PartsOf(tables, options)
           /\ Table(Heap, p)[k] # i
    BY <1>1, <1>2, <1>6, TableIs, PartsOfIs DEF Free
  <2> QED
    BY <1>5, <1>6, <2>1
<1>12. Filled(h)
  BY <1>1, <1>9, <1>10, <1>11 DEF Filled
<1>13. \A p \in Objects : View(h, p) = View(Heap, p)
  <2> TAKE p \in Objects
  <2>1. Table(h, p) = Table(Heap, p)
    BY <1>9
  <2>2. \A k \in DOMAIN Table(Heap, p) : k \in Parts =>
           h.parts[Table(Heap, p)[k]] = Heap.parts[Table(Heap, p)[k]]
    BY <1>11 DEF ArraysOf
  <2> QED
    BY <2>1, <2>2 DEF View
<1>14. \A p \in Objects : (p \in K <=> p \in kin) /\ p # Variable
  BY OptionsAssumption
<1>15. Apart(h, i, K)
  <2>1. ASSUME NEW p \in Objects, NEW k \in ArraysOf(h, p) PROVE Alone(h, i, K, p, k, Table(h, p)[k])
    <3>1. Alone(Heap, held, kin, p, k, Table(h, p)[k])
      BY <1>1, <1>9, <1>10, <2>1 DEF Apart
    <3>2. Table(h, p)[k] # i
      BY <1>2, <1>9, <1>10, <2>1 DEF Free
    <3> HIDE DEF K
    <3> QED
      BY <1>9, <1>10, <1>14, <3>1, <3>2 DEF Alone
  <2> HIDE DEF K
  <2>2. \A p, q \in Objects : p # q /\ h.options[p] = h.options[q] => p \in K /\ q \in K
    BY <1>1, <1>6, <1>14 DEF Apart
  <2> QED
    BY <2>1, <2>2 DEF Apart
<1>16. new = [m \in Members |-> IF m = Variable THEN content ELSE told[m]]
  BY <1>1, <1>4 DEF Members
<1>17. ToldOK(h, i, new, K)
  <2>1. h.parts[i] = new[Variable]
    <3>1. Variable \in Members
      BY DEF Members
    <3> QED
      BY <1>5, <1>6, <1>16, <3>1
  <2>2. \A p \in Objects : new[p] = told[p]
    BY <1>14, <1>16 DEF Members
  <2> HIDE DEF K
  <2>3. \A p \in Objects : Follows(View(h, p), new[p], p \notin K)
    BY <1>1, <1>13, <1>14, <2>2 DEF ToldOK
  <2> QED
    BY <2>1, <2>3 DEF ToldOK
<1>18. new = [m \in Members |-> new[m]]
  BY <1>16
<1> HIDE DEF K
<1>19. /\ IsHeap(h) /\ held' \in PartIds /\ new = [m \in Members |-> new[m]]
       /\ Filled(h) /\ Apart(h, held', kin') /\ ToldOK(h, held', new, kin')
  BY <1>2, <1>4, <1>8, <1>12, <1>15, <1>17, <1>18
<1> QED
  BY <1>7, <1>19 DEF OInv, new

\* Arrays given: which of them are new, and where they are put.
NewIn(given) == {i \in DOMAIN given : given[i].key \in Parts /\ given[i].val \notin {Unset, Variable}}
PlacesOf(given) == CHOOSE f \in [NewIn(given) -> FreeParts] : IsInjective(f)
PutAt(given, at, p) == IF \E i \in NewIn(given) : at[i] = p
                       THEN given[CHOOSE i \in NewIn(given) : at[i] = p].val ELSE parts[p]
GivenAs(given, at, i) ==
  IF i \in NewIn(given) THEN [key |-> given[i].key, val |-> at[i]]
  ELSE IF given[i].key \in Parts /\ given[i].val = Variable THEN [key |-> given[i].key, val |-> held]
  ELSE given[i]

LEMMA LoadedAs ==
  ASSUME NEW given
  PROVE  LET at == PlacesOf(given)
         IN Loaded(given) =
              [heap |-> [Heap EXCEPT !.parts = [p \in PartIds |-> PutAt(given, at, p)]],
               given |-> [i \in DOMAIN given |-> GivenAs(given, at, i)]]
<1>1. Heap.parts = parts /\ Heap = [options |-> Heap.options, tables |-> Heap.tables,
                                    parts |-> Heap.parts, properties |-> Heap.properties]
  BY DEF Heap
<1> QED
  BY <1>1 DEF Loaded, PlacesOf, NewIn, PutAt, GivenAs

LEMMA GivenIs ==
  ASSUME NEW given \in GivenOptions
  PROVE  /\ Len(given) \in Nat /\ given = [i \in 1..Len(given) |-> given[i]]
         /\ \A i, j \in 1..Len(given) : given[i].key = given[j].key => i = j
         /\ \A i \in 1..Len(given) :
               /\ given[i].key \in Keys
               /\ given[i].key \in Parts => given[i].val \in Arrays \cup {Unset, Variable}
  BY OptionsAssumption

LEMMA PlacesAre ==
  ASSUME OInv, NEW given \in GivenOptions
  PROVE  PlacesOf(given) \in [NewIn(given) -> FreeParts] /\ IsInjective(PlacesOf(given))
<1> DEFINE new == NewIn(given)
           f == [i \in new |-> given[i].key]
<1>1. /\ Len(given) \in Nat /\ DOMAIN given = 1 .. Len(given)
      /\ \A i, j \in 1..Len(given) : given[i].key = given[j].key => i = j
  BY GivenIs
<1>2. f \in [new -> Parts] /\ \A i, j \in new : f[i] = f[j] => i = j
  BY <1>1 DEF NewIn
<1>3. f \in Injection(new, Parts)
  BY <1>2 DEF Injection, IsInjective
<1>4. /\ IsFiniteSet(FreeParts) /\ IsFiniteSet(Parts)
      /\ Cardinality(Parts) <= Cardinality(FreeParts)
  BY EnoughFree DEF OInv
<1> HIDE DEF f, new
<1>5. IsFiniteSet(new) /\ Cardinality(new) <= Cardinality(Parts)
  BY <1>3, <1>4, FS_Injection
<1>6. Cardinality(new) <= Cardinality(FreeParts)
  <2>1. Cardinality(new) \in Nat /\ Cardinality(Parts) \in Nat /\ Cardinality(FreeParts) \in Nat
    BY <1>4, <1>5, FS_CardinalityType
  <2> QED
    BY <1>4, <1>5, <2>1
<1>7. \E at \in [new -> FreeParts] : IsInjective(at)
  BY <1>4, <1>5, <1>6, InjectionExists
<1> QED
  BY <1>7 DEF PlacesOf, new

LEMMA LoadedIs ==
  ASSUME OInv, NEW given \in GivenOptions, NEW o \in Objects, NEW K, kin \subseteq K,
         \A i \in DOMAIN given : given[i].val = Variable => o \in K /\ Variable \in K
  PROVE  LET h == Loaded(given).heap
         IN /\ IsHeap(h) /\ Filled(h) /\ Apart(h, held, kin) /\ ToldOK(h, held, told, kin)
            /\ Asks(h, held, K, o, Loaded(given).given, given)
            /\ Loaded(given).given = <<>> <=> given = <<>>
<1> DEFINE at == PlacesOf(given)
           new == NewIn(given)
           ps == [p \in PartIds |-> PutAt(given, at, p)]
           h == [Heap EXCEPT !.parts = ps]
           g == [i \in DOMAIN given |-> GivenAs(given, at, i)]
           n == Len(given)
           L == Loaded(given)
<1>1. L = [heap |-> h, given |-> g]
  BY LoadedAs
<1>2. L.heap = h /\ L.given = g
  BY <1>1
<1>3. at \in [new -> FreeParts] /\ IsInjective(at)
  BY PlacesAre
<1> HIDE DEF L, at
<1>4. /\ IsHeap(Heap) /\ held \in PartIds /\ parts \in [PartIds -> Arrays] /\ Apart(Heap, held, kin)
  BY DEF OInv, IsHeap, Heap
<1>5. /\ n \in Nat /\ given = [i \in 1..n |-> given[i]] /\ DOMAIN given = 1 .. n
      /\ \A i, j \in 1..n : given[i].key = given[j].key => i = j
      /\ \A i \in 1..n :
            /\ given[i].key \in Keys
            /\ given[i].key \in Parts => given[i].val \in Arrays \cup {Unset, Variable}
  BY GivenIs
<1> HIDE DEF n
<1>6. \A i \in new : at[i] \in PartIds /\ Free(at[i])
  BY <1>3, FreeIs DEF Free
<1>7. \A i, j \in new : at[i] = at[j] => i = j
  BY <1>3 DEF IsInjective
<1>8. \A i \in new : i \in 1 .. n /\ given[i].key \in Parts /\ given[i].val \in Arrays
                     /\ given[i].val # Unset /\ given[i].val # Variable
  BY <1>5 DEF NewIn
<1>9. \A i \in new : ps[at[i]] = given[i].val
  <2> TAKE i \in new
  <2>1. (CHOOSE j \in new : at[j] = at[i]) = i
    BY <1>7
  <2> QED
    BY <1>6, <2>1 DEF PutAt
<1>10. \A p \in PartIds : ~Free(p) => ps[p] = parts[p]
  BY <1>6 DEF PutAt
<1>11. ps \in [PartIds -> Arrays]
  <2> SUFFICES ASSUME NEW p \in PartIds PROVE ps[p] \in Arrays
    OBVIOUS
  <2>1. CASE \E i \in new : at[i] = p
    BY <1>8, <1>9, <2>1
  <2>2. CASE ~ \E i \in new : at[i] = p
    BY <1>4, <2>2 DEF PutAt
  <2> QED
    BY <2>1, <2>2
<1> HIDE DEF ps
<1>12. WithParts(h, ps)
  BY <1>10 DEF WithParts
<1> HIDE DEF h
<1>13. /\ IsHeap(h) /\ h.parts = ps
       /\ \A p \in Objects : Table(h, p) = Table(Heap, p) /\ ArraysOf(h, p) = ArraysOf(Heap, p)
       /\ Filled(h) /\ Apart(h, held, kin) /\ ToldOK(h, held, told, kin)
       /\ h.parts[held] = parts[held]
  BY <1>10, <1>11, <1>12, Placed
<1>14. Len(g) = n /\ g = [i \in 1 .. n |-> g[i]] /\ \A i \in 1 .. n : g[i] = GivenAs(given, at, i)
  BY <1>5
<1>15. \A i \in 1 .. n : i \in new <=> given[i].key \in Parts /\ given[i].val \notin {Unset, Variable}
  BY <1>5 DEF NewIn
<1> HIDE DEF new, g
<1>16. \A i \in new : g[i].key = given[i].key /\ g[i].val = at[i]
  BY <1>8, <1>14 DEF GivenAs, new
<1>17. ASSUME NEW i \in 1 .. n, given[i].key \in Parts, given[i].val = Variable
       PROVE  g[i].key = given[i].key /\ g[i].val = held
  <2>1. i \notin new
    BY <1>15, <1>17
  <2>2. g[i] = [key |-> given[i].key, val |-> held]
    BY <1>14, <1>17, <2>1 DEF GivenAs, new
  <2> QED
    BY <2>2
<1>18. ASSUME NEW i \in 1 .. n, ~(given[i].key \in Parts /\ given[i].val # Unset) PROVE g[i] = given[i]
  <2>1. i \notin new /\ ~(given[i].key \in Parts /\ given[i].val = Variable)
    BY <1>15, <1>18, OptionsAssumption
  <2> QED
    BY <1>14, <2>1 DEF GivenAs, new
<1>19. \A i \in PartIds : i # Unset
  BY OptionsAssumption DEF PartIds
<1>20. ASSUME NEW i \in 1 .. n
       PROVE  /\ g[i].key = given[i].key /\ g[i].key \in Keys
              /\ g[i].key \notin Parts => g[i].val = given[i].val
              /\ g[i].key \in Parts => (g[i].val = Unset <=> given[i].val = Unset)
              /\ IsPart(g[i]) => g[i].val \in PartIds /\ Pending(h, held, K, o, g[i], given[i])
  <2>1. CASE i \in new
    <3>1. g[i].val \in PartIds /\ Free(g[i].val) /\ g[i].key = given[i].key /\ h.parts[g[i].val] = given[i].val
      BY <1>6, <1>9, <1>13, <1>16, <2>1
    <3>2. Alone(h, held, K, o, g[i].key, g[i].val)
      BY <1>13, <3>1 DEF Alone, Free
    <3>3. Said(given[i]) = given[i].val
      BY <1>8, <2>1 DEF Said
    <3> QED
      BY <1>5, <1>8, <1>19, <2>1, <3>1, <3>2, <3>3 DEF Pending
  <2>2. CASE given[i].key \in Parts /\ given[i].val = Variable
    <3>1. g[i].val = held /\ g[i].key = given[i].key /\ o \in K /\ Variable \in K
      BY <1>5, <1>17, <2>2
    <3>2. Alone(h, held, K, o, g[i].key, g[i].val)
      <4> SUFFICES ASSUME NEW p \in Objects, NEW l \in ArraysOf(h, p), Table(h, p)[l] = held
                   PROVE  p \in K
        BY <3>1 DEF Alone
      <4>1. Alone(h, held, kin, p, l, Table(h, p)[l])
        BY <1>13 DEF Apart
      <4> QED
        BY <4>1 DEF Alone
    <3>3. Said(given[i]) = parts[held]
      BY <2>2 DEF Said
    <3>4. given[i].val # Unset
      BY <2>2, OptionsAssumption
    <3> QED
      BY <1>4, <1>5, <1>13, <1>19, <2>2, <3>1, <3>2, <3>3, <3>4 DEF Pending
  <2>3. CASE ~(given[i].key \in Parts /\ given[i].val # Unset)
    <3>1. g[i] = given[i] /\ ~IsPart(g[i])
      BY <1>18, <2>3 DEF IsPart
    <3> QED
      BY <1>5, <3>1
  <2> QED
    BY <1>15, <2>1, <2>2, <2>3
<1>21. ASSUME NEW i \in 1 .. n, NEW j \in 1 .. n, i # j
       PROVE  /\ g[i].key # g[j].key
              /\ IsPart(g[i]) /\ IsPart(g[j]) /\ g[i].val = g[j].val => o \in K
  <2>1. g[i].key # g[j].key
    BY <1>5, <1>20, <1>21
  <2>2. ASSUME IsPart(g[i]), IsPart(g[j]), g[i].val = g[j].val PROVE o \in K
    <3>1. given[i].key \in Parts /\ given[i].val # Unset /\ given[j].key \in Parts /\ given[j].val # Unset
      BY <1>20, <2>2 DEF IsPart
    <3>2. CASE given[i].val = Variable \/ given[j].val = Variable
      BY <1>5, <3>2
    <3>3. CASE given[i].val # Variable /\ given[j].val # Variable
      <4>1. i \in new /\ j \in new
        BY <1>15, <3>1, <3>3
      <4> QED
        BY <1>7, <1>16, <1>21, <2>2, <4>1
    <3> QED
      BY <3>2, <3>3
  <2> QED
    BY <2>1, <2>2
<1>22. Asks(h, held, K, o, g, given)
  <2>1. Len(g) = n /\ Len(given) = n
    BY <1>14 DEF n
  <2> QED
    BY <1>5, <1>14, <1>20, <1>21, <2>1 DEF Asks
<1>23. g = <<>> <=> given = <<>>
  <2>1. DOMAIN g = 1 .. n /\ DOMAIN given = 1 .. n
    BY <1>5, <1>14
  <2>2. DOMAIN <<>> = {}
    OBVIOUS
  <2>3. \A s : s = [i \in 1 .. n |-> s[i]] /\ 1 .. n = {} => s = <<>>
    OBVIOUS
  <2>4. g = <<>> => given = <<>>
    BY <1>5, <2>1, <2>2, <2>3
  <2>5. given = <<>> => g = <<>>
    BY <1>14, <2>1, <2>2, <2>3
  <2> QED
    BY <2>4, <2>5
<1> QED
  BY <1>2, <1>13, <1>22, <1>23 DEF L

LEMMA EmptyGiven ==
  ASSUME NEW h, NEW o
  PROVE  OptionsSet(h, o, <<>>) = Replace(h, o, NoOptions)
  BY DEF OptionsSet

\* $o->setOptions().
LEMMA EmptiedKeeps ==
  ASSUME OInv, NEW h, NEW o \in Objects,
         IsHeap(h), Filled(h), Apart(h, held, kin), ToldOK(h, held, told, kin),
         Commit(Replace(h, o, NoOptions)), held' = held, Tell(o, NoOptions), Part(o)
  PROVE  OInv'
<1> DEFINE r == Replace(h, o, NoOptions)
           K == kin \ {o}
           new == told'
<1>1. held \in PartIds /\ told = [m \in Members |-> told[m]]
  BY DEF OInv
<1>2. OthersKeep(h, r, held, K, o) /\ View(r, o) = NoOptions
  BY <1>1, Emptied
<1>3. new = [m \in Members |-> IF m = o THEN NoOptions ELSE told[m]] /\ kin' = K
  BY <1>1 DEF Tell, Part, Members
<1> HIDE DEF r, K, new
<1>4. ASSUME NEW p \in Objects PROVE Follows(View(r, p), new[p], p \notin K)
  <2>1. CASE p = o
    <3>1. new[p] = NoOptions
      BY <1>3, <2>1 DEF Members
    <3> QED
      BY <1>2, <2>1, <3>1, FollowsItself
  <2>2. CASE p # o
    <3> DEFINE own == p \notin K
    <3>1. own \in BOOLEAN /\ (p \notin kin <=> own)
      BY <2>2 DEF K
    <3>2. Follows(View(h, p), told[p], p \notin kin) /\ Follows(View(r, p), View(h, p), own)
      BY <1>2, <2>2 DEF OthersKeep, ToldOK
    <3> HIDE DEF own
    <3>3. Follows(View(h, p), told[p], own)
      BY <3>1, <3>2 DEF Follows
    <3>4. Follows(View(r, p), told[p], own)
      BY <3>1, <3>2, <3>3, FollowsOn
    <3>5. new[p] = told[p]
      BY <1>3, <2>2 DEF Members
    <3> QED
      BY <3>4, <3>5 DEF own
  <2> QED
    BY <2>1, <2>2
<1>5. Variable \notin K => r.parts[held] = new[Variable]
  <2>1. Variable \in Members /\ Variable # o
    BY OptionsAssumption DEF Members
  <2> QED
    BY <1>2, <1>3, <2>1 DEF K, OthersKeep, ToldOK
<1>6. ToldOK(r, held, new, K) /\ new = [m \in Members |-> new[m]]
  BY <1>3, <1>4, <1>5 DEF ToldOK
<1>7. IsHeap(r) /\ Filled(r) /\ Apart(r, held, K)
  BY <1>2 DEF OthersKeep
<1> QED
  BY <1>1, <1>3, <1>6, <1>7, Committed DEF new, r

LEMMA SetOptionsKeeps ==
  ASSUME OInv, NEW o \in Objects, NEW given \in GivenOptions, SetOptions(o, given)
  PROVE  OInv'
<1> DEFINE L == Loaded(given)
           h == L.heap
           g == L.given
           K == kin'
           w == Says(o, told[o], given)
           r == OptionsSet(h, o, g)
<1>1. Commit(r) /\ held' = held
  BY DEF SetOptions
<1>2. held \in PartIds
  BY DEF OInv
<1>3. CASE given = <<>>
  <2>1. Tell(o, NoOptions) /\ Part(o)
    BY <1>3 DEF SetOptions
  <2>2. \A i \in DOMAIN given : given[i].val = Variable => o \in kin \cup {o, Variable} /\ Variable \in kin \cup {o, Variable}
    OBVIOUS
  <2> DEFINE M == kin \cup {o, Variable}
  <2>3. kin \subseteq M /\ \A i \in DOMAIN given : given[i].val = Variable => o \in M /\ Variable \in M
    OBVIOUS
  <2> HIDE DEF M
  <2>4. /\ IsHeap(h) /\ Filled(h) /\ Apart(h, held, kin) /\ ToldOK(h, held, told, kin)
        /\ g = <<>>
    BY <1>3, <2>3, LoadedIs
  <2>5. r = Replace(h, o, NoOptions)
    BY <2>4, EmptyGiven
  <2> HIDE DEF h, g, r
  <2> QED
    BY <1>1, <2>1, <2>4, <2>5, EmptiedKeeps
<1>4. CASE given # <<>>
  <2>1. Tell(o, w) /\ K = IF \E i \in DOMAIN given : given[i].val = Variable THEN kin \cup {o, Variable} ELSE kin
    BY <1>4 DEF SetOptions, Says, Share
  <2>2. kin \subseteq K /\ \A i \in DOMAIN given : given[i].val = Variable => o \in K /\ Variable \in K
    BY <2>1
  <2> HIDE DEF K, w
  <2>3. /\ IsHeap(h) /\ Filled(h) /\ Apart(h, held, kin) /\ ToldOK(h, held, told, kin)
        /\ Asks(h, held, K, o, g, given)
        /\ g # <<>>
    BY <1>4, <2>2, LoadedIs
  <2> HIDE DEF h, g
  <2>4. Apart(h, held, K) /\ ToldOK(h, held, told, K)
    BY <2>2, <2>3, ApartMore, ToldMore
  <2>5. Follows(View(h, o), told[o], o \notin K)
    BY <2>4 DEF ToldOK
  <2>6. OthersKeep(h, r, held, K, o) /\ Follows(View(r, o), w, o \notin K)
    BY <1>2, <2>3, <2>4, <2>5, OptionsSetIs DEF w
  <2> HIDE DEF r
  <2> QED
    BY <1>1, <2>1, <2>4, <2>6, CallKeeps DEF K
<1> QED
  BY <1>3, <1>4

LEMMA KeysInOrder ==
  ASSUME NEW S, IsFiniteSet(S)
  PROVE  /\ Cardinality(S) \in Nat /\ SetToSeq(S) \in [1 .. Cardinality(S) -> S]
         /\ IsInjective(SetToSeq(S))
<1> DEFINE n == Cardinality(S)
<1>1. n \in Nat /\ ExistsBijection(1 .. n, S)
  BY FS_CardinalityType
<1>2. \E f \in [1 .. n -> S] : IsInjective(f)
  BY <1>1 DEF ExistsBijection, Bijection, Injection
<1> QED
  BY <1>1, <1>2 DEF SetToSeq

LEMMA SetOptionsOfKeeps ==
  ASSUME OInv, NEW o \in Objects, NEW p \in Objects, SetOptionsOf(o, p)
  PROVE  OInv'
<1> DEFINE t == Table(Heap, p)
           ks == SetToSeq(DOMAIN t)
           n == Cardinality(DOMAIN t)
           given == [i \in 1..n |-> LET k == ks[i] IN [key |-> k, val |-> t[k]]]
           says == [i \in DOMAIN given |-> [given[i] EXCEPT !.val = Options(p)[given[i].key]]]
           w == Says(o, told[o], says)
           r == OptionsSet(Heap, o, given)
           K == kin'
           seen == View(Heap, p)
<1>1. /\ IsHeap(Heap) /\ held \in PartIds /\ Filled(Heap) /\ Apart(Heap, held, kin) /\ ToldOK(Heap, held, told, kin)
      /\ told = [m \in Members |-> told[m]]
  BY DEF OInv
<1>2. /\ Commit(r) /\ held' = held
      /\ Tell(o, IF given = <<>> THEN NoOptions ELSE w)
      /\ IF given = <<>> THEN Part(o) ELSE K = IF o = p THEN kin ELSE kin \cup {o, p}
  BY DEF SetOptionsOf, Says, Share
<1>3. IsTable(t)
  BY <1>1, TableIs
<1>4. IsFiniteSet(DOMAIN t)
  <2>1. IsFiniteSet(Keys) /\ DOMAIN t \subseteq Keys
    BY <1>3, OptionsAssumption DEF IsTable
  <2> QED
    BY <2>1, FS_Subset
<1>5. Options(p) = seen
  BY DEF Options, View, Table, Heap
<1>6. /\ DOMAIN seen = DOMAIN t
      /\ \A k \in DOMAIN t : seen[k] = IF k \in Parts THEN Heap.parts[t[k]] ELSE t[k]
  BY DEF View
<1>7. ArraysOf(Heap, p) = DOMAIN t \cap Parts
  BY DEF ArraysOf
<1>8. Heap.parts = parts /\ Heap.parts \in [PartIds -> Arrays]
  BY <1>1 DEF Heap, IsHeap
<1>9. n \in Nat /\ ks \in [1 .. n -> DOMAIN t] /\ IsInjective(ks)
  BY <1>4, KeysInOrder
<1>10. \A k \in DOMAIN t \cap Parts : t[k] \in PartIds /\ Alone(Heap, held, kin, p, k, t[k])
  BY <1>1, <1>3, <1>7 DEF IsTable, Apart
<1> HIDE DEF ks, n
<1>11. \A i, j \in 1 .. n : ks[i] = ks[j] => i = j
  BY <1>9 DEF IsInjective
<1> HIDE DEF t, seen
<1>12. Len(given) = n /\ given = [i \in 1 .. n |-> given[i]]
       /\ \A i \in 1 .. n : given[i].key = ks[i] /\ given[i].val = t[ks[i]]
                            /\ given[i] = [key |-> given[i].key, val |-> given[i].val]
  BY <1>9
<1>13. says = [i \in 1 .. n |-> [given[i] EXCEPT !.val = seen[given[i].key]]]
  BY <1>5
<1> HIDE DEF given, says
<1>14. Len(says) = n /\ says = [i \in 1 .. n |-> says[i]]
       /\ \A i \in 1 .. n : says[i].key = ks[i] /\ says[i].val = seen[ks[i]]
  BY <1>9, <1>12, <1>13
<1>15. \A i \in 1 .. n : ks[i] \in DOMAIN t /\ ks[i] \in Keys
  BY <1>3, <1>9 DEF IsTable
<1>16. CASE given = <<>>
  <2>1. r = Replace(Heap, o, NoOptions)
    BY <1>16, EmptyGiven
  <2>2. Tell(o, NoOptions) /\ Part(o)
    BY <1>2, <1>16
  <2> HIDE DEF r
  <2> QED
    BY <1>1, <1>2, <2>1, <2>2, EmptiedKeeps
<1>17. CASE given # <<>>
  <2>1. Tell(o, w) /\ K = IF o = p THEN kin ELSE kin \cup {o, p}
    BY <1>2, <1>17
  <2>2. kin \subseteq K /\ (o # p => o \in K /\ p \in K) /\ (p \in kin => o \in K)
    BY <2>1
  <2> HIDE DEF K, w
  <2>3. Apart(Heap, held, K) /\ ToldOK(Heap, held, told, K)
    BY <1>1, <2>2, ApartMore, ToldMore
  <2>4. ASSUME NEW i \in 1 .. n
        PROVE  /\ given[i].key = says[i].key /\ given[i].key \in Keys
               /\ given[i].key \notin Parts => given[i].val = says[i].val
               /\ given[i].key \in Parts => (given[i].val = Unset <=> says[i].val = Unset)
               /\ IsPart(given[i]) => given[i].val \in PartIds /\ Pending(Heap, held, K, o, given[i], says[i])
    <3> DEFINE k == ks[i]
    <3>1. /\ given[i].key = k /\ given[i].val = t[k] /\ says[i].key = k /\ says[i].val = seen[k]
          /\ k \in DOMAIN t /\ k \in Keys
      BY <1>12, <1>14, <1>15
    <3> HIDE DEF k
    <3>2. CASE k \notin Parts
      BY <1>6, <3>1, <3>2 DEF IsPart
    <3>3. CASE k \in Parts
      <4>1. t[k] \in PartIds /\ Alone(Heap, held, kin, p, k, t[k]) /\ seen[k] = parts[t[k]]
        BY <1>6, <1>8, <1>10, <3>1, <3>3
      <4>2. seen[k] \in Arrays /\ seen[k] # Unset /\ seen[k] # Variable
        BY <1>8, <4>1, OptionsAssumption
      <4>3. t[k] # Unset
        BY <4>1, OptionsAssumption DEF PartIds
      <4>4. Said(says[i]) = seen[k]
        BY <3>1, <4>2 DEF Said
      <4>5. Alone(Heap, held, K, o, k, t[k])
        BY <2>2, <4>1 DEF Alone
      <4>6. Pending(Heap, held, K, o, given[i], says[i])
        BY <1>8, <3>1, <4>1, <4>4, <4>5 DEF Pending
      <4> QED
        BY <3>1, <3>3, <4>1, <4>2, <4>3, <4>6
    <3> QED
      BY <3>2, <3>3
  <2>5. ASSUME NEW i \in 1 .. n, NEW j \in 1 .. n, i # j
        PROVE  /\ given[i].key # given[j].key
               /\ IsPart(given[i]) /\ IsPart(given[j]) /\ given[i].val = given[j].val => o \in K
    <3>1. ks[i] # ks[j] /\ given[i].key = ks[i] /\ given[j].key = ks[j]
          /\ given[i].val = t[ks[i]] /\ given[j].val = t[ks[j]]
      BY <1>11, <1>12, <2>5
    <3>2. ASSUME IsPart(given[i]), IsPart(given[j]), given[i].val = given[j].val PROVE o \in K
      <4>1. ks[i] \in DOMAIN t \cap Parts /\ ks[j] \in ArraysOf(Heap, p) /\ Table(Heap, p)[ks[j]] = t[ks[i]]
        BY <1>7, <1>15, <3>1, <3>2 DEF IsPart, t
      <4>2. Alone(Heap, held, kin, p, ks[i], t[ks[i]])
        BY <1>10, <4>1
      <4>3. p \in kin
        BY <3>1, <4>1, <4>2 DEF Alone
      <4> QED
        BY <2>2, <4>3
    <3> QED
      BY <3>1, <3>2
  <2>6. Asks(Heap, held, K, o, given, says)
    BY <1>9, <1>12, <1>14, <2>4, <2>5 DEF Asks
  <2>7. Follows(View(Heap, o), told[o], o \notin K)
    BY <2>3 DEF ToldOK
  <2>8. OthersKeep(Heap, r, held, K, o) /\ Follows(View(r, o), w, o \notin K)
    BY <1>1, <1>17, <2>3, <2>6, <2>7, OptionsSetIs DEF w
  <2> HIDE DEF r
  <2> QED
    BY <1>2, <2>1, <2>3, <2>8, CallKeeps DEF K
<1> QED
  BY <1>16, <1>17

LEMMA OptionsStart == OptionsInit => OInv
<1> SUFFICES ASSUME OptionsInit PROVE OInv
  OBVIOUS
<1>1. /\ Heap.options = options /\ Heap.tables = tables /\ Heap.parts = parts
      /\ Heap = [options |-> Heap.options, tables |-> Heap.tables, parts |-> Heap.parts,
                 properties |-> Heap.properties]
  BY DEF Heap
<1>2. options \in [Objects -> Tables] /\ \A p, q \in Objects : options[p] = options[q] => p = q
  <2> DEFINE n == Cardinality(Objects)
  <2>1. IsFiniteSet(Objects) /\ n \in Nat /\ Tables = 1 .. n
    BY OptionsAssumption, FS_CardinalityType DEF Tables
  <2>2. IsFiniteSet(Tables) /\ Cardinality(Tables) = n
    <3> HIDE DEF n
    <3>1. IsFiniteSet(1 .. n) /\ Cardinality(1 .. n) = n
      BY <2>1, FS_Interval
    <3> QED
      BY <2>1, <3>1
  <2>3. n <= Cardinality(Tables)
    <3> HIDE DEF n
    <3> QED
      BY <2>1, <2>2
  <2>4. \E f \in [Objects -> Tables] : IsInjective(f)
    BY <2>1, <2>2, <2>3, InjectionExists
  <2>5. options \in [Objects -> Tables] /\ IsInjective(options)
    BY <2>4 DEF OptionsInit
  <2> QED
    BY <2>5 DEF IsInjective
<1>3. tables = [i \in Tables |-> NoOptions] /\ parts = [i \in PartIds |-> NoOptions] /\ held = 1
      /\ told = [m \in Members |-> NoOptions] /\ kin = {}
  BY DEF OptionsInit
<1>4. IsTable(NoOptions) /\ NoOptions \in Arrays /\ DOMAIN NoOptions = {}
  BY NoOptionsIs
<1>5. held \in PartIds
  <2> DEFINE a == Cardinality(Objects)
             b == Cardinality(Parts)
  <2>1. a \in Nat /\ b \in Nat
    <3>1. IsFiniteSet(Objects) /\ IsFiniteSet(Parts)
      BY OptionsAssumption, FS_Subset
    <3> QED
      BY <3>1, FS_CardinalityType
  <2>2. PartIds = 1 .. (a + 1) * b + 1
    BY DEF PartIds
  <2> HIDE DEF a, b
  <2>3. (a + 1) * b \in Nat
    BY <2>1
  <2> QED
    BY <1>3, <2>2, <2>3
<1>6. \A p \in Objects : Table(Heap, p) = NoOptions
  BY <1>1, <1>2, <1>3 DEF Table
<1>7. \A p \in Objects : ArraysOf(Heap, p) = {}
  BY <1>4, <1>6 DEF ArraysOf
<1>8. IsHeap(Heap)
  BY <1>1, <1>2, <1>3, <1>4 DEF IsHeap
<1>9. Filled(Heap) /\ Apart(Heap, held, kin)
  BY <1>1, <1>2, <1>7 DEF Filled, Apart
<1>10. \A p \in Objects : View(Heap, p) = NoOptions
  BY <1>4, <1>6 DEF View, NoOptions
<1>11. \A m \in Members : told[m] = NoOptions
  BY <1>3
<1>12. ToldOK(Heap, held, told, kin)
  <2>1. Variable \in Members /\ \A p \in Objects : p \in Members
    BY DEF Members
  <2>2. \A p \in Objects : Follows(View(Heap, p), told[p], p \notin kin)
    BY <1>10, <1>11, <2>1, FollowsItself
  <2> QED
    BY <1>1, <1>3, <1>5, <1>11, <2>1, <2>2 DEF ToldOK
<1>13. told = [m \in Members |-> told[m]]
  BY <1>3
<1> QED
  BY <1>5, <1>8, <1>9, <1>12, <1>13 DEF OInv

\* A call that is not about options.
LEMMA OptionsStay ==
  ASSUME OInv, UNCHANGED optionVars
  PROVE  OInv'
<1>1. /\ options' = options /\ tables' = tables /\ parts' = parts /\ held' = held
      /\ properties' = properties /\ told' = told /\ kin' = kin
  BY DEF optionVars
<1>2. Heap' = Heap
  BY <1>1 DEF Heap
<1> HIDE DEF Heap
<1>3. /\ IsHeap(Heap') /\ held' \in PartIds /\ told' = [m \in Members |-> told'[m]]
      /\ Filled(Heap') /\ Apart(Heap', held', kin') /\ ToldOK(Heap', held', told', kin')
  BY <1>1, <1>2 DEF OInv
<1> QED
  BY <1>3 DEF OInv

LEMMA OptionsKeep ==
  ASSUME OInv, [Next]_vars
  PROVE  OInv'
<1>1. CASE UNCHANGED optionVars
  BY <1>1, OptionsStay
<1>2. CASE OptionsNext
  BY <1>2, SetOptionsKeeps, SetOptionsOfKeeps, SetPartKeeps, AssignKeeps DEF OptionsNext
<1>3. ASSUME NEW r \in Requests, NEW s \in Requests, Clone(r, s) PROVE OInv'
  <2>1. r \in Objects /\ s \in Objects /\ CloneOptions(r, s)
    BY <1>3 DEF Clone, Requests
  <2> QED
    BY <2>1, CloneOptionsKeeps
<1>4. Step => UNCHANGED optionVars
  BY DEF Step
<1>5. RequestCall => Step
  BY DEF RequestCall, SetQuery, AddQuery, SetUrl
<1>6. QueryCall => Step
  BY DEF QueryCall, ChangeQuery
<1>7. UrlCall => Step
  BY DEF UrlCall, NewUrl, ModUrl, ChangeUrl, SetUrl
<1> QED
  BY <1>1, <1>2, <1>3, <1>4, <1>5, <1>6, <1>7 DEF Next, vars

-----------------------------------------------------------------------------
(* The theorems *)

\* Requests have URLs that settled or were given, whose queries answer what was
\* asked of them, query objects hold no NULL, and URL objects have a scheme, a
\* path, and a clean one where they were made with SANITIZE_PATH.
THEOREM RequestsHold == Spec => []RInv
<1>1. Init => RInv
  BY InitKeeps
<1>2. RInv /\ [Next]_vars => RInv'
  BY StepKeeps
<1> QED
  BY <1>1, <1>2, PTL DEF Spec

\* The URL setQuery and addQuery leave in a request, and the text of any URL
\* object, are written as they were read (php_http_url_to_string,
\* php_http_url_parse), and a path made with SANITIZE_PATH keeps no dots,
\* whatever URLs, flags, environment and calls.
THEOREM RequestsSettle == Spec => []UrlsSettled
<1>1. RInv => UrlsSettled
  <2> SUFFICES ASSUME RInv PROVE UrlsSettled
    OBVIOUS
  <2>1. RequestsOK /\ UrlsOK
    BY DEF RInv
  <2>2. \A o \in clean : Sanitized(urls[o].path)
    BY <2>1 DEF UrlsOK
  <2>3. \A o \in UrlObjects : Settled(Text(urls[o]))
    BY <2>1, TextIs DEF UrlsOK, MadeUrls
  <2>4. \A r \in Requests : url[r] # None =>
          Settled(url[r]) \/ \E g \in GivenUrls : url[r] = Reread(g)
    BY <2>1 DEF RequestsOK, RequestOK
  <2> QED
    BY <2>2, <2>3, <2>4 DEF UrlsSettled
<1> QED
  BY <1>1, RequestsHold, PTL

\* Through every text and table on the way, the query of a request's URL names
\* nothing that was not asked for and has the values that were asked for: a space
\* may have become a "+", and one that == takes for equal may have stayed
\* (setQuery, addQuery, php_http_querystring_update, php_url_encode).  Nothing
\* is said of what was given NULL, an empty string or an empty array, and of an
\* array whose index 0 stands behind a number.
THEOREM QueriesAnswer == Spec => []QueryAsAsked
<1>1. RInv => QueryAsAsked
  <2> SUFFICES ASSUME RInv, NEW r \in Requests
               PROVE  LET has == Parsed(QueryOf(url[r]))
                      IN /\ DOMAIN has \subseteq DOMAIN asked[r]
                         /\ \A n \in DOMAIN asked[r] : asked[r][n] # Odd =>
                               /\ n \in DOMAIN has /\ DOMAIN has[n].at = DOMAIN asked[r][n]
                               /\ \A i \in DOMAIN has[n].at :
                                     has[n].at[i] \in Readings(asked[r][n][i])
    BY DEF QueryAsAsked
  <2>1. Answers(Parsed(QueryOf(url[r])), asked[r])
    BY DEF RInv, RequestsOK, RequestOK
  <2> QED
    BY <2>1 DEF Answers, Agrees
<1> QED
  BY <1>1, RequestsHold, PTL

\* Whatever is shared, every object's table and arrays lie in the heap, an array
\* is never emptied where it is, those that never shared have nothing in common
\* with anyone, and what is read of an object follows what it was told
\* (php_http_client_options_set, php_http_client_options_set_subr).
THEOREM OptionsHold == Spec => []OInv
<1>1. Init => OInv
  BY OptionsStart DEF Init
<1>2. OInv /\ [Next]_vars => OInv'
  BY OptionsKeep
<1> QED
  BY <1>1, <1>2, PTL DEF Spec

\* An object that shared no array has the options its calls gave it; one that did
\* never sees an option appear or a plain one changed
\* (php_http_client_options_set, php_http_client_options_set_subr), whatever
\* objects, options and calls.
THEOREM OptionsAsAsked == Spec => []OptionsAsTold
<1>1. OInv => OptionsAsTold
  <2> SUFFICES ASSUME OInv PROVE OptionsAsTold
    OBVIOUS
  <2>1. ToldOK(Heap, held, told, kin) /\ Heap.parts = parts
    BY DEF OInv, Heap
  <2>2. ASSUME NEW o \in Objects
        PROVE  /\ o \notin kin => Options(o) = told[o]
               /\ DOMAIN Options(o) \subseteq DOMAIN told[o]
               /\ \A k \in DOMAIN Options(o) \ Parts : Options(o)[k] = told[o][k]
    <3>1. Options(o) = View(Heap, o)
      BY DEF Options, View, Table, Heap
    <3>2. Follows(View(Heap, o), told[o], o \notin kin)
      BY <2>1 DEF ToldOK
    <3> QED
      BY <3>1, <3>2 DEF Follows
  <2>3. Variable \notin kin => parts[held] = told[Variable]
    BY <2>1 DEF ToldOK
  <2> QED
    BY <2>2, <2>3 DEF OptionsAsTold
<1> QED
  BY <1>1, OptionsHold, PTL

\* Options refer to arrays on the heap, queries hold no NULL, URLs have their
\* parts.
THEOREM RequestTypes == Spec => []TypeOK
<1>1. RInv /\ OInv => TypeOK
  <2> SUFFICES ASSUME RInv, OInv PROVE TypeOK
    OBVIOUS
  <2>1. options \in [Objects -> Tables]
    BY DEF OInv, IsHeap, Heap
  <2>2. \A o \in Objects : \A k \in DOMAIN Table(Heap, o) \cap Parts : Table(Heap, o)[k] \in PartIds
    BY TableIs DEF OInv, ArraysOf
  <2>3. /\ DOMAIN queries = QueryObjects /\ \A q \in QueryObjects : IsItemTable(queries[q])
        /\ \A q \in QueryObjects : \A n \in DOMAIN queries[q] : queries[q][n] # Scalar(Null)
    <3>1. queries \in [QueryObjects -> ItemTables] /\ \A q \in QueryObjects : NoNulls(queries[q])
      BY DEF RInv, QueriesOK
    <3>2. \A q \in QueryObjects : IsItemTable(queries[q])
      BY <3>1, TextsAndTables
    <3>3. \A q \in QueryObjects : \A n \in DOMAIN queries[q] : queries[q][n] # Scalar(Null)
      BY <3>1 DEF NoNulls
    <3> QED
      BY <3>1, <3>2, <3>3
  <2>4. DOMAIN url = Requests /\ \A r \in Requests : url[r] = None \/ IsUrl(url[r])
    BY UrlIs DEF RInv, RequestsOK, NamedUrls
  <2>5. /\ DOMAIN urls = UrlObjects /\ \A o \in UrlObjects : IsUrl(urls[o])
        /\ clean \subseteq UrlObjects
    BY UrlIs DEF RInv, UrlsOK, MadeUrls
  <2> QED
    BY <2>1, <2>2, <2>3, <2>4, <2>5 DEF TypeOK
<1> QED
  BY <1>1, RequestsHold, OptionsHold, PTL
=============================================================================
