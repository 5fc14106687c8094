--------------------------- MODULE ClientRequests ---------------------------
(* http\Client\Request, http\QueryString and http\Url as a script uses them *)
(* together: a request holds options and, as a text, its URL; a URL or a    *)
(* query object gives it a new one.                                         *)
(*                                                                          *)
(* Options, queries and URL objects share no state but in clones and where  *)
(* a request is given the text of a URL object, so that a script is about   *)
(* one of them.                                                             *)
(*                                                                          *)
(* URLs in requests are what php_url_parse reads from the text, None where  *)
(* there is no text.  A URL no parser accepts is left out.                  *)
EXTENDS ClientOptions, Urls

CONSTANTS
    QueryObjects, UrlObjects,
    GivenQueries,   \* what setQuery, addQuery and the query objects are given
    GivenValues,    \* values for an offset of a query object
    GivenUrls,      \* URLs given as a text or an array
    FlagSets, Server

\* An array can give a scheme that is the empty string, but the text of that URL
\* begins with its slashes, and what parse_url makes of it is not modelled.
ASSUME GivenAssumption ==
    /\ \A given \in GivenQueries :
          \/ (given.kind = "text" /\ IsText(given.items))
          \/ (given.kind = "table" /\ IsItemTable(given.items))
    /\ GivenValues \subseteq ItemValues
    /\ \A u \in GivenUrls : IsUrl(u) /\ u.scheme # Empty
    /\ \E S \in SUBSET Names :
          Server \in [port : Nat, https : BOOLEAN, host : Texts, path : Paths \cup {None},
                     query : [S -> TextValues]]

VARIABLES
    url,            \* of each request
    asked,          \* what the calls since the last URL asked the query to be
    queries,        \* the array of each query object
    urls,           \* the properties of each URL object
    clean           \* the URL objects made with SANITIZE_PATH

requestVars == <<url, asked, queries, urls, clean>>
vars == <<optionVars, edits, requestVars>>

Requests == Objects \ Clients
Odd == [i \in {} |-> Null]

\* A value of which every conversion carries each element.
Carried(v) ==
    v.ahead = {} /\ DOMAIN v.at # {} /\ \A i \in DOMAIN v.at : v.at[i] \notin {Empty, Null}

\* An index 0 that would come to stand behind the numbers of an array.
Late(has, v) == 0 \in DOMAIN v.at \ DOMAIN has /\ DOMAIN has \cap Numbers # {}

\* What is asked for is kept as functions, like that of a text.
Ask(has, t) ==
    [n \in DOMAIN has \cup DOMAIN t |->
        IF n \notin DOMAIN t THEN has[n]
        ELSE IF ~Carried(t[n]) THEN Odd
        ELSE IF n \notin DOMAIN has \/ ~IsArray(t[n]) THEN t[n].at
        ELSE LET elements == Elements([at |-> has[n], ahead |-> {}])
             IN IF has[n] = Odd \/ Late(elements, t[n]) THEN Odd ELSE Over(t[n].at, elements)]

QueryOf(u) == IF u = None \/ u.query = None THEN NoItems ELSE u.query

Step == edits < MaxEdits[script] /\ edits' = edits + 1 /\ UNCHANGED optionVars

\* The text of the table setQuery and addQuery are given.
Spelt(given) == Encoded(Update(NoItems, TableOf(given)))

NewQuery(text) == [NoUrl EXCEPT !.query = text]
OldUrl(r) == IF url[r] = None THEN NoUrl ELSE url[r]

SetQuery(r, given) ==
    /\ Step
    /\ LET text == IF given = Null THEN NoItems ELSE Spelt(given)
       IN url' = [url EXCEPT ![r] = Reread(Url({}, Server, OldUrl(r), NewQuery(text)))]
    /\ asked' = [asked EXCEPT ![r] =
            IF given = Null THEN NoItems ELSE Ask(NoItems, TableOf(given))]
    /\ UNCHANGED <<queries, urls, clean>>

AddQuery(r, given) ==
    /\ Step
    /\ url' = [url EXCEPT ![r] =
            Reread(Url({"join_query"}, Server, OldUrl(r), NewQuery(Spelt(given))))]
    /\ asked' = [asked EXCEPT ![r] = Ask(@, TableOf(given))]
    /\ UNCHANGED <<queries, urls, clean>>

\* The constructor of a request, or setRequestUrl with a URL object.
SetUrl(r, text) ==
    /\ Step
    /\ url' = [url EXCEPT ![r] = text]
    /\ asked' = [asked EXCEPT ![r] = Ask(NoItems, Parsed(QueryOf(text)))]
    /\ UNCHANGED <<queries, urls, clean>>

\* $url->toString().
Text(object) == Reread(Url({}, Server, FromStruct(object), NoUrl))

Clone(r, s) ==
    /\ CloneOptions(r, s)
    /\ url' = [url EXCEPT ![s] = url[r]]
    /\ asked' = [asked EXCEPT ![s] = asked[r]]
    /\ UNCHANGED <<queries, urls, clean>>

ChangeQuery(q, table) ==
    /\ Step
    /\ queries' = [queries EXCEPT ![q] = table]
    /\ UNCHANGED <<url, asked, urls, clean>>

Deep(given) == [kind |-> "table", items |-> given]

\* The methods of a query object; mod works on a clone.
QueryCall ==
    \/ \E p, q \in QueryObjects, g \in GivenQueries : ChangeQuery(p, Set(queries[q], g))
    \/ \E q \in QueryObjects, g \in GivenQueries :
          g.kind = "text" /\ ChangeQuery(q, Unserialize(g.items))
    \/ \E q \in QueryObjects : \E n \in DOMAIN queries[q] :
          \/ ChangeQuery(q, OffsetUnset(queries[q], n))
          \/ \E v \in GivenValues : ChangeQuery(q, OffsetSet(n, v))

ChangeUrl(o, made, sanitized) ==
    /\ Step
    /\ urls' = [urls EXCEPT ![o] = made]
    /\ clean' = IF sanitized THEN clean \cup {o} ELSE clean \ {o}
    /\ UNCHANGED <<url, asked, queries>>

\* new http\Url($old, $new, $flags).
NewUrl(o, old, new, flags) ==
    ChangeUrl(o, ToStruct(NoUrl, Url(flags, Server, old, new)), "sanitize" \in flags)

\* $o = $p->mod($new, $flags).
ModUrl(o, p, new, flags) ==
    ChangeUrl(o, ToStruct(urls[p], Url(flags, Server, FromStruct(urls[p]), new)),
              "sanitize" \in flags)

\* URLs are given as texts and arrays, or as objects.
UrlCall ==
    \E o \in UrlObjects, flags \in FlagSets, new \in GivenUrls \cup {NoUrl} :
       \/ \E old \in GivenUrls \cup {NoUrl} : NewUrl(o, old, new, flags)
       \/ \E p \in UrlObjects :
             \/ ModUrl(o, p, new, flags)
             \/ ModUrl(o, p, FromStruct(Url({}, Server, NoUrl, new)), flags)
       \/ \E r \in Requests : SetUrl(r, Text(urls[o]))

RequestCall ==
    \E r \in Requests :
       \/ \E g \in GivenQueries \cup {Null} : SetQuery(r, g)
       \/ \E g \in GivenQueries : AddQuery(r, g)
       \/ \E q \in QueryObjects : \/ SetQuery(r, Deep(queries[q]))
                                  \/ AddQuery(r, Deep(queries[q]))
       \/ \E g \in GivenUrls : SetUrl(r, Reread(g))

Init ==
    /\ OptionsInit
    /\ url = [r \in Requests |-> None]
    /\ asked = [r \in Requests |-> NoItems]
    /\ queries = [q \in QueryObjects |-> NoItems]
    /\ urls = [o \in UrlObjects |-> ToStruct(NoUrl, Url({}, Server, NoUrl, NoUrl))]
    /\ clean = {}

Next ==
    \/ script = "options" /\ OptionsNext /\ UNCHANGED requestVars
    \/ \E r, s \in Requests : Clone(r, s)
    \/ script = "queries" /\ (RequestCall \/ QueryCall)
    \/ script = "urls" /\ UrlCall

Spec == Init /\ [][Next]_vars

-----------------------------------------------------------------------------
TypeOK ==
    /\ options \in [Objects -> Tables]
    /\ \A o \in Objects : \A k \in DOMAIN Table(Heap, o) \cap Parts : Table(Heap, o)[k] \in PartIds
    /\ DOMAIN queries = QueryObjects /\ \A q \in QueryObjects : IsItemTable(queries[q])
    /\ \A q \in QueryObjects : \A n \in DOMAIN queries[q] : queries[q][n] # Scalar(Null)
    /\ DOMAIN url = Requests /\ \A r \in Requests : url[r] = None \/ IsUrl(url[r])
    /\ DOMAIN urls = UrlObjects /\ \A o \in UrlObjects : IsUrl(urls[o])
    /\ clean \subseteq UrlObjects

\* What may be read where a word was asked for: the word, or one that was there
\* and that == takes for equal; as a text of the URL spelt it, or as it is
\* written, with a "+" for a space.
Readings(word) ==
    LET kept == {word} \cup {w \in Words : <<w, Plus[word]>> \in Alike}
    IN kept \cup {Plus[w] : w \in kept}

\* The query of a request's URL names nothing that was not asked for since the
\* URL was set, and has every value asked for, spaces as "+" and as far as ==
\* tells values apart: whatever the way through texts and tables, later calls
\* add to earlier ones.  Nothing is said of a name that was given NULL, an empty
\* string or an empty array, nor of an array whose index 0 stands behind another
\* number, which the way over a text counts on (Odd).
QueryAsAsked ==
    \A r \in Requests :
        LET has == Parsed(QueryOf(url[r]))
        IN /\ DOMAIN has \subseteq DOMAIN asked[r]
           /\ \A n \in DOMAIN asked[r] : asked[r][n] # Odd =>
                 /\ n \in DOMAIN has /\ DOMAIN has[n].at = DOMAIN asked[r][n]
                 /\ \A i \in DOMAIN has[n].at : has[n].at[i] \in Readings(asked[r][n][i])

\* A path that was sanitized has no "." and "..", and no empty name but a last
\* one.
Sanitized(path) ==
    \A i \in 2..Len(path) : path[i] \notin {".", ".."} /\ (path[i] = "" => i = Len(path))

\* Written and read, it is the same.
Settled(u) == Reread(Url({}, Server, u, NoUrl)) = u

\* URL objects made with SANITIZE_PATH have a path that was sanitized.  The text
\* of a URL object, and the URL setQuery and addQuery leave in a request, read
\* back as a URL that is written the same way.
UrlsSettled ==
    /\ \A o \in clean : Sanitized(urls[o].path)
    /\ \A o \in UrlObjects : Settled(Text(urls[o]))
    /\ \A r \in Requests : url[r] # None =>
          Settled(url[r]) \/ \E g \in GivenUrls : url[r] = Reread(g)
=============================================================================
