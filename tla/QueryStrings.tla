---------------------------- MODULE QueryStrings ----------------------------
(* The query string of a URL and the array an http\QueryString holds.       *)
(*                                                                          *)
(* A text is what it spells: it maps names to functions, on {Bare} for a    *)
(* scalar, on indices for an array, so that an empty function is an empty   *)
(* array.  A table holds, of each name, such a function of values, and what *)
(* matters of the order of an array: the positive numbers that stand before *)
(* its index 0, as the way over a text counts that element on from them.    *)
(* Names, and indices that are no number (Marks), are those without a space *)
(* or bracket, and no index is "value" or "arguments".  Negative numbers,   *)
(* deeper arrays and the rest of the order are left out; how a text is cut  *)
(* into items and quoted is the business of module Params.                  *)
EXTENDS Integers, Sequences, FiniteSetsExt, TLC

CONSTANTS
    Names,        \* of the items
    MaxIndex,     \* the largest number of an element; runs stay below it
    Marks,        \* the indices that are no number
    Words,        \* the strings that are values
    Plus,         \* each word with a "+" for every space
    Bare,         \* the index of a scalar
    Null,         \* PHP's NULL
    Empty,        \* the empty string
    Alike         \* pairs of strings PHP's == takes for equal, like "1" and "01"

Numbers == 1..MaxIndex
Indices == {0} \cup Numbers \cup Marks

\* The empty string is like no other one.
ASSUME ItemsAssumption ==
    /\ MaxIndex \in Nat /\ Marks \cap Nat = {} /\ Bare \notin Indices
    /\ Empty \in Words /\ Null \notin Words
    /\ Alike \subseteq (Words \ {Empty}) \X (Words \ {Empty})
    /\ Plus \in [Words -> Words]
    /\ \A w \in Words : Plus[Plus[w]] = Plus[w] /\ (Plus[w] = Empty <=> w = Empty)

Shaped(W) == UNION {[S -> W] : S \in {{Bare}} \cup SUBSET Indices}
TextValues == Shaped(Words)
ItemValues == {v \in [at : Shaped(Words \cup {Null}), ahead : SUBSET Numbers] :
                  v.ahead # {} => v.ahead \cup {0} \subseteq DOMAIN v.at}

IsText(t) == \E S \in SUBSET Names : t \in [S -> TextValues]
IsItemTable(t) == \E S \in SUBSET Names : t \in [S -> ItemValues]

Scalar(s) == [at |-> [i \in {Bare} |-> s], ahead |-> {}]
NoItems == [n \in {} |-> Scalar(Null)]

IsArray(v) == Bare \notin DOMAIN v.at
LooselyEqual(s, t) == s = t \/ <<s, t>> \in Alike \/ {s, t} = {Null, Empty}

\* One level of php_http_querystring_update: what is given NULL is deleted,
\* what is there changes by step, and what is new is taken as it is.
Updated(has, given, isNull, step) ==
    LET gone == {n \in DOMAIN given : isNull[n]}
    IN [n \in (DOMAIN has \cup DOMAIN given) \ gone |->
            IF n \notin DOMAIN given THEN has[n]
            ELSE IF n \notin DOMAIN has THEN given[n]
            ELSE step[n]]

\* A scalar that meets an array becomes its element 0.
Elements(v) == IF IsArray(v) THEN v.at ELSE [i \in {0} |-> v.at[Bare]]

\* An array that meets an array, or a scalar: what is there keeps its place, and
\* what is new comes behind it.
Joined(v, w) ==
    LET old == Elements(v)
        both == DOMAIN old \cap DOMAIN w.at
        at == Updated(old, w.at, [i \in DOMAIN w.at |-> w.at[i] = Null],
                      [i \in both |-> IF LooselyEqual(old[i], w.at[i]) THEN old[i] ELSE w.at[i]])
        before == IF 0 \in DOMAIN old THEN v.ahead ELSE (DOMAIN old \cap Numbers) \cup w.ahead
    IN [at |-> at, ahead |-> IF 0 \in DOMAIN at THEN before \cap DOMAIN at ELSE {}]

\* A mistake: an array replaces the one that is there.
UpdateShallow(has, given) ==
    Updated(has, given, [n \in DOMAIN given |-> given[n] = Scalar(Null)], given)

\* A mistake: NULL is stored like another value.
UpdateStoringNull(has, given) ==
    Updated(has, given, [n \in DOMAIN given |-> FALSE], given)

\* php_http_querystring_update: a scalar loosely equal to the one that is
\* there is not taken.
Update(has, given) ==
    Updated(has, given, [n \in DOMAIN given |-> given[n] = Scalar(Null)],
            [n \in DOMAIN has \cap DOMAIN given |->
                IF IsArray(given[n]) THEN Joined(has[n], given[n])
                ELSE IF ~IsArray(has[n]) /\ LooselyEqual(has[n].at[Bare], given[n].at[Bare])
                THEN has[n]
                ELSE given[n]])

\* php_http_querystring_parse: what has no value, or an empty one, is NULL.  An
\* array is in the order of the text, where nothing stands before index 0 that
\* it would have to be counted on from.
Parsed(text) ==
    [n \in DOMAIN text |->
        [at |-> [i \in DOMAIN text[n] |-> IF text[n][i] = Empty THEN Null ELSE text[n][i]],
         ahead |-> {}]]

\* php_url_encode writes a "+" for a space and php_raw_url_decode leaves it, so
\* that the text spells another word.  NULL is written as the empty string.
Spelling(s) == IF s = Null THEN Empty ELSE Plus[s]

\* merge_param reads an index 0 behind other numbers as the next free one, and
\* an element that comes later under that number takes its place.  (Behind
\* LONG_MAX the code has no next number and writes to the first element.)
Counted(v) ==
    LET next == IF MaxIndex \in v.ahead THEN MaxIndex ELSE Max(v.ahead) + 1
    IN IF v.ahead = {} THEN v.at
       ELSE [i \in (DOMAIN v.at \ {0}) \cup {next} |->
                IF i \in DOMAIN v.at THEN v.at[i] ELSE v.at[0]]

\* php_http_url_encode_hash, as php_http_querystring_parse reads it: an empty
\* array leaves no trace.
Encoded(table) ==
    LET spelt == {n \in DOMAIN table : DOMAIN table[n].at # {}}
    IN [n \in spelt |-> [i \in DOMAIN Counted(table[n]) |-> Spelling(Counted(table[n])[i])]]

\* What the code takes for params: a text, or a table as it is.
TableOf(given) == IF given.kind = "text" THEN Parsed(given.items) ELSE given.items

\* The methods of http\QueryString, as the table they leave: set and mod merge,
\* offsetUnset and a get that deletes merge a NULL, offsetSet, the constructor
\* and unserialize start from nothing.
Set(table, given) == Update(table, TableOf(given))
OffsetUnset(table, name) == Update(table, [n \in {name} |-> Scalar(Null)])
OffsetSet(name, value) == Update(NoItems, [n \in {name} |-> value])
Unserialize(text) == Update(NoItems, Parsed(text))
=============================================================================
