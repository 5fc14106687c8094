------------------------------ MODULE Cookies ------------------------------
(***************************************************************************)
(* Cookie lists (php_http_cookie.c): the objects of HttpCookie, the text   *)
(* they are written as, and the list that is made of a text once Params    *)
(* has taken it apart.                                                     *)
(*                                                                         *)
(* The tables of a list hold zvals, which copies of the list share.  What  *)
(* is in a zval that became an array, and an empty path and none, are not  *)
(* told apart, nor is the flag PARSE_RAW used.                             *)
(***************************************************************************)
EXTENDS Params, Integers

CONSTANTS Objects,     \* the cookie objects
          Cookie,      \* the name of the options of cookies in Opts
          Allowed,     \* allowed_extras
          Numerals,    \* the names that are integer keys
          CookieNames, CookieValues, Attributes

VARIABLES lists,       \* Objects -> list, or None
          zvals,       \* the values that were made; a zval is an index
          reader,      \* the object that is constructed from the text
          written      \* what the text was written from, or None

cookieVars == <<lists, zvals, reader, written>>

Array == [type |-> "array"]

\* php_http_cookie_list_init.
EmptyList == [cookies |-> <<>>, extras |-> <<>>, path |-> None,
              domain |-> None, expires |-> -1, maxAge |-> -1, flags |-> {}]

\* What the getters of an object give.
Seen(o) ==
    LET Values(table) == [i \in DOMAIN table |->
                            [table[i] EXCEPT !.val = zvals[@]]]
    IN  [lists[o] EXCEPT !.cookies = Values(@), !.extras = Values(@)]

-----------------------------------------------------------------------------
(* The methods.                                                            *)

Method ==
    /\ pc = "edit"
    /\ format = Cookie
    /\ edits < MaxEdits
    /\ edits' = edits + 1
    /\ UNCHANGED <<format, pc, params, origin, text, at, start, current, args,
                   quotes, escape, reader, written>>

\* php_http_cookie_list_copy, of clone and the constructor, and toArray with
\* php_http_cookie_list_from_struct: the tables share the values.
Clone(o, p) ==
    /\ Method
    /\ lists[o] # None /\ lists[p] = None
    /\ lists' = [lists EXCEPT ![p] = lists[o]]
    /\ UNCHANGED zvals

\* A mistake: the value that is there is overwritten.
SetEntryInPlace(o, of, name, value) ==
    /\ Method
    /\ lists[o] # None
    /\ IF Has(lists[o][of], name) /\ value # Null
       THEN zvals' = [zvals EXCEPT ![Get(lists[o][of], name)] = value]
            /\ UNCHANGED lists
       ELSE /\ zvals' = IF value = Null THEN zvals ELSE Append(zvals, value)
            /\ lists' = [lists EXCEPT ![o][of] =
                    IF value = Null THEN Delete(@, name)
                                    ELSE Update(@, name, Len(zvals) + 1)]

\* setCookie and setExtra, where no value deletes, addCookie and addExtra.
SetEntry(o, of, name, value) ==
    /\ Method
    /\ lists[o] # None
    /\ zvals' = IF value = Null THEN zvals ELSE Append(zvals, value)
    /\ lists' = [lists EXCEPT ![o][of] =
            IF value = Null THEN Delete(@, name)
                            ELSE Update(@, name, Len(zvals) + 1)]

\* setCookies and setExtras, with what a getter of p gave or with nothing.
SetAll(o, of, p) ==
    /\ Method
    /\ lists[o] # None /\ lists[p] # None
    /\ lists' = [lists EXCEPT ![o][of] = IF p = o THEN <<>> ELSE lists[p][of]]
    /\ UNCHANGED zvals

\* addCookies and addExtras, array_join to append string keys: a value that
\* is there becomes an array for all who share it.
AddAll(o, of, p) ==
    /\ Method
    /\ lists[o] # None /\ lists[p] # None
    /\ LET given == SelectSeq(lists[p][of], LAMBDA e : e.key \notin Numerals)
           there == {e.key : e \in Range(given)}
                      \cap {e.key : e \in Range(lists[o][of])}
           joined == {Get(lists[o][of], name) : name \in there}
       IN  /\ lists' = [lists EXCEPT ![o][of] =
                           @ \o SelectSeq(given, LAMBDA e : e.key \notin there)]
           /\ zvals' = [z \in DOMAIN zvals |->
                            IF z \in joined THEN Array ELSE zvals[z]]

\* setPath, setDomain, setExpires, setMaxAge and setFlags.
SetAttribute(o, attr, value) ==
    /\ Method
    /\ lists[o] # None
    /\ lists' = [lists EXCEPT ![o][attr] = value]
    /\ UNCHANGED zvals

-----------------------------------------------------------------------------
(* php_http_cookie_list_to_string.                                         *)

End == <<";", " ">>
DateOf(n) == <<"date", ToString(n)>>

AppendEncoded(table) ==
    FlattenSeq([i \in DOMAIN table |->
        RawUrlEncode(table[i].key) \o <<"=">>
            \o (IF table[i].val = Array THEN <<"Array">>
                ELSE RawUrlEncode(table[i].val.str)) \o End])

CookieText(list) ==
    LET When(given, out) == IF given THEN out \o End ELSE <<>>
    IN  AppendEncoded(list.cookies)
        \o When(list.domain # None, <<"domain", "=">> \o list.domain)
        \o When(list.path # None, <<"path", "=">> \o list.path)
        \o When(list.expires >= 0, <<"expires", "=">> \o DateOf(list.expires))
        \o When(list.maxAge >= 0, <<"max-age", "=">> \o Numeral(list.maxAge))
        \o AppendEncoded(list.extras)
        \o When("secure" \in list.flags, <<"secure">>)
        \o When("httpOnly" \in list.flags, <<"httpOnly">>)

\* toString of o, and the constructor of a new object p with it.
Reread(o, p) ==
    /\ pc = "edit"
    /\ lists[o] # None
    /\ pc' = "parse"
    /\ text' = CookieText(Seen(o))
    /\ reader' = p
    /\ written' = Seen(o)
    /\ UNCHANGED <<format, edits, params, origin, at, start, current, args,
                   quotes, escape, lists, zvals>>

-----------------------------------------------------------------------------
(* add_entry: the only parameter, without allowed_extras, and its          *)
(* arguments.                                                              *)

AttributeNames ==
    {<<"path">>, <<"domain">>, <<"expires">>, <<"max-age">>, <<"secure">>,
     <<"httpOnly">>}

\* php_http_array_hashkey_t: an integer key leaves the string of the key
\* before it, and _KEY_IS looks at that.
KeyString(entries, i) ==
    LET strings == {j \in 1..i : entries[j].key \notin Numerals}
    IN  IF strings = {} THEN None ELSE entries[Max(strings)].key

Entries ==
    IF params = <<>> THEN <<>>
    ELSE <<[key |-> params[1].key, val |-> params[1].val.value]>>
            \o params[1].val.args

\* A value that is TRUE is the string "1".
Decoded(val) == IF val = True THEN Str(<<"1">>) ELSE Str(RawUrlDecode(val.str))

Numbers(s) == {n \in 0..9 : s = Numeral(n)}

Collected(entries) ==
    LET keys == [i \in DOMAIN entries |-> KeyString(entries, i)]
        Final(name) == Max({i \in DOMAIN entries : keys[i] = name} \cup {0})
        Text(name) == IF Final(name) = 0 THEN None
                      ELSE entries[Final(name)].val.str
        Other(i) == keys[i] \notin AttributeNames
        IsExtra(i) == i > 1 /\ entries[i].key \in Allowed /\ Other(i)
        IsCookie(i) == Other(i) /\ ~IsExtra(i)
        \* cookies of the first one's name: their value goes where that is
        Again == {i \in DOMAIN entries : i > 1 /\ IsCookie(i)
                                          /\ entries[i].key = entries[1].key}
        Table(Chosen(_)) ==
            LET from == SelectSeq([i \in DOMAIN entries |-> i], Chosen)
            IN  [n \in DOMAIN from |->
                    [key |-> entries[from[n]].key,
                     val |-> IF from[n] = 1 THEN Max(Again \cup {1}) ELSE from[n]]]
    IN  [cookies |-> Table(LAMBDA i : IsCookie(i) /\ i \notin Again),
         extras |-> Table(IsExtra),
         path |-> Text(<<"path">>),
         domain |-> Text(<<"domain">>),
         expires |-> LET s == Text(<<"expires">>)
                     IN  IF \E n \in 0..9 : s = DateOf(n)
                         THEN CHOOSE n \in 0..9 : s = DateOf(n) ELSE -1,
         maxAge |-> IF Final(<<"max-age">>) = 0 THEN -1
                    ELSE IF Numbers(Text(<<"max-age">>)) = {} THEN 0
                    ELSE Max(Numbers(Text(<<"max-age">>))),
         flags |-> {f \in {"secure", "httpOnly"} : Final(<<f>>) # 0}]

\* php_http_cookie_list_parse, after php_http_params_parse.
Collect ==
    /\ pc = "done"
    /\ format = Cookie
    /\ LET entries == [i \in DOMAIN Entries |->
                        [Entries[i] EXCEPT !.val = Decoded(@)]]
           list == Collected(entries)
           Shifted(table) == [i \in DOMAIN table |->
                                [table[i] EXCEPT !.val = @ + Len(zvals)]]
       IN  /\ zvals' = zvals \o [i \in DOMAIN entries |-> entries[i].val]
           /\ lists' = [lists EXCEPT ![reader] =
                [list EXCEPT !.cookies = Shifted(@), !.extras = Shifted(@)]]
    /\ pc' = "read"
    /\ UNCHANGED <<format, edits, params, origin, text, at, start, current,
                   args, quotes, escape, reader, written>>

-----------------------------------------------------------------------------

CookieInit ==
    /\ Init
    /\ zvals = <<>>
    /\ written = None
    /\ reader = CHOOSE o \in Objects : TRUE
    /\ lists = [o \in Objects |->
                    IF format = Cookie /\ pc = "edit" /\ o = reader
                    THEN EmptyList ELSE None]

CookieMethod ==
    \E o, p \in Objects, of \in {"cookies", "extras"} :
        \/ Clone(o, p)
        \/ \E name \in CookieNames, value \in CookieValues \cup {Null} :
                SetEntry(o, of, name, value)
        \/ SetAll(o, of, p)
        \/ AddAll(o, of, p)
        \/ \E attr \in DOMAIN Attributes : \E value \in Attributes[attr] :
                SetAttribute(o, attr, value)
        \/ Reread(o, p)

CookieNext ==
    \/ format = Cookie /\ CookieMethod
    \/ Collect
    \/ format # Cookie /\ Script /\ UNCHANGED cookieVars
    \/ Parse /\ UNCHANGED cookieVars

\* There is no more to do.
CookieOver == pc \in {"done", "read", "crashed"} /\ UNCHANGED <<vars, cookieVars>>

CookieSpec == CookieInit /\ [][CookieNext \/ CookieOver]_<<vars, cookieVars>>

-----------------------------------------------------------------------------
(* Properties.                                                             *)

\* What a text can carry: see "Modelled as it is" in the README.
CarriedList(list) ==
    LET cookies == list.cookies
        extras == list.extras
        Plain(table) == \A e \in Range(table) :
            /\ e.key \notin AttributeNames
            /\ RawUrlEncode(e.key) = e.key
            /\ e.val # Array /\ e.val.str # <<>>
    IN  /\ Plain(cookies) /\ Plain(extras)
        /\ \A e \in Range(cookies) : e.key \notin Allowed \/ e = cookies[1]
        /\ \A e \in Range(extras) :
                e.key \in Allowed
        /\ extras # <<>> =>
            \/ cookies # <<>> /\ extras[1].key \notin Numerals
            \/ list.domain # None /\ extras[1].key \notin Numerals
        /\ list.path # <<";">> /\ list.domain # <<";">>

(* A cookie list that is written and read again is the list it was: its    *)
(* cookies and extras in their order, its path, domain, times and flags,   *)
(* through the encoding of php_http_cookie_list_to_string, the parser of   *)
(* parameters and add_entry.                                               *)
CookieRoundTrip ==
    pc = "read" /\ written # None /\ CarriedList(written)
        => Seen(reader) = written

(* What is written is read back, and what is read is what the text means,   *)
(* for headers, query strings and cookies.                                  *)
TextsMeant == MeansItsText /\ RoundTrip /\ CookieRoundTrip

(* What a method of one object does to the values it shares with others    *)
(* shows there in one way only, that a string becomes an array.            *)
Apart ==
    [][\A o \in Objects : lists[o] # None /\ lists'[o] = lists[o] =>
        \A z \in 1..Len(zvals) : zvals'[z] \in {zvals[z], Array}]_cookieVars
=============================================================================
