------------------------------ MODULE MCParams ------------------------------
EXTENDS Cookies

MCFormats == {"header", "query", "cookie"}

MCOpts ==
    [header |->
        [param |-> {","}, arg |-> {";"}, val |-> {"="}, flags |-> {"default"},
         defval |-> True,
         out |-> [param |-> <<",">>, arg |-> <<";">>, val |-> <<"=">>]],
     query |->
        [param |-> {"&", ";"}, arg |-> {}, val |-> {"="},
         flags |-> {"urlencoded", "dimension"}, defval |-> True,
         out |-> [param |-> <<"&">>, arg |-> <<>>, val |-> <<"=">>]],
     cookie |->
        [param |-> {}, arg |-> {";"}, val |-> {"="}, flags |-> {"default"},
         defval |-> True]]

\* Texts are up to four words put together.
Words(fs, n) == {FlattenSeq(s) : s \in UNION {[1..k -> fs] : k \in 0..n}}

HeaderWords == {<<"x">>, <<"y">>, <<" ">>, <<",">>, <<";">>, <<"=">>, <<"\"">>,
                <<"\\", "\"">>, <<"\"", "x", ",", ";", "\"">>}
QueryWords == {<<"x">>, <<"&">>, <<"=">>, <<"%5B">>, <<"[">>, <<"]">>, <<"0">>}

CookieWords == {<<"x", "=">>, <<"y">>, <<"path", "=">>, <<"0", "=">>, <<";">>,
                <<"=">>, <<"\"">>}

\* At most one index, as Params says.
Indices(t) == Cardinality({i \in DOMAIN t : t[i] \in {"]", "[", "%5B"}})
Crowded(t) == \E i, j \in DOMAIN t :
    /\ i < j
    /\ "&" \notin Range(SubSeq(t, i, j))
    /\ Indices(SubSeq(t, i, j)) > 2

MCTexts ==
    [header |-> Words(HeaderWords, 4),
     query |-> {t \in Words(QueryWords, 4) : ~Crowded(t)},
     cookie |-> Words(CookieWords, 4)]

MCNames == [header |-> {<<"x">>, <<"y">>}, query |-> {<<"x">>, <<"y">>}]

Value(s) == Str(s)
MCGiven ==
    [header |-> {True, False, Value(<<"x", "\"">>), Value(<<"\\", ",", "y">>),
                 Value(<<"x", ";">>)},
     query |-> {True, Value(<<"\"", "&", "x">>), Value(<<"+", "=">>),
                Arr(<<[key |-> <<"0">>, val |-> Value(<<"x">>)],
                      [key |-> <<"1">>, val |-> Value(<<"&">>)]>>),
                Arr(<<[key |-> <<"1">>, val |-> Value(<<"x">>)],
                      [key |-> <<"0">>, val |-> Value(<<"]">>)]>>),
                Arr(<<[key |-> <<"y">>, val |-> Value(<<"=">>)]>>)}]
MCGivenArgs ==
    [header |-> {<<[key |-> <<"x">>, val |-> True],
                   [key |-> <<"y">>, val |-> Value(<<"\"", ",">>)]>>,
                 <<[key |-> <<"y">>, val |-> Value(<<"=">>)]>>},
     query |-> {}]

MCNumerals == {Numeral(n) : n \in 0..9}
MCAllowed == {<<"e">>, <<"0">>}
MCCookieNames == {<<"x">>, <<"e">>, <<"0">>, <<"path">>}
MCCookieValues == {Str(<<";", "x">>), Str(<<"\"", " ">>)}
MCAttributes ==
    [path |-> {None, <<"/">>, <<";">>}, domain |-> {<<"y">>},
     expires |-> {7}, maxAge |-> {5}, flags |-> {{"secure"}, {"secure", "httpOnly"}}]
=============================================================================
