----------------------------- MODULE MCRequests -----------------------------
EXTENDS ClientRequests

CONSTANT X    \* an index that is no number

MCMaxEdits == [options |-> 4, queries |-> 4, urls |-> 3]
MCAlike == {<<"1", "  1">>, <<"  1", "1">>}
MCPlus == [w \in Words |-> IF w = "  1" THEN "++1" ELSE w]
MCDefaultPort == [http |-> 80, https |-> 443]

MCContents == {NoOptions, [a |-> 1]}
Option(k, v) == [key |-> k, val |-> v]
MCGivenOptions ==
    {<<>>, <<Option("p", 1), Option("ssl", Unset)>>,
     <<Option("ssl", [b |-> 2]), Option("p", 2), Option("recordHistory", 1)>>,
     <<Option("ssl", Variable), Option("p", Unset)>>}

A(v) == [a |-> v]
AB(v, w) == [a |-> v, b |-> w]
One(s) == [i \in {Bare} |-> s]
Array(f) == [at |-> f, ahead |-> {}]
MCGivenQueries ==
    {[kind |-> "text", items |-> A(One("1"))],
     [kind |-> "text", items |-> AB(One("  1"), One(""))],
     [kind |-> "text", items |-> A((0 :> "2"))],
     [kind |-> "table", items |-> A(Array(1 :> "  1"))],
     [kind |-> "table", items |-> AB([at |-> (1 :> "2" @@ 0 :> "1"), ahead |-> {1}], Scalar("1"))],
     [kind |-> "table", items |-> AB(Scalar(Null), Array(X :> "1"))],
     [kind |-> "table", items |-> A(Array(NoOptions))]}
MCGivenValues == {Scalar("2"), Scalar(Null)}

Given2(path, query) == [NoUrl EXCEPT !.path = path, !.query = query]
MCGivenUrls ==
    {[NoUrl EXCEPT !.scheme = "https", !.host = "h", !.port = 443, !.path = <<"", "a", "b">>,
                   !.query = A(One("  1")), !.fragment = "f"],
     [NoUrl EXCEPT !.host = "h", !.port = 80, !.user = "u", !.pass = "w"],
     Given2(<<"..", "a", "", "..", "..", "b", "..">>, A((X :> "2"))),
     Given2(<<"c">>, None),
     Given2(<<"", ".", "c", "", "d", "..", "">>, NoItems)}
MCFlagSets ==
    {{}, {"from_env"}, {"join_path", "join_query"}, {"sanitize", "from_env"},
     {"join_path", "sanitize"},
     {"strip_auth", "strip_port", "strip_path", "strip_query", "strip_fragment"}}
MCServer == [port |-> 8080, https |-> FALSE, host |-> "s", path |-> <<"", "e", "">>,
             query |-> A(One("2"))]
=============================================================================
