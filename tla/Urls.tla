-------------------------------- MODULE Urls --------------------------------
(* Combining, stripping, completing and writing URLs: php_http_url.         *)
(*                                                                          *)
(* A component is None where its pointer is NULL.  A path is the sequence   *)
(* of what its slashes separate: "/a/" is <<"", "a", "">>, "" is <<"">>.    *)
(* A query is a text of module QueryStrings.  Ports are *)
(* members of a small set, 0 where there is none.                           *)
EXTENDS QueryStrings, SequencesExt

CONSTANTS None, DefaultPort    \* DefaultPort: the port of each scheme

Paths == Seq(STRING) \ {<<>>}
Texts == STRING \cup {None}
UrlsWith(queries) ==
    [scheme : Texts, user : Texts, pass : Texts, host : Texts, port : Nat,
     path : Paths \cup {None}, query : queries \cup {None}, fragment : Texts]
IsUrl(u) == \E S \in SUBSET Names : u \in UrlsWith([S -> TextValues])

ASSUME TextsAssumption ==
    /\ None \notin STRING \cup Paths
    /\ \A S \in SUBSET Names :
          None \notin [S -> TextValues] /\ None \notin UrlsWith([S -> TextValues])
    /\ Empty \in STRING \ {"http", "https", "localhost"}
    /\ {"", ".", "..", "http", "https", "localhost"} \subseteq STRING

Components == {"scheme", "user", "pass", "host", "port", "path", "query", "fragment"}
NoUrl == [c \in Components |-> IF c = "port" THEN 0 ELSE None]
Blank(c) == CASE c = "path" -> <<"">> [] c = "query" -> NoItems
              [] c = "port" -> 0 [] OTHER -> Empty

Given(u, c) == u[c] # (IF c = "port" THEN 0 ELSE None)
NewOverOld(old, new, c) == IF Given(new, c) THEN new[c] ELSE old[c]

\* php_dirname of a path that does not end in a slash.
Dirname(path) ==
    LET named == {i \in 1..(Len(path) - 1) : path[i] # ""}
    IN IF Len(path) = 1 THEN <<".">>
       ELSE IF named = {} THEN <<"", "">>
       ELSE SubSeq(path, 1, CHOOSE i \in named : \A j \in named : j <= i)

\* JOIN_PATH: a relative path replaces what follows the last slash.
JoinPath(old, new) == (IF Last(old) = "" THEN Front(old) ELSE Dirname(old)) \o new

\* JOIN_QUERY: both texts are parsed, and what they make is written.
JoinQuery(old, new) == Encoded(Update(Update(NoItems, Parsed(old)), Parsed(new)))

\* SANITIZE_PATH: a turn of the walk over the slashes of an absolute path, at
\* the slash before name "at".  A ".." at the end only loses its dots.
Turn(walk) ==
    LET path == walk.path
        at == walk.at
        name == path[at]
    IN IF at > Len(path) THEN walk
       ELSE IF at = Len(path)
            THEN [path |-> IF name \in {".", ".."} THEN [path EXCEPT ![at] = ""] ELSE path,
                  at |-> at + 1]
       ELSE IF name \in {"", "."} \/ (name = ".." /\ at = 2)
            THEN [path |-> RemoveAt(path, at), at |-> at]
       ELSE IF name = ".."
            THEN [path |-> RemoveAt(RemoveAt(path, at), at - 1), at |-> at - 1]
       ELSE [path |-> path, at |-> at + 1]

\* Every turn drops a name or gets past one.
Descent(path) ==
    LET turns[n \in 0..Len(path)] ==
            IF n = 0 THEN [path |-> path, at |-> 2] ELSE Turn(turns[n - 1])
    IN turns[Len(path)].path

Combined(flags, old, new) ==
    [NoUrl EXCEPT
        !.port = IF "strip_port" \in flags THEN 0 ELSE NewOverOld(old, new, "port"),
        !.user = IF "strip_auth" \in flags THEN None ELSE NewOverOld(old, new, "user"),
        !.pass = IF "strip_auth" \in flags THEN None ELSE NewOverOld(old, new, "pass"),
        !.scheme = NewOverOld(old, new, "scheme"),
        !.host = NewOverOld(old, new, "host"),
        !.path = IF "strip_path" \in flags THEN None
                 ELSE IF /\ "join_path" \in flags /\ Given(old, "path") /\ Given(new, "path")
                         /\ (Head(new.path) # "" \/ new.path = <<"">>)
                      THEN JoinPath(old.path, new.path)
                 ELSE NewOverOld(old, new, "path"),
        !.query = IF "strip_query" \in flags THEN None
                  ELSE IF "join_query" \in flags /\ Given(old, "query") /\ Given(new, "query")
                       THEN JoinQuery(old.query, new.query)
                  ELSE NewOverOld(old, new, "query"),
        !.fragment = IF "strip_fragment" \in flags THEN None
                     ELSE NewOverOld(old, new, "fragment")]

Absolute(path) == IF Head(path) = "" /\ Len(path) > 1 THEN path ELSE <<"">> \o path

\* A mistake: the port goes before the scheme that decides is there.
CompletedEarly(flags, u) ==
    LET path == IF u.path = None THEN <<"", "">> ELSE Absolute(u.path)
    IN [u EXCEPT
        !.scheme = IF @ = None THEN "http" ELSE @,
        !.host = IF @ = None THEN "localhost" ELSE @,
        !.path = IF "sanitize" \in flags /\ path # <<"", "">> THEN Descent(path) ELSE path,
        !.port = IF u.scheme \in DOMAIN DefaultPort /\ @ = DefaultPort[u.scheme] THEN 0 ELSE @]

\* The defaults, the sanitized path, and the default port dropped.
Completed(flags, u) ==
    LET scheme == IF u.scheme = None THEN "http" ELSE u.scheme
        path == IF u.path = None THEN <<"", "">> ELSE Absolute(u.path)
    IN [u EXCEPT
        !.scheme = scheme,
        !.host = IF @ = None THEN "localhost" ELSE @,
        !.path = IF "sanitize" \in flags /\ path # <<"", "">> THEN Descent(path) ELSE path,
        !.port = IF scheme \in DOMAIN DefaultPort /\ @ = DefaultPort[scheme] THEN 0 ELSE @]

\* php_http_url_from_env, of what the server says of the request.
FromEnv(server) ==
    [NoUrl EXCEPT
        !.port = server.port,
        !.scheme = IF server.https \/ server.port = DefaultPort["https"] THEN "https" ELSE "http",
        !.host = IF server.host = None THEN "localhost" ELSE server.host,
        !.path = server.path,
        !.query = IF server.query = NoItems THEN None ELSE server.query]

\* php_http_url; with FROM_ENV the old URL first goes over the server's.
Url(flags, server, old, new) ==
    LET Made(f, o, n) == Completed(f, Combined(f, o, n))
        rest == flags \ {"from_env"}
    IN IF "from_env" \in flags
       THEN Made(rest, Made(rest, FromEnv(server), old), new)
       ELSE Made(flags, old, new)

\* php_http_url_to_string and php_url_parse of the result: components that are
\* empty are not written, a password only with its user.
Reread(u) ==
    [c \in Components |->
        IF c = "host" /\ u[c] \in {None, Empty} THEN "localhost"
        ELSE IF u[c] = Blank(c) \/ (c = "pass" /\ u.user \in {None, Empty}) THEN NoUrl[c]
        ELSE u[c]]

\* php_http_url_to_struct into an object: what is NULL stays as it was.
ToStruct(object, u) ==
    [c \in Components |-> IF Given(u, c) THEN u[c] ELSE object[c]]

\* php_http_url_from_struct of an object: its NULL properties are empty strings.
FromStruct(object) == [c \in Components |-> IF object[c] = None THEN Blank(c) ELSE object[c]]
=============================================================================
