------------------------------- MODULE Params -------------------------------
(***************************************************************************)
(* Parameters as header fields, query strings and cookies write them       *)
(* (php_http_params.c): php_http_params_parse, one iteration of its loop   *)
(* a step, php_http_params_to_string, and the class HttpParams over them.  *)
(*                                                                         *)
(* A text is a sequence of characters, and the %XX form of a character is  *)
(* one of them.  A hash table is the sequence of its entries in insertion  *)
(* order.  A parameter is written with at most one index in brackets.      *)
(***************************************************************************)
EXTENDS Naturals, FiniteSets, Sequences, SequencesExt, TLC

CONSTANTS Formats,     \* the names of the option sets in use
          Opts,        \* Opts[f]: separators, flags and default value of f
          Texts,       \* Texts[f]: the texts given to a constructor
          Names,       \* the names, values and argument tables that scripts
          Given,       \*   assign (functions on Formats, like Texts)
          GivenArgs,
          MaxEdits     \* bound: how often a script edits an object

VARIABLES format,      \* the options of the object
          pc,          \* "edit", "parse", "done", "read" or "crashed"
          edits,       \* edits so far
          params,      \* the table
          origin,      \* <<the table that was turned into text>>, or None
          text, at,    \* opts->input and the read position
          start,       \* state.param.str, .arg.str, .val.str; 0 is NULL
          current,     \* state.current.val: where a value goes, or None
          args,        \* state.current.args: the parameter whose table it is
          quotes, escape

vars == <<format, pc, edits, params, origin, text, at, start, current, args,
          quotes, escape>>

None == <<>>

True == [type |-> "true"]
False == [type |-> "false"]
Null == [type |-> "null"]
Str(s) == [type |-> "string", str |-> s]
Arr(table) == [type |-> "array", table |-> table]

Has(table, key) == \E i \in DOMAIN table : table[i].key = key
Place(table, key) == CHOOSE i \in DOMAIN table : table[i].key = key
Get(table, key) == table[Place(table, key)].val
Update(table, key, val) ==
    IF Has(table, key) THEN [table EXCEPT ![Place(table, key)].val = val]
                       ELSE Append(table, [key |-> key, val |-> val])
Delete(table, key) == SelectSeq(table, LAMBDA e : e.key # key)

\* nNextFreeElement: past every numeric key.
Numeral(n) == <<ToString(n)>>
NextIndex(table) ==
    CHOOSE n \in 0..Len(table) + 9 :
        /\ \A m \in n..Len(table) + 9 : ~Has(table, Numeral(m))
        /\ n > 0 => Has(table, Numeral(n - 1))

-----------------------------------------------------------------------------
(* What is done to the names and values that are read.                     *)

\* php_trim on both sides.
Trim(s) ==
    LET solid == {i \in DOMAIN s : s[i] # " "}
    IN  IF solid = {} THEN <<>>
        ELSE SubSeq(s, Min(solid), Max(solid))

Last0(S) == Max(S \cup {0})

\* php_stripslashes: a backslash goes, the character after it stays.
StripSlashes(s) ==
    LET run(i) == i - Last0({j \in 1..i : s[j] # "\\"})
    IN  FlattenSeq([i \in DOMAIN s |-> IF run(i) % 2 = 1 THEN <<>> ELSE <<s[i]>>])

Unquote(s) ==
    StripSlashes(IF Len(s) > 1 /\ s[1] = "\"" /\ Last(s) = "\""
                 THEN SubSeq(s, 2, Len(s) - 1) ELSE s)

Coded ==
    {<<" ", "%20">>, <<"\"", "%22">>, <<"\\", "%5C">>, <<",", "%2C">>,
     <<";", "%3B">>, <<"=", "%3D">>, <<"&", "%26">>, <<"[", "%5B">>,
     <<"]", "%5D">>, <<"+", "%2B">>}

\* php_raw_url_encode and its inverse, and php_url_encode.
RawUrlEncode(s) ==
    [i \in DOMAIN s |-> IF \E c \in Coded : c[1] = s[i]
                        THEN (CHOOSE c \in Coded : c[1] = s[i])[2] ELSE s[i]]
RawUrlDecode(s) ==
    [i \in DOMAIN s |-> IF \E c \in Coded : c[2] = s[i]
                        THEN (CHOOSE c \in Coded : c[2] = s[i])[1] ELSE s[i]]
UrlEncode(s) ==
    [i \in DOMAIN s |-> IF s[i] = " " THEN "+" ELSE RawUrlEncode(s)[i]]

Sanitized(s) ==
    LET plain == IF "default" \in Opts[format].flags
                 THEN Unquote(Trim(s)) ELSE Trim(s)
    IN  IF "urlencoded" \in Opts[format].flags THEN RawUrlDecode(plain)
                                               ELSE plain

\* sanitize_dimension: the keys of a name with brackets, none for a name
\* without.  A key left out is the index 0 of an array of its own.
Dimension(name) ==
    LET brackets == {i \in DOMAIN name : name[i] \in {"[", "]"}}
        ends == {i \in brackets : name[i] = "]" \/ i - 1 \notin brackets \cup {0}}
        order == SetToSortSeq(ends, <)
        from(i) == Last0({j \in brackets : j < i}) + 1
    IN  [n \in DOMAIN order |->
            IF from(order[n]) = order[n] THEN Numeral(0)
            ELSE SubSeq(name, from(order[n]), order[n] - 1)]

-----------------------------------------------------------------------------
(* push_param: the piece that ends before the read position goes where the *)
(* loop has noted that it goes.                                            *)

Piece(from) == SubSeq(text, from, at - 1)

Target(param, arg, index) == [param |-> param, arg |-> arg, index |-> index]

Stored(val) ==
    LET param == Get(params, current.param)
    IN  Update(params, current.param,
            IF current.arg # None
            THEN [param EXCEPT !.args = Update(@, current.arg, val)]
            ELSE IF current.index # None
            THEN [param EXCEPT !.value.table = Update(@, current.index, val)]
            ELSE [param EXCEPT !.value = val])

PushValue ==
    /\ params' = IF at > start.val THEN Stored(Str(Sanitized(Piece(start.val))))
                                   ELSE params
    /\ UNCHANGED <<current, args>>

\* A name that is blank changes nothing, not even where values go.
PushArg ==
    LET key == Sanitized(Piece(start.arg))
    IN  IF key = <<>> THEN UNCHANGED <<params, current, args>>
        ELSE /\ params' = Update(params, args,
                    [Get(params, args) EXCEPT !.args = Update(@, key, True)])
             /\ current' = Target(args, key, None)
             /\ UNCHANGED args

\* merge_param.  Into a table the index 0 is appended, and only a name that
\* is new sets current_args.
MergeParam(path) ==
    LET name == path[1]
        old == IF Has(params, name) THEN Get(params, name).value ELSE Null
        table == IF old.type = "array" THEN old.table ELSE <<>>
        index == IF path[2] = Numeral(0) THEN Numeral(NextIndex(table))
                                         ELSE path[2]
        first == IF old.type = "array" THEN old.table[1].key ELSE None
    IN  /\ params' =
            IF ~Has(params, name)
            THEN Update(params, name,
                    [value |-> IF Len(path) = 1 THEN Null
                               ELSE Arr(Update(<<>>, path[2], Null)),
                     args |-> <<>>])
            ELSE IF Len(path) = 1 THEN params
            ELSE Update(params, name, [Get(params, name) EXCEPT
                            !.value = Arr(Update(table, index, Null))])
        /\ current' = Target(name, None,
                        IF Len(path) = 2 THEN index ELSE first)
        /\ args' = IF Has(params, name) THEN args ELSE name

PushParam ==
    LET key == Sanitized(Piece(start.param))
        path == IF "dimension" \in Opts[format].flags THEN Dimension(key)
                                                      ELSE <<>>
    IN  IF at = start.param \/ key = <<>>
        THEN UNCHANGED <<params, current, args>>
        ELSE IF path # <<>> THEN MergeParam(path)
        ELSE /\ params' = Update(params, key, [value |-> Opts[format].defval,
                                               args |-> <<>>])
             /\ current' = Target(key, None, None)
             /\ args' = key

\* Undefined: a value or an argument before there is a name to have it
\* (a null pointer is followed), and a quote on its own (its length is -1).
Alone(s) == "default" \in Opts[format].flags /\ Trim(s) = <<"\"">>
Undefined ==
    IF start.val # 0
    THEN at > start.val /\ (current = None \/ Alone(Piece(start.val)))
    ELSE IF start.arg # 0
    THEN \/ Alone(Piece(start.arg))
         \/ args = None /\ Sanitized(Piece(start.arg)) # <<>>
    ELSE Alone(Piece(start.param))

Push ==
    /\ ~Undefined
    /\ IF start.val # 0 THEN PushValue
       ELSE IF start.arg # 0 THEN PushArg
       ELSE PushParam

-----------------------------------------------------------------------------
(* php_http_params_parse.                                                  *)

\* The head of the loop: a quote that is not escaped opens or closes a
\* quoted part, and the flag for the character before is renewed.
Toggles == text[at] = "\"" /\ ~escape
Quoted == IF Toggles THEN ~quotes ELSE quotes
Escaped == IF Toggles THEN escape ELSE text[at] = "\\"

\* check_sep and skip_sep.
IsSep(kinds, i) == \E k \in kinds : text[i] \in Opts[format][k]

AtSep(kinds) == ~Quoted /\ ~Escaped /\ IsSep(kinds, at)
Skip(kinds, from) ==
    CHOOSE i \in from..Len(text) + 1 :
        /\ \A j \in from..i - 1 : IsSep(kinds, j)
        /\ i <= Len(text) => ~IsSep(kinds, i)

Reading == pc = "parse" /\ at <= Len(text)
Loop ==
    /\ quotes' = Quoted
    /\ escape' = Escaped
    /\ UNCHANGED <<format, pc, edits, origin, text>>

\* A mistake: the end of the text is not looked for.
BeginBlind ==
    /\ Reading
    /\ start.param = 0
    /\ LET first == IF Quoted \/ Escaped THEN at
                    ELSE Skip({"param", "arg", "val"}, at)
       IN  /\ start' = [start EXCEPT !.param = first]
           /\ at' = first + 1
    /\ UNCHANGED <<params, current, args>>
    /\ Loop

\* What comes first is skipped up to the first name, of which one character
\* is passed without a look at it.
Begin ==
    /\ Reading
    /\ start.param = 0
    /\ LET first == IF Quoted \/ Escaped THEN at
                    ELSE Skip({"param", "arg", "val"}, at)
       IN  /\ start' = [start EXCEPT !.param = first]
           /\ at' = IF first <= Len(text) THEN first + 1 ELSE first
    /\ UNCHANGED <<params, current, args>>
    /\ Loop

NextParam ==
    /\ Reading
    /\ start.param # 0
    /\ AtSep({"param"})
    /\ Push
    /\ at' = Skip({"param", "arg", "val"}, at + 1)
    /\ start' = [param |-> at', arg |-> 0, val |-> 0]
    /\ Loop

\* A mistake: the value of the previous argument is not ended.
NextArgKeepsValue ==
    /\ Reading
    /\ start.param # 0
    /\ ~AtSep({"param"})
    /\ AtSep({"arg"})
    /\ Push
    /\ at' = Skip({"arg", "val"}, at + 1)
    /\ start' = [start EXCEPT !.arg = at']
    /\ Loop

\* A mistake: the separator is not skipped.
NextArgStays ==
    /\ Reading
    /\ start.param # 0
    /\ ~AtSep({"param"})
    /\ AtSep({"arg"})
    /\ Push
    /\ at' = at
    /\ start' = [start EXCEPT !.arg = at', !.val = 0]
    /\ Loop

NextArg ==
    /\ Reading
    /\ start.param # 0
    /\ ~AtSep({"param"})
    /\ AtSep({"arg"})
    /\ Push
    /\ at' = Skip({"arg", "val"}, at + 1)
    /\ start' = [start EXCEPT !.arg = at', !.val = 0]
    /\ Loop

ToValue ==
    /\ Reading
    /\ start.param # 0
    /\ ~AtSep({"param", "arg"})
    /\ AtSep({"val"})
    /\ start.val = 0
    /\ Push
    /\ at' = Skip({"val"}, at + 1)
    /\ start' = [start EXCEPT !.val = at']
    /\ Loop

Advance ==
    /\ Reading
    /\ start.param # 0
    /\ ~AtSep({"param", "arg"})
    /\ AtSep({"val"}) => start.val # 0
    /\ at' = at + 1
    /\ UNCHANGED <<params, start, current, args>>
    /\ Loop

Finish ==
    /\ pc = "parse"
    /\ at > Len(text)
    /\ IF start.param = 0 THEN UNCHANGED <<params, current, args>> ELSE Push
    /\ pc' = "done"
    /\ UNCHANGED <<format, edits, origin, text, at, start, quotes, escape>>

\* The process is lost.
Crash ==
    /\ pc = "parse"
    /\ start.param # 0
    /\ \/ at > Len(text)
       \/ Reading /\ AtSep({"param", "arg"})
       \/ Reading /\ AtSep({"val"}) /\ start.val = 0
    /\ Undefined
    /\ pc' = "crashed"
    /\ UNCHANGED <<format, edits, params, origin, text, at, start, current, args,
                   quotes, escape>>

-----------------------------------------------------------------------------
(* php_http_params_to_string, with the first separator of each kind.       *)

\* prepare_key and prepare_value: quotes only around what has slashes.
Prepared(s) ==
    LET coded == IF "urlencoded" \in Opts[format].flags THEN UrlEncode(s) ELSE s
        slashed == FlattenSeq([i \in DOMAIN coded |->
                IF coded[i] \in {"\"", "\\"} THEN <<"\\", coded[i]>>
                                             ELSE <<coded[i]>>])
    IN  IF "default" \in Opts[format].flags /\ Len(slashed) # Len(coded)
        THEN <<"\"">> \o slashed \o <<"\"">> ELSE coded

ShiftKey(buf, key, sep) ==
    (IF buf = <<>> THEN buf ELSE buf \o sep) \o Prepared(key)
ShiftVal(buf, val) ==
    LET vss == Opts[format].out.val
    IN  CASE val.type = "true" -> buf
          [] val.type = "false" -> buf \o vss \o <<"0">>
          [] val.type = "null" -> buf \o vss
          [] OTHER -> buf \o vss \o Prepared(val.str)

\* prepare_dimension: the entries one by one, a boolean as a string.
ShiftDimension(buf, key, table) ==
    FoldLeft(LAMBDA b, e :
        ShiftVal(ShiftKey(b, key \o <<"[">> \o e.key \o <<"]">>,
                          Opts[format].out.param),
                 IF e.val = True THEN Str(<<"1">>) ELSE e.val), buf, table)

ShiftParam(buf, e) ==
    IF e.val.value.type = "array" THEN ShiftDimension(buf, e.key, e.val.value.table)
    ELSE ShiftVal(ShiftKey(buf, e.key, Opts[format].out.param), e.val.value)

AsText(table) ==
    FoldLeft(LAMBDA buf, e :
        FoldLeft(LAMBDA b, a :
                    ShiftVal(ShiftKey(b, a.key, Opts[format].out.arg), a.val),
                 ShiftParam(buf, e), e.val.args), <<>>, table)

-----------------------------------------------------------------------------
(* HttpParams.                                                             *)

Nothing == [param |-> 0, arg |-> 0, val |-> 0]

Edit ==
    /\ pc = "edit"
    /\ edits < MaxEdits
    /\ edits' = edits + 1
    /\ UNCHANGED <<format, pc, origin, text, at, start, current, args, quotes,
                   escape>>

\* offsetSet with a name: a scalar is the value, and what is there stays.
OffsetSet(name, value) ==
    /\ Edit
    /\ params' = Update(params, name,
        IF Has(params, name) THEN [Get(params, name) EXCEPT !.value = value]
        ELSE [value |-> value, args |-> <<>>])

\* offsetSet with an array, joined over what is there.
OffsetSetArgs(name, table) ==
    /\ Edit
    /\ Has(params, name)
    /\ params' = Update(params, name, [Get(params, name) EXCEPT !.args = table])

\* offsetSet without a name.
OffsetAppend(name) ==
    /\ Edit
    /\ params' = Update(params, name, [value |-> True, args |-> <<>>])

OffsetUnset(name) ==
    /\ Edit
    /\ params' = Delete(params, name)

\* toString, and the constructor with the text.
Rewrite ==
    /\ pc = "edit"
    /\ pc' = "parse"
    /\ origin' = <<params>>
    /\ text' = AsText(params)
    /\ params' = <<>>
    /\ UNCHANGED <<format, edits, at, start, current, args, quotes, escape>>

Fresh ==
    /\ format \in Formats
    /\ edits = 0
    /\ params = <<>>
    /\ origin = None
    /\ at = 1
    /\ start = Nothing
    /\ current = None
    /\ args = None
    /\ quotes = FALSE
    /\ escape = FALSE

\* A constructor with text, or one without.
Init ==
    /\ Fresh
    /\ \/ pc = "parse" /\ text \in Texts[format]
       \/ pc = "edit" /\ text = <<>>

Parse == Begin \/ NextParam \/ NextArg \/ ToValue \/ Advance \/ Finish \/ Crash

Script ==
    \/ \E name \in Names[format], v \in Given[format] : OffsetSet(name, v)
    \/ \E name \in Names[format], t \in GivenArgs[format] :
            OffsetSetArgs(name, t)
    \/ \E name \in Names[format] : OffsetAppend(name) \/ OffsetUnset(name)
    \/ Rewrite

Next == Script \/ Parse

\* There is no more to do.
Over == pc \in {"done", "crashed"} /\ UNCHANGED vars

Spec == Init /\ [][Next \/ Over]_vars

-----------------------------------------------------------------------------
(* Properties.                                                             *)

TypeOK ==
    /\ pc \in {"edit", "parse", "done", "read", "crashed"}
    /\ at \in 1..Len(text) + 1
    /\ \A k \in DOMAIN start : start[k] \in 0..at
    /\ \A i, j \in DOMAIN params : i # j => params[i].key # params[j].key
    /\ current # None => Has(params, current.param)
    /\ args # None => Has(params, args)

(* The text read at once: its items lie between the separators that are    *)
(* outside of quotes, the last parameter of a name counts, and to it       *)
(* belong the arguments that follow up to the next parameter.              *)
Cuts ==
    LET marks == {j \in DOMAIN text : /\ text[j] = "\""
                                     /\ (j = 1 \/ text[j - 1] # "\\")}
        outside == {i \in DOMAIN text :
                        Cardinality({j \in marks : j < i}) % 2 = 0}
    IN  [k \in {"param", "arg", "val"} |-> {i \in outside : IsSep({k}, i)}]

\* From the separator before it, and "="s after that, up to the next one.
Items(cuts) ==
    LET ends == cuts.param \cup cuts.arg \cup {Len(text) + 1}
        From(e) ==
            CHOOSE i \in 1..e :
                LET b == Last0({c \in ends : c < e}) + 1
                IN  /\ i >= b
                    /\ b..i - 1 \subseteq cuts.val
                    /\ i \notin cuts.val
    IN  {<<From(e), e - 1>> : e \in {e \in ends : From(e) < e}}

Equals(cuts, r) == cuts.val \cap (r[1]..r[2])
NameOf(cuts, r) ==
    Sanitized(SubSeq(text, r[1], Min(Equals(cuts, r) \cup {r[2] + 1}) - 1))
ValueOf(cuts, r) ==
    IF Equals(cuts, r) = {} THEN Null
    ELSE LET from == Skip({"val"}, Min(Equals(cuts, r)))
         IN  IF from > r[2] THEN Null
             ELSE Str(Sanitized(SubSeq(text, from, r[2])))

\* Nothing but separators is before it, or a parameter separator is among
\* those it comes after.
IsParam(cuts, r) ==
    LET end == Last0((1..r[1] - 1) \ UNION Range(cuts))
    IN  end = 0 \/ cuts.param \cap (end + 1..r[1] - 1) # {}

Latest(cuts, items, name) ==
    LET named == {r \in items : NameOf(cuts, r) = name}
    IN  {r \in named : \A s \in named : s[1] <= r[1]}
ArgsOf(cuts, items, r) ==
    {a \in items : /\ a[1] > r[1] /\ NameOf(cuts, a) # <<>>
                   /\ \A p \in items :
                        p[1] \in r[1] + 1..a[1] => ~IsParam(cuts, p)}

\* What is blank has no value and is no parameter, and no quote is the first
\* character after separators that the text begins with.
Regular(cuts, items) ==
    /\ \A r \in items : NameOf(cuts, r) = <<>> =>
            ~IsParam(cuts, r) /\ ValueOf(cuts, r) = Null
    /\ 1 \in UNION Range(cuts) => \A r \in items :
            text[r[1]] \in {"\"", "\\"} => \E s \in items : s[1] < r[1]

(* A text gives the parameters, values and arguments that it has when it   *)
(* is read at once: the positions that php_http_params_parse keeps across  *)
(* its loop give every value to its own name, whatever is quoted, missing, *)
(* repeated or out of place around it.                                     *)
MeansItsText ==
    pc = "done" /\ "dimension" \notin Opts[format].flags =>
        LET cuts == Cuts
            items == Items(cuts)
            found == {r \in items : IsParam(cuts, r)}
            Valued(r, default) == IF ValueOf(cuts, r) = Null THEN default
                                  ELSE ValueOf(cuts, r)
        IN  Regular(cuts, items) =>
            /\ {e.key : e \in Range(params)}
                 = {NameOf(cuts, r) : r \in found}
            /\ \A e \in Range(params) : \A r \in Latest(cuts, found, e.key) :
                LET of == ArgsOf(cuts, items, r)
                IN  /\ e.val.value = Valued(r, Opts[format].defval)
                    /\ {a.key : a \in Range(e.val.args)}
                         = {NameOf(cuts, a) : a \in of}
                    /\ \A a \in Range(e.val.args) :
                        \A s \in Latest(cuts, of, a.key) :
                            a.val = Valued(s, True)

\* What a text can carry: see "Modelled as it is" in the README.
CarriedStr(s) ==
    LET specials == Opts[format].param \cup Opts[format].arg
        slashed == {"\"", "\\"} \cap Range(s) # {}
    IN  IF "urlencoded" \in Opts[format].flags THEN s # <<>> /\ " " \notin Range(s)
        ELSE /\ s # <<>> /\ s[1] # "="
             /\ IF slashed THEN Last(s) # "\\"
                ELSE specials \cap Range(s) = {} /\ Trim(s) = s
Carried(val) ==
    \/ val = True
    \/ val.type = "string" /\ CarriedStr(val.str)
    \/ /\ val.type = "array" /\ val.table # <<>>
       /\ \A i \in DOMAIN val.table : val.table[i].val.type = "string"
                                      /\ CarriedStr(val.table[i].val.str)
       /\ \A i \in DOMAIN val.table : val.table[i].key = Numeral(0) => i = 1

(* Parameters that are turned into text and read again with the same       *)
(* options are the parameters they were, in their order.                   *)
RoundTrip ==
    /\ pc = "done"
    /\ origin # None
    /\ \A e \in Range(origin[1]) :
        /\ Carried(e.val.value)
        /\ \A a \in Range(e.val.args) : Carried(a.val)
    => params = origin[1]

(* The constructor returns: an iteration of the loop moves on in the text,  *)
(* or ends it, and never stays where it is.                                *)
ParseAdvances == [][pc = "parse" => at' > at \/ pc' # "parse"]_vars
=============================================================================
