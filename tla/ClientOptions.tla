--------------------------- MODULE ClientOptions ----------------------------
(* The options of http\Client and http\Client\Request objects.              *)
(*                                                                          *)
(* Every object has an array of options, and the options ssl and cookies    *)
(* are arrays themselves.  PHP shares arrays until one is written to, but   *)
(* the extension writes to some of them in place: a clone keeps the very    *)
(* array of its original, and the array given for ssl, one a variable of    *)
(* the script may hold too, is the one later calls add to.  So arrays are   *)
(* kept on a heap, "tables" for the arrays of the objects and "parts" for   *)
(* those of ssl and cookies, and objects refer to them by number.           *)
EXTENDS Integers, Sequences, FiniteSets, TLC, SequencesExt

CONSTANTS
    Objects,      \* clients and requests
    Clients,      \* the clients among them; a client cannot be cloned
    Parts,        \* the options that are arrays: ssl, cookies
    Special,      \* recordHistory, responseMessageClass: properties of a client
    Keys,         \* of options, those of Parts among them
    Settings,     \* values of options
    Fields,       \* keys of the arrays for ssl and cookies; Settings are their values too
    Unset,        \* PHP's NULL, which deletes an option
    Variable,     \* a variable of the script, and what it holds as a value
    Contents,     \* what an array for ssl may hold
    GivenOptions, \* arrays given to setOptions: sequences of [key, val]
    MaxEdits      \* the calls a script makes, by what it is about

Arrays == UNION {[S -> Settings] : S \in SUBSET Fields}

\* A script gives arrays: no key comes twice.
ASSUME OptionsAssumption ==
    /\ IsFiniteSet(Objects) /\ IsFiniteSet(Keys) /\ Parts \subseteq Keys /\ Parts # {}
    /\ Variable \notin Objects /\ {Unset, Variable} \cap Arrays = {}
    /\ Unset # Variable /\ Unset \notin Nat
    /\ Contents \subseteq Arrays
    /\ \A given \in GivenOptions :
          /\ Len(given) \in Nat /\ given = [i \in 1..Len(given) |-> given[i]]
          /\ \A i, j \in DOMAIN given : given[i].key = given[j].key => i = j
          /\ \A i \in DOMAIN given : given[i].key \in Keys
          /\ \A i \in DOMAIN given : given[i].key \in Parts =>
                given[i].val \in Arrays \cup {Unset, Variable}

VARIABLES
    options,      \* each object's table
    tables,       \* the heap of option arrays
    parts,        \* the heap of ssl and cookies arrays
    held,         \* the part a variable of the script holds
    properties,   \* recordHistory and responseMessageClass of the clients
    told,         \* what each object would have if every call copied
    kin,          \* those that shared an array with another one
    script,       \* what the script is about, see module ClientRequests
    edits

optionVars == <<options, tables, parts, held, properties, told, kin, script>>

Tables == 1..Cardinality(Objects)
PartIds == 1..((Cardinality(Objects) + 1) * Cardinality(Parts) + 1)
NoOptions == [k \in {} |-> 0]
Members == Objects \cup {Variable}
With(f, k, v) == [x \in DOMAIN f \cup {k} |-> IF x = k THEN v ELSE f[x]]
Drop(f, k) == [x \in DOMAIN f \ {k} |-> f[x]]
Over(f, g) == [x \in DOMAIN f \cup DOMAIN g |-> IF x \in DOMAIN f THEN f[x] ELSE g[x]]

\* The options of an object as the script reads them.
Options(o) == LET t == tables[options[o]]
              IN [k \in DOMAIN t |-> IF k \in Parts THEN parts[t[k]] ELSE t[k]]

PartsOf(ts, os) == UNION {{ts[os[o]][k] : k \in DOMAIN ts[os[o]] \cap Parts} : o \in Objects}

InUse(ts, os) == {os[o] : o \in Objects}

\* A table nobody uses once o lets go of its own.
FreshTable(o, os) == CHOOSE i \in Tables : \A p \in Objects \ {o} : os[p] # i

FreeParts == PartIds \ (PartsOf(tables, options) \cup {held})
FreshPart == CHOOSE i \in FreeParts : TRUE

\* What a call works on.
Heap == [options |-> options, tables |-> tables, parts |-> parts, properties |-> properties]

\* Arrays nobody refers to are freed.
Collected(h) ==
    [h EXCEPT
        !.tables = [i \in Tables |-> IF i \in InUse(h.tables, h.options) THEN @[i] ELSE NoOptions],
        !.parts = [i \in PartIds |->
            IF i \in PartsOf(h.tables, h.options) \cup {held} THEN @[i] ELSE NoOptions]]

Replace(h, o, table) ==
    LET i == FreshTable(o, h.options)
    IN [h EXCEPT !.options[o] = i, !.tables[i] = table]

Table(h, o) == h.tables[h.options[o]]

\* A mistake: the options are changed where they are.
SetSubrInPlace(h, o, key, part, overwrite) ==
    LET t == Table(h, o)
        given == part # 0 /\ h.parts[part] # NoOptions
    IN IF ~overwrite /\ ~given THEN h
       ELSE IF overwrite /\ ~given
            THEN [h EXCEPT !.tables[h.options[o]] = Drop(t, key)]
       ELSE IF overwrite \/ key \notin DOMAIN t
            THEN [h EXCEPT !.tables[h.options[o]] = With(t, key, part)]
       ELSE [h EXCEPT !.parts[t[key]] = Over(h.parts[part], @)]

\* php_http_client_options_set_subr: the table is copied, the array that is
\* there is joined in place.
SetSubr(h, o, key, part, overwrite) ==
    LET t == Table(h, o)
        given == part # 0 /\ h.parts[part] # NoOptions
    IN IF ~overwrite /\ ~given THEN h
       ELSE IF overwrite /\ ~given THEN Replace(h, o, Drop(t, key))
       ELSE IF overwrite \/ key \notin DOMAIN t THEN Replace(h, o, With(t, key, part))
       ELSE Replace([h EXCEPT !.parts[t[key]] = Over(h.parts[part], @)], o, t)

\* One entry of what php_http_client_options_set is given; "rest" collects
\* what is joined in the end.
SetOne(h, o, entry) ==
    IF entry.key \in Parts /\ entry.val # Unset
    THEN [h EXCEPT !.heap = SetSubr(@, o, entry.key, entry.val, FALSE)]
    ELSE IF o \in Clients /\ entry.key \in Special
    THEN [h EXCEPT !.heap.properties[o] = With(@, entry.key, entry.val)]
    ELSE IF entry.val = Unset
    THEN [h EXCEPT !.heap.tables[h.heap.options[o]] = Drop(@, entry.key)]
    ELSE [h EXCEPT !.rest = With(@, entry.key, entry.val)]

\* php_http_client_options_set.
OptionsSet(h, o, given) ==
    IF given = <<>> THEN Replace(h, o, NoOptions)
    ELSE LET set == FoldLeft(LAMBDA s, e : SetOne(s, o, e), [heap |-> h, rest |-> NoOptions], given)
         IN Replace(set.heap, o, Over(set.rest, Table(set.heap, o)))

\* The arrays in an argument get a place on the heap; the variable's has one.
Loaded(given) ==
    LET new == {i \in DOMAIN given : given[i].key \in Parts /\ given[i].val \notin {Unset, Variable}}
        at == CHOOSE f \in [new -> FreeParts] : IsInjective(f)
    IN [heap |-> [Heap EXCEPT !.parts =
            [p \in PartIds |-> IF \E i \in new : at[i] = p
                               THEN given[CHOOSE i \in new : at[i] = p].val ELSE @[p]]],
        given |-> [i \in DOMAIN given |->
            IF i \in new THEN [key |-> given[i].key, val |-> at[i]]
            ELSE IF given[i].key \in Parts /\ given[i].val = Variable
                 THEN [key |-> given[i].key, val |-> held]
            ELSE given[i]]]

Commit(h) ==
    LET c == Collected(h)
    IN /\ edits < MaxEdits[script] /\ edits' = edits + 1
       /\ options' = c.options /\ tables' = c.tables
       /\ parts' = c.parts /\ properties' = c.properties
       /\ UNCHANGED script

\* What the calls say, had every one of them its own arrays.
ToldPart(has, key, content, overwrite) ==
    IF content = NoOptions THEN IF overwrite THEN Drop(has, key) ELSE has
    ELSE IF overwrite \/ key \notin DOMAIN has THEN With(has, key, content)
    ELSE [has EXCEPT ![key] = Over(content, @)]

ToldOne(has, o, e) ==
    IF e.key \in Parts /\ e.val # Unset
    THEN ToldPart(has, e.key, IF e.val = Variable THEN parts[held] ELSE e.val, FALSE)
    ELSE IF o \in Clients /\ e.key \in Special THEN has
    ELSE IF e.val = Unset THEN Drop(has, e.key)
    ELSE With(has, e.key, e.val)

Tell(o, has) == told' = [told EXCEPT ![o] = has]

Share(a, b) == kin' = kin \cup {a, b}
Part(m) == kin' = kin \ {m}

\* $o->setOptions($given).
SetOptions(o, given) ==
    LET loaded == Loaded(given)
    IN /\ Commit(OptionsSet(loaded.heap, o, loaded.given))
       /\ Tell(o, IF given = <<>> THEN NoOptions
                  ELSE FoldLeft(LAMBDA t, e : ToldOne(t, o, e), told[o], given))
       /\ IF given = <<>> THEN Part(o)
          ELSE IF \E i \in DOMAIN given : given[i].val = Variable THEN Share(o, Variable)
          ELSE UNCHANGED kin
       /\ UNCHANGED held

\* $o->setOptions($p->getOptions()): the copy getOptions makes has the same parts.
SetOptionsOf(o, p) ==
    LET t == Table(Heap, p)
        given == [i \in 1..Cardinality(DOMAIN t) |->
                    LET k == SetToSeq(DOMAIN t)[i] IN [key |-> k, val |-> t[k]]]
        says == [i \in DOMAIN given |-> [given[i] EXCEPT !.val = Options(p)[given[i].key]]]
    IN /\ Commit(OptionsSet(Heap, o, given))
       /\ Tell(o, IF given = <<>> THEN NoOptions
                  ELSE FoldLeft(LAMBDA u, e : ToldOne(u, o, e), told[o], says))
       /\ IF given = <<>> THEN Part(o) ELSE IF o = p THEN UNCHANGED kin ELSE Share(o, p)
       /\ UNCHANGED held

\* setSslOptions and setCookies, addSslOptions and addCookies.
SetPart(o, key, content, overwrite) ==
    LET i == FreshPart
    IN /\ key = "cookies" => o \in Clients
       /\ Commit(SetSubr([Heap EXCEPT !.parts[i] = content], o, key, i, overwrite))
       /\ Tell(o, ToldPart(told[o], key, content, overwrite))
       /\ UNCHANGED <<held, kin>>

\* $p = clone $o, of requests only: both have the same table.
CloneOptions(o, p) ==
    /\ {o, p} \cap Clients = {} /\ o # p
    /\ Commit([Heap EXCEPT !.options[p] = options[o]])
    /\ Tell(p, told[o])
    /\ Share(o, p)
    /\ UNCHANGED held

\* $variable = $content.
Assign(content) ==
    LET i == FreshPart
    IN /\ held' = i
       /\ edits < MaxEdits[script] /\ edits' = edits + 1
       /\ parts' = [j \in PartIds |->
              IF j = i THEN content
              ELSE IF j \in PartsOf(tables, options) THEN parts[j] ELSE NoOptions]
       /\ Tell(Variable, content)
       /\ Part(Variable)
       /\ UNCHANGED <<options, tables, properties, script>>

OptionsInit ==
    /\ options = CHOOSE order \in [Objects -> Tables] : IsInjective(order)
    /\ tables = [i \in Tables |-> NoOptions]
    /\ held = 1
    /\ parts = [i \in PartIds |-> NoOptions]
    /\ properties = [o \in Clients |-> NoOptions]
    /\ told = [m \in Members |-> NoOptions]
    /\ kin = {}
    /\ edits = 0
    /\ script \in DOMAIN MaxEdits

OptionsNext ==
    \/ \E o \in Objects, given \in GivenOptions : SetOptions(o, given)
    \/ \E o, p \in Objects : SetOptionsOf(o, p)
    \/ \E o \in Objects, key \in Parts, content \in Contents, overwrite \in BOOLEAN :
          SetPart(o, key, content, overwrite)
    \/ \E content \in Contents : Assign(content)

-----------------------------------------------------------------------------
\* An object that never shared an array has the options its calls gave it, and
\* so has the script's variable.  One that did may have lost an option to
\* another one's NULL, or find its parts joined, but never sees an option
\* appear or a plain one changed.
OptionsAsTold ==
    /\ \A o \in Objects :
          /\ o \notin kin => Options(o) = told[o]
          /\ DOMAIN Options(o) \subseteq DOMAIN told[o]
          /\ \A k \in DOMAIN Options(o) \ Parts : Options(o)[k] = told[o][k]
    /\ Variable \notin kin => parts[held] = told[Variable]
=============================================================================
