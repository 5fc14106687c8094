----------------------------- MODULE MCStreams -----------------------------
(***************************************************************************)
(* Streams and filters for TLC: a behaviour is about stream objects or     *)
(* about the filters of a connection.                                      *)
(***************************************************************************)
EXTENDS Filters

VARIABLE scene

vars == <<scene, streamVars, filterVars>>

\* A run of two, and two bytes that mean something to a reader of chunks.
MCMeaning == [t \in {"5", "LF", "55", "5E"} |->
    IF t = "55" THEN <<"5", "5">> ELSE IF t = "5E" THEN <<"5", "5">> ELSE <<t>>]

MCText == <<"5", "LF", "5", "5">>

MCLine == <<"5", "LF", "5">>

MCFlags == {[raw |-> TRUE, flush |-> NoFlush], [raw |-> FALSE, flush |-> SyncFlush]}

MCCompressed == {
    [tokens |-> <<"H1", "H2", "LF", "55", "E", "T">>, raw |-> FALSE],
    [tokens |-> <<"H1", "H2", "55", "F", "5", "E", "T", "H1">>, raw |-> FALSE],
    [tokens |-> <<"H1", "H2", "5", "55">>, raw |-> FALSE],
    [tokens |-> <<"LF", "55", "E">>, raw |-> TRUE],
    [tokens |-> <<"LF", "5E">>, raw |-> TRUE]}

Swapped == Permutations(Streams)

Init == scene \in {"streams", "filters"} /\ StreamInit /\ FilterInit

Next ==
    \/ scene = "streams" /\ StreamNext /\ UNCHANGED <<scene, filterVars>>
    \/ scene = "filters" /\ FilterNext /\ UNCHANGED <<scene, streamVars>>

Spec == Init /\ [][Next]_vars
=============================================================================
