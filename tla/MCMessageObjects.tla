-------------------------- MODULE MCMessageObjects --------------------------
(* What scripts do with http\Message objects. *)
EXTENDS MessageObjects

Plain == {<<"none">>, <<"none", "none">>}
Exchange == {<<"response">>, <<"response", "request">>}
UpToThree == Plain \cup {<<"none", "none", "none">>}

Scenario(calls, parsed, room, variables) ==
    [calls |-> calls, parsed |-> parsed, responses |-> {}, requests |-> {},
     room |-> room, clientRoom |-> room, variables |-> variables]

Relinking ==
    Scenario({"new", "getParentMessage", "setParentMessage", "prepend", "reverse"}, Plain, 4, 1)
Below ==
    Scenario({"new", "getParentMessage", "prepend", "prependBelow", "reverse"}, {<<"none">>}, 3, 1)
Copying ==
    Scenario({"new", "newFromChain", "clone", "detach", "reverse", "serialize"}, Exchange, 3, 2)
Iterating == Scenario({"new", "iterate", "prepend", "reverse"}, UpToThree, 3, 1)
WithBodies == Scenario({"new", "newFromChain", "clone", "bodies"}, {<<"none">>}, 4, 1)
UnusedBodies == Scenario({"new", "bodies", "unusedBody"}, {<<"none">>}, 3, 1)
Unserializing ==
    Scenario({"unserialize", "getParentMessage", "setParentMessage", "prepend", "reverse", "clone"},
             Plain, 4, 1)
Requesting ==
    [Scenario({"new", "respond"}, {<<"request">>}, 1, 1)
       EXCEPT !.responses = {<<"response">>}, !.requests = {<<"request">>}, !.clientRoom = 6]
Redirected ==
    [Scenario({"new", "respond", "history", "getParentMessage"}, {<<"request">>}, 5, 1)
       EXCEPT !.responses = {<<"response">>, <<"response", "response">>},
              !.requests = {<<"request">>, <<"request", "request">>}]
MCScenarios ==
    {Relinking, Below, Copying, Iterating, WithBodies, UnusedBodies, Unserializing, Requesting, Redirected}

=============================================================================
