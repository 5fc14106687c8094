--------------------------- MODULE MCEnvResponse ---------------------------
(* Scripts and clients for EnvResponse. *)
EXTENDS EnvResponse

File == [ops |-> "stream", kind |-> "file", short |-> FALSE, code |-> 200, gzip |-> FALSE,
         vary |-> FALSE, chunk |-> 0, tagged |-> FALSE, echoed |-> FALSE]

RespondSetups ==
    {File, [File EXCEPT !.kind = "temp"], [File EXCEPT !.ops = "sapi", !.tagged = TRUE],
     [File EXCEPT !.kind = "temp", !.tagged = TRUE, !.chunk = 1],
     [File EXCEPT !.gzip = TRUE, !.chunk = 2], [File EXCEPT !.ops = "sapi", !.gzip = TRUE, !.vary = TRUE],
     [File EXCEPT !.gzip = TRUE, !.vary = TRUE],
     [File EXCEPT !.kind = "none"], [File EXCEPT !.kind = "none", !.ops = "sapi", !.echoed = TRUE],
     [File EXCEPT !.code = 404], [File EXCEPT !.short = TRUE],
     [File EXCEPT !.ops = "sapi", !.echoed = TRUE]}

RespondWires ==
    {<<"0", "-", "1">>, <<"1", "-">>, <<"-", "2">>, <<"3", "-", "2">>, <<"9", "-">>,
     <<"0", "0", "-", "0">>, <<"1", "-", "0">>, <<"0", "-">>, <<"-">>, <<"-", "0">>, <<"-", "9">>,
     <<"-", "1", ",", "0", "-", "1">>, <<"1", "-", "1", ",", " ", "0", "-", "0", ",", "-", "1">>,
     <<"1", "0", "-", "1", "1">>, <<"0", "-", "1", "0">>, <<"2", "-", "0", "9">>}

RespondResumed ==
    {<<"1", "-">>, <<"-">>, <<"-", "9">>, <<"-", "1", ",", "0", "-", "1">>, <<"0", "-", "1", "0">>}
=============================================================================
