-------------------------------- MODULE Zlib --------------------------------
(***************************************************************************)
(* What the encoding streams rely on in zlib, which is not part of this    *)
(* repository.  A compressed byte is a token: "H1" and "H2" make a header, *)
(* "F" is what a flush leaves, "E" the end of the data, "T" the check sum  *)
(* behind it; every other token stands for one or more symbols of the      *)
(* plain data.  Raw deflated data has neither header nor check sum.        *)
(*                                                                         *)
(* deflate keeps what it was given for as long as it likes, and keeps what  *)
(* does not fit into the room for output; inflate may have taken the last  *)
(* token without having had the room for all it stands for.                *)
(***************************************************************************)
EXTENDS Integers, Sequences, SequencesExt

CONSTANTS
    Meaning,    \* the symbols a token of the data stands for
    Closing     \* the tokens that end raw deflated data as well

DataTokens == DOMAIN Meaning

ASSUME MeaningAssumption ==
    /\ \A t \in DataTokens : Meaning[t] # <<>>
    /\ Closing \subseteq DataTokens

\* The symbols: tokens that stand for themselves.
Symbols == {t \in DataTokens : Meaning[t] = <<t>>}

Token == DataTokens \cup {"H1", "H2", "F", "E", "T"}

Plain(tokens) == FlattenSeq([i \in DOMAIN tokens |->
    IF tokens[i] \in DataTokens THEN Meaning[tokens[i]] ELSE <<>>])

Least(m, n) == IF m < n THEN m ELSE n
Upto(s, n) == SubSeq(s, 1, Least(n, Len(s)))
Behind(s, n) == SubSeq(s, n + 1, Len(s))

-----------------------------------------------------------------------------
(* deflate *)

\* Z_NO_FLUSH < Z_SYNC_FLUSH < Z_FULL_FLUSH < Z_FINISH; -1 before the first call.
NoFlush == 0
SyncFlush == 2
FullFlush == 3
ZFinish == 4

NewDeflate(raw) ==
    [raw |-> raw, head |-> FALSE, fin |-> FALSE, last |-> -1, win |-> <<>>, pend |-> <<>>]

DeflateTokens(z, n, given, flush) ==
    (IF z.head \/ z.raw THEN <<>> ELSE <<"H1", "H2">>)
        \o Upto(z.win \o given, n)
        \o (IF flush \in {SyncFlush, FullFlush} THEN <<"F">>
            ELSE IF flush = ZFinish /\ ~z.fin
                 THEN <<"E">> \o (IF z.raw THEN <<>> ELSE <<"T">>)
                 ELSE <<>>)

\* k tokens of the input are taken, n of what was taken so far are compressed.
Deflated(z, in, space, flush, k, n) ==
    LET given == Upto(in, k)
        all == k = Len(in)
        p == z.pend \o DeflateTokens(z, n, given, IF all THEN flush ELSE NoFlush)
        fin == z.fin \/ (flush = ZFinish /\ all)
    IN [z |-> [z EXCEPT !.head = TRUE,
                        !.fin = fin,
                        !.last = IF Len(p) >= space THEN -1 ELSE flush,
                        !.win = Behind(z.win \o given, n),
                        !.pend = Behind(p, space)],
        rest |-> Behind(in, k),
        out |-> Upto(p, space),
        status |-> IF fin /\ Len(p) <= space THEN "STREAM_END" ELSE "OK"]

\* Input is left only if the output is full; only without flush symbols are held.
Deflations(z, in, space, flush) ==
    LET held(k) == IF flush = NoFlush THEN 0 .. (Len(z.win) + k) ELSE {0}
        results == UNION {{Deflated(z, in, space, flush, k, Len(z.win) + k - h) : h \in held(k)} :
                             k \in 0 .. Len(in)}
    IN {r \in results : r.rest # <<>> => r.z.pend # <<>>}

Refused(z, in, out, status) == {[z |-> z, rest |-> in, out |-> out, status |-> status]}

Deflate(z, in, space, flush) ==
    IF z.fin /\ flush # ZFinish
    THEN Refused(z, in, <<>>, "STREAM_ERROR")
    ELSE IF space = 0 \/ (z.pend = <<>> /\ in = <<>> /\ flush <= z.last /\ flush # ZFinish)
    THEN Refused([z EXCEPT !.last = flush], in, <<>>, "BUF_ERROR")
    ELSE IF z.pend # <<>> /\ Len(z.pend) >= space
    THEN Refused([z EXCEPT !.pend = Behind(@, space), !.last = -1], in,
                 Upto(z.pend, space), "OK")
    ELSE IF z.fin /\ in # <<>>
    THEN Refused([z EXCEPT !.pend = <<>>], in, z.pend, "BUF_ERROR")
    ELSE Deflations(z, in, space, flush)

-----------------------------------------------------------------------------
(* inflate *)

NewInflate(raw) ==
    [raw |-> raw, mode |-> IF raw THEN "data" ELSE "head", first |-> "none",
     pend |-> <<>>, written |-> FALSE]

\* The two bytes of a header are looked at together.
AfterHead(st, t) ==
    CASE st.first = "none" -> [st EXCEPT !.first = t]
      [] st.first = "H1" /\ t = "H2" -> [st EXCEPT !.mode = "data"]
      [] OTHER -> [st EXCEPT !.mode = "bad"]

AfterData(st, t) ==
    CASE t \in DataTokens -> [st EXCEPT !.out = @ \o Meaning[t], !.tail = Meaning[t],
                                        !.mode = IF st.raw /\ t \in Closing THEN "done" ELSE @]
      [] t = "F" -> st
      [] t = "E" -> [st EXCEPT !.mode = IF st.raw THEN "done" ELSE "check"]
      [] OTHER -> [st EXCEPT !.mode = "bad"]

Taken(st, t) ==
    IF st.mode \in {"done", "bad"} THEN st
    ELSE LET s == [st EXCEPT !.used = @ + 1, !.tail = <<>>] IN
         CASE st.mode = "head" -> AfterHead(s, t)
           [] st.mode = "data" -> AfterData(s, t)
           [] st.mode = "check" -> [s EXCEPT !.mode = IF t = "T" THEN "done" ELSE "bad"]

AllTaken(i, in) ==
    FoldLeft(Taken, [raw |-> i.raw, mode |-> i.mode, first |-> i.first,
                     used |-> 0, tail |-> <<>>, out |-> i.pend], in)

\* Of the last token's symbols the last held ones found no room.
Inflated(i, in, st, held) ==
    LET out == Upto(st.out, Len(st.out) - held) IN
    [z |-> [i EXCEPT !.mode = st.mode, !.first = st.first,
                     !.pend = Behind(st.out, Len(out)),
                     !.written = @ \/ out # <<>>],
     rest |-> Behind(in, st.used),
     out |-> IF st.mode = "bad" THEN <<>> ELSE out,
     status |-> IF st.mode = "bad" THEN "DATA_ERROR"
                ELSE IF st.mode = "done" /\ held = 0 THEN "STREAM_END" ELSE "OK"]

\* Calls of inflate, each with more room, until all input is taken.
InflateRounds(i, in) ==
    LET st == AllTaken(i, in)
        tail == IF in = <<>> THEN Behind(i.pend, 1)
                ELSE IF st.used = Len(in) THEN st.tail ELSE <<>>
    IN IF in = <<>> /\ i.pend = <<>> /\ i.mode \notin {"done", "bad"}
       THEN Refused(i, in, <<>>, "BUF_ERROR")
       ELSE {Inflated(i, in, st, held) : held \in 0 .. Len(tail)}
=============================================================================
