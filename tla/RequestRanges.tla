--------------------------- MODULE RequestRanges ---------------------------
(***************************************************************************)
(* php_http_env_get_request_ranges: the ranges a Range header asks for.    *)
(* A wire is what follows "bytes=", a sequence of characters.  Numbers stay *)
(* below the width of a long in all uses.                                  *)
(***************************************************************************)
EXTENDS Integers, Sequences, SequencesExt

Digit == [c \in {"0", "1", "2", "3", "4", "5", "6", "7", "8", "9"} |->
            CASE c = "0" -> 0 [] c = "1" -> 1 [] c = "2" -> 2 [] c = "3" -> 3 [] c = "4" -> 4
              [] c = "5" -> 5 [] c = "6" -> 6 [] c = "7" -> 7 [] c = "8" -> 8 [] c = "9" -> 9]

\* A field is -1 when it is empty and -10 when it has nothing but zeros.
Empty == -1
Zero == -10

\* Without a Range header, or with a unit other than bytes.
NoRange == <<"x">>

AddDigit(field, c) ==
    IF c = "0" THEN IF field = Zero THEN field ELSE field * 10
    ELSE IF field > 0 THEN field * 10 + Digit[c] ELSE Digit[c]

Lesser(m, n) == IF m <= n THEN m ELSE n

\* What becomes of a range at "," or at the end.
Validated(begin, end, length) ==
    LET Result(status, b, e) == [status |-> status, begin |-> b, end |-> e]
        Refused(status) == Result(status, begin, end)
    IN CASE length = 0 -> Result("RANGE_OK", begin, end)
         [] length > 0 /\ begin = Zero ->
              IF end = Empty THEN Refused("RANGE_NO")
              ELSE Result("RANGE_OK", 0, IF end = Zero THEN 0 ELSE Lesser(end, length - 1))
         [] length > 0 /\ begin = Empty ->
              IF end \in {Empty, Zero} THEN Refused("RANGE_ERR")
              ELSE Result("RANGE_OK", length - end, length - 1)
         [] length > 0 /\ begin \notin {Zero, Empty} ->
              IF \/ length <= begin
                 \/ end = Zero
                 \/ end # Empty /\ end < length /\ end < begin
              THEN Refused("RANGE_ERR")
              ELSE Result("RANGE_OK", begin,
                          IF end = Empty THEN length - 1 ELSE Lesser(end, length - 1))

Start == [status |-> "RANGE_OK", values |-> <<>>, begin |-> Empty, end |-> Empty, second |-> FALSE]

Field(s) == IF s.second THEN "end" ELSE "begin"

\* At "," or at the end; the next range starts over.
EndRange(s, length) ==
    LET v == Validated(s.begin, s.end, length)
    IN IF v.status # "RANGE_OK" THEN [s EXCEPT !.status = v.status]
       ELSE [Start EXCEPT !.values = Append(s.values, [begin |-> v.begin, end |-> v.end])]

ReadChar(s, c, length) ==
    CASE c \in DOMAIN Digit -> [s EXCEPT ![Field(s)] = AddDigit(@, c)]
      [] c = "-" -> [s EXCEPT !.second = TRUE]
      [] c = " " -> s
      [] c = "," -> EndRange(s, length)
      [] OTHER -> [s EXCEPT !.status = "RANGE_NO"]

\* The loop stops at the first status other than RANGE_OK.
GetRequestRanges(wire, length) ==
    LET text == Append(wire, ",")
        parsed[i \in 0 .. Len(text)] ==
            IF i = 0 THEN Start
            ELSE IF parsed[i - 1].status # "RANGE_OK" THEN parsed[i - 1]
            ELSE ReadChar(parsed[i - 1], text[i], length)
        end == parsed[Len(text)]
    IN [status |-> end.status, values |-> end.values]

-----------------------------------------------------------------------------
(* What a Range header means, for comparison: RFC 2616, 14.35.1.  What is   *)
(* between two commas is the set of its places, without blanks.            *)

Commas(wire) == {i \in DOMAIN wire : wire[i] = ","}
SpecAt(wire, i) == 1 + Cardinality({j \in Commas(wire) : j < i})

Specs(wire) ==
    [k \in 1 .. 1 + Cardinality(Commas(wire)) |->
        {i \in DOMAIN wire : wire[i] \notin {",", " "} /\ SpecAt(wire, i) = k}]

Dashes(wire, spec) == {i \in spec : wire[i] = "-"}
FirstOf(wire, spec) == {i \in spec : \A d \in Dashes(wire, spec) : i < d}
LastOf(wire, spec) == {i \in spec : \A d \in Dashes(wire, spec) : i > d}

\* "1-2", "1-" or "-2"
InOrder(wire, spec) ==
    /\ \E d \in spec : Dashes(wire, spec) = {d} /\ spec # {d}
    /\ \A i \in spec \ Dashes(wire, spec) : wire[i] \in DOMAIN Digit

\* The number with its digits at these places.
Number(wire, places) ==
    LET v[i \in 0 .. Len(wire)] ==
          IF i = 0 THEN 0
          ELSE IF i \in places THEN 10 * v[i - 1] + Digit[wire[i]] ELSE v[i - 1]
    IN v[Len(wire)]

FirstNumber(wire, spec) == Number(wire, FirstOf(wire, spec))
LastNumber(wire, spec) == Number(wire, LastOf(wire, spec))
FromEnd(wire, spec) == FirstOf(wire, spec) = {}
ToEnd(wire, spec) == LastOf(wire, spec) = {}

Unsatisfiable(wire, spec, length) ==
    IF FromEnd(wire, spec) THEN LastNumber(wire, spec) = 0
    ELSE \/ FirstNumber(wire, spec) >= length
         \/ ~ToEnd(wire, spec) /\ LastNumber(wire, spec) < FirstNumber(wire, spec)

\* Everything is asked for, which needs no ranges.
Everything(wire, spec) == ~FromEnd(wire, spec) /\ ToEnd(wire, spec) /\ FirstNumber(wire, spec) = 0

Meant(wire, spec, length) ==
    IF FromEnd(wire, spec) THEN [begin |-> length - LastNumber(wire, spec), end |-> length - 1]
    ELSE [begin |-> FirstNumber(wire, spec),
          end |-> IF ToEnd(wire, spec) THEN length - 1 ELSE Lesser(LastNumber(wire, spec), length - 1)]

\* The parts whose ranges are not sent; the first one decides.
Odd(wire, length) ==
    {k \in DOMAIN Specs(wire) :
        Everything(wire, Specs(wire)[k]) \/ Unsatisfiable(wire, Specs(wire)[k], length)}

MeantRanges(wire, length) ==
    LET specs == Specs(wire)
        odd == Odd(wire, length)
        Until(n) == [k \in 1 .. n |-> Meant(wire, specs[k], length)]
    IN IF odd = {} THEN [status |-> "RANGE_OK", values |-> Until(Len(specs))]
       ELSE [status |-> IF Everything(wire, specs[Min(odd)]) THEN "RANGE_NO" ELSE "RANGE_ERR",
             values |-> Until(Min(odd) - 1)]

\* A header to which MeantRanges gives a meaning.  A suffix longer than the
\* entity means all of it there; the code makes a negative begin of it.
HasMeaning(wire, length) ==
    /\ length > 0
    /\ \A k \in DOMAIN Specs(wire) :
          LET spec == Specs(wire)[k]
          IN InOrder(wire, spec) /\ (FromEnd(wire, spec) => LastNumber(wire, spec) <= length)
=============================================================================
