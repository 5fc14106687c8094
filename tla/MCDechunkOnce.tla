--------------------------- MODULE MCDechunkOnce ---------------------------
(* Instances of DechunkOnce for TLC. *)
EXTENDS DechunkOnce

Encodings == {Encoded(chunks, style) : chunks \in Bodies, style \in Styles}

\* Where the second chunk or a later one has its size and nothing follows.
BehindSize(chunks, style) ==
    {Len(FlattenSeq([i \in 1 .. k |-> Chunk(chunks[i], style)])) + 1 : k \in DOMAIN chunks}

Truncations(chunks, style, Cut) ==
    {SubSeq(Encoded(chunks, style), 1, n) : n \in 1 .. Len(Encoded(chunks, style)) \cap Cut}

SafeTruncations == UNION {Truncations(c, s, Nat \ BehindSize(c, s)) : c \in Bodies, s \in Styles}

AnyMessages == SafeTruncations \cup BoundedSeq({"0", "1", "z", "SP", "LF"}, 4)
=============================================================================
