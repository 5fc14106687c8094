----------------------------- MODULE MCDechunk -----------------------------
(* Instances of Dechunk for TLC. *)
EXTENDS Dechunk

\* Every short message over a few bytes, well-formed or not.
ShortMessages == BoundedSeq({"0", "2", "z", "CR", "LF"}, 5) \cup BoundedSeq({"1", "SP", "z", "LF"}, 4)

Encodings(styles) == {Encoded(chunks, style) : chunks \in Bodies, style \in styles}
AllEncodings == Encodings(Styles)

AllMessages == ShortMessages \cup AllEncodings

\* A sender's message is not cut between a CR and what follows it.
NotBehindCr(m, n) == m \in AllEncodings => m[n] # "CR"
=============================================================================
