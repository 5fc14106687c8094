---------------------------- MODULE MCHttpClient ----------------------------
(* Instances of HttpClient for TLC. *)
EXTENDS HttpClient, TLC

Symmetry == Permutations(Requests) \cup Permutations(Slots)
=============================================================================
