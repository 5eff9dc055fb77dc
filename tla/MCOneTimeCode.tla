--------------------------- MODULE MCOneTimeCode ---------------------------
(* OneTimeCode for TLC: the requests of one kind are interchangeable.       *)
EXTENDS OneTimeCode, TLC

RequestSymmetry == Permutations(Senders) \cup Permutations(Verifiers)
=============================================================================
