---------------------------- MODULE MCDocuments ----------------------------
(* Instances of Documents for TLC. *)
EXTENDS Documents, TLC

\* Requests are interchangeable, and so are ids of the same origin.
DocumentSymmetry == Permutations(Requests) \cup Permutations(Given) \cup Permutations(Fresh)
=============================================================================
