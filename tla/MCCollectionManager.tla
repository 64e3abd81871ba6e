------------------------ MODULE MCCollectionManager ------------------------
(* Instances of CollectionManager for TLC. *)
EXTENDS CollectionManager, TLC

\* Requests are interchangeable, and so are collection names.
ManagerSymmetry == Permutations(Requests) \cup Permutations(Names)
=============================================================================
