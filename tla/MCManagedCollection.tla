------------------------ MODULE MCManagedCollection ------------------------
(* Instances of ManagedCollection for TLC. *)
EXTENDS ManagedCollection, Naturals, TLC

\* Requests are interchangeable, and so are their cursors.
RequestSymmetry == Permutations(Requests)

\* The same reduction for liveness, which symmetry sets do not allow: requests
\* are numbered in the order in which they are sent.
SentInOrder == \A r \in Requests : pc[r] = "idle" /\ pc'[r] # "idle" =>
                 \A q \in Requests : q < r => pc[q] # "idle"

OrderedFairSpec == Init /\ [][Next /\ SentInOrder]_vars /\ Fairness
=============================================================================
