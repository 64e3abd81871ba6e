---------------------------- MODULE MCWorkerPool ----------------------------
(* Instances of WorkerPool for TLC. *)
EXTENDS WorkerPool, TLC

\* Requests are interchangeable, and so are the collections there at the start.
PoolSymmetry == Permutations(Requests) \cup Permutations(Initial)

\* The same reduction for liveness, which symmetry sets do not allow: requests
\* are numbered in the order in which they are sent.
SentInOrder == \A r \in Requests : pc[r] = "new" /\ pc'[r] # "new" =>
                 \A q \in Requests : q < r => pc[q] # "new"

OrderedFairSpec == Init /\ [][Next /\ SentInOrder]_vars /\ Fairness
=============================================================================
