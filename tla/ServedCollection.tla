-------------------------- MODULE ServedCollection --------------------------
(***************************************************************************)
(* What a collection promises those who use and those who end it: requests *)
(* reach the engine only while the collection is available, an exclusive   *)
(* one alone; it changes hands, by recovery, close or drop, only while     *)
(* nobody is in the engine; and a dropped collection stays dropped.        *)
(***************************************************************************)
CONSTANT Requests

VARIABLES status,    \* "available", "unavailable" or "dropped"
          sharing,   \* requests in the engine that may overlap
          exclusive  \* the request that is in the engine alone, as a set

TypeOK == /\ status \in {"available", "unavailable", "dropped"}
          /\ sharing \subseteq Requests
          /\ exclusive \subseteq Requests

Init == status \in {"available", "unavailable"} /\ sharing = {} /\ exclusive = {}

BeginShared(r) == /\ status = "available" /\ exclusive = {}
                  /\ sharing' = sharing \cup {r}
                  /\ UNCHANGED <<status, exclusive>>

EndShared(r) == /\ r \in sharing
                /\ sharing' = sharing \ {r}
                /\ UNCHANGED <<status, exclusive>>

BeginExclusive(r) == /\ status = "available" /\ sharing = {} /\ exclusive = {}
                     /\ exclusive' = {r}
                     /\ UNCHANGED <<status, sharing>>

EndExclusive(r) == /\ exclusive = {r}
                   /\ exclusive' = {}
                   /\ UNCHANGED <<status, sharing>>

\* Recovery opens it, close closes it, drop ends it.
Change == /\ sharing = {} /\ exclusive = {}
          /\ status # "dropped"
          /\ status' \in {"available", "unavailable", "dropped"}
          /\ UNCHANGED <<sharing, exclusive>>

Next == \/ \E r \in Requests : BeginShared(r) \/ EndShared(r) \/ BeginExclusive(r)
                              \/ EndExclusive(r)
        \/ Change

Spec == Init /\ [][Next]_<<status, sharing, exclusive>>
=============================================================================
