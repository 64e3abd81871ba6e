----------------------------- MODULE FairRWLock -----------------------------
(***************************************************************************)
(* What readerwriterlock's RWLockFair promises its callers: shared readers, *)
(* one writer, and a gate that every arrival passes.  A writer keeps the    *)
(* gate while it waits for the readers inside to leave, so whoever arrives  *)
(* after it, reader or writer, waits behind it.                             *)
(* zvec_server uses one such lock per collection (manager.py).              *)
(* The library's own algorithm is not part of the repository: this module   *)
(* is what the server relies on.                                           *)
(***************************************************************************)
CONSTANTS Procs,   \* the threads that may take the lock
          None     \* "nobody"

VARIABLES gate,    \* the writer that has passed the gate and keeps it, or None
          readers, \* the threads that hold the lock shared
          writer   \* the thread that holds it exclusively, or None

lockVars == <<gate, readers, writer>>

LockTypeOK == /\ gate \in Procs \cup {None}
              /\ readers \subseteq Procs
              /\ writer \in Procs \cup {None}

LockInit == gate = None /\ readers = {} /\ writer = None

\* gen_rlock().__enter__: through the gate, which is free only when no writer
\* is inside or waiting.
AcquireShared(p) == /\ gate = None
                    /\ p \notin readers
                    /\ readers' = readers \cup {p}
                    /\ UNCHANGED <<gate, writer>>

\* gen_rlock().__exit__
ReleaseShared(p) == /\ p \in readers
                    /\ readers' = readers \ {p}
                    /\ UNCHANGED <<gate, writer>>

\* gen_wlock().__enter__, first half: the writer takes the gate and keeps it.
CloseGate(p) == /\ gate = None
                /\ p \notin readers
                /\ gate' = p
                /\ UNCHANGED <<readers, writer>>

\* Mutant of AcquireExclusive: the readers inside are not waited for.
AcquireExclusiveEarly(p) == /\ gate = p
                            /\ writer = None
                            /\ writer' = p
                            /\ UNCHANGED <<gate, readers>>

\* gen_wlock().__enter__, second half: the last reader has left.
AcquireExclusive(p) == /\ gate = p
                       /\ writer = None
                       /\ readers = {}
                       /\ writer' = p
                       /\ UNCHANGED <<gate, readers>>

\* gen_wlock().__exit__
ReleaseExclusive(p) == /\ writer = p
                       /\ writer' = None
                       /\ gate' = None
                       /\ UNCHANGED readers

LockNext == \E p \in Procs : \/ AcquireShared(p) \/ ReleaseShared(p)
                             \/ CloseGate(p) \/ AcquireExclusive(p)
                             \/ ReleaseExclusive(p)

LockSpec == LockInit /\ [][LockNext]_lockVars

\* A writer is alone, and it is the one that closed the gate: what every
\* critical section of manager.py builds on.
Exclusion == writer # None => readers = {} /\ gate = writer
=============================================================================
