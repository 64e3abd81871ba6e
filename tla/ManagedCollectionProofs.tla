----------------------- MODULE ManagedCollectionProofs -----------------------
(***************************************************************************)
(* The safety of ManagedCollection for every set of requests: one inductive *)
(* invariant, and what follows from it.                                     *)
(***************************************************************************)
EXTENDS ManagedCollection, TLAPS

RecoveryLabels == {"sleeping", "opening", "failed", "opened", "abandoned", "discard"}
LockLabels == {"inside", "calling", "register", "teardown", "leaving"}

\* Which operation a thread can be in at each place.
KindInv ==
  /\ kind[Recovery] = "adopt"
  /\ pc[Recovery] \in RecoveryLabels \cup {"exclWait", "gated", "inside", "leaving", "done"}
  /\ \A r \in Requests : kind[r] # "adopt" /\ pc[r] \notin RecoveryLabels
  /\ \A p \in Procs :
       /\ kind[p] = "none" <=> pc[p] = "idle"
       /\ pc[p] \in {"maintWait", "maintRelease"} => kind[p] = "maintain"
       /\ pc[p] = "sharedWait" => kind[p] \in SharedKinds
       /\ pc[p] \in {"exclWait", "gated"} => kind[p] \in ExclusiveKinds
       /\ pc[p] = "calling" => kind[p] \in CallKinds \cup {"batch"}
       /\ pc[p] = "register" => kind[p] = "stream"
       /\ pc[p] = "teardown" => kind[p] \in {"drop", "close"}
       /\ pc[p] \in {"between", "finally", "closing"} => kind[p] = "batch"

\* The lock says who is where.
LockInv ==
  /\ \A p \in Procs :
       /\ p \in readers <=> kind[p] \in SharedKinds /\ pc[p] \in LockLabels
       /\ writer = p <=> kind[p] \in ExclusiveKinds /\ pc[p] \in LockLabels
       /\ gate = p <=> writer = p \/ pc[p] = "gated"
  /\ Lock!Exclusion

\* The two mutexes.
MutexInv ==
  \A r \in Requests :
    /\ maintLock = r <=> /\ kind[r] = "maintain"
                         /\ pc[r] \in {"sharedWait", "maintRelease"} \cup LockLabels
    /\ cursorsLock = r <=> pc[r] = "closing"

\* A registered cursor belongs to a stream that goes on, of the present handle;
\* an open cursor that is not registered is being opened or released, or its
\* close() raised.
CursorInv ==
  /\ cursors \subseteq live \ raised
  /\ \A r \in Requests :
       /\ r \in cursors => /\ kind[r] = "batch"
                           /\ pc[r] \in {"sharedWait", "between", "finally",
                                         "inside", "calling", "leaving"}
                           /\ handle # None /\ ref[r] = handle
       /\ r \in raised => kind[r] = "batch"
       /\ r \in live \ (cursors \cup raised) <=> pc[r] \in {"register", "closing"}
       /\ pc[r] = "teardown" => cursors = {} /\ live \subseteq raised

\* Whoever is in the engine uses the handle of the entry.
CallInv ==
  \A r \in Requests :
    /\ pc[r] \in {"calling", "register"} => handle # None /\ ref[r] = handle
    /\ pc[r] = "calling" /\ kind[r] = "batch" => r \in cursors

\* The handle of the entry is the open one, and the recovery task has the
\* reopened one from its open until it hands it over or closes it.
HandleInv ==
  /\ HandleIsOpen
  /\ pc[Recovery] \notin {"leaving", "done"} => handle = None
  /\ pc[Recovery] = "leaving" /\ result[Recovery] = "stale" => dropped /\ zlock = "reopened"
  /\ pc[Recovery] = "discard" => dropped
  /\ pc[Recovery] \in {"opened", "abandoned", "discard", "exclWait", "gated", "inside"}
       => zlock = "reopened"
  /\ zlock = "reopened" /\ ~dropped => disk

-----------------------------------------------------------------------------
(* The inductive invariant.                                                 *)
IInv == /\ TypeOK
        /\ KindInv
        /\ LockInv
        /\ MutexInv
        /\ CursorInv
        /\ CallInv
        /\ HandleInv

\* Every step preserves the invariant.
LEMMA InvariantStep == IInv /\ [Next]_vars => IInv'
<1> SUFFICES ASSUME IInv, [Next]_vars PROVE IInv'
  OBVIOUS
<1> USE RequestsAssumption, NoneAssumption, BoundsAssumption
    DEF IInv, TypeOK, KindInv, LockInv, MutexInv, CursorInv, CallInv, HandleInv,
        HandleIsOpen, Lock!Exclusion, Lock!LockTypeOK, Procs, vars, lockVars, entryVars,
        engineVars, cursorVars, opVars, Kinds, Labels, Results, Handles, CallKinds, SharedKinds,
        ExclusiveKinds, RecoveryLabels, LockLabels
<1>1. ASSUME NEW p \in Requests, Client(p) PROVE IInv'
  <2>1. ASSUME FailFast(p) PROVE IInv'
    BY <2>1, SMTT(60) DEF FailFast, Submit, Goto, Outcome, Become
  <2>2. ASSUME Enqueue(p) PROVE IInv'
    <3>1. /\ handle # None /\ UNCHANGED <<result, cancelled>>
          /\ \E k \in {"read", "stream", "maintain", "write"} :
               \E l \in {"sharedWait", "maintWait", "exclWait"} :
                 /\ Submit(p, k, l)
                 /\ k = "maintain" <=> l = "maintWait"
                 /\ k = "write" <=> l = "exclWait"
      BY <2>2 DEF Enqueue
    <3>2. PICK k \in {"read", "stream", "maintain", "write"},
               l \in {"sharedWait", "maintWait", "exclWait"} :
                 /\ Submit(p, k, l)
                 /\ k = "maintain" <=> l = "maintWait"
                 /\ k = "write" <=> l = "exclWait"
      BY <3>1
    <3> QED BY <3>1, <3>2, SMTT(60) DEF Submit, Goto, Become
  <2>3. ASSUME StartInfo(p) PROVE IInv'
    BY <2>3, SMTT(60) DEF StartInfo, Submit, Goto, Outcome, Become
  <2>4. ASSUME StartDrop(p) PROVE IInv'
    BY <2>4, SMTT(60) DEF StartDrop, Submit, Goto, Become
  <2>5. ASSUME StartClose(p) PROVE IInv'
    BY <2>5, SMTT(60) DEF StartClose, Submit, Goto, Become
  <2>6. ASSUME Resume(p) PROVE IInv'
    BY <2>6, SMTT(60) DEF Resume, Goto
  <2>7. ASSUME Abandon(p) PROVE IInv'
    BY <2>7, SMTT(60) DEF Abandon, Goto, Outcome
  <2> QED BY <1>1, <2>1, <2>2, <2>3, <2>4, <2>5, <2>6, <2>7 DEF Client
<1>2. ASSUME NEW p \in Requests, Step(p) PROVE IInv'
  <2>1. ASSUME TakeMaintenance(p) PROVE IInv'
    BY <2>1, SMTT(60) DEF TakeMaintenance, Goto
  <2>2. ASSUME EnterShared(p) PROVE IInv'
    BY <2>2, SMTT(60) DEF EnterShared, Lock!AcquireShared, Goto
  <2>3. ASSUME WaitExclusive(p) PROVE IInv'
    BY <2>3, SMTT(60) DEF WaitExclusive, Lock!CloseGate, Goto
  <2>4. ASSUME EnterExclusive(p) PROVE IInv'
    BY <2>4, SMTT(60) DEF EnterExclusive, Lock!AcquireExclusive, Goto
  <2>5. ASSUME Resolve(p) PROVE IInv'
    BY <2>5, SMTT(60) DEF Resolve, NotOpen, Goto, Outcome
  <2>6. ASSUME ResolveBatch(p) PROVE IInv'
    BY <2>6, SMTT(60) DEF ResolveBatch, Goto, Outcome
  <2>7. ASSUME CallReturns(p) PROVE IInv'
    BY <2>7, SMTT(60) DEF CallReturns, Goto, Outcome
  <2>8. ASSUME CallFails(p) PROVE IInv'
    BY <2>8, SMTT(60) DEF CallFails, Goto, Outcome
  <2>9. ASSUME OpenCursor(p) PROVE IInv'
    BY <2>9, SMTT(60) DEF OpenCursor, Goto
  <2>10. ASSUME RegisterCursor(p) PROVE IInv'
    BY <2>10, SMTT(60) DEF RegisterCursor, Goto, Become
  <2>11. ASSUME NextBatch(p) PROVE IInv'
    BY <2>11, SMTT(60) DEF NextBatch, Goto, Outcome
  <2>12. ASSUME DropAgain(p) PROVE IInv'
    BY <2>12, SMTT(60) DEF DropAgain, Goto, Outcome
  <2>13. ASSUME CloseCursors(p) PROVE IInv'
    BY <2>13, SMTT(60) DEF CloseCursors, Goto
  <2>14. ASSUME Destroy(p) PROVE IInv'
    <3>1. TypeOK'
      BY <2>14 DEF Destroy, Goto
    <3>2. KindInv'
      BY <2>14 DEF Destroy, Goto
    <3>3. LockInv'
      BY <2>14 DEF Destroy, Goto
    <3>4. MutexInv'
      BY <2>14 DEF Destroy, Goto
    <3>5. CursorInv'
      BY <2>14 DEF Destroy, Goto
    <3>6. CallInv'
      BY <2>14 DEF Destroy, Goto
    <3>7. HandleInv'
      BY <2>14 DEF Destroy, Goto
    <3> QED BY <3>1, <3>2, <3>3, <3>4, <3>5, <3>6, <3>7
  <2>15. ASSUME DestroyFails(p) PROVE IInv'
    BY <2>15, SMTT(60) DEF DestroyFails, Goto, Outcome
  <2>16. ASSUME RemoveTree(p) PROVE IInv'
    <3>1. TypeOK'
      <4>1. disk' \in BOOLEAN
        BY <2>16, Zenon DEF RemoveTree
      <4>2. pc' \in [Procs -> Labels]
        BY <2>16 DEF RemoveTree, Goto
      <4> QED BY <2>16, <4>1, <4>2 DEF RemoveTree
    <3>2. KindInv'
      BY <2>16 DEF RemoveTree, Goto
    <3>3. LockInv'
      BY <2>16 DEF RemoveTree, Goto
    <3>4. MutexInv'
      BY <2>16 DEF RemoveTree, Goto
    <3>5. CursorInv'
      BY <2>16 DEF RemoveTree, Goto
    <3>6. CallInv'
      BY <2>16 DEF RemoveTree, Goto
    <3>7. HandleInv'
      BY <2>16 DEF RemoveTree, Goto
    <3> QED BY <3>1, <3>2, <3>3, <3>4, <3>5, <3>6, <3>7
  <2>17. ASSUME CloseHandle(p) PROVE IInv'
    BY <2>17, SMTT(60) DEF CloseHandle, Goto, Outcome
  <2>18. ASSUME LeaveShared(p) PROVE IInv'
    BY <2>18, SMTT(60) DEF LeaveShared, Lock!ReleaseShared, After, Goto
  <2>19. ASSUME LeaveExclusive(p) PROVE IInv'
    BY <2>19, SMTT(60) DEF LeaveExclusive, Lock!ReleaseExclusive, After, Goto, Become
  <2>20. ASSUME ReleaseMaintenance(p) PROVE IInv'
    BY <2>20, SMTT(60) DEF ReleaseMaintenance, Goto
  <2>21. ASSUME Unregister(p) PROVE IInv'
    BY <2>21, SMTT(60) DEF Unregister, Goto, Outcome
  <2>22. ASSUME ReleaseCursor(p) PROVE IInv'
    BY <2>22, SMTT(60) DEF ReleaseCursor, Goto
  <2>23. ASSUME CloseReleased(p) PROVE IInv'
    BY <2>23, SMTT(60) DEF CloseReleased, Goto, Outcome
  <2> QED BY <1>2, <2>1, <2>2, <2>3, <2>4, <2>5, <2>6, <2>7, <2>8, <2>9, <2>10, <2>11, <2>12,
             <2>13, <2>14, <2>15, <2>16, <2>17, <2>18, <2>19, <2>20, <2>21, <2>22, <2>23 DEF
             Step
<1>3. ASSUME Recover(Recovery) PROVE IInv'
  <2>1. ASSUME Wake(Recovery) PROVE IInv'
    BY <2>1, SMTT(60) DEF Wake, Goto
  <2>2. ASSUME OpenFails(Recovery) PROVE IInv'
    BY <2>2, SMTT(60) DEF OpenFails, Goto
  <2>3. ASSUME OpenSucceeds(Recovery) PROVE IInv'
    BY <2>3, SMTT(60) DEF OpenSucceeds, Goto
  <2>4. ASSUME Retry(Recovery) PROVE IInv'
    BY <2>4, SMTT(60) DEF Retry, Goto
  <2>5. ASSUME Reopened(Recovery) PROVE IInv'
    BY <2>5, SMTT(60) DEF Reopened, Goto
  <2>6. ASSUME WaitExclusive(Recovery) PROVE IInv'
    BY <2>6, SMTT(60) DEF WaitExclusive, Lock!CloseGate, Goto
  <2>7. ASSUME EnterExclusive(Recovery) PROVE IInv'
    BY <2>7, SMTT(60) DEF EnterExclusive, Lock!AcquireExclusive, Goto
  <2>8. ASSUME Adopt(Recovery) PROVE IInv'
    BY <2>8, SMTT(60) DEF Adopt, Goto, Outcome
  <2>9. ASSUME LeaveExclusive(Recovery) PROVE IInv'
    BY <2>9, SMTT(60) DEF LeaveExclusive, Lock!ReleaseExclusive, After, Goto, Become
  <2>10. ASSUME Discard(Recovery) PROVE IInv'
    BY <2>10, SMTT(60) DEF Discard, Goto
  <2>11. ASSUME Collect(Recovery) PROVE IInv'
    BY <2>11, SMTT(60) DEF Collect, Goto
  <2> QED BY <1>3, <2>1, <2>2, <2>3, <2>4, <2>5, <2>6, <2>7, <2>8, <2>9, <2>10, <2>11 DEF Recover
<1>4. CASE OtherExits
  BY <1>4 DEF OtherExits
<1>5. ASSUME NEW p \in Requests, CollectCursor(p) PROVE IInv'
  BY <1>5, SMTT(60) DEF CollectCursor
<1>6. CASE UNCHANGED vars
  BY <1>6
<1> QED BY <1>1, <1>2, <1>3, <1>4, <1>5, <1>6 DEF Next, Terminated


\* It holds after load_all.
LEMMA InvariantInit == Init => IInv
<1> SUFFICES ASSUME Init PROVE IInv
  OBVIOUS
<1> USE RequestsAssumption, NoneAssumption, BoundsAssumption
    DEF Init, StartsAvailable, StartsUnavailable, Lock!LockInit, Procs, Handles,
        SharedKinds, ExclusiveKinds, RecoveryLabels, LockLabels
<1>1. TypeOK
  <2>1. Lock!LockTypeOK /\ handle \in Handles \cup {None} /\ zlock \in Handles \cup {None, "other"}
    BY DEF Lock!LockTypeOK
  <2>2. pc \in [Procs -> Labels]
    BY DEF Labels
  <2>3. kind \in [Procs -> Kinds] /\ result \in [Procs -> Results]
    BY DEF Kinds, Results
  <2>4. left \in [Procs -> 0..MaxBatches]
    OBVIOUS
  <2>5. disk \in BOOLEAN
    BY Zenon
  <2> QED BY <2>1, <2>2, <2>3, <2>4, <2>5 DEF TypeOK
<1>2. KindInv
  BY DEF KindInv, CallKinds
<1>3. LockInv
  BY DEF LockInv, Lock!Exclusion
<1>4. MutexInv
  BY DEF MutexInv
<1>5. CursorInv
  BY DEF CursorInv
<1>6. CallInv
  BY DEF CallInv
<1>7. HandleInv
  BY DEF HandleInv, HandleIsOpen
<1> QED BY <1>1, <1>2, <1>3, <1>4, <1>5, <1>6, <1>7 DEF IInv

\* The invariant holds of every behaviour.
THEOREM Invariance == Spec => []IInv
BY InvariantInit, InvariantStep, PTL DEF Spec

-----------------------------------------------------------------------------
(* What follows from the invariant.                                         *)

\* Every variable of the entry, the lock and the engine keeps its type.
THEOREM TypeCorrect == Spec => []TypeOK
<1>1. IInv => TypeOK
  BY DEF IInv
<1> QED BY <1>1, Invariance, PTL

\* A request that was queued while a drop, a close or a recovery ran reaches
\* the engine only with the handle the entry holds now (read, write, maintain
\* and stream of manager.py).
THEOREM NoStaleHandle == Spec => []CallsUseLiveHandle
<1>1. IInv => CallsUseLiveHandle
  BY DEF IInv, CallInv, CursorInv, HandleInv, HandleIsOpen, CallsUseLiveHandle
<1> QED BY <1>1, Invariance, PTL

\* The handle of an entry is open, and a dropped entry has none (drop, close,
\* _adopt of manager.py).
THEOREM EntryHoldsOpenHandle == Spec => []HandleIsOpen
<1>1. IInv => HandleIsOpen
  BY DEF IInv, HandleInv
<1> QED BY <1>1, Invariance, PTL

\* The maintenance mutex keeps two optimize runs apart (maintain).
THEOREM MaintenanceExcludes == Spec => []MaintenanceAlone
<1>1. IInv => MaintenanceAlone
  BY DEF IInv, MutexInv, LockLabels, MaintenanceAlone
<1> QED BY <1>1, Invariance, PTL

\* When drop destroys or close closes a collection, close() has been called on
\* every cursor of it: the exclusive lock, close_cursors and _cursors_lock leave
\* Zvec no reason to refuse but a cursor whose close() raised.
THEOREM NoCursorAtTeardown == Spec => []TeardownUnobstructed
<1>1. IInv => TeardownUnobstructed
  BY DEF IInv, CursorInv, TeardownUnobstructed
<1> QED BY <1>1, Invariance, PTL

\* Every snapshot cursor is closed, and none twice (stream, _release_cursor,
\* close_cursors), even if the close() of some of them raises: only such a one
\* can stay open after its stream has ended.
THEOREM CursorAccounting == Spec => []CursorsReleasedOnce
<1>1. IInv => CursorsReleasedOnce
  BY DEF IInv, CursorInv, CursorsReleasedOnce
<1> QED BY <1>1, Invariance, PTL

\* drop is final (drop and _adopt): no step of any thread opens a dropped
\* collection again, and no request that waits goes on to the engine.
THEOREM DropFinality == Spec => DropIsFinal
<1>1. IInv /\ IInv' /\ [Next]_vars =>
        [dropped => /\ dropped' /\ handle' = None
                    /\ \A p \in Requests : pc[p] \in {"gated", "sharedWait", "inside"}
                         /\ kind[p] \in CallKinds => pc'[p] # "calling"]_vars
  <2> SUFFICES ASSUME IInv, IInv', [Next]_vars, dropped
               PROVE  \/ UNCHANGED vars
                      \/ /\ dropped' /\ handle' = None
                         /\ \A p \in Requests : pc'[p] # "calling"
    OBVIOUS
  <2>1. dropped'
    <3>1. ASSUME NEW p \in Requests, Client(p) PROVE dropped'
      BY <3>1 DEF Client, Submit, FailFast, Enqueue, StartInfo, StartDrop, StartClose, Resume,
                  Abandon, entryVars
    <3>2. ASSUME NEW p \in Requests, Step(p) PROVE dropped'
      BY <3>2 DEF Step, TakeMaintenance, EnterShared, WaitExclusive, EnterExclusive, Resolve,
                  ResolveBatch, CallReturns, CallFails, OpenCursor, RegisterCursor, NextBatch,
                  DropAgain, CloseCursors, Destroy, DestroyFails, RemoveTree, CloseHandle,
                  LeaveShared, LeaveExclusive, ReleaseMaintenance, Unregister, ReleaseCursor,
                  CloseReleased, entryVars
    <3>3. CASE Recover(Recovery)
      BY <3>3 DEF Recover, Wake, OpenFails, OpenSucceeds, Retry, Reopened, WaitExclusive,
                  EnterExclusive, Adopt, LeaveExclusive, Discard, Collect, entryVars
    <3> QED BY <3>1, <3>2, <3>3 DEF Next, OtherExits, CollectCursor, Terminated, vars, entryVars
  <2> QED BY <2>1 DEF IInv, HandleInv, HandleIsOpen, CallInv
<1> QED BY <1>1, Invariance, PTL DEF Spec, DropIsFinal

-----------------------------------------------------------------------------
(* ManagedCollection implements ServedCollection.                           *)

\* The variables of ServedCollection, as ManagedCollection maps them.
servedVars == <<Status, Sharing, AloneInEngine>>

\* Whoever is inside the exclusive lock has the engine to itself.
LEMMA InsideAlone ==
  ASSUME IInv, NEW p \in Procs, pc[p] \in LockLabels, kind[p] \in ExclusiveKinds
  PROVE  Sharing = {} /\ AloneInEngine \subseteq {p}
<1>1. writer = p /\ readers = {}
  BY NoneAssumption, RequestsAssumption DEF IInv, LockInv, Lock!Exclusion, Procs
<1>2. \A q \in Requests : q \notin readers /\ (writer = q => q = p)
  BY <1>1
<1> QED BY <1>2 DEF IInv, LockInv, Sharing, AloneInEngine, LockLabels, Procs

\* Whoever is inside the shared lock meets only others that share it.
LEMMA InsideShared ==
  ASSUME IInv, NEW p \in Requests, pc[p] \in LockLabels, kind[p] \in SharedKinds
  PROVE  AloneInEngine = {}
<1>1. writer = None
  BY NoneAssumption DEF IInv, TypeOK, Lock!LockTypeOK, LockInv, Lock!Exclusion, Procs
<1>2. \A q \in Requests : writer # q
  BY <1>1, RequestsAssumption
<1> QED BY <1>2 DEF IInv, LockInv, AloneInEngine, LockLabels, Procs

\* One lemma per kind of step: those that leave the abstract state alone, ...
LEMMA StutterSteps ==
  ASSUME IInv
  PROVE  /\ \A p \in Requests : Client(p) => UNCHANGED servedVars
         /\ \A p \in Requests :
              /\ TakeMaintenance(p) => UNCHANGED servedVars
              /\ EnterShared(p) => UNCHANGED servedVars
              /\ WaitExclusive(p) => UNCHANGED servedVars
              /\ EnterExclusive(p) => UNCHANGED servedVars
              /\ OpenCursor(p) => UNCHANGED servedVars
              /\ DropAgain(p) => UNCHANGED servedVars
              /\ CloseCursors(p) => UNCHANGED servedVars
              /\ DestroyFails(p) => UNCHANGED servedVars
              /\ LeaveShared(p) => UNCHANGED servedVars
              /\ LeaveExclusive(p) => UNCHANGED servedVars
              /\ ReleaseMaintenance(p) => UNCHANGED servedVars
              /\ Unregister(p) => UNCHANGED servedVars
              /\ ReleaseCursor(p) => UNCHANGED servedVars
              /\ CloseReleased(p) => UNCHANGED servedVars
         /\ Recover(Recovery) => Adopt(Recovery) \/ UNCHANGED servedVars
<1> USE RequestsAssumption
    DEF servedVars, Status, Sharing, AloneInEngine, IInv, TypeOK, KindInv, Procs, SharedKinds,
        ExclusiveKinds, CallKinds, LockLabels, RecoveryLabels, entryVars, opVars, Goto, Outcome,
        Become
<1>1. ASSUME NEW p \in Requests, Client(p) PROVE UNCHANGED servedVars
  <2>1. ASSUME FailFast(p) PROVE UNCHANGED servedVars
    BY <2>1 DEF FailFast, Submit
  <2>2. ASSUME Enqueue(p) PROVE UNCHANGED servedVars
    BY <2>2 DEF Enqueue, Submit
  <2>3. ASSUME StartInfo(p) PROVE UNCHANGED servedVars
    BY <2>3 DEF StartInfo, Submit
  <2>4. ASSUME StartDrop(p) PROVE UNCHANGED servedVars
    BY <2>4 DEF StartDrop, Submit
  <2>5. ASSUME StartClose(p) PROVE UNCHANGED servedVars
    BY <2>5 DEF StartClose, Submit
  <2>6. ASSUME Resume(p) PROVE UNCHANGED servedVars
    BY <2>6 DEF Resume
  <2>7. ASSUME Abandon(p) PROVE UNCHANGED servedVars
    BY <2>7 DEF Abandon
  <2> QED BY <1>1, <2>1, <2>2, <2>3, <2>4, <2>5, <2>6, <2>7 DEF Client
<1>2. ASSUME NEW p \in Requests, TakeMaintenance(p) PROVE UNCHANGED servedVars
  BY <1>2 DEF TakeMaintenance
<1>3. ASSUME NEW p \in Requests, EnterShared(p) PROVE UNCHANGED servedVars
  BY <1>3 DEF EnterShared
<1>4. ASSUME NEW p \in Requests, WaitExclusive(p) PROVE UNCHANGED servedVars
  BY <1>4 DEF WaitExclusive
<1>5. ASSUME NEW p \in Requests, EnterExclusive(p) PROVE UNCHANGED servedVars
  BY <1>5 DEF EnterExclusive
<1>6. ASSUME NEW p \in Requests, OpenCursor(p) PROVE UNCHANGED servedVars
  BY <1>6 DEF OpenCursor
<1>7. ASSUME NEW p \in Requests, DropAgain(p) PROVE UNCHANGED servedVars
  BY <1>7 DEF DropAgain
<1>8. ASSUME NEW p \in Requests, CloseCursors(p) PROVE UNCHANGED servedVars
  BY <1>8 DEF CloseCursors
<1>9. ASSUME NEW p \in Requests, DestroyFails(p) PROVE UNCHANGED servedVars
  BY <1>9 DEF DestroyFails
<1>10. ASSUME NEW p \in Requests, LeaveShared(p) PROVE UNCHANGED servedVars
  BY <1>10 DEF LeaveShared, After
<1>11. ASSUME NEW p \in Requests, LeaveExclusive(p) PROVE UNCHANGED servedVars
  BY <1>11 DEF LeaveExclusive, After
<1>12. ASSUME NEW p \in Requests, ReleaseMaintenance(p) PROVE UNCHANGED servedVars
  BY <1>12 DEF ReleaseMaintenance
<1>13. ASSUME NEW p \in Requests, Unregister(p) PROVE UNCHANGED servedVars
  BY <1>13 DEF Unregister
<1>14. ASSUME NEW p \in Requests, ReleaseCursor(p) PROVE UNCHANGED servedVars
  BY <1>14 DEF ReleaseCursor
<1>15. ASSUME NEW p \in Requests, CloseReleased(p) PROVE UNCHANGED servedVars
  BY <1>15 DEF CloseReleased
<1>16. ASSUME Recover(Recovery), ~Adopt(Recovery) PROVE UNCHANGED servedVars
  <2>1. ASSUME Wake(Recovery) PROVE UNCHANGED servedVars
    BY <2>1 DEF Wake
  <2>2. ASSUME OpenFails(Recovery) PROVE UNCHANGED servedVars
    BY <2>2 DEF OpenFails
  <2>3. ASSUME OpenSucceeds(Recovery) PROVE UNCHANGED servedVars
    BY <2>3 DEF OpenSucceeds
  <2>4. ASSUME Retry(Recovery) PROVE UNCHANGED servedVars
    BY <2>4 DEF Retry
  <2>5. ASSUME Reopened(Recovery) PROVE UNCHANGED servedVars
    BY <2>5 DEF Reopened
  <2>6. ASSUME WaitExclusive(Recovery) PROVE UNCHANGED servedVars
    BY <2>6 DEF WaitExclusive
  <2>7. ASSUME EnterExclusive(Recovery) PROVE UNCHANGED servedVars
    BY <2>7 DEF EnterExclusive
  <2>8. ASSUME LeaveExclusive(Recovery) PROVE UNCHANGED servedVars
    BY <2>8 DEF LeaveExclusive, After
  <2>9. ASSUME Discard(Recovery) PROVE UNCHANGED servedVars
    BY <2>9 DEF Discard
  <2>10. ASSUME Collect(Recovery) PROVE UNCHANGED servedVars
    BY <2>10 DEF Collect
  <2> QED BY <1>16, <2>1, <2>2, <2>3, <2>4, <2>5, <2>6, <2>7, <2>8, <2>9, <2>10 DEF Recover
<1> QED BY <1>1, <1>2, <1>3, <1>4, <1>5, <1>6, <1>7, <1>8, <1>9, <1>10, <1>11, <1>12, <1>13,
           <1>14, <1>15, <1>16

\* ... those by which a request enters the engine, ...
LEMMA BeginSteps ==
  ASSUME IInv, NEW p \in Requests, Resolve(p) \/ ResolveBatch(p)
  PROVE  [Served!BeginShared(p) \/ Served!BeginExclusive(p)]_servedVars
<1> USE DEF servedVars, Status, Sharing, AloneInEngine, IInv, TypeOK, KindInv, Procs, SharedKinds,
        ExclusiveKinds, CallKinds, entryVars, opVars, Goto, Outcome
<1>1. pc[p] = "inside" /\ p \notin Sharing /\ p \notin AloneInEngine
  BY DEF Resolve, ResolveBatch
<1>2. CASE Resolve(p) /\ handle # None /\ kind[p] \in SharedKinds
  <2>1. AloneInEngine = {}
    BY <1>1, <1>2, InsideShared DEF LockLabels
  <2>2. Sharing' = Sharing \cup {p} /\ UNCHANGED <<Status, AloneInEngine>>
    BY <1>2 DEF Resolve
  <2> QED BY <1>2, <2>1, <2>2 DEF Served!BeginShared
<1>3. CASE Resolve(p) /\ handle # None /\ kind[p] \in ExclusiveKinds
  <2>1. Sharing = {} /\ AloneInEngine = {}
    BY <1>1, <1>3, InsideAlone DEF LockLabels
  <2>2. AloneInEngine' = AloneInEngine \cup {p} /\ UNCHANGED <<Status, Sharing>>
    BY <1>3 DEF Resolve
  <2> QED BY <1>3, <2>1, <2>2 DEF Served!BeginExclusive
<1>4. CASE ResolveBatch(p) /\ p \in cursors
  <2>1. AloneInEngine = {} /\ handle # None
    BY <1>1, <1>4, InsideShared DEF ResolveBatch, LockLabels, CursorInv
  <2>2. Sharing' = Sharing \cup {p} /\ UNCHANGED <<Status, AloneInEngine>>
    BY <1>4 DEF ResolveBatch
  <2> QED BY <2>1, <2>2 DEF Served!BeginShared
<1>5. CASE Resolve(p) /\ handle = None
  BY <1>5 DEF Resolve
<1>6. CASE ResolveBatch(p) /\ p \notin cursors
  BY <1>6 DEF ResolveBatch
<1>7. Resolve(p) => kind[p] \in SharedKinds \cup ExclusiveKinds
  BY DEF Resolve
<1> QED BY <1>2, <1>3, <1>4, <1>5, <1>6, <1>7

\* ... those by which it leaves, ...
LEMMA EndSteps ==
  ASSUME IInv, NEW p \in Requests,
         CallReturns(p) \/ CallFails(p) \/ RegisterCursor(p) \/ NextBatch(p)
  PROVE  Served!EndShared(p) \/ Served!EndExclusive(p)
<1> USE DEF Status, Sharing, AloneInEngine, IInv, TypeOK, KindInv, Procs, SharedKinds,
        ExclusiveKinds, CallKinds, entryVars, opVars, Goto, Outcome, Become
<1>1. /\ pc[p] \in {"calling", "register"}
      /\ pc[p] = "register" => kind[p] \in SharedKinds
      /\ pc' = [pc EXCEPT ![p] = "leaving"]
      /\ kind[p] \in SharedKinds \cup ExclusiveKinds
      /\ kind' \in {kind, [kind EXCEPT ![p] = "batch"]}
      /\ kind[p] \in ExclusiveKinds => kind' = kind
      /\ UNCHANGED <<handle, dropped>>
  BY DEF CallReturns, CallFails, RegisterCursor, NextBatch
<1>2. CASE kind[p] \in SharedKinds
  <2>1. p \in Sharing /\ Sharing' = Sharing \ {p} /\ UNCHANGED <<Status, AloneInEngine>>
    BY <1>1, <1>2
  <2> QED BY <2>1 DEF Served!EndShared
<1>3. CASE kind[p] \in ExclusiveKinds
  <2>1. AloneInEngine = {p}
    BY <1>1, <1>3, InsideAlone DEF LockLabels
  <2>2. AloneInEngine' = {} /\ UNCHANGED <<Status, Sharing>>
    BY <1>1, <1>3, <2>1
  <2> QED BY <2>1, <2>2 DEF Served!EndExclusive
<1> QED BY <1>1, <1>2, <1>3

\* ... and those that open, close or drop the collection.
LEMMA ChangeSteps ==
  ASSUME IInv, NEW p \in Procs,
         Destroy(p) \/ RemoveTree(p) \/ CloseHandle(p) \/ Adopt(p)
  PROVE  [Served!Change]_servedVars
<1>1. pc[p] \in {"inside", "teardown"} /\ kind[p] \in ExclusiveKinds
  BY DEF Destroy, RemoveTree, CloseHandle, Adopt, ExclusiveKinds
<1>2. Sharing = {} /\ AloneInEngine \subseteq {p}
  BY <1>1, InsideAlone DEF LockLabels
<1>3. /\ p \notin AloneInEngine
      /\ pc' = [pc EXCEPT ![p] = "leaving"] /\ kind' = kind
  BY <1>1 DEF AloneInEngine, Destroy, RemoveTree, CloseHandle, Adopt, opVars, Goto
<1>4. AloneInEngine = {} /\ UNCHANGED <<Sharing, AloneInEngine>>
  BY <1>2, <1>3 DEF Sharing, AloneInEngine, IInv, TypeOK, Procs
<1>5. Status' \in {"available", "unavailable", "dropped"}
  BY DEF Status
<1>6. Status = "dropped" => UNCHANGED Status
  <2> SUFFICES ASSUME handle = None, dropped PROVE handle' = None /\ dropped'
    BY DEF Status
  <2>1. CASE Destroy(p) \/ RemoveTree(p)
    BY <2>1 DEF Destroy, RemoveTree
  <2>2. CASE CloseHandle(p) \/ Adopt(p)
    BY <2>2 DEF CloseHandle, Adopt
  <2> QED BY <2>1, <2>2
<1> QED BY <1>2, <1>4, <1>5, <1>6 DEF Served!Change, servedVars

\* Every step of the code is a step of ServedCollection or a stutter.
LEMMA RefinementStep == IInv /\ [Next]_vars => [Served!Next]_servedVars
<1> SUFFICES ASSUME IInv, [Next]_vars PROVE [Served!Next]_servedVars
  OBVIOUS
<1>1. ASSUME NEW p \in Requests, Client(p) \/ Step(p) PROVE [Served!Next]_servedVars
  <2>1. CASE Resolve(p) \/ ResolveBatch(p)
    BY <2>1, BeginSteps DEF Served!Next
  <2>2. CASE CallReturns(p) \/ CallFails(p) \/ RegisterCursor(p) \/ NextBatch(p)
    BY <2>2, EndSteps DEF Served!Next
  <2>3. CASE Destroy(p) \/ RemoveTree(p) \/ CloseHandle(p)
    BY <2>3, ChangeSteps DEF Served!Next, Procs
  <2> QED BY <1>1, <2>1, <2>2, <2>3, StutterSteps DEF Step
<1>2. CASE Recover(Recovery)
  BY <1>2, StutterSteps, ChangeSteps DEF Served!Next, Procs
<1>3. CASE OtherExits \/ UNCHANGED vars \/ \E p \in Requests : CollectCursor(p)
  BY <1>3
     DEF OtherExits, CollectCursor, vars, entryVars, opVars, servedVars, Status, Sharing,
         AloneInEngine
<1> QED BY <1>1, <1>2, <1>3 DEF Next, Terminated

\* The collection is served as ServedCollection promises: requests enter the
\* engine only while it is open, a writer alone, and drop, close and recovery
\* wait until the engine is empty.
THEOREM ServedRefinement == Spec => ServedOnlyWhileOpen
<1>1. Init => Served!Init
  BY DEF Init, StartsAvailable, StartsUnavailable, Served!Init, Status, Sharing, AloneInEngine,
         Procs, ExclusiveKinds, SharedKinds
<1>2. IInv /\ [Next]_vars => [Served!Next]_servedVars
  BY RefinementStep
<1> QED BY <1>1, <1>2, Invariance, PTL DEF Spec, ServedOnlyWhileOpen, Served!Spec, servedVars
=============================================================================
