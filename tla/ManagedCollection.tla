-------------------------- MODULE ManagedCollection --------------------------
(***************************************************************************)
(* One registered collection of the server: manager.py's ManagedCollection *)
(* together with the parts of CollectionManager that take its locks (drop, *)
(* close, info, the recovery task).  Every request runs once, on a worker  *)
(* thread of its own; the lock it queues for is FairRWLock.  The Zvec      *)
(* engine below is external: a handle holds an exclusive lock on the       *)
(* directory, and neither close, destroy nor optimize is accepted while a  *)
(* snapshot cursor is open.  Any of its calls may fail, the closing of a    *)
(* cursor included.                                                        *)
(***************************************************************************)
EXTENDS Naturals

CONSTANTS Requests,     \* the HTTP requests (and the one shutdown)
          Recovery,     \* the background task that retries the open
          None,         \* "no thread", "no handle"
          MaxBatches,   \* bound: batches a snapshot yields before it ends
          EngineFaults  \* whether engine calls may fail on their own

ASSUME RequestsAssumption == Recovery \notin Requests /\ None \notin Requests
ASSUME NoneAssumption == None # Recovery /\ None \notin {"initial", "reopened", "other"}
ASSUME BoundsAssumption == MaxBatches \in Nat /\ EngineFaults \in BOOLEAN

Procs == Requests \cup {Recovery}

VARIABLES
  gate, readers, writer,  \* ManagedCollection.rwlock
  handle,       \* ManagedCollection.collection
  dropped,      \* ManagedCollection.dropped
  maintLock,    \* holder of ManagedCollection.maintenance_lock
  cursors,      \* ManagedCollection.cursors, a cursor named after its stream
  cursorsLock,  \* holder of ManagedCollection._cursors_lock
  zlock,        \* engine: the open handle that holds the on-disk lock
  disk,         \* engine: the collection's directory exists
  live,         \* engine: open snapshot iterators
  raised,       \* cursors whose close() was called and raised
  pc, kind,     \* where each thread is, and in which operation
  ref,          \* the handle the thread passed to the engine
  result,       \* how the operation ended
  left,         \* batches left in a stream's snapshot
  cancelled     \* task.cancel() was called on the recovery task

lockVars   == <<gate, readers, writer>>
entryVars  == <<handle, dropped, maintLock, cursors, cursorsLock>>
cursorVars == <<live, raised>>
engineVars == <<zlock, disk, cursorVars>>
opVars     == <<kind, ref, result, left>>
vars == <<lockVars, entryVars, engineVars, pc, opVars, cancelled>>

Lock == INSTANCE FairRWLock

Handles == {"initial", "reopened"}
Kinds == {"none", "read", "write", "maintain", "stream", "batch", "info",
          "drop", "flush", "close", "adopt"}
CallKinds == {"read", "maintain", "stream", "info", "write", "flush"}
SharedKinds == {"read", "maintain", "stream", "batch", "info"}
ExclusiveKinds == {"write", "drop", "flush", "close", "adopt"}
Labels == {"idle", "maintWait", "sharedWait", "exclWait", "gated",
           "inside", "calling", "register", "teardown", "leaving",
           "maintRelease", "between", "finally", "closing", "unregister", "done",
           "sleeping", "opening", "failed", "opened", "abandoned", "discard"}
Results == {"none", "ok", "unavailable", "not_found", "engine_error",
            "cancelled", "stale"}

TypeOK == /\ Lock!LockTypeOK
          /\ handle \in Handles \cup {None}
          /\ dropped \in BOOLEAN
          /\ maintLock \in Requests \cup {None}
          /\ cursors \subseteq Requests
          /\ cursorsLock \in Requests \cup {None}
          /\ zlock \in Handles \cup {None, "other"}
          /\ disk \in BOOLEAN
          /\ live \subseteq Requests /\ raised \subseteq Requests
          /\ pc \in [Procs -> Labels]
          /\ kind \in [Procs -> Kinds]
          /\ ref \in [Procs -> Handles \cup {None}]
          /\ result \in [Procs -> Results]
          /\ left \in [Procs -> 0..MaxBatches]
          /\ cancelled \in BOOLEAN

-----------------------------------------------------------------------------
(* Startup: load_all opened the collection, or left it unavailable with a   *)
(* recovery task, because the directory is missing, the open failed, or     *)
(* another process still holds the on-disk lock.                            *)
StartsAvailable == /\ handle = "initial" /\ zlock = "initial" /\ disk = TRUE
                   /\ pc = [p \in Procs |-> IF p = Recovery THEN "done" ELSE "idle"]

StartsUnavailable == /\ handle = None
                     /\ zlock \in {None, "other"}
                     /\ disk \in BOOLEAN
                     /\ pc = [p \in Procs |-> IF p = Recovery THEN "sleeping" ELSE "idle"]

Init == /\ Lock!LockInit
        /\ StartsAvailable \/ StartsUnavailable
        /\ dropped = FALSE /\ maintLock = None
        /\ cursors = {} /\ cursorsLock = None /\ live = {} /\ raised = {}
        /\ kind = [p \in Procs |-> IF p = Recovery THEN "adopt" ELSE "none"]
        /\ ref = [p \in Procs |-> None]
        /\ result = [p \in Procs |-> "none"]
        /\ left = [p \in Procs |-> 0]
        /\ cancelled = FALSE

Goto(p, l) == pc' = [pc EXCEPT ![p] = l]
Outcome(p, r) == result' = [result EXCEPT ![p] = r]
Become(p, k) == kind' = [kind EXCEPT ![p] = k]

\* close() runs on the event loop and occupies it until it returns, and so
\* does a stream's _release_cursor: nothing else of the loop runs meanwhile.
LoopFree == \A r \in Requests : /\ pc[r] # "closing"
                                /\ kind[r] \in {"flush", "close"} => pc[r] = "done"

-----------------------------------------------------------------------------
(* Handlers up to the lock, on the event loop.                              *)
Submit(r, k, l) == /\ LoopFree
                   /\ pc[r] = "idle"
                   /\ Goto(r, l) /\ Become(r, k)
                   /\ UNCHANGED <<lockVars, entryVars, engineVars, ref, left>>

\* CollectionManager.get and the fail-fast _require_open of read, write,
\* maintain and stream.
FailFast(r) == /\ handle = None
               /\ \E k \in {"read", "write", "maintain", "stream"} : Submit(r, k, "done")
               /\ Outcome(r, "unavailable")
               /\ UNCHANGED cancelled

Enqueue(r) == /\ handle # None
              /\ \/ Submit(r, "read", "sharedWait")
                 \/ Submit(r, "stream", "sharedWait")
                 \/ Submit(r, "maintain", "maintWait")
                 \/ Submit(r, "write", "exclWait")
              /\ UNCHANGED <<result, cancelled>>

\* _build_info reads available before it queues for the lock.
StartInfo(r) == /\ \/ handle = None /\ Submit(r, "info", "done") /\ Outcome(r, "ok")
                   \/ handle # None /\ Submit(r, "info", "sharedWait") /\ UNCHANGED result
                /\ UNCHANGED cancelled

StartDrop(r) == Submit(r, "drop", "exclWait") /\ UNCHANGED <<result, cancelled>>

\* close(): cancel the recovery task, then flush_all skips an unavailable
\* entry, then the entry is closed.  The lifespan calls it once.
StartClose(r) == /\ \A q \in Requests : kind[q] \notin {"flush", "close"}
                 /\ Submit(r, IF handle = None THEN "close" ELSE "flush", "exclWait")
                 /\ cancelled' = TRUE
                 /\ UNCHANGED result

-----------------------------------------------------------------------------
(* Taking the locks, on a worker thread.                                    *)
\* Mutant of TakeMaintenance: the mutex is not waited for.
TakeMaintenanceAnyway(p) == /\ pc[p] = "maintWait"
                            /\ maintLock' = p
                            /\ Goto(p, "sharedWait")
                            /\ UNCHANGED <<lockVars, handle, dropped, cursors, cursorsLock,
                                           engineVars, opVars, cancelled>>

TakeMaintenance(p) == /\ pc[p] = "maintWait"
                      /\ maintLock = None
                      /\ maintLock' = p
                      /\ Goto(p, "sharedWait")
                      /\ UNCHANGED <<lockVars, handle, dropped, cursors, cursorsLock,
                                     engineVars, opVars, cancelled>>

EnterShared(p) == /\ pc[p] = "sharedWait"
                  /\ Lock!AcquireShared(p)
                  /\ Goto(p, "inside")
                  /\ UNCHANGED <<entryVars, engineVars, opVars, cancelled>>

WaitExclusive(p) == /\ pc[p] = "exclWait"
                    /\ Lock!CloseGate(p)
                    /\ Goto(p, "gated")
                    /\ UNCHANGED <<entryVars, engineVars, opVars, cancelled>>

EnterExclusive(p) == /\ pc[p] = "gated"
                     /\ Lock!AcquireExclusive(p)
                     /\ Goto(p, "inside")
                     /\ UNCHANGED <<entryVars, engineVars, opVars, cancelled>>

-----------------------------------------------------------------------------
(* Inside the lock: requests that call the engine.                          *)

\* What an operation makes of an entry that is not open: _require_open raises;
\* info passes None to get_stats, which raises; flush_all logs the exception.
NotOpen(k) == CASE k = "info" -> "engine_error"
                [] k = "flush" -> "none"
                [] OTHER -> "unavailable"

\* Mutant of Resolve: trust the check made before queueing for the lock.
ResolveUnchecked(p) ==
  /\ pc[p] = "inside" /\ kind[p] \in CallKinds
  /\ ref' = [ref EXCEPT ![p] = handle] /\ Goto(p, "calling")
  /\ UNCHANGED <<lockVars, entryVars, engineVars, kind, result, left, cancelled>>

\* Mutant of Resolve: wait for the recovery, under the lock that it needs.
ResolveAwaitsRecovery(p) ==
  /\ pc[p] = "inside" /\ kind[p] \in CallKinds
  /\ \/ /\ handle # None
        /\ ref' = [ref EXCEPT ![p] = handle] /\ Goto(p, "calling")
        /\ UNCHANGED <<lockVars, entryVars, engineVars, kind, result, left, cancelled>>
     \/ handle = None /\ UNCHANGED vars

\* The handle is read again, now that no drop or close can run.
Resolve(p) == /\ pc[p] = "inside" /\ kind[p] \in CallKinds
              /\ \/ /\ handle # None
                    /\ ref' = [ref EXCEPT ![p] = handle] /\ Goto(p, "calling")
                    /\ UNCHANGED result
                 \/ /\ handle = None
                    /\ Outcome(p, NotOpen(kind[p])) /\ Goto(p, "leaving")
                    /\ UNCHANGED ref
              /\ UNCHANGED <<lockVars, entryVars, engineVars, kind, left, cancelled>>

\* _next: was the cursor released by a drop or a close?
ResolveBatch(p) == /\ pc[p] = "inside" /\ kind[p] = "batch"
                   /\ cursorsLock = None
                   /\ \/ p \in cursors /\ Goto(p, "calling") /\ UNCHANGED result
                      \/ /\ p \notin cursors
                         /\ Outcome(p, "unavailable") /\ Goto(p, "leaving")
                   /\ UNCHANGED <<lockVars, entryVars, engineVars, kind, ref, left, cancelled>>

CallReturns(p) == /\ pc[p] = "calling" /\ kind[p] \in CallKinds \ {"stream"}
                  /\ kind[p] = "maintain" => live = {}
                  /\ Outcome(p, IF kind[p] = "flush" THEN "none" ELSE "ok")
                  /\ Goto(p, "leaving")
                  /\ UNCHANGED <<lockVars, entryVars, engineVars, kind, ref, left, cancelled>>

\* The engine refuses to optimize under an open cursor.
CallFails(p) == /\ pc[p] = "calling"
                /\ EngineFaults \/ (kind[p] = "maintain" /\ live # {})
                /\ Outcome(p, IF kind[p] = "flush" THEN "none" ELSE "engine_error")
                /\ Goto(p, "leaving")
                /\ UNCHANGED <<lockVars, entryVars, engineVars, kind, ref, left, cancelled>>

\* _open: the iterator exists before stream() has put it in the set.
OpenCursor(p) == /\ pc[p] = "calling" /\ kind[p] = "stream"
                 /\ live' = live \cup {p}
                 /\ \E n \in 0..MaxBatches : left' = [left EXCEPT ![p] = n]
                 /\ Goto(p, "register")
                 /\ UNCHANGED <<lockVars, entryVars, zlock, disk, raised, kind, ref, result,
                                cancelled>>

RegisterCursor(p) == /\ pc[p] = "register"
                     /\ cursorsLock = None
                     /\ cursors' = cursors \cup {p}
                     /\ Become(p, "batch") /\ Goto(p, "leaving")
                     /\ UNCHANGED <<lockVars, handle, dropped, maintLock, cursorsLock,
                                    engineVars, ref, result, left, cancelled>>

\* Mutant of NextBatch: one batch too many.
NextBatchPastEnd(p) == /\ pc[p] = "calling" /\ kind[p] = "batch"
                       /\ left' = [left EXCEPT ![p] = @ - 1]
                       /\ Outcome(p, IF left[p] < 0 THEN "ok" ELSE "none")
                       /\ Goto(p, "leaving")
                       /\ UNCHANGED <<lockVars, entryVars, engineVars, kind, ref, cancelled>>

\* next_batch: another batch, or an empty one, which ends the stream.
NextBatch(p) == /\ pc[p] = "calling" /\ kind[p] = "batch"
                /\ \/ left[p] > 0 /\ left' = [left EXCEPT ![p] = @ - 1] /\ UNCHANGED result
                   \/ left[p] = 0 /\ Outcome(p, "ok") /\ UNCHANGED left
                /\ Goto(p, "leaving")
                /\ UNCHANGED <<lockVars, entryVars, engineVars, kind, ref, cancelled>>

-----------------------------------------------------------------------------
(* Inside the exclusive lock: drop, close and the adoption of a handle.     *)

\* drop(): a concurrent drop got here first.
DropAgain(p) == /\ pc[p] = "inside" /\ kind[p] = "drop"
                /\ dropped
                /\ Outcome(p, "not_found") /\ Goto(p, "leaving")
                /\ UNCHANGED <<lockVars, entryVars, engineVars, kind, ref, left, cancelled>>

\* Mutant of CloseCursors: a raising close() ends the loop, and the drop.
CloseCursorsUntilRaise(p) ==
  /\ pc[p] = "inside"
  /\ (kind[p] = "drop" /\ ~dropped) \/ kind[p] = "close"
  /\ cursorsLock = None
  /\ cursors' = {}
  /\ \/ /\ live' = live \ cursors /\ UNCHANGED <<raised, result>>
        /\ Goto(p, "teardown")
     \/ /\ EngineFaults
        /\ \E closed \in SUBSET cursors : \E c \in cursors \ closed :
             live' = live \ closed /\ raised' = raised \cup {c}
        /\ Outcome(p, "engine_error") /\ Goto(p, "leaving")
  /\ UNCHANGED <<lockVars, handle, dropped, maintLock, cursorsLock, zlock, disk, kind, ref, left,
                 cancelled>>

\* close_cursors(): swap the set and close what was in it, under _cursors_lock.
\* A close() that raises is logged, whether or not it left the iterator open.
CloseCursors(p) == /\ pc[p] = "inside"
                   /\ (kind[p] = "drop" /\ ~dropped) \/ kind[p] = "close"
                   /\ cursorsLock = None
                   /\ cursors' = {}
                   /\ \E failing \in SUBSET cursors : \E open \in SUBSET failing :
                        /\ EngineFaults \/ failing = {}
                        /\ live' = (live \ cursors) \cup open
                        /\ raised' = raised \cup failing
                   /\ Goto(p, "teardown")
                   /\ UNCHANGED <<lockVars, handle, dropped, maintLock, cursorsLock, zlock, disk,
                                  opVars, cancelled>>

\* Mutant of Destroy: the entry is marked but keeps its handle.
DestroyKeepingHandle(p) ==
  /\ pc[p] = "teardown" /\ kind[p] = "drop"
  /\ handle # None /\ live = {}
  /\ zlock' = None /\ disk' = FALSE /\ dropped' = TRUE
  /\ Goto(p, "leaving")
  /\ UNCHANGED <<lockVars, handle, maintLock, cursors, cursorsLock, cursorVars, opVars, cancelled>>

\* drop(): destroy_collection, then the entry is cleared and marked.
Destroy(p) == /\ pc[p] = "teardown" /\ kind[p] = "drop"
              /\ handle # None /\ live = {}
              /\ zlock' = None /\ disk' = FALSE
              /\ handle' = None /\ dropped' = TRUE
              /\ Goto(p, "leaving")
              /\ UNCHANGED <<lockVars, maintLock, cursors, cursorsLock, cursorVars, opVars,
                             cancelled>>

\* destroy_collection raised: the entry stays as it was, without its cursors.
DestroyFails(p) == /\ pc[p] = "teardown" /\ kind[p] = "drop"
                   /\ handle # None
                   /\ EngineFaults \/ live # {}
                   /\ Outcome(p, "engine_error") /\ Goto(p, "leaving")
                   /\ UNCHANGED <<lockVars, entryVars, engineVars, kind, ref, left, cancelled>>

\* drop() of an unavailable entry: rmtree with ignore_errors, whoever has the
\* directory open.
RemoveTree(p) == /\ pc[p] = "teardown" /\ kind[p] = "drop"
                 /\ handle = None
                 /\ disk' \in {FALSE, disk}
                 /\ dropped' = TRUE
                 /\ Goto(p, "leaving")
                 /\ UNCHANGED <<lockVars, handle, maintLock, cursors, cursorsLock, zlock,
                                cursorVars, opVars, cancelled>>

\* close(): the entry lets go of the handle before the engine closes it; a
\* refused close is logged.
CloseHandle(p) == /\ pc[p] = "teardown" /\ kind[p] = "close"
                  /\ handle' = None
                  /\ \/ handle # None /\ live = {} /\ zlock' = None
                     \/ handle # None /\ (EngineFaults \/ live # {}) /\ UNCHANGED zlock
                     \/ handle = None /\ UNCHANGED zlock
                  /\ Outcome(p, "ok") /\ Goto(p, "leaving")
                  /\ UNCHANGED <<lockVars, dropped, maintLock, cursors, cursorsLock, disk,
                                 cursorVars, kind, ref, left, cancelled>>

\* Mutant of Adopt: install the handle whatever happened meanwhile.
AdoptAnyway(p) == /\ pc[p] = "inside" /\ kind[p] = "adopt"
                  /\ handle' = "reopened" /\ Outcome(p, "ok") /\ Goto(p, "leaving")
                  /\ UNCHANGED <<lockVars, dropped, maintLock, cursors, cursorsLock, engineVars,
                                 kind, ref, left, cancelled>>

\* _adopt: install the reopened handle unless the collection was dropped.
Adopt(p) == /\ pc[p] = "inside" /\ kind[p] = "adopt"
            /\ \/ ~dropped /\ handle' = "reopened" /\ Outcome(p, "ok")
               \/ dropped /\ Outcome(p, "stale") /\ UNCHANGED handle
            /\ Goto(p, "leaving")
            /\ UNCHANGED <<lockVars, dropped, maintLock, cursors, cursorsLock, engineVars,
                           kind, ref, left, cancelled>>

-----------------------------------------------------------------------------
(* Leaving the lock.                                                        *)
After(p) == CASE kind[p] = "maintain" -> "maintRelease"
              [] kind[p] = "batch" /\ result[p] = "none" -> "between"
              [] kind[p] = "batch" /\ result[p] # "none" -> "finally"
              [] kind[p] = "flush" -> "exclWait"
              [] kind[p] = "drop" /\ result[p] = "none" -> "unregister"
              [] kind[p] = "adopt" /\ result[p] = "stale" -> "discard"
              [] OTHER -> "done"

LeaveShared(p) == /\ pc[p] = "leaving" /\ kind[p] \in SharedKinds
                  /\ Lock!ReleaseShared(p)
                  /\ Goto(p, After(p))
                  /\ UNCHANGED <<entryVars, engineVars, opVars, cancelled>>

\* After flush_all, close() comes back for the entry itself.
LeaveExclusive(p) == /\ pc[p] = "leaving" /\ kind[p] \in ExclusiveKinds
                     /\ Lock!ReleaseExclusive(p)
                     /\ Goto(p, After(p))
                     /\ Become(p, IF kind[p] = "flush" THEN "close" ELSE kind[p])
                     /\ UNCHANGED <<entryVars, engineVars, ref, result, left, cancelled>>

ReleaseMaintenance(p) == /\ pc[p] = "maintRelease"
                         /\ maintLock' = None
                         /\ Goto(p, "done")
                         /\ UNCHANGED <<lockVars, handle, dropped, cursors, cursorsLock,
                                        engineVars, opVars, cancelled>>

\* drop(), back under the registry lock: the recovery task is cancelled.
Unregister(p) == /\ pc[p] = "unregister"
                 /\ cancelled' = TRUE
                 /\ Outcome(p, "ok") /\ Goto(p, "done")
                 /\ UNCHANGED <<lockVars, entryVars, engineVars, kind, ref, left>>

-----------------------------------------------------------------------------
(* A stream between batches, on the event loop.  The client may take the    *)
(* next batch, go away, or do neither for ever.                             *)
Resume(p) == /\ LoopFree
             /\ pc[p] = "between"
             /\ Goto(p, "sharedWait")
             /\ UNCHANGED <<lockVars, entryVars, engineVars, opVars, cancelled>>

Abandon(p) == /\ LoopFree
              /\ pc[p] = "between"
              /\ Outcome(p, "cancelled") /\ Goto(p, "finally")
              /\ UNCHANGED <<lockVars, entryVars, engineVars, kind, ref, left, cancelled>>

\* Mutant of ReleaseCursor: the set is updated under _cursors_lock, but the
\* cursor is closed after the lock was given up.
ReleaseCursorEarly(p) ==
  /\ LoopFree
  /\ pc[p] = "finally"
  /\ cursorsLock = None
  /\ cursors' = cursors \ {p}
  /\ Goto(p, IF p \in cursors THEN "closing" ELSE "done")
  /\ UNCHANGED <<lockVars, handle, dropped, maintLock, cursorsLock, engineVars, opVars,
                 cancelled>>

\* _release_cursor: nothing to do after a close_cursors(), else the cursor
\* leaves the set and is closed, both under _cursors_lock.
ReleaseCursor(p) ==
  /\ LoopFree
  /\ pc[p] = "finally"
  /\ cursorsLock = None
  /\ \/ /\ p \in cursors
        /\ cursors' = cursors \ {p} /\ cursorsLock' = p
        /\ Goto(p, "closing")
     \/ /\ p \notin cursors
        /\ Goto(p, "done")
        /\ UNCHANGED <<cursors, cursorsLock>>
  /\ UNCHANGED <<lockVars, handle, dropped, maintLock, engineVars, opVars, cancelled>>

\* The close() may raise: out of the stream, but not before the lock is released.
CloseReleased(p) == /\ pc[p] = "closing"
                    /\ \/ live' = live \ {p} /\ UNCHANGED <<raised, result>>
                       \/ /\ EngineFaults
                          /\ live' \in {live, live \ {p}} /\ raised' = raised \cup {p}
                          /\ Outcome(p, "engine_error")
                    /\ cursorsLock' = None
                    /\ Goto(p, "done")
                    /\ UNCHANGED <<lockVars, handle, dropped, maintLock, cursors, zlock, disk,
                                   kind, ref, left, cancelled>>

\* Nobody closes it again; the garbage collector may get to it once its stream
\* has ended.
CollectCursor(p) == /\ p \in live \cap raised /\ pc[p] = "done"
                    /\ live' = live \ {p}
                    /\ UNCHANGED <<lockVars, entryVars, zlock, disk, raised, pc, opVars, cancelled>>

-----------------------------------------------------------------------------
(* The recovery task.  Its awaits are on the event loop, the open and the   *)
(* adoption run in worker threads that a cancel does not stop.              *)
Wake(p) == /\ LoopFree
           /\ pc[p] = "sleeping"
           /\ Goto(p, IF cancelled THEN "done" ELSE "opening")
           /\ UNCHANGED <<lockVars, entryVars, engineVars, opVars, cancelled>>

\* _open_record: the directory is missing, the lock is taken, or the engine
\* fails.
OpenFails(p) == /\ pc[p] = "opening"
                /\ ~disk \/ zlock # None \/ EngineFaults
                /\ Goto(p, "failed")
                /\ UNCHANGED <<lockVars, entryVars, engineVars, opVars, cancelled>>

OpenSucceeds(p) == /\ pc[p] = "opening"
                   /\ disk /\ zlock = None
                   /\ zlock' = "reopened"
                   /\ Goto(p, "opened")
                   /\ UNCHANGED <<lockVars, entryVars, disk, cursorVars, opVars, cancelled>>

\* Mutant of Retry: one attempt only.
RetryNever(p) == /\ LoopFree
                 /\ pc[p] = "failed"
                 /\ Goto(p, "done")
                 /\ UNCHANGED <<lockVars, entryVars, engineVars, opVars, cancelled>>

Retry(p) == /\ LoopFree
            /\ pc[p] = "failed"
            /\ Goto(p, IF cancelled \/ handle # None \/ dropped THEN "done" ELSE "sleeping")
            /\ UNCHANGED <<lockVars, entryVars, engineVars, opVars, cancelled>>

\* A cancel that lands on the await of the open discards its result.
Reopened(p) == /\ LoopFree
               /\ pc[p] = "opened"
               /\ Goto(p, IF cancelled THEN "abandoned" ELSE "exclWait")
               /\ UNCHANGED <<lockVars, entryVars, engineVars, opVars, cancelled>>

\* The garbage collector gets to the discarded handle.
Collect(p) == /\ pc[p] = "abandoned"
              /\ zlock' = None
              /\ Goto(p, "done")
              /\ UNCHANGED <<lockVars, entryVars, disk, cursorVars, opVars, cancelled>>

\* _adopt closes the handle it did not install; a failure is logged.
Discard(p) == /\ pc[p] = "discard"
              /\ zlock' = None \/ (EngineFaults /\ UNCHANGED zlock)
              /\ Goto(p, "done")
              /\ UNCHANGED <<lockVars, entryVars, disk, cursorVars, opVars, cancelled>>

\* The process that had the collection open, in a rolling restart, exits.
OtherExits == /\ zlock = "other"
              /\ zlock' = None
              /\ UNCHANGED <<lockVars, entryVars, disk, cursorVars, pc, opVars, cancelled>>

-----------------------------------------------------------------------------
Client(p) == \/ FailFast(p) \/ Enqueue(p) \/ StartInfo(p) \/ StartDrop(p) \/ StartClose(p)
             \/ Resume(p) \/ Abandon(p)

Step(p) == \/ TakeMaintenance(p) \/ EnterShared(p) \/ WaitExclusive(p) \/ EnterExclusive(p)
           \/ Resolve(p) \/ ResolveBatch(p) \/ CallReturns(p) \/ CallFails(p)
           \/ OpenCursor(p) \/ RegisterCursor(p) \/ NextBatch(p)
           \/ DropAgain(p) \/ CloseCursors(p) \/ Destroy(p) \/ DestroyFails(p)
           \/ RemoveTree(p) \/ CloseHandle(p)
           \/ LeaveShared(p) \/ LeaveExclusive(p) \/ ReleaseMaintenance(p) \/ Unregister(p)
           \/ ReleaseCursor(p) \/ CloseReleased(p)

Recover(p) == \/ Wake(p) \/ OpenFails(p) \/ OpenSucceeds(p) \/ Retry(p) \/ Reopened(p)
              \/ WaitExclusive(p) \/ EnterExclusive(p) \/ Adopt(p) \/ LeaveExclusive(p)
              \/ Discard(p) \/ Collect(p)

\* Not a deadlock: everything that was asked for is done.
Terminated == (\A p \in Procs : pc[p] = "done") /\ UNCHANGED vars

Next == \/ \E r \in Requests : Client(r) \/ Step(r) \/ CollectCursor(r)
        \/ Recover(Recovery)
        \/ OtherExits
        \/ Terminated

Spec == Init /\ [][Next]_vars

\* Every thread that can take its next step does, and so does the recovery
\* task.  Nothing is assumed of the clients, of the other process, nor of the
\* collection of a cursor that could not be closed.
Fairness == /\ \A r \in Requests : WF_vars(Step(r))
            /\ WF_vars(Recover(Recovery))

FairSpec == Spec /\ Fairness

-----------------------------------------------------------------------------
(* Safety.                                                                  *)

\* What the docstring of ManagedCollection and the CHANGELOG promise of a
\* request that was queued while drop or shutdown ran: whatever reaches the
\* engine does so with the handle the entry holds now, and a batch is read
\* from a cursor that nobody has closed.
CallsUseLiveHandle ==
  \A p \in Requests :
    /\ pc[p] \in {"calling", "register"} => handle # None /\ ref[p] = handle /\ zlock = handle
    /\ pc[p] = "calling" /\ kind[p] = "batch" => p \in cursors /\ p \in live

\* The entry never holds a handle the engine has closed or destroyed, and a
\* dropped collection is not resurrected by a recovery that was under way.
HandleIsOpen == handle # None => zlock = handle /\ disk /\ ~dropped

\* Two maintenance runs never overlap, though each holds the lock only shared.
MaintenanceAlone ==
  \A p, q \in Requests : p # q /\ pc[p] = "calling" /\ pc[q] = "calling"
                           => ~(kind[p] = "maintain" /\ kind[q] = "maintain")

\* The reason for close_cursors and _cursors_lock: by the time drop destroys or
\* close closes the collection, close() has been called on every cursor.  An
\* iterator still open then is one whose close() raised (which is logged), never
\* one its stream is just opening or releasing, nor one that the failure of
\* another cursor kept from its turn.
TeardownUnobstructed == \A p \in Requests : pc[p] = "teardown" =>
                          cursors = {} /\ live \subseteq raised

\* close() is called exactly once on every cursor, whether or not it raises: a
\* registered cursor is open and was not tried, an open one that was not tried
\* is registered except while its own stream opens or releases it, and no
\* stream that has ended leaves behind what was not tried.
CursorsReleasedOnce ==
  /\ cursors \subseteq live \ raised
  /\ \A p \in Requests :
       /\ pc[p] \in {"register", "closing"} => p \in live \ (cursors \cup raised)
       /\ p \in live \ (cursors \cup raised) => pc[p] \in {"register", "closing"}
       /\ pc[p] = "done" => p \notin live \ raised

\* A drop is final, for every thread: once a collection is marked dropped no
\* step opens it again, and no operation on it that had not ended succeeds.
DropIsFinal == [][dropped => /\ dropped' /\ handle' = None
                             /\ \A p \in Requests : pc[p] \in {"gated", "sharedWait", "inside"}
                                  /\ kind[p] \in CallKinds => pc'[p] # "calling"]_vars

\* The collection is served as ServedCollection says: a writer is alone in the
\* engine, and drop, close and recovery wait until nobody is.
Status == IF handle # None THEN "available"
          ELSE IF dropped THEN "dropped" ELSE "unavailable"
Sharing == {p \in Requests : pc[p] \in {"calling", "register"} /\ kind[p] \in SharedKinds}
AloneInEngine == {p \in Requests : pc[p] = "calling" /\ kind[p] \in ExclusiveKinds}

Served == INSTANCE ServedCollection
            WITH status <- Status, sharing <- Sharing, exclusive <- AloneInEngine
ServedOnlyWhileOpen == Served!Spec

-----------------------------------------------------------------------------
(* Claims of the documentation that the code does not keep.                 *)

\* CHANGELOG: requests queued behind a drop or a shutdown fail with 503 or 404.
\* But _build_info does not look at the handle again under the lock.
QueuedInfoIsRefusedCleanly ==
  \A p \in Requests : kind[p] = "info" => result[p] # "engine_error"

\* close's docstring: every handle is closed and its on-disk lock released.
\* But an adoption that gets the lock after close() installs a handle in an
\* entry nobody will close.
ClosedStaysClosed ==
  (\E p \in Requests : kind[p] = "close" /\ pc[p] = "done") => handle = None

-----------------------------------------------------------------------------
(* Liveness, under FairSpec.                                                *)

\* A request that waits or works comes to its end, or to a batch for its
\* client, whatever the clients do: an export whose client never reads on
\* holds up no write, no drop and no shutdown.
Settled == {"idle", "between", "done"}
EveryCallReturns == \A p \in Requests : pc[p] \notin Settled ~> pc[p] \in Settled

\* Once the process that has the collection open exits, the recovery task opens
\* it, however often the open failed before, unless the task was cancelled or
\* the collection dropped.
RecoveryOpens == <>(zlock # "other")
                   => ((pc[Recovery] = "sleeping" /\ disk)
                         ~> (handle # None \/ dropped \/ cancelled))
=============================================================================
