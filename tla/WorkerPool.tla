----------------------------- MODULE WorkerPool -----------------------------
(***************************************************************************)
(* Several collections, one event loop and one bounded pool of worker      *)
(* threads: who waits for whom.  Every blocking call of zvec_server goes   *)
(* through starlette's run_in_threadpool, whose limiter hands out threads  *)
(* in the order of arrival and takes one back only on the event loop, once *)
(* its result is delivered there.  A request passes through the pool twice *)
(* before it does anything: FastAPI runs get_manager, the dependency of    *)
(* every collection and document route, in a thread of its own, and only   *)
(* then the handler.  Inside its second thread a request waits for         *)
(* the registry lock, a maintenance mutex or a collection's fair lock      *)
(* (FairRWLock, here one per entry); the readiness probe and close() wait  *)
(* for the same locks on the event loop itself.  What the engine does and  *)
(* which names clash is left to ManagedCollection and CollectionManager.   *)
(***************************************************************************)
EXTENDS Naturals, Sequences, FiniteSets

CONSTANTS Requests,    \* HTTP requests and the shutdown, each run once
          Initial,     \* the collections that load_all opened
          None,        \* "nobody"
          PoolSize,    \* threads of the pool (40 in the server)
          MaxBatches   \* bound: batches of an export

ASSUME DistinctAssumption == None \notin Requests /\ Requests \cap Initial = {}
ASSUME PoolAssumption == PoolSize \in Nat \ {0} /\ MaxBatches \in Nat

\* An entry of the registry is named after the create that made it.
Entries == Initial \cup Requests

VARIABLES
  queue,       \* requests waiting for a thread, in order of arrival
  threads,     \* requests that have one
  reglock,     \* holder of CollectionManager._lock
  registered,  \* CollectionManager._registry
  state,       \* per entry: its handle and its dropped flag
  mutex,       \* per entry: holder of maintenance_lock
  gate, readers, \* per entry: the writer past the gate, the readers inside
  pc, kind, entry, \* per request: place, operation, the entry it is about
  left,        \* _next calls left of an export, passes left of close(), turns of drop
  todo         \* entries a list or a close() has still to visit

poolVars == <<queue, threads>>
lockVars == <<reglock, mutex, gate, readers>>
tableVars == <<registered, state>>
opVars == <<kind, entry, left, todo>>
vars == <<poolVars, lockVars, tableVars, pc, opVars>>

GetKinds  == {"read", "write", "maintain", "export"}
LoopKinds == {"probe", "close"}
Kinds == GetKinds \cup LoopKinds \cup {"none", "info", "create", "drop", "list"}
Exclusive == {"write", "drop", "close"}
Waiting == {"regWait", "mutexWait", "sharedWait", "exclWait", "gated"}
Labels == Waiting \cup {"new", "arrived", "resolved", "queued", "lookup", "creating", "inside",
                        "visiting", "finished", "paused", "ended"}

TypeOK == /\ queue \in Seq(Requests) /\ threads \subseteq Requests
          /\ Cardinality(threads) <= PoolSize
          /\ reglock \in Requests \cup {None}
          /\ registered \subseteq Entries
          /\ state \in [Entries -> {"absent", "open", "closed", "dropped"}]
          /\ mutex \in [Entries -> Requests \cup {None}]
          /\ gate \in [Entries -> Requests \cup {None}]
          /\ readers \in [Entries -> SUBSET Requests]
          /\ pc \in [Requests -> Labels] /\ kind \in [Requests -> Kinds]
          /\ entry \in [Requests -> Entries]
          /\ left \in [Requests -> 0..(MaxBatches + 1)]
          /\ todo \in [Requests -> SUBSET Entries]

Init == /\ queue = <<>> /\ threads = {} /\ reglock = None
        /\ registered = Initial
        /\ state = [e \in Entries |-> IF e \in Initial THEN "open" ELSE "absent"]
        /\ mutex = [e \in Entries |-> None]
        /\ gate = [e \in Entries |-> None]
        /\ readers = [e \in Entries |-> {}]
        /\ pc = [r \in Requests |-> "new"]
        /\ kind = [r \in Requests |-> "none"]
        /\ entry = [r \in Requests |-> r]
        /\ left = [r \in Requests |-> 0]
        /\ todo = [r \in Requests |-> {}]

Goto(r, l) == pc' = [pc EXCEPT ![r] = l]

\* counts() and close() run on the event loop and keep it while they wait.
LoopFree == \A r \in Requests : kind[r] \in LoopKinds => pc[r] = "ended"

-----------------------------------------------------------------------------
(* The event loop.  It accepts no request once the shutdown has begun.      *)
Arrives(r, l) == /\ pc[r] = "new" /\ LoopFree
                 /\ \A q \in Requests : kind[q] # "close"
                 /\ Goto(r, l)
                 /\ UNCHANGED <<threads, lockVars, tableVars, entry, todo>>

Becomes(r, k) == /\ kind' = [kind EXCEPT ![r] = k]
                 /\ left' = [left EXCEPT ![r] = CASE k = "export" -> MaxBatches + 1
                                                  [] k = "close" -> 1
                                                  [] OTHER -> 0]

Enqueue(r) == queue' = Append(queue, r)

\* A collection or document route: get_manager first, in a thread.  Which route
\* it is matters to the handler only, and is chosen there.
SubmitRoute(r) == Arrives(r, "arrived") /\ Enqueue(r) /\ UNCHANGED <<kind, left>>

\* readyz and the end of the lifespan call the manager without a thread.
SubmitOnLoop(r) == /\ Arrives(r, "regWait")
                   /\ \E k \in LoopKinds : Becomes(r, k)
                   /\ UNCHANGED queue

FirstPlace(k) == CASE k \in {"read", "export"} -> "sharedWait"
                   [] k = "write" -> "exclWait"
                   [] k = "maintain" -> "mutexWait"
                   [] k = "info" -> "lookup"
                   [] OTHER -> "regWait"

\* What a request goes on with once it has a thread.
InThread(r) == IF pc[r] = "arrived" THEN "resolved" ELSE FirstPlace(kind[r])

\* Mutant of Dispatch: the pool grows with its load.
DispatchAlways == /\ queue # <<>> /\ LoopFree
                  /\ queue' = Tail(queue)
                  /\ threads' = threads \cup {Head(queue)}
                  /\ Goto(Head(queue), InThread(Head(queue)))
                  /\ UNCHANGED <<lockVars, tableVars, opVars>>

\* The limiter hands a thread to the request that has waited longest.
Dispatch == /\ queue # <<>> /\ LoopFree
            /\ Cardinality(threads) < PoolSize
            /\ queue' = Tail(queue)
            /\ threads' = threads \cup {Head(queue)}
            /\ Goto(Head(queue), InThread(Head(queue)))
            /\ UNCHANGED <<lockVars, tableVars, opVars>>

Available == {e \in registered : state[e] = "open"}

Offload(r) == Enqueue(r) /\ Goto(r, "queued")

\* The handler, up to its own thread: manager.get() and the fail-fast check; or,
\* on the collection routes, the whole of the manager's method in a thread; or a
\* refusal, of the body or by get().
CallsEngine(r) == \E k \in GetKinds, e \in Available :
                    Becomes(r, k) /\ entry' = [entry EXCEPT ![r] = e] /\ Offload(r)
CallsManager(r) == /\ \E k \in {"info", "create", "drop", "list"} : Becomes(r, k)
                   /\ Offload(r) /\ UNCHANGED entry
Refused(r) == Goto(r, "ended") /\ UNCHANGED <<queue, kind, entry, left>>

\* Mutant of Handle: a request keeps the thread of get_manager to its end.
HandleKeepingThread(r) == /\ pc[r] = "resolved" /\ LoopFree
                          /\ \/ (CallsEngine(r) \/ CallsManager(r)) /\ UNCHANGED threads
                             \/ Refused(r) /\ threads' = threads \ {r}
                          /\ UNCHANGED <<lockVars, tableVars, todo>>

\* The manager reaches the loop: its thread is free again, and the handler runs.
Handle(r) == /\ pc[r] = "resolved" /\ LoopFree
             /\ threads' = threads \ {r}
             /\ CallsEngine(r) \/ CallsManager(r) \/ Refused(r)
             /\ UNCHANGED <<lockVars, tableVars, todo>>

\* A result reaches the loop and its thread is free again.  A stream asks for
\* its first batch at once, then yields to the client between batches; the
\* last one is empty.
Return(r) == /\ pc[r] = "finished" /\ LoopFree
             /\ threads' = threads \ {r}
             /\ UNCHANGED <<lockVars, tableVars, kind, entry, todo>>
             /\ IF kind[r] = "export" /\ left[r] > 0
                THEN /\ left' = [left EXCEPT ![r] = @ - 1]
                     /\ IF left[r] = MaxBatches + 1
                        THEN Offload(r)
                        ELSE Goto(r, "paused") /\ UNCHANGED queue
                ELSE Goto(r, "ended") /\ UNCHANGED <<queue, left>>

\* The client of an export reads on, or leaves.
Resume(r) == /\ pc[r] = "paused" /\ LoopFree
             /\ Offload(r)
             /\ UNCHANGED <<threads, lockVars, tableVars, opVars>>

Abandon(r) == /\ pc[r] = "paused" /\ LoopFree
              /\ Goto(r, "ended")
              /\ UNCHANGED <<poolVars, lockVars, tableVars, opVars>>

-----------------------------------------------------------------------------
(* Under the registry lock.  Only a create keeps it over a step.            *)
\* Mutant of DropLooksUp: the registry stays locked during the wait.
DropLooksUpHolding(r) == /\ pc[r] = "regWait" /\ kind[r] = "drop" /\ left[r] = 0
                         /\ reglock = None
                         /\ \/ /\ \E e \in registered : entry' = [entry EXCEPT ![r] = e]
                               /\ Goto(r, "exclWait") /\ reglock' = r
                            \/ Goto(r, "finished") /\ UNCHANGED <<entry, reglock>>
                         /\ UNCHANGED <<poolVars, mutex, gate, readers, tableVars, kind, left,
                                        todo>>

\* drop: registry.get under the lock, and 404 for a name that is not there.  Its
\* second turn deletes row and entry.
DropLooksUp(r) == /\ pc[r] = "regWait" /\ kind[r] = "drop" /\ left[r] = 0
                  /\ reglock = None
                  /\ \/ /\ \E e \in registered : entry' = [entry EXCEPT ![r] = e]
                        /\ Goto(r, "exclWait")
                     \/ Goto(r, "finished") /\ UNCHANGED entry
                  /\ UNCHANGED <<poolVars, lockVars, tableVars, kind, left, todo>>

DropUnregisters(r) == /\ pc[r] = "regWait" /\ kind[r] = "drop" /\ left[r] = 1
                      /\ reglock = None
                      /\ registered' = registered \ {entry[r]}
                      /\ Goto(r, "finished")
                      /\ UNCHANGED <<poolVars, lockVars, state, opVars>>

\* create: refused because the name is taken, or on to the engine and SQLite.
CreateBegins(r) == /\ pc[r] = "regWait" /\ kind[r] = "create"
                   /\ reglock = None
                   /\ \/ Goto(r, "finished") /\ UNCHANGED reglock
                      \/ Goto(r, "creating") /\ reglock' = r
                   /\ UNCHANGED <<poolVars, mutex, gate, readers, tableVars, opVars>>

CreateFails(r) == /\ pc[r] = "creating"
                  /\ reglock' = None
                  /\ Goto(r, "finished")
                  /\ UNCHANGED <<poolVars, mutex, gate, readers, tableVars, opVars>>

\* The new entry is visible from here on; _build_info queues for its lock.
CreateRegisters(r) == /\ pc[r] = "creating"
                      /\ registered' = registered \cup {r}
                      /\ state' = [state EXCEPT ![r] = "open"]
                      /\ Goto(r, "sharedWait")
                      /\ UNCHANGED <<poolVars, lockVars, opVars>>

\* list, flush_all and close copy the registry; close also empties it.
Snapshot(r) == /\ pc[r] = "regWait" /\ kind[r] \in {"list", "close"}
               /\ reglock = None
               /\ todo' = [todo EXCEPT ![r] = registered]
               /\ registered' = IF kind[r] = "close" /\ left[r] = 0 THEN {} ELSE registered
               /\ Goto(r, "visiting")
               /\ UNCHANGED <<poolVars, lockVars, state, kind, entry, left>>

\* counts(), on the event loop.
ProbeCounts(r) == /\ pc[r] = "regWait" /\ kind[r] = "probe"
                  /\ reglock = None
                  /\ Goto(r, "ended")
                  /\ UNCHANGED <<poolVars, lockVars, tableVars, opVars>>

-----------------------------------------------------------------------------
(* Under the lock of an entry.                                              *)
\* info finds its entry, if there is one, without a lock, and reads available
\* before it queues.
Lookup(r) == /\ pc[r] = "lookup"
             /\ \/ /\ \E e \in Available : entry' = [entry EXCEPT ![r] = e]
                   /\ Goto(r, "sharedWait")
                \/ Goto(r, "finished") /\ UNCHANGED entry
             /\ UNCHANGED <<poolVars, lockVars, tableVars, kind, left, todo>>

\* The next entry of a copied registry.  list and flush_all skip one that is
\* not open, close() does not.
Visit(r) == /\ pc[r] = "visiting"
            /\ \E e \in todo[r] :
                 /\ todo' = [todo EXCEPT ![r] = @ \ {e}]
                 /\ IF state[e] = "open" \/ (kind[r] = "close" /\ left[r] = 0)
                    THEN /\ entry' = [entry EXCEPT ![r] = e]
                         /\ Goto(r, IF kind[r] = "list" THEN "sharedWait" ELSE "exclWait")
                    ELSE UNCHANGED <<pc, entry>>
            /\ UNCHANGED <<poolVars, lockVars, tableVars, kind, left>>

Visited(r) == /\ pc[r] = "visiting" /\ todo[r] = {}
              /\ IF kind[r] = "close" /\ left[r] = 1
                 THEN left' = [left EXCEPT ![r] = 0] /\ Goto(r, "regWait")
                 ELSE /\ Goto(r, IF kind[r] = "close" THEN "ended" ELSE "finished")
                      /\ UNCHANGED left
              /\ UNCHANGED <<poolVars, lockVars, tableVars, kind, entry, todo>>

\* maintain takes the mutex first, then the shared lock.
TakeMutex(r) == /\ pc[r] = "mutexWait" /\ mutex[entry[r]] = None
                /\ mutex' = [mutex EXCEPT ![entry[r]] = r]
                /\ Goto(r, "sharedWait")
                /\ UNCHANGED <<poolVars, reglock, gate, readers, tableVars, opVars>>

\* Mutant of EnterShared: an optimize that takes the shared lock once more.
EnterSharedTwice(r) ==
  /\ pc[r] = "sharedWait" /\ gate[entry[r]] = None
  /\ readers' = [readers EXCEPT ![entry[r]] = @ \cup {r}]
  /\ IF kind[r] = "maintain" /\ r \notin readers[entry[r]] THEN UNCHANGED pc ELSE Goto(r, "inside")
  /\ UNCHANGED <<poolVars, reglock, mutex, gate, tableVars, opVars>>

EnterShared(r) == /\ pc[r] = "sharedWait" /\ gate[entry[r]] = None
                  /\ readers' = [readers EXCEPT ![entry[r]] = @ \cup {r}]
                  /\ Goto(r, "inside")
                  /\ UNCHANGED <<poolVars, reglock, mutex, gate, tableVars, opVars>>

CloseGate(r) == /\ pc[r] = "exclWait" /\ gate[entry[r]] = None
                /\ gate' = [gate EXCEPT ![entry[r]] = r]
                /\ Goto(r, "gated")
                /\ UNCHANGED <<poolVars, reglock, mutex, readers, tableVars, opVars>>

EnterExclusive(r) == /\ pc[r] = "gated" /\ readers[entry[r]] = {}
                     /\ Goto(r, "inside")
                     /\ UNCHANGED <<poolVars, lockVars, tableVars, opVars>>

\* Mutant of LeaveShared: the lock is held across the yield of a stream.
LeaveSharedUnlessStreaming(r) ==
  /\ pc[r] = "inside" /\ kind[r] \notin Exclusive
  /\ readers' = IF kind[r] = "export" /\ left[r] > 0 THEN readers
                ELSE [readers EXCEPT ![entry[r]] = @ \ {r}]
  /\ mutex' = [mutex EXCEPT ![entry[r]] = IF @ = r THEN None ELSE @]
  /\ reglock' = IF reglock = r THEN None ELSE reglock
  /\ Goto(r, IF kind[r] = "list" THEN "visiting" ELSE "finished")
  /\ UNCHANGED <<poolVars, gate, tableVars, opVars>>

\* The engine has answered: every with statement of the request is left.
LeaveShared(r) == /\ pc[r] = "inside" /\ kind[r] \notin Exclusive
                  /\ readers' = [readers EXCEPT ![entry[r]] = @ \ {r}]
                  /\ mutex' = [mutex EXCEPT ![entry[r]] = IF @ = r THEN None ELSE @]
                  /\ reglock' = IF reglock = r THEN None ELSE reglock
                  /\ Goto(r, IF kind[r] = "list" THEN "visiting" ELSE "finished")
                  /\ UNCHANGED <<poolVars, gate, tableVars, opVars>>

LeaveExclusive(r, l) == /\ pc[r] = "inside"
                        /\ gate' = [gate EXCEPT ![entry[r]] = None]
                        /\ Goto(r, l)
                        /\ UNCHANGED <<poolVars, reglock, mutex, readers, registered, kind,
                                       entry, todo>>

\* A write or flush has returned; one that found the entry closed just leaves.
Wrote(r) == /\ \/ kind[r] = "write" /\ LeaveExclusive(r, "finished")
               \/ kind[r] = "close" /\ left[r] = 1 /\ LeaveExclusive(r, "visiting")
            /\ UNCHANGED <<state, left>>

Closes(r) == /\ kind[r] = "close" /\ left[r] = 0
             /\ LeaveExclusive(r, "visiting")
             /\ state' = [state EXCEPT ![entry[r]] = IF @ = "open" THEN "closed" ELSE @]
             /\ UNCHANGED left

\* drop: someone else was first, or the engine refuses, or the entry is gone.
DropLeaves(r) == /\ kind[r] = "drop"
                 /\ LeaveExclusive(r, "finished")
                 /\ UNCHANGED <<state, left>>

Destroys(r) == /\ kind[r] = "drop" /\ state[entry[r]] # "dropped"
               /\ LeaveExclusive(r, "regWait")
               /\ state' = [state EXCEPT ![entry[r]] = "dropped"]
               /\ left' = [left EXCEPT ![r] = 1]

-----------------------------------------------------------------------------
Submit(r) == SubmitRoute(r) \/ SubmitOnLoop(r)
Client(r) == Submit(r) \/ Resume(r) \/ Abandon(r)

RegistryStep(r) == \/ DropLooksUp(r) \/ DropUnregisters(r) \/ CreateBegins(r)
                   \/ CreateFails(r) \/ CreateRegisters(r) \/ Snapshot(r) \/ ProbeCounts(r)

EntryStep(r) == \/ Lookup(r) \/ Visit(r) \/ Visited(r) \/ TakeMutex(r)
                \/ EnterShared(r) \/ CloseGate(r) \/ EnterExclusive(r)
                \/ LeaveShared(r) \/ Wrote(r) \/ Closes(r) \/ DropLeaves(r) \/ Destroys(r)

Server(r) == Handle(r) \/ Return(r) \/ RegistryStep(r) \/ EntryStep(r)

\* Nothing is under way; what was not sent may never be.
Done == /\ \A r \in Requests : pc[r] \in {"new", "ended"}
        /\ UNCHANGED vars

Next == Dispatch \/ Done \/ \E r \in Requests : Client(r) \/ Server(r)

Spec == Init /\ [][Next]_vars

\* The threads of the pool and the event loop are scheduled, engine and SQLite
\* calls return, and a lock is granted in the end: requests are finite in
\* number, so weak fairness is enough.  Clients may stop at any time.
Fairness == WF_vars(Dispatch) /\ \A r \in Requests : WF_vars(Server(r))
FairSpec == Spec /\ Fairness

-----------------------------------------------------------------------------
Holds(r) == \/ reglock = r
            \/ \E e \in Entries : r = gate[e] \/ r = mutex[e] \/ r \in readers[e]

\* Whoever holds a lock is in a thread of the pool, or is the event loop, and
\* needs neither another thread nor a turn of the loop to let go of it: "the
\* lock is acquired inside the threadpool thread", never across a yield.
HoldersCanRun == \A r \in Requests : Holds(r) =>
                   /\ r \in threads \/ kind[r] \in LoopKinds
                   /\ pc[r] \in Waiting \cup {"creating", "inside"}

\* The requests that hold what r waits for.
WaitsFor(r) == CASE pc[r] = "regWait" -> {reglock} \ {None}
                 [] pc[r] = "mutexWait" -> {mutex[entry[r]]} \ {None}
                 [] pc[r] \in {"sharedWait", "exclWait"} -> {gate[entry[r]]} \ {None}
                 [] pc[r] = "gated" -> readers[entry[r]]
                 [] OTHER -> {}

\* Nobody waits, through any number of others, for itself: in every set of
\* requests somebody waits for no one of the set.
NoWaitCycle == \A S \in SUBSET Requests :
                 S # {} => \E r \in S : WaitsFor(r) \cap S = {}

\* The registry lock is held over a wait only by a create that waits for the
\* collection it has itself just registered; a drop waits outside it, so that
\* a long optimize does not stall the other routes.
RegistryWaitsForItsOwn == reglock # None /\ pc[reglock] \in Waiting =>
                            kind[reglock] = "create" /\ entry[reglock] = reglock

\* Different collections never block each other: a request does not wait for
\* a thread while a single call, of another collection, keeps all of them busy,
\* one in the engine and the others behind it.
CollectionsNeverBlockEachOther ==
  ~ \E r \in Requests, c \in Requests :
      /\ pc[r] = "queued" /\ kind[r] \in GetKinds
      /\ Cardinality(threads) = PoolSize
      /\ pc[c] = "inside" /\ entry[c] # entry[r]
      /\ \A t \in threads \ {c} : WaitsFor(t) = {c}

\* Whatever fills the pool, holds a lock or occupies the event loop: every
\* request that was sent, refused after one thread or served in a second, ends,
\* but for an export whose client stopped reading.
EveryRequestEnds == \A r \in Requests :
                      pc[r] \notin {"new", "paused"} ~> pc[r] \in {"paused", "ended"}
=============================================================================
