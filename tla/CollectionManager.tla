-------------------------- MODULE CollectionManager --------------------------
(***************************************************************************)
(* The registry of collections: manager.py's CollectionManager over the    *)
(* two durable stores, the SQLite table of metadata.py and the directories *)
(* of the Zvec engine.  Requests create and drop collections on worker     *)
(* threads; the process loads the table when it starts, retries what did   *)
(* not open, closes everything when it shuts down, and may crash between   *)
(* any two steps.                                                          *)
(*                                                                         *)
(* A collection is identified by the request that created it, or by its    *)
(* name when an earlier run of the server left it behind.  What happens    *)
(* inside one registered collection is ManagedCollection's subject: here a *)
(* drop's turn under the exclusive lock, and an adoption, are one step.    *)
(***************************************************************************)
EXTENDS Naturals

CONSTANTS Names,      \* collection names
          Requests,   \* the create and drop requests, each sent once
          None,
          Faults,     \* the engine, SQLite and the file system may fail
          MaxStarts   \* bound: times the process is started

ASSUME NamesAssumption == Names \cap Requests = {} /\ None \notin Names \cup Requests
ASSUME FaultsAssumption == Faults \in BOOLEAN /\ MaxStarts \in Nat

Data == Names \cup Requests

VARIABLES
  rows,      \* durable: the collections table, name to collection
  disk,      \* durable: the collection whose directory is at the name's path
  registry,  \* CollectionManager._registry, name to entry
  handle,    \* the directory an entry has open (ManagedCollection.collection)
  dropped,   \* entries with ManagedCollection.dropped
  retry,     \* where an entry's recovery task is
  reopened,  \* the directory the task opened and has not handed over
  reglock,   \* holder of CollectionManager._lock
  pc, kind, name, \* where a request is, what it does, to which name
  entry,     \* the entry a drop looked up
  result,    \* how a request ended
  phase,     \* the process: down, up, closing (registry), closed (store too)
  probing,   \* the event loop is inside /readyz, waiting for _lock
  starts

storeVars   == <<rows, disk>>
entryVars   == <<registry, handle, dropped>>
taskVars    == <<retry, reopened>>
requestVars == <<kind, name>>
processVars == <<phase, probing, starts>>
vars == <<storeVars, entryVars, taskVars, reglock, pc, requestVars, entry,
          result, processVars>>

Labels == {"idle", "create", "persist", "publish", "rollback", "lookup",
           "exclusive", "unregister", "done"}
Results == {"none", "ok", "exists", "not_found", "error", "lost"}

TypeOK == /\ rows \in [Names -> Data \cup {None}]
          /\ disk \in [Names -> Data \cup {None}]
          /\ registry \in [Names -> Data \cup {None}]
          /\ handle \in [Data -> Data \cup {None}]
          /\ dropped \subseteq Data
          /\ retry \in [Data -> {"none", "sleeping", "opening", "opened"}]
          /\ reopened \in [Data -> Data \cup {None}]
          /\ reglock \in Requests \cup {None}
          /\ pc \in [Requests -> Labels]
          /\ kind \in [Requests -> {"none", "create", "drop"}]
          /\ name \in [Requests -> Names \cup {None}]
          /\ entry \in [Requests -> Data \cup {None}]
          /\ result \in [Requests -> Results]
          /\ phase \in {"down", "up", "closing", "closed"}
          /\ probing \in BOOLEAN
          /\ starts \in 0..MaxStarts

Nowhere(S) == [x \in S |-> None]

\* The server is down, with the data directory an earlier run left: a crash
\* may have left a row without a directory or a directory without a row.
Init == /\ rows \in [Names -> Names \cup {None}]
        /\ disk \in [Names -> Names \cup {None}]
        /\ \A n \in Names : rows[n] \in {n, None} /\ disk[n] \in {n, None}
        /\ registry = Nowhere(Names)
        /\ handle = Nowhere(Data) /\ reopened = Nowhere(Data)
        /\ dropped = {} /\ retry = [e \in Data |-> "none"]
        /\ reglock = None
        /\ pc = [r \in Requests |-> "idle"]
        /\ kind = [r \in Requests |-> "none"]
        /\ name = Nowhere(Requests) /\ entry = Nowhere(Requests)
        /\ result = [r \in Requests |-> "none"]
        /\ phase = "down" /\ probing = FALSE /\ starts = 0

Goto(r, l) == pc' = [pc EXCEPT ![r] = l]
Answer(r, a) == Goto(r, "done") /\ result' = [result EXCEPT ![r] = a]

\* The engine's lock file: a directory is open at most once.
Locked(d) == \E e \in Data : handle[e] = d \/ reopened[e] = d

NameOf(e) == IF e \in Names THEN e ELSE name[e]

StoreOpen == phase \in {"up", "closing"}

-----------------------------------------------------------------------------
(* The process.                                                             *)

\* load_all and start_recovery: every row becomes an entry, open or with a
\* recovery task.  An open fails for want of a directory or, as fault, because
\* the engine refuses or a process that is still exiting has the directory.
Start == \E opened \in SUBSET {n \in Names : rows[n] # None /\ disk[n] # None} :
  LET entries == {rows[n] : n \in Names} \ {None}
      open == {rows[n] : n \in opened}
  IN /\ phase = "down" /\ starts < MaxStarts
     /\ Faults \/ opened = {n \in Names : rows[n] # None /\ disk[n] # None}
     /\ registry' = rows
     /\ handle' = [e \in Data |-> IF e \in open THEN disk[NameOf(e)] ELSE None]
     /\ retry' = [e \in Data |-> IF e \in entries \ open THEN "sleeping" ELSE "none"]
     /\ phase' = "up" /\ starts' = starts + 1
     /\ UNCHANGED <<storeVars, dropped, reopened, reglock, pc, requestVars, entry,
                    result, probing>>

\* close(), on the event loop: the tasks are cancelled, the registry emptied,
\* every entry in it closed.  Worker threads are not cancelled, so requests may
\* still be under way, and so may an open a recovery task waits for.
Close == /\ phase = "up" /\ ~probing /\ reglock = None
         /\ phase' = "closing"
         /\ registry' = Nowhere(Names)
         /\ handle' = [e \in Data |-> IF \E n \in Names : registry[n] = e
                                        THEN None ELSE handle[e]]
         /\ retry' = [e \in Data |-> IF retry[e] = "sleeping" THEN "none" ELSE retry[e]]
         /\ UNCHANGED <<storeVars, dropped, reopened, reglock, pc, requestVars, entry,
                        result, probing, starts>>

CloseStore == /\ phase = "closing" /\ phase' = "closed"
              /\ UNCHANGED <<storeVars, entryVars, taskVars, reglock, pc, requestVars,
                             entry, result, probing, starts>>

\* The process ends, on its own or by a crash: the stores remain, and a
\* request under way never gets an answer.
Stop == LET lost == {r \in Requests : pc[r] \notin {"idle", "done"}}
        IN /\ phase # "down" /\ phase' = "down"
           /\ registry' = Nowhere(Names)
           /\ handle' = Nowhere(Data) /\ reopened' = Nowhere(Data)
           /\ dropped' = {} /\ retry' = [e \in Data |-> "none"]
           /\ reglock' = None /\ probing' = FALSE
           /\ pc' = [r \in Requests |-> IF r \in lost THEN "done" ELSE pc[r]]
           /\ result' = [r \in Requests |-> IF r \in lost THEN "lost" ELSE result[r]]
           /\ entry' = Nowhere(Requests)
           /\ UNCHANGED <<storeVars, requestVars, starts>>

\* GET /readyz calls counts() on the event loop itself.
Probe == /\ phase = "up" /\ ~probing /\ reglock # None
         /\ probing' = TRUE
         /\ UNCHANGED <<storeVars, entryVars, taskVars, reglock, pc, requestVars, entry,
                        result, phase, starts>>

ProbeReturns == /\ probing /\ reglock = None
                /\ probing' = FALSE
                /\ UNCHANGED <<storeVars, entryVars, taskVars, reglock, pc, requestVars,
                               entry, result, phase, starts>>

Submit(r) == \E k \in {"create", "drop"}, n \in Names :
  /\ phase = "up" /\ ~probing /\ pc[r] = "idle"
  /\ Goto(r, IF k = "create" THEN "create" ELSE "lookup")
  /\ kind' = [kind EXCEPT ![r] = k] /\ name' = [name EXCEPT ![r] = n]
  /\ UNCHANGED <<storeVars, entryVars, taskVars, reglock, entry, result, processVars>>

-----------------------------------------------------------------------------
(* create, all of it under the registry lock.                               *)

CreateRegistered(r) ==
  /\ pc[r] = "create" /\ reglock = None
  /\ registry[name[r]] # None
  /\ Answer(r, "exists")
  /\ UNCHANGED <<storeVars, entryVars, taskVars, reglock, requestVars, entry, processVars>>

\* The schema is refused, or create_and_open fails, for one because the path
\* exists; a refused create leaves nothing behind.
CreateRefused(r) ==
  /\ pc[r] = "create" /\ reglock = None
  /\ registry[name[r]] = None
  /\ \/ disk[name[r]] # None /\ Answer(r, "exists")
     \/ Answer(r, "error")
  /\ UNCHANGED <<storeVars, entryVars, taskVars, reglock, requestVars, entry, processVars>>

\* mutant: the row is written before the directory exists
RowFirst(r) ==
  /\ pc[r] = "create" /\ reglock = None
  /\ registry[name[r]] = None /\ disk[name[r]] = None /\ rows[name[r]] = None
  /\ rows' = [rows EXCEPT ![name[r]] = r]
  /\ handle' = [handle EXCEPT ![r] = r]
  /\ reglock' = r /\ Goto(r, "persist")
  /\ UNCHANGED <<disk, registry, dropped, taskVars, requestVars, entry, result, processVars>>

CreateDirectory(r) ==
  /\ pc[r] = "create" /\ reglock = None
  /\ registry[name[r]] = None /\ disk[name[r]] = None
  /\ disk' = [disk EXCEPT ![name[r]] = r]
  /\ handle' = [handle EXCEPT ![r] = r]
  /\ reglock' = r /\ Goto(r, "persist")
  /\ UNCHANGED <<rows, registry, dropped, taskVars, requestVars, entry, result, processVars>>

\* MetadataStore.add: one row per name, and none once the store is closed.
AddRow(r) == /\ pc[r] = "persist" /\ StoreOpen /\ rows[name[r]] = None
             /\ rows' = [rows EXCEPT ![name[r]] = r]
             /\ Goto(r, "publish")
             /\ UNCHANGED <<disk, entryVars, taskVars, reglock, requestVars, entry, result,
                            processVars>>

\* mutant: the failure of the metadata store is logged and otherwise ignored
AddFailsPublish(r) == /\ pc[r] = "persist"
                      /\ Faults \/ ~StoreOpen \/ rows[name[r]] # None
                      /\ Goto(r, "publish")
                      /\ UNCHANGED <<storeVars, entryVars, taskVars, reglock, requestVars,
                                     entry, result, processVars>>

AddFails(r) == /\ pc[r] = "persist"
               /\ Faults \/ ~StoreOpen \/ rows[name[r]] # None
               /\ Goto(r, "rollback")
               /\ UNCHANGED <<storeVars, entryVars, taskVars, reglock, requestVars, entry,
                              result, processVars>>

\* mutant: the lock is not released on the way out of the failed create
RollbackLocked(r) ==
  /\ pc[r] = "rollback"
  /\ disk' = [disk EXCEPT ![name[r]] = None]
  /\ handle' = [handle EXCEPT ![r] = None]
  /\ \/ rows[name[r]] # None /\ Answer(r, "exists")
     \/ (Faults \/ ~StoreOpen) /\ Answer(r, "error")
  /\ UNCHANGED <<rows, registry, dropped, taskVars, reglock, requestVars, entry, processVars>>

\* destroy_collection undoes the directory; its own failure is only logged.
\* A duplicate row is reported as a conflict, any other failure as it is.
Rollback(r) ==
  /\ pc[r] = "rollback"
  /\ \/ disk' = [disk EXCEPT ![name[r]] = None]
     \/ Faults /\ UNCHANGED disk
  /\ handle' = [handle EXCEPT ![r] = None]
  /\ reglock' = None
  /\ \/ rows[name[r]] # None /\ Answer(r, "exists")
     \/ (Faults \/ ~StoreOpen) /\ Answer(r, "error")
  /\ UNCHANGED <<rows, registry, dropped, taskVars, requestVars, entry, processVars>>

\* The entry is registered; describing it may still fail in the engine.
Publish(r) == /\ pc[r] = "publish"
              /\ registry' = [registry EXCEPT ![name[r]] = r]
              /\ reglock' = None
              /\ \/ Answer(r, "ok")
                 \/ Faults /\ Answer(r, "error")
              /\ UNCHANGED <<storeVars, handle, dropped, taskVars, requestVars, entry,
                             processVars>>

-----------------------------------------------------------------------------
(* drop: the registry lock, then the entry's own, then the registry lock.   *)

Lookup(r) == /\ pc[r] = "lookup" /\ reglock = None
             /\ IF registry[name[r]] = None
                  THEN Answer(r, "not_found") /\ UNCHANGED entry
                  ELSE /\ entry' = [entry EXCEPT ![r] = registry[name[r]]]
                       /\ Goto(r, "exclusive") /\ UNCHANGED result
             /\ UNCHANGED <<storeVars, entryVars, taskVars, reglock, requestVars,
                            processVars>>

DropAgain(r) == /\ pc[r] = "exclusive" /\ entry[r] \in dropped
                /\ Answer(r, "not_found")
                /\ UNCHANGED <<storeVars, entryVars, taskVars, reglock, requestVars, entry,
                               processVars>>

\* mutant: dropped is recorded per name instead of per entry
DestroyByName(r) == LET e == entry[r] IN
  /\ pc[r] = "exclusive" /\ e \notin dropped /\ handle[e] # None
  /\ disk' = [disk EXCEPT ![name[r]] = None]
  /\ handle' = [handle EXCEPT ![e] = None]
  /\ dropped' = dropped \cup {registry[name[r]]}
  /\ Goto(r, "unregister")
  /\ UNCHANGED <<rows, registry, taskVars, reglock, requestVars, entry, result, processVars>>

\* The engine destroys an open collection, or fails and nothing has changed.
Destroy(r) == LET e == entry[r] IN
  /\ pc[r] = "exclusive" /\ e \notin dropped /\ handle[e] # None
  /\ disk' = [disk EXCEPT ![name[r]] = None]
  /\ handle' = [handle EXCEPT ![e] = None]
  /\ dropped' = dropped \cup {e}
  /\ Goto(r, "unregister")
  /\ UNCHANGED <<rows, registry, taskVars, reglock, requestVars, entry, result, processVars>>

DestroyFails(r) == /\ Faults
                   /\ pc[r] = "exclusive" /\ entry[r] \notin dropped
                   /\ handle[entry[r]] # None
                   /\ Answer(r, "error")
                   /\ UNCHANGED <<storeVars, entryVars, taskVars, reglock, requestVars,
                                  entry, processVars>>

\* mutant: drop does not look at dropped under the lock
RemoveTreeAgain(r) ==
  /\ pc[r] = "exclusive" /\ handle[entry[r]] = None
  /\ disk' = [disk EXCEPT ![name[r]] = None]
  /\ dropped' = dropped \cup {entry[r]}
  /\ Goto(r, "unregister")
  /\ UNCHANGED <<rows, registry, handle, taskVars, reglock, requestVars, entry, result,
                 processVars>>

\* rmtree of one that is not open, which ignores what it cannot remove.
RemoveTree(r) ==
  /\ pc[r] = "exclusive" /\ entry[r] \notin dropped /\ handle[entry[r]] = None
  /\ \/ disk' = [disk EXCEPT ![name[r]] = None]
     \/ Faults /\ UNCHANGED disk
  /\ dropped' = dropped \cup {entry[r]}
  /\ Goto(r, "unregister")
  /\ UNCHANGED <<rows, registry, handle, taskVars, reglock, requestVars, entry, result,
                 processVars>>

\* store.delete, then del _registry[name] (which fails when close() emptied
\* the registry), then the cancel of the recovery task, which stops it asleep.
Unregister(r) == LET n == name[r] IN
  /\ pc[r] = "unregister" /\ reglock = None /\ StoreOpen
  /\ rows' = [rows EXCEPT ![n] = None]
  /\ registry' = [registry EXCEPT ![n] = None]
  /\ retry' = [e \in Data |-> IF e = registry[n] /\ retry[e] = "sleeping"
                                THEN "none" ELSE retry[e]]
  /\ Answer(r, IF registry[n] = None THEN "error" ELSE "ok")
  /\ UNCHANGED <<disk, handle, dropped, reopened, reglock, requestVars, entry, processVars>>

\* mutant: del _registry[name] comes before store.delete
UnregisterFirst(r) == /\ pc[r] = "unregister" /\ reglock = None
                      /\ Faults \/ ~StoreOpen
                      /\ registry' = [registry EXCEPT ![name[r]] = None]
                      /\ Answer(r, "error")
                      /\ UNCHANGED <<storeVars, handle, dropped, taskVars, reglock,
                                     requestVars, entry, processVars>>

\* store.delete fails: the dropped entry stays registered.
UnregisterFails(r) == /\ pc[r] = "unregister" /\ reglock = None
                      /\ Faults \/ ~StoreOpen
                      /\ Answer(r, "error")
                      /\ UNCHANGED <<storeVars, entryVars, taskVars, reglock, requestVars,
                                     entry, processVars>>

-----------------------------------------------------------------------------
(* The recovery task of entry e.                                            *)

Wake(e) == /\ retry[e] = "sleeping" /\ ~probing
           /\ retry' = [retry EXCEPT ![e] = "opening"]
           /\ UNCHANGED <<storeVars, entryVars, reopened, reglock, pc, requestVars, entry,
                          result, processVars>>

\* _open_record on a worker thread, whatever became of the entry meanwhile.
OpenSucceeds(e) == LET d == disk[NameOf(e)] IN
  /\ retry[e] = "opening" /\ d # None /\ ~Locked(d)
  /\ retry' = [retry EXCEPT ![e] = "opened"]
  /\ reopened' = [reopened EXCEPT ![e] = d]
  /\ UNCHANGED <<storeVars, entryVars, reglock, pc, requestVars, entry, result, processVars>>

\* mutant: the task gives up after one failed attempt
OpenFailsOnce(e) == LET d == disk[NameOf(e)] IN
  /\ retry[e] = "opening"
  /\ Faults \/ d = None \/ Locked(d)
  /\ retry' = [retry EXCEPT ![e] = "none"]
  /\ UNCHANGED <<storeVars, entryVars, reopened, reglock, pc, requestVars, entry, result,
                 processVars>>

\* The loop sleeps and tries again, unless the task was cancelled or the
\* entry dropped.
OpenFails(e) == LET d == disk[NameOf(e)] IN
  /\ retry[e] = "opening"
  /\ Faults \/ d = None \/ Locked(d)
  /\ retry' = [retry EXCEPT ![e] = IF phase = "up" /\ e \notin dropped
                                     THEN "sleeping" ELSE "none"]
  /\ UNCHANGED <<storeVars, entryVars, reopened, reglock, pc, requestVars, entry, result,
                 processVars>>

\* mutant: the handle is installed without a look at dropped
AdoptAnyway(e) == /\ retry[e] = "opened"
                  /\ handle' = [handle EXCEPT ![e] = reopened[e]]
                  /\ reopened' = [reopened EXCEPT ![e] = None]
                  /\ retry' = [retry EXCEPT ![e] = "none"]
                  /\ UNCHANGED <<storeVars, registry, dropped, reglock, pc, requestVars,
                                 entry, result, processVars>>

\* _adopt: install the handle, or close it when the entry was dropped.
Adopt(e) == /\ retry[e] = "opened"
            /\ handle' = IF e \in dropped THEN handle
                         ELSE [handle EXCEPT ![e] = reopened[e]]
            /\ reopened' = [reopened EXCEPT ![e] = None]
            /\ retry' = [retry EXCEPT ![e] = "none"]
            /\ UNCHANGED <<storeVars, registry, dropped, reglock, pc, requestVars, entry,
                           result, processVars>>

\* A cancel that came during the open: nobody takes the handle, and it is
\* garbage-collected.
Collect(e) == /\ retry[e] = "opened"
              /\ phase # "up" \/ e \in dropped
              /\ reopened' = [reopened EXCEPT ![e] = None]
              /\ retry' = [retry EXCEPT ![e] = "none"]
              /\ UNCHANGED <<storeVars, entryVars, reglock, pc, requestVars, entry, result,
                             processVars>>

-----------------------------------------------------------------------------
Create(r) == \/ CreateRegistered(r) \/ CreateRefused(r) \/ CreateDirectory(r)
             \/ AddRow(r) \/ AddFails(r) \/ Rollback(r) \/ Publish(r)
Drop(r) == \/ Lookup(r) \/ DropAgain(r) \/ Destroy(r) \/ DestroyFails(r)
           \/ RemoveTree(r) \/ Unregister(r) \/ UnregisterFails(r)
Recover(e) == \/ Wake(e) \/ OpenSucceeds(e) \/ OpenFails(e) \/ Adopt(e) \/ Collect(e)

Next == \/ Start \/ Close \/ CloseStore \/ Stop \/ Probe \/ ProbeReturns
        \/ \E r \in Requests : Submit(r) \/ Create(r) \/ Drop(r)
        \/ \E e \in Data : Recover(e)

Spec == Init /\ [][Next]_vars

-----------------------------------------------------------------------------
(* Safety.                                                                  *)

\* What a registered entry has open is the directory at its path, its row is
\* there, and the directory is the one the row was written for, unless a create
\* ran on into the shutdown, made the directory and failed without removing it.
OpenEntriesOwnTheirDirectory ==
  \A n \in Names : LET e == registry[n]
                       d == handle[e]
                   IN e # None /\ d # None =>
                        /\ disk[n] = d /\ rows[n] = e
                        /\ d # e => d \in Requests /\ result[d] # "ok"

\* While the server is up and nobody holds the registry lock, the registry
\* lists exactly the collections the table lists, whatever step of a create or
\* a drop has failed: a restart would not bring one back or forget one.
RegistryIsTheTable == phase = "up" /\ reglock = None => registry = rows

\* A directory stays locked only by an entry that requests and close() can
\* reach, or by the create under way: no handle is left behind in an entry
\* that was dropped, rolled back or replaced.
HandlesAreRegistered ==
  phase = "up" => \A e \in Data :
    handle[e] # None => registry[NameOf(e)] = e \/ reglock = e

\* A registered collection that is not open has a recovery task at work,
\* unless a drop has destroyed it.
UnavailableIsBeingRecovered ==
  phase = "up" => \A n \in Names : LET e == registry[n] IN
    e # None /\ e \notin dropped /\ handle[e] = None => retry[e] # "none"

\* A collection whose create was answered 201 keeps its row and its directory,
\* across crashes and restarts, until a drop request for its name: drops that
\* looked up an earlier collection of that name do not touch it.
AcknowledgedCreateSurvives ==
  \A r \in Requests :
    /\ kind[r] = "create" /\ result[r] = "ok"
    /\ \A q \in Requests : kind[q] = "drop" /\ name[q] = name[r] =>
         \/ pc[q] = "lookup"
         \/ entry[q] \notin {r, None}
         \/ result[q] = "not_found"
    => rows[name[r]] = r /\ disk[name[r]] = r

\* A row without its directory, which a restart shows as unavailable, is what
\* a drop left that has yet to delete the row, failed to, or was cut short by
\* the end of the process; a create never leaves one.
HollowRowsAreCutDrops ==
  \A n \in Names : rows[n] \in Requests /\ disk[n] # rows[n] =>
    \E q \in Requests : /\ kind[q] = "drop" /\ name[q] = n
                        /\ pc[q] = "unregister" \/ result[q] \in {"lost", "error"}

-----------------------------------------------------------------------------
(* What the documents say.                                                  *)

Answered(r, a) == result[r] = "none" /\ result'[r] = a

\* docs/API.md: 409 means a collection with that name already exists.
ConflictMeansStored ==
  [][\A r \in Requests : Answered(r, "exists") => rows[name[r]] # None]_vars

-----------------------------------------------------------------------------
(* Liveness.  Worker threads run, and the registry lock is held over        *)
(* file-system and SQLite calls that return.  Nothing makes clients send    *)
(* requests or the process end or start.                                    *)
Fairness == /\ WF_vars(ProbeReturns)
            /\ \A r \in Requests : WF_vars(Create(r)) /\ WF_vars(Drop(r))

FairSpec == Spec /\ Fairness

\* Every create and every drop ends, if only with the process.
RequestsEnd == \A r \in Requests : (pc[r] # "idle") ~> (pc[r] = "done")

\* The event loop, held up by a readiness probe, runs again.
EventLoopResumes == probing ~> ~probing
=============================================================================
