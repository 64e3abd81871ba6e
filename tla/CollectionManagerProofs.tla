----------------------- MODULE CollectionManagerProofs -----------------------
(***************************************************************************)
(* The safety of CollectionManager for every set of names and requests: one *)
(* inductive invariant, what follows from it, and what becomes of the       *)
(* collections whose create was acknowledged.                               *)
(***************************************************************************)
EXTENDS CollectionManager, TLAPS

\* The collection has existed; nobody is creating it any more.
Made(e) == e \in Requests => kind[e] = "create" /\ pc[e] # "create"
Settled(e) == e \in Requests => pc[e] = "done"

Creating(r) == pc[r] \in {"persist", "publish", "rollback"}

\* Where a request can be, and who holds the registry lock.
RequestInv ==
  \A r \in Requests :
    /\ pc[r] = "idle" <=> kind[r] = "none"
    /\ kind[r] # "none" => name[r] \in Names
    /\ pc[r] \in {"create", "persist", "publish", "rollback"} => kind[r] = "create"
    /\ pc[r] \in {"lookup", "exclusive", "unregister"} => kind[r] = "drop"
    /\ result[r] = "none" <=> pc[r] # "done"
    /\ reglock = r <=> Creating(r)
    /\ pc[r] \in {"exclusive", "unregister"} => entry[r] # None

\* Everything that names a collection names one that was made, under its name.
PlaceInv ==
  /\ \A n \in Names :
       /\ rows[n] # None => Made(rows[n]) /\ NameOf(rows[n]) = n
       /\ disk[n] # None => Made(disk[n]) /\ NameOf(disk[n]) = n
       /\ registry[n] # None => Settled(registry[n]) /\ rows[n] = registry[n]
  /\ \A r \in Requests : entry[r] # None =>
       /\ kind[r] = "drop"
       /\ Made(entry[r]) /\ Settled(entry[r]) /\ NameOf(entry[r]) = name[r]
  /\ \A e \in Data :
       /\ handle[e] # None => Made(e) /\ Made(handle[e]) /\ NameOf(handle[e]) = NameOf(e)
       /\ retry[e] # "none" \/ e \in dropped => Made(e) /\ Settled(e)
       /\ reopened[e] # None <=> retry[e] = "opened"
       /\ reopened[e] # None => Made(reopened[e]) /\ NameOf(reopened[e]) = NameOf(e)

\* The engine's lock file: no directory is open twice.
OpenOnce ==
  \A e, f \in Data :
    /\ handle[e] # None /\ handle[e] = handle[f] => e = f
    /\ reopened[e] # None /\ reopened[e] = reopened[f] => e = f
    /\ handle[e] # None => handle[e] # reopened[f]

\* A create under way has the only directory of its name, and nobody else
\* registers the name meanwhile.
CreateInv ==
  \A r \in Requests : Creating(r) =>
    /\ handle[r] = r /\ registry[name[r]] = None
    /\ disk[name[r]] \in {r, None}
    /\ pc[r] = "publish" <=> rows[name[r]] = r
    /\ disk[name[r]] = r \/ rows[name[r]] \notin {r, None} \/ pc[r] = "rollback"

\* A drop acts on the collection its row still names, and on each only once.
DropInv ==
  /\ \A q \in Requests :
       /\ pc[q] = "exclusive" /\ entry[q] \notin dropped => rows[name[q]] = entry[q]
       /\ pc[q] = "unregister" => entry[q] \in dropped /\ rows[name[q]] = entry[q]
  /\ \A q, p \in Requests : pc[q] = "unregister" /\ pc[p] = "unregister" /\ entry[q] = entry[p]
                              => q = p
  /\ \A e \in dropped : handle[e] = None

\* The recovery task of an entry that was not dropped has the directory the
\* entry's row stands for, and so has a registered entry that is open.
RecoverInv ==
  /\ \A e \in Data : retry[e] # "none" /\ e \notin dropped =>
       /\ rows[NameOf(e)] = e /\ handle[e] = None
       /\ reopened[e] # None => disk[NameOf(e)] = reopened[e]
  /\ \A n \in Names : registry[n] # None /\ handle[registry[n]] # None
                        => disk[n] = handle[registry[n]]

\* A row over a directory of another collection: that one's create failed.
PairInv ==
  \A n \in Names : rows[n] # None /\ disk[n] \notin {None, rows[n]}
                     => disk[n] \in Requests /\ result[disk[n]] # "ok"

\* While the server is up the registry is the table, but for the row a create
\* has just written.
UpInv ==
  /\ phase = "up" => \A n \in Names :
       \/ registry[n] = rows[n]
       \/ \E r \in Requests : reglock = r /\ pc[r] = "publish" /\ name[r] = n
  /\ HandlesAreRegistered
  /\ UnavailableIsBeingRecovered

DownInv ==
  phase = "down" => /\ registry = Nowhere(Names)
                    /\ handle = Nowhere(Data) /\ reopened = Nowhere(Data)
                    /\ dropped = {} /\ retry = [e \in Data |-> "none"]
                    /\ reglock = None /\ entry = Nowhere(Requests)
                    /\ \A r \in Requests : pc[r] \in {"idle", "done"}

IInv == /\ TypeOK
        /\ RequestInv
        /\ PlaceInv
        /\ OpenOnce
        /\ CreateInv
        /\ DropInv
        /\ RecoverInv
        /\ PairInv
        /\ UpInv
        /\ DownInv

\* Every step preserves the invariant.
LEMMA InvariantStep == IInv /\ [Next]_vars => IInv'
<1> SUFFICES ASSUME IInv, [Next]_vars PROVE IInv'
  OBVIOUS
<1> USE NamesAssumption, FaultsAssumption
    DEF IInv, TypeOK, RequestInv, PlaceInv, OpenOnce, CreateInv, DropInv, RecoverInv,
        PairInv, UpInv, DownInv, HandlesAreRegistered, UnavailableIsBeingRecovered, Made,
        Settled, Creating, NameOf, Nowhere, Data, Labels, Results, vars, storeVars, entryVars,
        taskVars, requestVars, processVars
<1>1. ASSUME Start PROVE IInv'
  BY <1>1, SMTT(60) DEF Start
<1>2. ASSUME Close PROVE IInv'
  BY <1>2, SMTT(60) DEF Close
<1>3. ASSUME CloseStore PROVE IInv'
  BY <1>3, SMTT(60) DEF CloseStore
<1>4. ASSUME Stop PROVE IInv'
  <2>1. TypeOK'
    BY <1>4 DEF Stop
  <2>2. RequestInv'
    BY <1>4 DEF Stop
  <2>3. PlaceInv'
    BY <1>4 DEF Stop
  <2>4. OpenOnce'
    BY <1>4 DEF Stop
  <2>5. CreateInv'
    BY <1>4 DEF Stop
  <2>6. DropInv'
    BY <1>4 DEF Stop
  <2>7. RecoverInv'
    BY <1>4 DEF Stop
  <2>8. PairInv'
    BY <1>4 DEF Stop
  <2>9. UpInv'
    BY <1>4 DEF Stop
  <2>10. DownInv'
    BY <1>4 DEF Stop
  <2> QED BY <2>1, <2>2, <2>3, <2>4, <2>5, <2>6, <2>7, <2>8, <2>9, <2>10
<1>5. ASSUME Probe PROVE IInv'
  BY <1>5, SMTT(60) DEF Probe
<1>6. ASSUME ProbeReturns PROVE IInv'
  <2>1. TypeOK'
    BY <1>6 DEF ProbeReturns
  <2>2. RequestInv'
    BY <1>6 DEF ProbeReturns
  <2>3. PlaceInv'
    BY <1>6 DEF ProbeReturns
  <2>4. OpenOnce'
    BY <1>6 DEF ProbeReturns
  <2>5. CreateInv'
    BY <1>6 DEF ProbeReturns
  <2>6. DropInv'
    BY <1>6 DEF ProbeReturns
  <2>7. RecoverInv'
    BY <1>6 DEF ProbeReturns
  <2>8. PairInv'
    BY <1>6 DEF ProbeReturns
  <2>9. UpInv'
    BY <1>6 DEF ProbeReturns
  <2>10. DownInv'
    BY <1>6 DEF ProbeReturns
  <2> QED BY <2>1, <2>2, <2>3, <2>4, <2>5, <2>6, <2>7, <2>8, <2>9, <2>10
<1>7. ASSUME NEW r \in Requests, Submit(r) PROVE IInv'
  BY <1>7, SMTT(60) DEF Submit, Goto
<1>8. ASSUME NEW r \in Requests, CreateRegistered(r) PROVE IInv'
  BY <1>8, SMTT(60) DEF CreateRegistered, Goto, Answer
<1>9. ASSUME NEW r \in Requests, CreateRefused(r) PROVE IInv'
  <2>1. TypeOK'
    <3>1. PICK a \in Results : Answer(r, a)
      BY <1>9 DEF CreateRefused
    <3> QED BY <1>9, <3>1 DEF CreateRefused, Goto, Answer
  <2>2. RequestInv'
    BY <1>9 DEF CreateRefused, Goto, Answer
  <2>3. PlaceInv'
    BY <1>9 DEF CreateRefused, Goto, Answer
  <2>4. OpenOnce'
    BY <1>9 DEF CreateRefused, Goto, Answer
  <2>5. CreateInv'
    BY <1>9 DEF CreateRefused, Goto, Answer
  <2>6. DropInv'
    BY <1>9 DEF CreateRefused, Goto, Answer
  <2>7. RecoverInv'
    BY <1>9 DEF CreateRefused, Goto, Answer
  <2>8. PairInv'
    BY <1>9 DEF CreateRefused, Goto, Answer
  <2>9. UpInv'
    BY <1>9 DEF CreateRefused, Goto, Answer
  <2>10. DownInv'
    BY <1>9 DEF CreateRefused, Goto, Answer
  <2> QED BY <2>1, <2>2, <2>3, <2>4, <2>5, <2>6, <2>7, <2>8, <2>9, <2>10
<1>10. ASSUME NEW r \in Requests, CreateDirectory(r) PROVE IInv'
  <2>1. TypeOK'
    BY <1>10 DEF CreateDirectory, Goto
  <2>2. RequestInv'
    BY <1>10 DEF CreateDirectory, Goto
  <2>3. PlaceInv'
    BY <1>10 DEF CreateDirectory, Goto
  <2>4. OpenOnce'
    BY <1>10 DEF CreateDirectory, Goto
  <2>5. CreateInv'
    BY <1>10 DEF CreateDirectory, Goto
  <2>6. DropInv'
    BY <1>10 DEF CreateDirectory, Goto
  <2>7. RecoverInv'
    BY <1>10 DEF CreateDirectory, Goto
  <2>8. PairInv'
    BY <1>10, SMTT(60) DEF CreateDirectory, Goto
  <2>9. UpInv'
    BY <1>10 DEF CreateDirectory, Goto
  <2>10. DownInv'
    BY <1>10 DEF CreateDirectory, Goto
  <2> QED BY <2>1, <2>2, <2>3, <2>4, <2>5, <2>6, <2>7, <2>8, <2>9, <2>10
<1>11. ASSUME NEW r \in Requests, AddRow(r) PROVE IInv'
  BY <1>11, SMTT(60) DEF AddRow, Goto, StoreOpen
<1>12. ASSUME NEW r \in Requests, AddFails(r) PROVE IInv'
  BY <1>12, SMTT(60) DEF AddFails, Goto, StoreOpen
<1>13. ASSUME NEW r \in Requests, Rollback(r) PROVE IInv'
  <2>1. TypeOK'
    <3>1. PICK a \in Results : Answer(r, a)
      BY <1>13 DEF Rollback
    <3>2. disk' \in [Names -> Data \cup {None}]
      BY <1>13 DEF Rollback
    <3> QED BY <1>13, <3>1, <3>2 DEF Rollback, Goto, Answer
  <2>2. RequestInv'
    BY <1>13 DEF Rollback, Goto, Answer, StoreOpen
  <2>3. PlaceInv'
    BY <1>13, SMTT(60) DEF Rollback, Goto, Answer, StoreOpen
  <2>4. OpenOnce'
    BY <1>13 DEF Rollback, Goto, Answer, StoreOpen
  <2>5. CreateInv'
    BY <1>13 DEF Rollback, Goto, Answer, StoreOpen
  <2>6. DropInv'
    BY <1>13 DEF Rollback, Goto, Answer, StoreOpen
  <2>7. RecoverInv'
    BY <1>13 DEF Rollback, Goto, Answer, StoreOpen
  <2>8. PairInv'
    BY <1>13 DEF Rollback, Goto, Answer, StoreOpen
  <2>9. UpInv'
    BY <1>13 DEF Rollback, Goto, Answer, StoreOpen
  <2>10. DownInv'
    BY <1>13 DEF Rollback, Goto, Answer, StoreOpen
  <2> QED BY <2>1, <2>2, <2>3, <2>4, <2>5, <2>6, <2>7, <2>8, <2>9, <2>10
<1>14. ASSUME NEW r \in Requests, Publish(r) PROVE IInv'
  <2>1. TypeOK'
    <3>1. PICK a \in Results : Answer(r, a)
      BY <1>14 DEF Publish
    <3> QED BY <1>14, <3>1 DEF Publish, Goto, Answer
  <2>2. RequestInv'
    BY <1>14 DEF Publish, Goto, Answer
  <2>3. PlaceInv'
    BY <1>14 DEF Publish, Goto, Answer
  <2>4. OpenOnce'
    BY <1>14 DEF Publish, Goto, Answer
  <2>5. CreateInv'
    BY <1>14 DEF Publish, Goto, Answer
  <2>6. DropInv'
    BY <1>14, SMTT(60) DEF Publish, Goto, Answer
  <2>7. RecoverInv'
    BY <1>14 DEF Publish, Goto, Answer
  <2>8. PairInv'
    BY <1>14 DEF Publish, Goto, Answer
  <2>9. UpInv'
    BY <1>14 DEF Publish, Goto, Answer
  <2>10. DownInv'
    BY <1>14 DEF Publish, Goto, Answer
  <2> QED BY <2>1, <2>2, <2>3, <2>4, <2>5, <2>6, <2>7, <2>8, <2>9, <2>10
<1>15. ASSUME NEW r \in Requests, Lookup(r) PROVE IInv'
  <2>1. TypeOK'
    <3>1. entry' \in [Requests -> Data \cup {None}]
      BY <1>15 DEF Lookup
    <3>2. pc' \in [Requests -> Labels]
      <4>1. Goto(r, "done") \/ Goto(r, "exclusive")
        BY <1>15, Zenon DEF Lookup, Answer
      <4> QED BY <4>1 DEF Goto
    <3>3. result' \in [Requests -> Results]
      BY <1>15 DEF Lookup, Goto, Answer
    <3> QED BY <1>15, <3>1, <3>2, <3>3 DEF Lookup
  <2>2. RequestInv'
    BY <1>15 DEF Lookup, Goto, Answer
  <2>3. PlaceInv'
    BY <1>15 DEF Lookup, Goto, Answer
  <2>4. OpenOnce'
    BY <1>15 DEF Lookup, Goto, Answer
  <2>5. CreateInv'
    BY <1>15 DEF Lookup, Goto, Answer
  <2>6. DropInv'
    BY <1>15, SMTT(60) DEF Lookup, Goto, Answer
  <2>7. RecoverInv'
    BY <1>15 DEF Lookup, Goto, Answer
  <2>8. PairInv'
    BY <1>15 DEF Lookup, Goto, Answer
  <2>9. UpInv'
    BY <1>15 DEF Lookup, Goto, Answer
  <2>10. DownInv'
    BY <1>15 DEF Lookup, Goto, Answer
  <2> QED BY <2>1, <2>2, <2>3, <2>4, <2>5, <2>6, <2>7, <2>8, <2>9, <2>10
<1>16. ASSUME NEW r \in Requests, DropAgain(r) PROVE IInv'
  BY <1>16, SMTT(60) DEF DropAgain, Goto, Answer
<1>17. ASSUME NEW r \in Requests, Destroy(r) PROVE IInv'
  BY <1>17, SMTT(60) DEF Destroy, Goto
<1>18. ASSUME NEW r \in Requests, DestroyFails(r) PROVE IInv'
  BY <1>18, SMTT(60) DEF DestroyFails, Goto, Answer
<1>19. ASSUME NEW r \in Requests, RemoveTree(r) PROVE IInv'
  <2>1. TypeOK'
    <3>1. disk' \in [Names -> Data \cup {None}]
      BY <1>19 DEF RemoveTree
    <3> QED BY <1>19, <3>1 DEF RemoveTree, Goto
  <2>2. RequestInv'
    BY <1>19 DEF RemoveTree, Goto
  <2>3. PlaceInv'
    <3>1. \A n \in Names : disk'[n] \in {disk[n], None}
      BY <1>19 DEF RemoveTree
    <3> QED BY <1>19, <3>1 DEF RemoveTree, Goto
  <2>4. OpenOnce'
    BY <1>19 DEF RemoveTree, Goto
  <2>5. CreateInv'
    BY <1>19 DEF RemoveTree, Goto
  <2>6. DropInv'
    BY <1>19 DEF RemoveTree, Goto
  <2>7. RecoverInv'
    BY <1>19 DEF RemoveTree, Goto
  <2>8. PairInv'
    BY <1>19 DEF RemoveTree, Goto
  <2>9. UpInv'
    BY <1>19 DEF RemoveTree, Goto
  <2>10. DownInv'
    BY <1>19 DEF RemoveTree, Goto
  <2> QED BY <2>1, <2>2, <2>3, <2>4, <2>5, <2>6, <2>7, <2>8, <2>9, <2>10
<1>20. ASSUME NEW r \in Requests, Unregister(r) PROVE IInv'
  BY <1>20, SMTT(60) DEF Unregister, Goto, Answer, StoreOpen
<1>21. ASSUME NEW r \in Requests, UnregisterFails(r) PROVE IInv'
  BY <1>21, SMTT(60) DEF UnregisterFails, Goto, Answer, StoreOpen
<1>22. ASSUME NEW e \in Data, Wake(e) PROVE IInv'
  BY <1>22, SMTT(60) DEF Wake
<1>23. ASSUME NEW e \in Data, OpenSucceeds(e) PROVE IInv'
  BY <1>23, SMTT(60) DEF OpenSucceeds, Locked
<1>24. ASSUME NEW e \in Data, OpenFails(e) PROVE IInv'
  BY <1>24, SMTT(60) DEF OpenFails, Locked
<1>25. ASSUME NEW e \in Data, Adopt(e) PROVE IInv'
  BY <1>25, SMTT(60) DEF Adopt
<1>26. ASSUME NEW e \in Data, Collect(e) PROVE IInv'
  BY <1>26, SMTT(60) DEF Collect
<1>27. CASE UNCHANGED vars
  BY <1>27
<1> QED BY <1>1, <1>2, <1>3, <1>4, <1>5, <1>6, <1>7, <1>8, <1>9, <1>10, <1>11, <1>12,
          <1>13, <1>14, <1>15, <1>16, <1>17, <1>18, <1>19, <1>20, <1>21, <1>22, <1>23, <1>24,
          <1>25, <1>26, <1>27
    DEF Next, Create, Drop, Recover

\* It holds before the first start, whatever an earlier run left.
LEMMA InvariantInit == Init => IInv
<1> SUFFICES ASSUME Init PROVE IInv
  OBVIOUS
<1> USE NamesAssumption, FaultsAssumption DEF Init, Nowhere, Data, Creating
<1>1. TypeOK
  <2>1. /\ rows \in [Names -> Data \cup {None}]
        /\ disk \in [Names -> Data \cup {None}]
        /\ registry \in [Names -> Data \cup {None}]
    BY SMT
  <2>2. /\ handle \in [Data -> Data \cup {None}]
        /\ reopened \in [Data -> Data \cup {None}]
        /\ dropped \subseteq Data
        /\ retry \in [Data -> {"none", "sleeping", "opening", "opened"}]
    BY SMT
  <2>3. /\ pc \in [Requests -> Labels]
        /\ kind \in [Requests -> {"none", "create", "drop"}]
        /\ result \in [Requests -> Results]
    BY SMT DEF Labels, Results
  <2>4. /\ reglock \in Requests \cup {None}
        /\ name \in [Requests -> Names \cup {None}]
        /\ entry \in [Requests -> Data \cup {None}]
    BY SMT
  <2>5. phase \in {"down", "up", "closing", "closed"} /\ probing \in BOOLEAN
    BY Zenon
  <2>6. starts \in 0..MaxStarts
    BY SMT
  <2> QED BY <2>1, <2>2, <2>3, <2>4, <2>5, <2>6 DEF TypeOK
<1>2. RequestInv
  BY DEF RequestInv
<1>3. PlaceInv
  BY DEF PlaceInv, Made, Settled, NameOf
<1>4. OpenOnce /\ CreateInv /\ DropInv
  BY DEF OpenOnce, CreateInv, DropInv
<1>5. RecoverInv /\ PairInv
  BY DEF RecoverInv, PairInv
<1>6. UpInv /\ DownInv
  BY DEF UpInv, DownInv, HandlesAreRegistered, UnavailableIsBeingRecovered
<1> QED BY <1>1, <1>2, <1>3, <1>4, <1>5, <1>6 DEF IInv

\* The invariant holds of every behaviour, crashes and restarts included.
THEOREM Invariance == Spec => []IInv
BY InvariantInit, InvariantStep, PTL DEF Spec

-----------------------------------------------------------------------------
(* What follows from the invariant.                                         *)

\* Every variable of the manager and of the two stores keeps its type.
THEOREM TypeCorrect == Spec => []TypeOK
<1>1. IInv => TypeOK
  BY DEF IInv
<1> QED BY <1>1, Invariance, PTL

\* What an entry has open is the directory at its path (create, drop, _adopt
\* and load_all of manager.py).
THEOREM EntriesOwnDirectories == Spec => []OpenEntriesOwnTheirDirectory
<1>1. IInv => OpenEntriesOwnTheirDirectory
  BY NamesAssumption DEF IInv, TypeOK, PlaceInv, RecoverInv, PairInv, OpenEntriesOwnTheirDirectory
<1> QED BY <1>1, Invariance, PTL

\* Whatever step of create or drop failed, the registry is the table when
\* nobody holds the registry lock.
THEOREM RegistryMatchesTable == Spec => []RegistryIsTheTable
<1>1. IInv => RegistryIsTheTable
  BY NamesAssumption DEF IInv, TypeOK, UpInv, RegistryIsTheTable
<1> QED BY <1>1, Invariance, PTL

\* No open handle is lost by drop, rollback or recovery while the server is up.
THEOREM NoHandleLost == Spec => []HandlesAreRegistered
<1>1. IInv => HandlesAreRegistered
  BY DEF IInv, UpInv
<1> QED BY <1>1, Invariance, PTL

\* start_recovery and _recover leave no unavailable entry without a task.
THEOREM NobodyForgotten == Spec => []UnavailableIsBeingRecovered
<1>1. IInv => UnavailableIsBeingRecovered
  BY DEF IInv, UpInv
<1> QED BY <1>1, Invariance, PTL

-----------------------------------------------------------------------------
(* What becomes of acknowledged collections.                                *)

\* An entry that was dropped was dropped by a request that remembers it, and
\* that is not told the collection was not there.
DroppersInv ==
  \A e \in dropped : \E q \in Requests :
    /\ entry[q] = e
    /\ pc[q] \notin {"lookup", "exclusive"} /\ result[q] # "not_found"

LedgerInv == DroppersInv /\ AcknowledgedCreateSurvives /\ HollowRowsAreCutDrops

\* What AcknowledgedCreateSurvives asks about: a create that succeeded, and that
\* no drop of its collection has come to.
Acknowledged(r) == kind[r] = "create" /\ result[r] = "ok"
Spared(r) == \A q \in Requests : kind[q] = "drop" /\ name[q] = name[r] =>
               \/ pc[q] = "lookup"
               \/ entry[q] \notin {r, None}
               \/ result[q] = "not_found"

\* Every step leaves each dropped entry with the request that dropped it.
LEMMA DroppersStep == IInv /\ LedgerInv /\ [Next]_vars => DroppersInv'
<1> SUFFICES ASSUME DroppersInv, RequestInv, PlaceInv, dropped \subseteq Data,
                    pc \in [Requests -> Labels], entry \in [Requests -> Data \cup {None}],
                    result \in [Requests -> Results], [Next]_vars
             PROVE  DroppersInv'
  BY DEF IInv, LedgerInv, TypeOK
<1> USE NamesAssumption
    DEF DroppersInv, RequestInv, Labels, Results, Nowhere, entryVars
<1>1. ASSUME Start PROVE DroppersInv'
  BY <1>1 DEF Start
<1>2. ASSUME Close PROVE DroppersInv'
  BY <1>2 DEF Close
<1>3. ASSUME CloseStore PROVE DroppersInv'
  BY <1>3 DEF CloseStore
<1>4. ASSUME Stop PROVE DroppersInv'
  BY <1>4 DEF Stop
<1>5. ASSUME Probe \/ ProbeReturns PROVE DroppersInv'
  BY <1>5 DEF Probe, ProbeReturns
<1>6. ASSUME NEW r \in Requests, Submit(r) PROVE DroppersInv'
  <2>1. \A q \in Requests : entry[q] \in dropped => q # r
    BY <1>6 DEF Submit, PlaceInv, Data
  <2>2. /\ \A q \in Requests \ {r} : pc'[q] = pc[q]
        /\ UNCHANGED <<entry, result, dropped>>
    BY <1>6 DEF Submit, Goto
  <2> QED BY <2>1, <2>2
<1>7. ASSUME NEW r \in Requests, CreateRegistered(r) \/ CreateRefused(r) PROVE DroppersInv'
  BY <1>7 DEF CreateRegistered, CreateRefused, Answer, Goto
<1>8. ASSUME NEW r \in Requests, CreateDirectory(r) PROVE DroppersInv'
  BY <1>8 DEF CreateDirectory, Goto
<1>9. ASSUME NEW r \in Requests, AddRow(r) PROVE DroppersInv'
  BY <1>9 DEF AddRow, Goto
<1>10. ASSUME NEW r \in Requests, AddFails(r) PROVE DroppersInv'
  BY <1>10 DEF AddFails, Goto
<1>11. ASSUME NEW r \in Requests, Rollback(r) PROVE DroppersInv'
  BY <1>11 DEF Rollback, Answer, Goto
<1>12. ASSUME NEW r \in Requests, Publish(r) PROVE DroppersInv'
  BY <1>12 DEF Publish, Answer, Goto
<1>13. ASSUME NEW r \in Requests, Lookup(r) PROVE DroppersInv'
  BY <1>13 DEF Lookup, Answer, Goto
<1>14. ASSUME NEW r \in Requests, DropAgain(r) PROVE DroppersInv'
  BY <1>14 DEF DropAgain, Answer, Goto
<1>15. ASSUME NEW r \in Requests, Destroy(r) PROVE DroppersInv'
  BY <1>15 DEF Destroy, Goto
<1>16. ASSUME NEW r \in Requests, DestroyFails(r) PROVE DroppersInv'
  BY <1>16 DEF DestroyFails, Answer, Goto
<1>17. ASSUME NEW r \in Requests, RemoveTree(r) PROVE DroppersInv'
  BY <1>17 DEF RemoveTree, Goto
<1>18. ASSUME NEW r \in Requests, Unregister(r) PROVE DroppersInv'
  BY <1>18 DEF Unregister, Answer, Goto
<1>19. ASSUME NEW r \in Requests, UnregisterFails(r) PROVE DroppersInv'
  BY <1>19 DEF UnregisterFails, Answer, Goto
<1>20. ASSUME NEW e \in Data, Recover(e) PROVE DroppersInv'
  BY <1>20 DEF Recover, Wake, OpenSucceeds, OpenFails, Adopt, Collect
<1>21. CASE UNCHANGED vars
  BY <1>21 DEF vars
<1> QED BY <1>1, <1>2, <1>3, <1>4, <1>5, <1>6, <1>7, <1>8, <1>9, <1>10, <1>11, <1>12,
           <1>13, <1>14, <1>15, <1>16, <1>17, <1>18, <1>19, <1>20, <1>21
    DEF Next, Create, Drop

\* Every step keeps row and directory of an acknowledged create that no drop
\* has looked up.
LEMMA AcknowledgedStep == IInv /\ LedgerInv /\ [Next]_vars => AcknowledgedCreateSurvives'
<1> SUFFICES ASSUME AcknowledgedCreateSurvives, DroppersInv, RequestInv, PlaceInv, CreateInv,
                    DropInv, pc \in [Requests -> Labels], entry \in [Requests -> Data \cup {None}],
                    result \in [Requests -> Results], rows \in [Names -> Data \cup {None}],
                    disk \in [Names -> Data \cup {None}],
                    kind \in [Requests -> {"none", "create", "drop"}],
                    name \in [Requests -> Names \cup {None}], [Next]_vars
             PROVE  AcknowledgedCreateSurvives'
  BY DEF IInv, LedgerInv, TypeOK
<1> USE NamesAssumption
    DEF AcknowledgedCreateSurvives, RequestInv, Labels, Results, Nowhere,
        Creating, vars, storeVars,
        entryVars, taskVars, requestVars, processVars
<1>1. ASSUME Start PROVE AcknowledgedCreateSurvives'
  BY <1>1 DEF Start
<1>2. ASSUME Close PROVE AcknowledgedCreateSurvives'
  BY <1>2 DEF Close
<1>3. ASSUME CloseStore PROVE AcknowledgedCreateSurvives'
  BY <1>3 DEF CloseStore
<1>4. ASSUME Stop PROVE AcknowledgedCreateSurvives'
  BY <1>4 DEF Stop
<1>5. ASSUME Probe \/ ProbeReturns PROVE AcknowledgedCreateSurvives'
  BY <1>5 DEF Probe, ProbeReturns
<1>6. ASSUME NEW r \in Requests, Submit(r) PROVE AcknowledgedCreateSurvives'
  BY <1>6 DEF Submit, Goto
<1>7. ASSUME NEW r \in Requests, CreateRegistered(r) \/ CreateRefused(r)
      PROVE  AcknowledgedCreateSurvives'
  BY <1>7 DEF CreateRegistered, CreateRefused, Answer, Goto
<1>8. ASSUME NEW r \in Requests, CreateDirectory(r) PROVE AcknowledgedCreateSurvives'
  BY <1>8 DEF CreateDirectory, Goto
<1>9. ASSUME NEW r \in Requests, AddRow(r) PROVE AcknowledgedCreateSurvives'
  BY <1>9 DEF AddRow, Goto
<1>10. ASSUME NEW r \in Requests, AddFails(r) PROVE AcknowledgedCreateSurvives'
  BY <1>10 DEF AddFails, Goto
<1>11. ASSUME NEW r \in Requests, Rollback(r) PROVE AcknowledgedCreateSurvives'
  <2> SUFFICES ASSUME NEW q \in Requests, Acknowledged(q)', Spared(q)'
               PROVE  (rows[name[q]] = q /\ disk[name[q]] = q)'
    BY DEF Acknowledged, Spared
  <2>1. q # r /\ kind[r] = "create" /\ UNCHANGED <<name, kind, entry, rows>>
    BY <1>11 DEF Rollback, Answer, Goto, Acknowledged
  <2>2. /\ \A p \in Requests \ {r} : pc'[p] = pc[p] /\ result'[p] = result[p]
        /\ \A n \in Names \ {name[r]} : disk'[n] = disk[n]
    BY <1>11 DEF Rollback, Answer, Goto
  <2>3. Acknowledged(q) /\ Spared(q)
    BY <2>1, <2>2 DEF Acknowledged, Spared
  <2>4. rows[name[q]] = q /\ disk[name[q]] = q
    BY <2>3 DEF Acknowledged, Spared
  <2>5. disk[name[r]] \in {r, None}
    BY <1>11 DEF Rollback, CreateInv
  <2>6. name[q] # name[r] /\ name[q] \in Names
    BY <2>1, <2>3, <2>4, <2>5 DEF Acknowledged
  <2> QED BY <2>1, <2>2, <2>4, <2>6
<1>12. ASSUME NEW r \in Requests, Publish(r) PROVE AcknowledgedCreateSurvives'
  <2> SUFFICES ASSUME NEW q \in Requests, Acknowledged(q)', Spared(q)'
               PROVE  (rows[name[q]] = q /\ disk[name[q]] = q)'
    BY DEF Acknowledged, Spared
  <2>1. kind[r] = "create" /\ UNCHANGED <<name, kind, entry, rows, disk>>
    BY <1>12 DEF Publish
  <2>2. \A p \in Requests \ {r} : pc'[p] = pc[p] /\ result'[p] = result[p]
    BY <1>12 DEF Publish, Answer, Goto
  <2>3. CASE q = r
    BY <1>12, <2>1, <2>3 DEF Publish, CreateInv
  <2>4. CASE q # r
    <3>1. Acknowledged(q) /\ Spared(q)
      BY <2>1, <2>2, <2>4 DEF Acknowledged, Spared
    <3> QED BY <2>1, <3>1 DEF Acknowledged, Spared
  <2> QED BY <2>3, <2>4
<1>13. ASSUME NEW r \in Requests, Lookup(r) PROVE AcknowledgedCreateSurvives'
  BY <1>13 DEF Lookup, Answer, Goto
<1>14. ASSUME NEW r \in Requests, DropAgain(r) PROVE AcknowledgedCreateSurvives'
  <2> SUFFICES ASSUME NEW q \in Requests, Acknowledged(q)', Spared(q)'
               PROVE  (rows[name[q]] = q /\ disk[name[q]] = q)'
    BY DEF Acknowledged, Spared
  <2>1. /\ kind[r] = "drop" /\ entry[r] # None /\ name[r] \in Names /\ r # q
        /\ name' = name /\ kind' = kind /\ entry' = entry
        /\ \A p \in Requests \ {r} : pc'[p] = pc[p] /\ result'[p] = result[p]
    BY <1>14 DEF DropAgain, Answer, Goto, Acknowledged
  <2>2. entry[r] # q
    <3>1. PICK p \in Requests : /\ entry[p] = entry[r]
                                /\ pc[p] \notin {"lookup", "exclusive"} /\ result[p] # "not_found"
      BY <1>14 DEF DropAgain, DroppersInv
    <3>2. p # r
      BY <1>14, <3>1 DEF DropAgain
    <3>3. entry[p] = q => kind[p] = "drop" /\ name[p] = name[q]
      BY <2>1, <3>1 DEF NameOf, PlaceInv
    <3> QED BY <2>1, <3>1, <3>2, <3>3 DEF Spared
  <2>3. Acknowledged(q) /\ Spared(q)
    BY <2>1, <2>2 DEF Acknowledged, Spared
  <2> QED BY <1>14, <2>1, <2>3 DEF DropAgain, Acknowledged, Spared
<1>15. ASSUME NEW r \in Requests, Destroy(r) PROVE AcknowledgedCreateSurvives'
  <2> SUFFICES ASSUME NEW q \in Requests, Acknowledged(q)', Spared(q)'
               PROVE  (rows[name[q]] = q /\ disk[name[q]] = q)'
    BY DEF Acknowledged, Spared
  <2>1. /\ kind[r] = "drop" /\ entry[r] # None /\ name[r] \in Names /\ r # q
        /\ name' = name /\ kind' = kind /\ entry' = entry
        /\ \A p \in Requests \ {r} : pc'[p] = pc[p] /\ result'[p] = result[p]
    BY <1>15 DEF Destroy, Goto, Acknowledged
  <2>2. ASSUME name[r] = name[q] PROVE entry[r] # q
    BY <1>15, <2>1, <2>2 DEF Destroy, Goto, Spared
  <2>3. Acknowledged(q) /\ Spared(q)
    BY <1>15, <2>1, <2>2 DEF Acknowledged, Spared
  <2>4. rows[name[q]] = q /\ disk[name[q]] = q
    BY <2>3 DEF Acknowledged, Spared
  <2>5. rows[name[r]] = entry[r]
    BY <1>15 DEF Destroy, Goto, DropInv
  <2>6. name[r] # name[q]
    BY <2>2, <2>4, <2>5
  <2>7. \A n \in Names \ {name[r]} : rows'[n] = rows[n] /\ disk'[n] = disk[n]
    BY <1>15 DEF Destroy, Goto
  <2> QED BY <2>1, <2>3, <2>4, <2>6, <2>7 DEF Acknowledged
<1>16. ASSUME NEW r \in Requests, DestroyFails(r) PROVE AcknowledgedCreateSurvives'
  BY <1>16 DEF DestroyFails, Answer, Goto
<1>17. ASSUME NEW r \in Requests, RemoveTree(r) PROVE AcknowledgedCreateSurvives'
  <2> SUFFICES ASSUME NEW q \in Requests, Acknowledged(q)', Spared(q)'
               PROVE  (rows[name[q]] = q /\ disk[name[q]] = q)'
    BY DEF Acknowledged, Spared
  <2>1. /\ kind[r] = "drop" /\ entry[r] # None /\ name[r] \in Names /\ r # q
        /\ name' = name /\ kind' = kind /\ entry' = entry
        /\ \A p \in Requests \ {r} : pc'[p] = pc[p] /\ result'[p] = result[p]
    BY <1>17 DEF RemoveTree, Goto, Acknowledged
  <2>2. ASSUME name[r] = name[q] PROVE entry[r] # q
    BY <1>17, <2>1, <2>2 DEF RemoveTree, Goto, Spared
  <2>3. Acknowledged(q) /\ Spared(q)
    BY <1>17, <2>1, <2>2 DEF Acknowledged, Spared
  <2>4. rows[name[q]] = q /\ disk[name[q]] = q
    BY <2>3 DEF Acknowledged, Spared
  <2>5. rows[name[r]] = entry[r]
    BY <1>17 DEF RemoveTree, Goto, DropInv
  <2>6. name[r] # name[q]
    BY <2>2, <2>4, <2>5
  <2>7. \A n \in Names \ {name[r]} : rows'[n] = rows[n] /\ disk'[n] = disk[n]
    BY <1>17 DEF RemoveTree, Goto
  <2> QED BY <2>1, <2>3, <2>4, <2>6, <2>7 DEF Acknowledged
<1>18. ASSUME NEW r \in Requests, Unregister(r) PROVE AcknowledgedCreateSurvives'
  <2> SUFFICES ASSUME NEW q \in Requests, Acknowledged(q)', Spared(q)'
               PROVE  (rows[name[q]] = q /\ disk[name[q]] = q)'
    BY DEF Acknowledged, Spared
  <2>1. /\ kind[r] = "drop" /\ entry[r] # None /\ name[r] \in Names /\ r # q
        /\ name' = name /\ kind' = kind /\ entry' = entry
        /\ \A p \in Requests \ {r} : pc'[p] = pc[p] /\ result'[p] = result[p]
    BY <1>18 DEF Unregister, Answer, Goto, Acknowledged
  <2>2. ASSUME name[r] = name[q] PROVE entry[r] # q
    BY <1>18, <2>1, <2>2 DEF Unregister, Answer, Goto, Spared
  <2>3. Acknowledged(q) /\ Spared(q)
    BY <1>18, <2>1, <2>2 DEF Acknowledged, Spared
  <2>4. rows[name[q]] = q /\ disk[name[q]] = q
    BY <2>3 DEF Acknowledged, Spared
  <2>5. rows[name[r]] = entry[r]
    BY <1>18 DEF Unregister, DropInv
  <2>6. name[r] # name[q]
    BY <2>2, <2>4, <2>5
  <2>7. \A n \in Names \ {name[r]} : rows'[n] = rows[n] /\ disk'[n] = disk[n]
    BY <1>18 DEF Unregister
  <2> QED BY <2>1, <2>3, <2>4, <2>6, <2>7 DEF Acknowledged
<1>19. ASSUME NEW r \in Requests, UnregisterFails(r) PROVE AcknowledgedCreateSurvives'
  BY <1>19 DEF UnregisterFails, Answer, Goto
<1>20. ASSUME NEW e \in Data, Recover(e) PROVE AcknowledgedCreateSurvives'
  BY <1>20 DEF Recover, Wake, OpenSucceeds, OpenFails, Adopt, Collect
<1>21. CASE UNCHANGED vars
  BY <1>21 DEF vars
<1> QED BY <1>1, <1>2, <1>3, <1>4, <1>5, <1>6, <1>7, <1>8, <1>9, <1>10, <1>11, <1>12,
           <1>13, <1>14, <1>15, <1>16, <1>17, <1>18, <1>19, <1>20, <1>21
    DEF Next, Create, Drop

\* Every step that leaves a row without its directory is a drop's.
LEMMA HollowStep == IInv /\ LedgerInv /\ [Next]_vars => HollowRowsAreCutDrops'
<1> SUFFICES ASSUME HollowRowsAreCutDrops, RequestInv, PlaceInv, CreateInv, DropInv,
                    pc \in [Requests -> Labels], entry \in [Requests -> Data \cup {None}],
                    result \in [Requests -> Results], rows \in [Names -> Data \cup {None}],
                    disk \in [Names -> Data \cup {None}],
                    kind \in [Requests -> {"none", "create", "drop"}],
                    name \in [Requests -> Names \cup {None}], [Next]_vars
             PROVE  HollowRowsAreCutDrops'
  BY DEF IInv, LedgerInv, TypeOK
<1> USE NamesAssumption
    DEF HollowRowsAreCutDrops, RequestInv, Labels, Results, Creating, vars, storeVars,
        entryVars, taskVars, requestVars, processVars
<1>1. ASSUME Start PROVE HollowRowsAreCutDrops'
  BY <1>1 DEF Start
<1>2. ASSUME Close PROVE HollowRowsAreCutDrops'
  BY <1>2 DEF Close
<1>3. ASSUME CloseStore PROVE HollowRowsAreCutDrops'
  BY <1>3 DEF CloseStore
<1>4. ASSUME Stop PROVE HollowRowsAreCutDrops'
  BY <1>4 DEF Stop
<1>5. ASSUME Probe \/ ProbeReturns PROVE HollowRowsAreCutDrops'
  BY <1>5 DEF Probe, ProbeReturns
<1>6. ASSUME NEW r \in Requests, Submit(r) PROVE HollowRowsAreCutDrops'
  BY <1>6 DEF Submit, Goto
<1>7. ASSUME NEW r \in Requests, CreateRegistered(r) \/ CreateRefused(r)
      PROVE  HollowRowsAreCutDrops'
  BY <1>7 DEF CreateRegistered, CreateRefused, Answer, Goto
<1>8. ASSUME NEW r \in Requests, CreateDirectory(r) PROVE HollowRowsAreCutDrops'
  BY <1>8 DEF CreateDirectory, Goto
<1>9. ASSUME NEW r \in Requests, AddRow(r) PROVE HollowRowsAreCutDrops'
  <2> SUFFICES ASSUME NEW n \in Names, rows'[n] \in Requests, disk'[n] # rows'[n]
               PROVE  \E q \in Requests :
                        /\ kind'[q] = "drop" /\ name'[q] = n
                        /\ pc'[q] = "unregister" \/ result'[q] \in {"lost", "error"}
    OBVIOUS
  <2>1. /\ rows[name[r]] = None /\ disk[name[r]] = r /\ UNCHANGED <<disk, kind, name, result>>
        /\ rows' = [rows EXCEPT ![name[r]] = r]
    BY <1>9 DEF AddRow, CreateInv
  <2>2. \A q \in Requests \ {r} : pc'[q] = pc[q]
    BY <1>9 DEF AddRow, Goto
  <2>3. n # name[r]
    BY <2>1
  <2> QED BY <1>9, <2>1, <2>2, <2>3 DEF AddRow
<1>10. ASSUME NEW r \in Requests, AddFails(r) PROVE HollowRowsAreCutDrops'
  BY <1>10 DEF AddFails, Goto
<1>11. ASSUME NEW r \in Requests, Rollback(r) PROVE HollowRowsAreCutDrops'
  <2> SUFFICES ASSUME NEW n \in Names, rows'[n] \in Requests, disk'[n] # rows'[n]
               PROVE  \E q \in Requests :
                        /\ kind'[q] = "drop" /\ name'[q] = n
                        /\ pc'[q] = "unregister" \/ result'[q] \in {"lost", "error"}
    OBVIOUS
  <2>1. /\ kind[r] = "create" /\ rows[name[r]] # r /\ disk[name[r]] \in {r, None}
        /\ UNCHANGED <<rows, kind, name>>
    BY <1>11 DEF Rollback, CreateInv
  <2>2. /\ \A q \in Requests \ {r} : pc'[q] = pc[q] /\ result'[q] = result[q]
        /\ \A m \in Names \ {name[r]} : disk'[m] = disk[m]
    BY <1>11 DEF Rollback, Answer, Goto
  <2>3. disk[n] # rows[n]
    BY <2>1, <2>2
  <2> QED BY <2>1, <2>2, <2>3
<1>12. ASSUME NEW r \in Requests, Publish(r) PROVE HollowRowsAreCutDrops'
  BY <1>12 DEF Publish, Answer, Goto
<1>13. ASSUME NEW r \in Requests, Lookup(r) PROVE HollowRowsAreCutDrops'
  BY <1>13 DEF Lookup, Answer, Goto
<1>14. ASSUME NEW r \in Requests, DropAgain(r) PROVE HollowRowsAreCutDrops'
  BY <1>14 DEF DropAgain, Answer, Goto
<1>15. ASSUME NEW r \in Requests, Destroy(r) PROVE HollowRowsAreCutDrops'
  BY <1>15 DEF Destroy, Goto
<1>16. ASSUME NEW r \in Requests, DestroyFails(r) PROVE HollowRowsAreCutDrops'
  BY <1>16 DEF DestroyFails, Answer, Goto
<1>17. ASSUME NEW r \in Requests, RemoveTree(r) PROVE HollowRowsAreCutDrops'
  BY <1>17 DEF RemoveTree, Goto
<1>18. ASSUME NEW r \in Requests, Unregister(r) PROVE HollowRowsAreCutDrops'
  BY <1>18 DEF Unregister, Answer, Goto
<1>19. ASSUME NEW r \in Requests, UnregisterFails(r) PROVE HollowRowsAreCutDrops'
  BY <1>19 DEF UnregisterFails, Answer, Goto
<1>20. ASSUME NEW e \in Data, Recover(e) PROVE HollowRowsAreCutDrops'
  BY <1>20 DEF Recover, Wake, OpenSucceeds, OpenFails, Adopt, Collect
<1>21. CASE UNCHANGED vars
  BY <1>21 DEF vars
<1> QED BY <1>1, <1>2, <1>3, <1>4, <1>5, <1>6, <1>7, <1>8, <1>9, <1>10, <1>11, <1>12,
           <1>13, <1>14, <1>15, <1>16, <1>17, <1>18, <1>19, <1>20, <1>21
    DEF Next, Create, Drop

\* So much is known at all times about acknowledged and about dropped entries.
LEMMA Ledger == Spec => []LedgerInv
<1>1. Init => LedgerInv
  BY NamesAssumption
     DEF Init, LedgerInv, DroppersInv, AcknowledgedCreateSurvives, HollowRowsAreCutDrops
<1>2. IInv /\ LedgerInv /\ [Next]_vars => LedgerInv'
  BY DroppersStep, AcknowledgedStep, HollowStep DEF LedgerInv
<1> QED BY <1>1, <1>2, Invariance, PTL DEF Spec

\* A create answered 201 is there after every crash and restart, until a drop
\* that looked up this very collection (create and drop of manager.py).
THEOREM AcknowledgedCreatesSurvive == Spec => []AcknowledgedCreateSurvives
<1>1. LedgerInv => AcknowledgedCreateSurvives
  BY DEF LedgerInv
<1> QED BY <1>1, Ledger, PTL

\* A row that a create wrote is without its directory only where a drop has yet
\* to delete it, failed to, or was cut short (drop of manager.py).
THEOREM HollowRowsComeFromDrops == Spec => []HollowRowsAreCutDrops
<1>1. LedgerInv => HollowRowsAreCutDrops
  BY DEF LedgerInv
<1> QED BY <1>1, Ledger, PTL
=============================================================================
