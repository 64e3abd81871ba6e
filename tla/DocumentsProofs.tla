--------------------------- MODULE DocumentsProofs ---------------------------
(***************************************************************************)
(* The safety of Documents for every set of requests, ids and batch sizes: *)
(* types, cursors, and that it implements DocumentStore, one step at a     *)
(* time.                                                                   *)
(***************************************************************************)
EXTENDS Documents, DocumentModelsProofs

\* Places at the exclusive lock, and places of an export under way.
AtLock == {"exclWait", "gated", "writing"}
Streaming == {"batchWait", "batch", "responding", "sending", "stranded"}

\* What a request asked for, by where it is.
PlaceInv ==
  /\ answer = [r \in Requests |-> answer[r]]
  /\ \A r \in Requests :
       /\ pc[r] = "new" <=> asked[r] = None
       /\ pc[r] \notin {"ended", "stranded"} => answer[r] = None
       /\ pc[r] \in AtLock => asked[r].op \in ExclusiveOps
       /\ pc[r] \in {"sharedWait", "reading"} => asked[r].op \in SharedOps
       /\ pc[r] \in Streaming => asked[r].op = "export" /\ snapshot[r] # None
       /\ pc[r] \notin Streaming \cup {"ended"} => snapshot[r] = None /\ read[r] = {} /\ sent[r] = {}

\* Who is where holds the lock, and a writer is alone.
LockInv ==
  /\ \A r \in Requests : /\ gate = r <=> pc[r] \in {"gated", "writing"}
                         /\ writer = r <=> pc[r] = "writing"
                         /\ r \in readers <=> pc[r] \in {"reading", "batch"}
  /\ Lock!Exclusion

\* Every id was chosen by a client or has been made up.
Taken == Given \cup generated
IdsInv ==
  /\ Present(docs) \subseteq Taken /\ Present(before) \subseteq Taken
  /\ \A r \in Requests : /\ asked[r] # None => Named(asked[r]) \subseteq Taken
                         /\ \A n \in DOMAIN ids[r] : ids[r][n] \in Taken

\* The stores a batch has gone through, the first being the one it found.
IsTrail(after, r, o, d, s, a) ==
  after = [n \in 0..Len(a) |->
             IF n = 0 THEN d
             ELSE IF a[n] THEN Put(r, o, after[n - 1], s[n]) ELSE after[n - 1]]

\* A batch has applied what its statuses say to what it found, and a request
\* that does not work through documents has applied nothing yet.
BatchInv ==
  \A r \in Requests :
    /\ pc[r] # "writing" => ids[r] = <<>> /\ oks[r] = <<>>
    /\ pc[r] = "writing" =>
         /\ asked[r].ids # None => ids[r] \in Store!Resolved(asked[r], before)
         /\ Len(oks[r]) <= Len(ids[r])
         /\ ~InBatch(r) => oks[r] = <<>>

\* What an export has read and sent of its snapshot.
ExportInv ==
  \A r \in Requests : pc[r] \in Streaming =>
    /\ read[r] \subseteq Present(snapshot[r])
    /\ pc[r] \in {"batchWait", "batch", "sending"} => sent[r] = read[r]
    /\ pc[r] = "responding" => sent[r] = {}
    /\ pc[r] = "responding" /\ read[r] = {} => Present(snapshot[r]) = {} /\ r \notin cursors

\* What the records of a write's progress mean: docs is where the batch has got
\* to from before, by the only way there is, and the engine accepted nothing
\* against its rules.
TrailInv ==
  \A r \in Requests : pc[r] = "writing" =>
    LET Trail(f) == IsTrail(f, r, asked[r].op, before, ids[r], oks[r])
    IN /\ \E f : Trail(f)
       /\ \A f : Trail(f) =>
            /\ f[Len(oks[r])] = docs
            /\ \A n \in DOMAIN oks[r] :
                 oks[r][n] => Accepts(asked[r].op, f[n - 1][ids[r][n]] # None)

IInv == /\ TypeOK
        /\ PlaceInv
        /\ LockInv
        /\ IdsInv
        /\ BatchInv
        /\ TrailInv
        /\ ExportInv
        /\ CursorsAreAccountedFor

-----------------------------------------------------------------------------
\* Resolving leaves the ids that were given, and makes up the others.
LEMMA ResolvedIds ==
  ASSUME NEW b \in Bodies, b.op \in ExclusiveOps, NEW s \in Resolve(b)
  PROVE  /\ s \in Batches(Ids)
         /\ \A n \in DOMAIN s : IF b.ids[n] # None THEN s[n] = b.ids[n] ELSE s[n] \in Fresh \ generated
         /\ b.ids # None => Len(s) = Len(b.ids) /\ DOMAIN s = DOMAIN b.ids
         /\ b.ids \in {None, <<>>} => s = <<>>
<1>1. s \in Batches(Ids)
  BY DEF Resolve
<1>2. \A n \in DOMAIN s : IF b.ids[n] # None THEN s[n] = b.ids[n] ELSE s[n] \in Fresh \ generated
  BY DEF Resolve
<1>3. DOMAIN s = 1..Len(s) /\ Len(s) \in Nat /\ s \in Seq(Ids)
  BY <1>1, BatchElements
<1>4. ASSUME b.ids # None PROVE Len(s) = Len(b.ids) /\ DOMAIN s = DOMAIN b.ids
  <2>1. CASE b.op = "drop"
    BY <1>3, <1>4, <2>1, BodyFields DEF Resolve
  <2>2. CASE b.op # "drop"
    BY <1>3, <1>4, <2>2, BatchIds, BatchElements DEF Resolve, ExclusiveOps
  <2> QED BY <2>1, <2>2
<1>5. ASSUME b.ids \in {None, <<>>} PROVE s = <<>>
  BY <1>3, <1>5, EmptySeq DEF Resolve
<1> QED BY <1>1, <1>2, <1>4, <1>5

\* However a request leaves the exclusive lock, what it may have changed besides.
Leaves(r, a) == /\ LeaveExclusive(r, a)
                /\ docs' \in Stores /\ Present(docs') \subseteq Present(docs)
                /\ opened' \in BOOLEAN /\ (opened' => opened)
                /\ cursors' \in {cursors, {}} /\ (~opened' => ~opened \/ cursors' = {})

Released(r) == \/ RefuseExclusive(r) \/ RespondWrite(r) \/ WriteFails(r)
               \/ ConversionFails(r) \/ DeleteByFilter(r) \/ Drop(r)

\* A part of a store is a store.
LEMMA OnlyIsStore ==
  ASSUME NEW d \in Stores, NEW S
  PROVE  Only(d, S) \in Stores /\ Present(Only(d, S)) \subseteq Present(d)
BY DEF Stores, Only, Present

\* So is a store without documents.
LEMMA EmptyIsStore == Empty \in Stores /\ Present(Empty) = {}
BY DEF Stores, Empty, Present

\* The ways out of the exclusive lock have that much in common.
LEMMA LeavingExclusive ==
  ASSUME TypeOK, NEW r \in Requests, Released(r)
  PROVE  \E a : Leaves(r, a)
<1>1. docs \in Stores /\ opened \in BOOLEAN
  BY DEF TypeOK
<1>2. CASE UNCHANGED dataVars
  <2>1. \E a : LeaveExclusive(r, a)
    BY
       DEF Released, RefuseExclusive, RespondWrite, WriteFails, ConversionFails,
           DeleteByFilter, Drop
  <2> QED BY <1>1, <1>2, <2>1 DEF Leaves, dataVars
<1>3. CASE DeleteByFilter(r)
  <2>1. PICK S \in SUBSET Matching(docs, asked[r].filter) :
          docs' = Only(docs, Ids \ S) /\ \E a : LeaveExclusive(r, a)
    BY <1>3 DEF DeleteByFilter
  <2>2. docs' \in Stores /\ Present(docs') \subseteq Present(docs)
    BY <1>1, <2>1, OnlyIsStore
  <2> QED BY <1>1, <1>3, <2>1, <2>2 DEF Leaves, DeleteByFilter
<1>4. CASE Drop(r)
  <2>1. \E a : LeaveExclusive(r, a)
    BY <1>4 DEF Drop
  <2>2. docs' \in {docs, Empty} /\ (opened' = FALSE \/ opened' = opened) /\ cursors' = {}
    BY <1>4 DEF Drop
  <2>3. docs' \in Stores /\ Present(docs') \subseteq Present(docs)
    BY <1>1, <2>2, EmptyIsStore
  <2>4. opened' \in BOOLEAN /\ (opened' => opened)
    BY <1>1, <1>4, <2>2, Zenon DEF Drop
  <2> QED BY <2>1, <2>2, <2>3, <2>4 DEF Leaves
<1> QED BY <1>2, <1>3, <1>4
    DEF Released, RefuseExclusive, RespondWrite, WriteFails, ConversionFails

\* A read leaves the shared lock with one answer or another.
LEMMA LeavingShared ==
  ASSUME NEW r \in Requests, Fetch(r) \/ GetDoc(r) \/ Search(r) \/ ReadFails(r)
  PROVE  \E a : LeaveShared(r, a)
BY DEF Fetch, GetDoc, Search, ReadFails

\* Whoever is not past the gate leaves alone what a writer works on.
LEMMA QuietSteps ==
  ASSUME TypeOK, NEW r \in Requests,
         Submit(r) \/ CloseGate(r) \/ Shared(r) \/ Export(r)
  PROVE  /\ pc[r] \notin {"gated", "writing"} /\ pc'[r] # "writing"
         /\ \A q \in Requests \ {r} : pc'[q] = pc[q] /\ asked'[q] = asked[q]
         /\ UNCHANGED <<writer, opened, docs, batchVars>>
<1> USE DEF dataVars, lockVars, Lock!CloseGate, Lock!AcquireShared, Lock!ReleaseShared
<1>0. pc \in [Requests -> Labels] /\ asked \in [Requests -> Bodies \cup {None}]
  BY DEF TypeOK
<1>1. CASE Submit(r)
  BY <1>0, <1>1 DEF Submit, End, Goto
<1>2. CASE CloseGate(r)
  BY <1>0, <1>2 DEF CloseGate, Goto
<1>3. CASE EnterShared(r)
  BY <1>0, <1>3 DEF EnterShared, Goto
<1>4. ASSUME NEW a, pc[r] = "reading", LeaveShared(r, a)
      PROVE  /\ pc[r] \notin {"gated", "writing"} /\ pc'[r] # "writing"
             /\ \A q \in Requests \ {r} : pc'[q] = pc[q] /\ asked'[q] = asked[q]
             /\ UNCHANGED <<writer, opened, docs, batchVars>>
  BY <1>0, <1>4 DEF LeaveShared, End, Goto
<1>5. CASE pc[r] = "reading" /\ OpenExport(r)
  BY <1>0, <1>5 DEF OpenExport, Goto
<1>6. CASE EnterBatch(r) \/ NextBatch(r)
  BY <1>0, <1>6 DEF EnterBatch, NextBatch, LeaveBatch, Goto
<1>7. CASE LastBatch(r) \/ BatchFails(r)
  BY <1>0, <1>7 DEF LastBatch, BatchFails, LeaveBatch, End, Goto
<1>8. CASE StartBody(r) \/ NeverStarts(r) \/ Collect(r)
  BY <1>0, <1>8 DEF StartBody, NeverStarts, Collect, End, Goto
<1>9. CASE Resume(r) \/ Abandon(r)
  BY <1>0, <1>9 DEF Resume, Abandon, End, Goto
<1> QED BY LeavingShared, <1>1, <1>2, <1>3, <1>4, <1>5, <1>6, <1>7, <1>8, <1>9
           DEF Shared, Export

\* Every step keeps the types: resolved ids are ids, a batch has a status per
\* document at most, and a store maps every id to a content or to nothing.
LEMMA TypeOKStep == IInv /\ [Next]_vars => TypeOK'
<1> SUFFICES ASSUME TypeOK, IInv, [Next]_vars
             PROVE  TypeOK'
  BY DEF IInv, TypeOK, Lock!LockTypeOK
<1> USE DEF TypeOK, Lock!LockTypeOK, Labels, lockVars, dataVars, batchVars, exportVars
<1>1. ASSUME NEW r \in Requests, Submit(r) PROVE TypeOK'
  BY <1>1 DEF Submit, End, Goto
<1>2. ASSUME NEW r \in Requests, CloseGate(r) PROVE TypeOK'
  BY <1>2 DEF CloseGate, Lock!CloseGate, Goto
<1>3. ASSUME NEW r \in Requests, EnterExclusive(r) PROVE TypeOK'
  <2>1. asked[r] \in Bodies /\ asked[r].op \in ExclusiveOps
    BY <1>3 DEF IInv, PlaceInv, AtLock, EnterExclusive
  <2>2. PICK s \in Resolve(asked[r]) :
          /\ ids' = [ids EXCEPT ![r] = s]
          /\ generated' = generated \cup {s[n] : n \in {m \in DOMAIN s : asked[r].ids[m] = None}}
    BY <1>3 DEF EnterExclusive
  <2>3. s \in Batches(Ids) /\ \A n \in DOMAIN s : asked[r].ids[n] = None => s[n] \in Fresh
    BY <2>1, ResolvedIds
  <2>4. ids' \in [Requests -> Batches(Ids)]
    BY <2>2, <2>3
  <2>5. generated' \subseteq Fresh
    BY <2>2, <2>3
  <2> QED BY <1>3, <2>4, <2>5 DEF EnterExclusive, Lock!AcquireExclusive, Goto
<1>4. ASSUME NEW r \in Requests, pc[r] = "writing", EngineWrites(r) PROVE TypeOK'
  <2>1. PICK ok \in BOOLEAN : /\ docs' = IF ok THEN Put(r, asked[r].op, docs, ids[r][Len(oks[r]) + 1]) ELSE docs
                              /\ oks' = [oks EXCEPT ![r] = Append(@, ok)]
    BY <1>4 DEF EngineWrites
  <2>2. docs' \in Stores
    <3>1. Put(r, asked[r].op, docs, ids[r][Len(oks[r]) + 1]) \in Stores
      BY DEF Put, Stores, Values
    <3> QED BY <2>1, <3>1
  <2>3. Append(oks[r], ok) \in Batches(BOOLEAN)
    <3>1. /\ oks[r] \in Seq(BOOLEAN) /\ Len(oks[r]) \in Nat /\ Len(ids[r]) \in 0..MaxDocs
          /\ Len(oks[r]) < Len(ids[r])
      BY <1>4, BatchElements DEF EngineWrites
    <3>2. Append(oks[r], ok) \in Seq(BOOLEAN) /\ Len(Append(oks[r], ok)) = Len(oks[r]) + 1
      BY <3>1
    <3>3. Len(Append(oks[r], ok)) <= MaxDocs
      BY <3>1, <3>2, MaxDocsAssumption
    <3> QED BY <3>2, <3>3, SequencesAreBatches
  <2>4. oks' \in [Requests -> Batches(BOOLEAN)]
    BY <2>1, <2>3
  <2> QED BY <1>4, <2>2, <2>4 DEF EngineWrites, InBatch
<1>5. ASSUME NEW r \in Requests, NEW a, pc[r] = "writing", Leaves(r, a) PROVE TypeOK'
  <2>1. <<>> \in Batches(Ids) /\ <<>> \in Batches(BOOLEAN) /\ Empty \in Stores
    BY EmptyBatch, EmptyIsStore
  <2> QED BY <1>5, <2>1 DEF Leaves, LeaveExclusive, Lock!ReleaseExclusive, End, Goto
<1>6. ASSUME NEW r \in Requests, EnterShared(r) PROVE TypeOK'
  BY <1>6 DEF EnterShared, Lock!AcquireShared, Goto
<1>7. ASSUME NEW r \in Requests, NEW a, pc[r] = "reading", LeaveShared(r, a) PROVE TypeOK'
  BY <1>7 DEF LeaveShared, Lock!ReleaseShared, End, Goto
<1>8. ASSUME NEW r \in Requests, pc[r] = "reading", OpenExport(r) PROVE TypeOK'
  BY <1>8 DEF OpenExport, Lock!ReleaseShared, Goto
<1>9. ASSUME NEW r \in Requests, EnterBatch(r) PROVE TypeOK'
  BY <1>9 DEF EnterBatch, Lock!AcquireShared, Goto
<1>10. ASSUME NEW r \in Requests, NextBatch(r) PROVE TypeOK'
  <2>1. PICK S \in SUBSET Unread(r) :
          /\ read' = [read EXCEPT ![r] = @ \cup S]
          /\ sent' \in {sent, [sent EXCEPT ![r] = @ \cup S]}
          /\ Goto(r, "responding") \/ Goto(r, "sending")
    BY <1>10 DEF NextBatch
  <2>2. S \subseteq Ids
    BY DEF Unread, Present
  <2>3. read' \in [Requests -> SUBSET Ids] /\ sent' \in [Requests -> SUBSET Ids]
    BY <2>1, <2>2
  <2> QED BY <1>10, <2>1, <2>3 DEF LeaveBatch, NextBatch, Lock!ReleaseShared, Goto
<1>11. ASSUME NEW r \in Requests, LastBatch(r) PROVE TypeOK'
  BY <1>11 DEF LastBatch, LeaveBatch, Lock!ReleaseShared, End, Goto, Unread
<1>12. ASSUME NEW r \in Requests, BatchFails(r) PROVE TypeOK'
  BY <1>12 DEF BatchFails, LeaveBatch, Lock!ReleaseShared, End, Goto
<1>13. ASSUME NEW r \in Requests, StartBody(r) PROVE TypeOK'
  BY <1>13 DEF StartBody, End, Goto
<1>14. ASSUME NEW r \in Requests, NeverStarts(r) PROVE TypeOK'
  BY <1>14 DEF NeverStarts, Goto
<1>15. ASSUME NEW r \in Requests, Collect(r) PROVE TypeOK'
  BY <1>15 DEF Collect, Goto
<1>16. ASSUME NEW r \in Requests, Resume(r) PROVE TypeOK'
  BY <1>16 DEF Resume, Goto
<1>17. ASSUME NEW r \in Requests, Abandon(r) PROVE TypeOK'
  BY <1>17 DEF Abandon, End, Goto
<1>18. CASE UNCHANGED vars
  BY <1>18 DEF vars, lockVars, dataVars, batchVars, exportVars
<1> QED BY LeavingExclusive, LeavingShared, <1>1, <1>2, <1>3, <1>4, <1>5, <1>6, <1>7, <1>8,
           <1>9, <1>10, <1>11, <1>12, <1>13, <1>14, <1>15, <1>16, <1>17, <1>18
    DEF Next, Done, Exclusive, Shared, Export, Released

\* Every step leaves each request with the body, the cursor and the answer that
\* go with the place it is at.
LEMMA PlaceInvStep == IInv /\ [Next]_vars => PlaceInv'
<1> SUFFICES ASSUME TypeOK, PlaceInv, pc \in [Requests -> Labels],
                    read \in [Requests -> SUBSET Ids], sent \in [Requests -> SUBSET Ids],
                    snapshot \in [Requests -> Stores \cup {None}],
                    asked \in [Requests -> Bodies \cup {None}], docs \in Stores, [Next]_vars
             PROVE  PlaceInv'
  BY DEF IInv, TypeOK, Lock!LockTypeOK
<1> USE NoneAssumption DEF PlaceInv, AtLock, Streaming, Labels, lockVars, dataVars, batchVars, exportVars
<1>1. ASSUME NEW r \in Requests, Submit(r) PROVE PlaceInv'
  <2>1. PICK b \in Bodies : /\ asked' = [asked EXCEPT ![r] = b]
                            /\ \/ \E a : End(r, a)
                               \/ /\ Goto(r, IF b.op \in ExclusiveOps THEN "exclWait" ELSE "sharedWait")
                                  /\ UNCHANGED answer
    BY <1>1 DEF Submit, ExclusiveOps
  <2>2. b # None /\ b.op \in ExclusiveOps \cup SharedOps
    BY BodyFields
  <2>3. pc[r] = "new" /\ UNCHANGED <<snapshot, read, sent>>
    BY <1>1 DEF Submit
  <2>4. CASE \E a : End(r, a)
    BY <2>1, <2>2, <2>3, <2>4 DEF End, Goto
  <2>5. CASE b.op \in ExclusiveOps /\ Goto(r, "exclWait") /\ UNCHANGED answer
    BY <2>1, <2>2, <2>3, <2>5 DEF Goto
  <2>6. CASE b.op \in SharedOps /\ Goto(r, "sharedWait") /\ UNCHANGED answer
    BY <2>1, <2>2, <2>3, <2>6 DEF Goto
  <2> QED BY <2>1, <2>2, <2>4, <2>5, <2>6 DEF ExclusiveOps, SharedOps, WriteOps
<1>2. ASSUME NEW r \in Requests, CloseGate(r) PROVE PlaceInv'
  BY <1>2 DEF CloseGate, Lock!CloseGate, Goto
<1>3. ASSUME NEW r \in Requests, EnterExclusive(r) PROVE PlaceInv'
  BY <1>3 DEF EnterExclusive, Lock!AcquireExclusive, Goto
<1>4. ASSUME NEW r \in Requests, pc[r] = "writing", EngineWrites(r) PROVE PlaceInv'
  BY <1>4 DEF EngineWrites, InBatch
<1>5. ASSUME NEW r \in Requests, NEW a, pc[r] = "writing", Leaves(r, a) PROVE PlaceInv'
  BY <1>5 DEF Leaves, LeaveExclusive, Lock!ReleaseExclusive, End, Goto
<1>6. ASSUME NEW r \in Requests, EnterShared(r) PROVE PlaceInv'
  BY <1>6 DEF EnterShared, Lock!AcquireShared, Goto
<1>7. ASSUME NEW r \in Requests, NEW a, pc[r] = "reading", LeaveShared(r, a) PROVE PlaceInv'
  BY <1>7 DEF LeaveShared, Lock!ReleaseShared, End, Goto
<1>8. ASSUME NEW r \in Requests, pc[r] = "reading", OpenExport(r) PROVE PlaceInv'
  BY <1>8 DEF OpenExport, Lock!ReleaseShared, Goto
<1>9. ASSUME NEW r \in Requests, EnterBatch(r) PROVE PlaceInv'
  BY <1>9 DEF EnterBatch, Lock!AcquireShared, Goto
<1>10. ASSUME NEW r \in Requests, NextBatch(r) PROVE PlaceInv'
  BY <1>10 DEF NextBatch, LeaveBatch, Lock!ReleaseShared, Goto, Unread
<1>11. ASSUME NEW r \in Requests, LastBatch(r) PROVE PlaceInv'
  <2>1. CASE read[r] = {}
    BY <1>11, <2>1 DEF LastBatch, LeaveBatch, Lock!ReleaseShared, End, Goto, Unread
  <2>2. CASE read[r] # {}
    BY <1>11, <2>2 DEF LastBatch, LeaveBatch, Lock!ReleaseShared, End, Goto, Unread
  <2> QED BY <2>1, <2>2
<1>12. ASSUME NEW r \in Requests, BatchFails(r) PROVE PlaceInv'
  <2>1. PICK a : End(r, a)
    BY <1>12 DEF BatchFails
  <2> QED BY <1>12, <2>1 DEF BatchFails, LeaveBatch, Lock!ReleaseShared, End, Goto
<1>13. ASSUME NEW r \in Requests, StartBody(r) PROVE PlaceInv'
  <2>1. CASE read[r] = {}
    BY <1>13, <2>1 DEF StartBody, End, Goto
  <2>2. CASE read[r] # {}
    BY <1>13, <2>2 DEF StartBody, End, Goto
  <2> QED BY <2>1, <2>2
<1>14. ASSUME NEW r \in Requests, NeverStarts(r) PROVE PlaceInv'
  BY <1>14 DEF NeverStarts, Goto
<1>15. ASSUME NEW r \in Requests, Collect(r) PROVE PlaceInv'
  BY <1>15 DEF Collect, Goto
<1>16. ASSUME NEW r \in Requests, Resume(r) PROVE PlaceInv'
  BY <1>16 DEF Resume, Goto
<1>17. ASSUME NEW r \in Requests, Abandon(r) PROVE PlaceInv'
  BY <1>17 DEF Abandon, End, Goto
<1>18. CASE UNCHANGED vars
  BY <1>18 DEF vars, lockVars, dataVars, batchVars, exportVars
<1> QED BY LeavingExclusive, LeavingShared, <1>1, <1>2, <1>3, <1>4, <1>5, <1>6, <1>7, <1>8,
           <1>9, <1>10, <1>11, <1>12, <1>13, <1>14, <1>15, <1>16, <1>17, <1>18
    DEF Next, Done, Exclusive, Shared, Export, Released

\* Every step leaves the lock with those that are where it is held.
LEMMA LockInvStep == IInv /\ [Next]_vars => LockInv'
<1> SUFFICES ASSUME TypeOK, LockInv, pc \in [Requests -> Labels],
                    gate \in Requests \cup {None}, writer \in Requests \cup {None},
                    readers \subseteq Requests, [Next]_vars
             PROVE  LockInv'
  BY DEF IInv, TypeOK, Lock!LockTypeOK
<1> USE ValuesAssumption DEF LockInv, Lock!Exclusion, lockVars, dataVars, batchVars, exportVars
<1>1. ASSUME NEW r \in Requests, Submit(r) PROVE LockInv'
  BY <1>1 DEF Submit, End, Goto
<1>2. ASSUME NEW r \in Requests, CloseGate(r) PROVE LockInv'
  BY <1>2 DEF CloseGate, Lock!CloseGate, Goto
<1>3. ASSUME NEW r \in Requests, EnterExclusive(r) PROVE LockInv'
  BY <1>3 DEF EnterExclusive, Lock!AcquireExclusive, Goto
<1>4. ASSUME NEW r \in Requests, pc[r] = "writing", EngineWrites(r) PROVE LockInv'
  BY <1>4 DEF EngineWrites, InBatch
<1>5. ASSUME NEW r \in Requests, NEW a, pc[r] = "writing", Leaves(r, a) PROVE LockInv'
  BY <1>5 DEF Leaves, LeaveExclusive, Lock!ReleaseExclusive, End, Goto
<1>6. ASSUME NEW r \in Requests, EnterShared(r) PROVE LockInv'
  BY <1>6 DEF EnterShared, Lock!AcquireShared, Goto
<1>7. ASSUME NEW r \in Requests, NEW a, pc[r] = "reading", LeaveShared(r, a) PROVE LockInv'
  BY <1>7 DEF LeaveShared, Lock!ReleaseShared, End, Goto
<1>8. ASSUME NEW r \in Requests, pc[r] = "reading", OpenExport(r) PROVE LockInv'
  BY <1>8 DEF OpenExport, Lock!ReleaseShared, Goto
<1>9. ASSUME NEW r \in Requests, EnterBatch(r) PROVE LockInv'
  BY <1>9 DEF EnterBatch, Lock!AcquireShared, Goto
<1>10. ASSUME NEW r \in Requests, NextBatch(r) PROVE LockInv'
  BY <1>10 DEF NextBatch, LeaveBatch, Lock!ReleaseShared, Goto, Unread
<1>11. ASSUME NEW r \in Requests, LastBatch(r) PROVE LockInv'
  BY <1>11 DEF LastBatch, LeaveBatch, Lock!ReleaseShared, End, Goto, Unread
<1>12. ASSUME NEW r \in Requests, BatchFails(r) PROVE LockInv'
  BY <1>12 DEF BatchFails, LeaveBatch, Lock!ReleaseShared, End, Goto
<1>13. ASSUME NEW r \in Requests, StartBody(r) PROVE LockInv'
  BY <1>13 DEF StartBody, End, Goto
<1>14. ASSUME NEW r \in Requests, NeverStarts(r) PROVE LockInv'
  BY <1>14 DEF NeverStarts, Goto
<1>15. ASSUME NEW r \in Requests, Collect(r) PROVE LockInv'
  BY <1>15 DEF Collect, Goto
<1>16. ASSUME NEW r \in Requests, Resume(r) PROVE LockInv'
  BY <1>16 DEF Resume, Goto
<1>17. ASSUME NEW r \in Requests, Abandon(r) PROVE LockInv'
  BY <1>17 DEF Abandon, End, Goto
<1>18. CASE UNCHANGED vars
  BY <1>18 DEF vars, lockVars, dataVars, batchVars, exportVars
<1> QED BY LeavingExclusive, LeavingShared, <1>1, <1>2, <1>3, <1>4, <1>5, <1>6, <1>7, <1>8,
           <1>9, <1>10, <1>11, <1>12, <1>13, <1>14, <1>15, <1>16, <1>17, <1>18
    DEF Next, Done, Exclusive, Shared, Export, Released

\* Every step keeps documents and batches to ids that were chosen or made up.
LEMMA IdsInvStep == IInv /\ [Next]_vars => IdsInv'
<1> SUFFICES ASSUME TypeOK, IInv, IdsInv, pc \in [Requests -> Labels],
                    asked \in [Requests -> Bodies \cup {None}],
                    ids \in [Requests -> Batches(Ids)], oks \in [Requests -> Batches(BOOLEAN)],
                    [Next]_vars
             PROVE  IdsInv'
  BY DEF IInv, TypeOK, Lock!LockTypeOK
<1> USE ValuesAssumption DEF IdsInv, Taken, lockVars, dataVars, batchVars, exportVars
<1>1. ASSUME NEW r \in Requests, Submit(r) PROVE IdsInv'
  BY <1>1 DEF Submit, End, Goto
<1>2. ASSUME NEW r \in Requests, CloseGate(r) PROVE IdsInv'
  BY <1>2 DEF CloseGate, Lock!CloseGate, Goto
<1>3. ASSUME NEW r \in Requests, EnterExclusive(r) PROVE IdsInv'
  <2>1. asked[r] \in Bodies /\ asked[r].op \in ExclusiveOps
    BY <1>3 DEF IInv, PlaceInv, AtLock, EnterExclusive
  <2>2. PICK s \in Resolve(asked[r]) :
          /\ ids' = [ids EXCEPT ![r] = s]
          /\ generated' = generated \cup {s[n] : n \in {m \in DOMAIN s : asked[r].ids[m] = None}}
    BY <1>3 DEF EnterExclusive
  <2>3. \A n \in DOMAIN s : s[n] \in Given \cup generated'
    <3> SUFFICES ASSUME NEW n \in DOMAIN s, asked[r].ids[n] # None
                 PROVE  s[n] \in Given \cup generated'
      BY <2>2
    <3>1. s[n] = asked[r].ids[n]
      BY <2>1, ResolvedIds
    <3>2. asked[r].ids # None /\ DOMAIN s = DOMAIN asked[r].ids
      <4>1. asked[r].ids = None => s = <<>>
        BY <2>1, ResolvedIds
      <4>2. DOMAIN <<>> = {}
        OBVIOUS
      <4> QED BY <2>1, <4>1, <4>2, ResolvedIds
    <3>3. s[n] \in Named(asked[r])
      BY <3>1, <3>2 DEF Named
    <3> QED BY <2>1, <2>2, <3>3, NoneAssumption
  <2>4. \A q \in Requests : \A n \in DOMAIN ids'[q] : ids'[q][n] \in Given \cup generated'
    BY <2>2, <2>3
  <2>5. docs' = docs /\ before' = docs /\ asked' = asked /\ generated \subseteq generated'
    BY <1>3, <2>2 DEF EnterExclusive
  <2> QED BY <2>4, <2>5
<1>4. ASSUME NEW r \in Requests, pc[r] = "writing", EngineWrites(r) PROVE IdsInv'
  <2> DEFINE i == ids[r][Len(oks[r]) + 1]
  <2>1. i \in Taken
    <3>1. Len(oks[r]) \in Nat /\ DOMAIN ids[r] = 1..Len(ids[r]) /\ Len(ids[r]) \in Nat
      BY BatchElements
    <3>2. Len(oks[r]) + 1 \in DOMAIN ids[r]
      BY <1>4, <3>1 DEF EngineWrites
    <3> QED BY <3>2
  <2>2. docs' = docs \/ docs' = Put(r, asked[r].op, docs, i)
    BY <1>4 DEF EngineWrites
  <2>3. docs \in Stores
    BY DEF IInv, TypeOK
  <2>4. Present(docs') \subseteq Present(docs) \cup {i}
    BY <2>2, <2>3 DEF Present, Put, Stores
  <2> QED BY <1>4, <2>1, <2>4 DEF EngineWrites
<1>5. ASSUME NEW r \in Requests, NEW a, pc[r] = "writing", Leaves(r, a) PROVE IdsInv'
  <2>1. Present(before') = {}
    BY <1>5, EmptyIsStore DEF Leaves, LeaveExclusive
  <2>2. DOMAIN <<>> = {}
    OBVIOUS
  <2> QED BY <1>5, <2>1, <2>2 DEF Leaves, LeaveExclusive, Lock!ReleaseExclusive, End, Goto
<1>6. ASSUME NEW r \in Requests, EnterShared(r) PROVE IdsInv'
  BY <1>6 DEF EnterShared, Lock!AcquireShared, Goto
<1>7. ASSUME NEW r \in Requests, NEW a, pc[r] = "reading", LeaveShared(r, a) PROVE IdsInv'
  BY <1>7 DEF LeaveShared, Lock!ReleaseShared, End, Goto
<1>8. ASSUME NEW r \in Requests, pc[r] = "reading", OpenExport(r) PROVE IdsInv'
  BY <1>8 DEF OpenExport, Lock!ReleaseShared, Goto
<1>9. ASSUME NEW r \in Requests, EnterBatch(r) PROVE IdsInv'
  BY <1>9 DEF EnterBatch, Lock!AcquireShared, Goto
<1>10. ASSUME NEW r \in Requests, NextBatch(r) PROVE IdsInv'
  BY <1>10 DEF NextBatch, LeaveBatch, Lock!ReleaseShared, Goto, Unread
<1>11. ASSUME NEW r \in Requests, LastBatch(r) PROVE IdsInv'
  BY <1>11 DEF LastBatch, LeaveBatch, Lock!ReleaseShared, End, Goto, Unread
<1>12. ASSUME NEW r \in Requests, BatchFails(r) PROVE IdsInv'
  BY <1>12 DEF BatchFails, LeaveBatch, Lock!ReleaseShared, End, Goto
<1>13. ASSUME NEW r \in Requests, StartBody(r) PROVE IdsInv'
  BY <1>13 DEF StartBody, End, Goto
<1>14. ASSUME NEW r \in Requests, NeverStarts(r) PROVE IdsInv'
  BY <1>14 DEF NeverStarts, Goto
<1>15. ASSUME NEW r \in Requests, Collect(r) PROVE IdsInv'
  BY <1>15 DEF Collect, Goto
<1>16. ASSUME NEW r \in Requests, Resume(r) PROVE IdsInv'
  BY <1>16 DEF Resume, Goto
<1>17. ASSUME NEW r \in Requests, Abandon(r) PROVE IdsInv'
  BY <1>17 DEF Abandon, End, Goto
<1>18. CASE UNCHANGED vars
  BY <1>18 DEF vars, lockVars, dataVars, batchVars, exportVars
<1> QED BY LeavingExclusive, LeavingShared, <1>1, <1>2, <1>3, <1>4, <1>5, <1>6, <1>7, <1>8,
           <1>9, <1>10, <1>11, <1>12, <1>13, <1>14, <1>15, <1>16, <1>17, <1>18
    DEF Next, Done, Exclusive, Shared, Export, Released

\* Every step keeps an export to its snapshot, and to having sent what it read.
LEMMA ExportInvStep == IInv /\ [Next]_vars => ExportInv'
<1> SUFFICES ASSUME TypeOK, ExportInv, PlaceInv, pc \in [Requests -> Labels],
                    read \in [Requests -> SUBSET Ids], sent \in [Requests -> SUBSET Ids],
                    snapshot \in [Requests -> Stores \cup {None}], [Next]_vars
             PROVE  ExportInv'
  BY DEF IInv, TypeOK, Lock!LockTypeOK
<1> USE DEF PlaceInv, ExportInv, Streaming, Present, lockVars, dataVars, batchVars, exportVars
<1>1. ASSUME NEW r \in Requests, Submit(r) PROVE ExportInv'
  BY <1>1 DEF Submit, End, Goto
<1>2. ASSUME NEW r \in Requests, CloseGate(r) PROVE ExportInv'
  BY <1>2 DEF CloseGate, Lock!CloseGate, Goto
<1>3. ASSUME NEW r \in Requests, EnterExclusive(r) PROVE ExportInv'
  BY <1>3 DEF EnterExclusive, Lock!AcquireExclusive, Goto
<1>4. ASSUME NEW r \in Requests, pc[r] = "writing", EngineWrites(r) PROVE ExportInv'
  BY <1>4 DEF EngineWrites, InBatch
<1>5. ASSUME NEW r \in Requests, NEW a, pc[r] = "writing", Leaves(r, a) PROVE ExportInv'
  BY <1>5 DEF Leaves, LeaveExclusive, Lock!ReleaseExclusive, End, Goto
<1>6. ASSUME NEW r \in Requests, EnterShared(r) PROVE ExportInv'
  BY <1>6 DEF EnterShared, Lock!AcquireShared, Goto
<1>7. ASSUME NEW r \in Requests, NEW a, pc[r] = "reading", LeaveShared(r, a) PROVE ExportInv'
  BY <1>7 DEF LeaveShared, Lock!ReleaseShared, End, Goto
<1>8. ASSUME NEW r \in Requests, pc[r] = "reading", OpenExport(r) PROVE ExportInv'
  BY <1>8 DEF OpenExport, Lock!ReleaseShared, Goto
<1>9. ASSUME NEW r \in Requests, EnterBatch(r) PROVE ExportInv'
  BY <1>9 DEF EnterBatch, Lock!AcquireShared, Goto
<1>10. ASSUME NEW r \in Requests, NextBatch(r) PROVE ExportInv'
  <2>1. PICK S \in SUBSET Unread(r) :
          /\ S # {} /\ read' = [read EXCEPT ![r] = @ \cup S]
          /\ IF read[r] = {}
             THEN Goto(r, "responding") /\ UNCHANGED sent
             ELSE Goto(r, "sending") /\ sent' = [sent EXCEPT ![r] = @ \cup S]
    BY <1>10 DEF NextBatch
  <2>2. pc[r] = "batch" /\ UNCHANGED <<snapshot, cursors>>
    BY <1>10 DEF NextBatch, LeaveBatch
  <2>3. CASE read[r] = {}
    BY <2>1, <2>2, <2>3 DEF Goto, Unread
  <2>4. CASE read[r] # {}
    <3>1. /\ read'[r] = read[r] \cup S /\ sent'[r] = sent[r] \cup S
          /\ \A q \in Requests \ {r} : read'[q] = read[q] /\ sent'[q] = sent[q]
      BY <2>1, <2>4
    <3>2. sent[r] = read[r] /\ read'[r] \subseteq Present(snapshot[r]) /\ pc'[r] = "sending"
      BY <2>1, <2>2, <2>4, <3>1 DEF Goto, Unread
    <3>3. \A q \in Requests \ {r} : pc'[q] = pc[q]
      BY <2>1, <2>4 DEF Goto
    <3>4. sent'[r] = read'[r] /\ snapshot'[r] = snapshot[r] /\ pc'[r] # "responding"
      BY <2>2, <3>1, <3>2
    <3>5. \A q \in Requests \ {r} : /\ read'[q] = read[q] /\ sent'[q] = sent[q] /\ pc'[q] = pc[q]
                                   /\ snapshot'[q] = snapshot[q] /\ cursors' = cursors
      BY <2>2, <3>1, <3>3
    <3> QED BY <3>2, <3>4, <3>5
  <2> QED BY <2>3, <2>4
<1>11. ASSUME NEW r \in Requests, LastBatch(r) PROVE ExportInv'
  <2>1. CASE read[r] = {}
    BY <1>11, <2>1 DEF LastBatch, LeaveBatch, Lock!ReleaseShared, End, Goto, Unread
  <2>2. CASE read[r] # {}
    BY <1>11, <2>2 DEF LastBatch, LeaveBatch, Lock!ReleaseShared, End, Goto, Unread
  <2> QED BY <2>1, <2>2
<1>12. ASSUME NEW r \in Requests, BatchFails(r) PROVE ExportInv'
  BY <1>12 DEF BatchFails, LeaveBatch, Lock!ReleaseShared, End, Goto
<1>13. ASSUME NEW r \in Requests, StartBody(r) PROVE ExportInv'
  <2>1. CASE read[r] = {}
    BY <1>13, <2>1 DEF StartBody, End, Goto
  <2>2. CASE read[r] # {}
    BY <1>13, <2>2 DEF StartBody, End, Goto
  <2> QED BY <2>1, <2>2
<1>14. ASSUME NEW r \in Requests, NeverStarts(r) PROVE ExportInv'
  BY <1>14 DEF NeverStarts, Goto
<1>15. ASSUME NEW r \in Requests, Collect(r) PROVE ExportInv'
  BY <1>15 DEF Collect, Goto
<1>16. ASSUME NEW r \in Requests, Resume(r) PROVE ExportInv'
  BY <1>16 DEF Resume, Goto
<1>17. ASSUME NEW r \in Requests, Abandon(r) PROVE ExportInv'
  BY <1>17 DEF Abandon, End, Goto
<1>18. CASE UNCHANGED vars
  BY <1>18 DEF vars, lockVars, dataVars, batchVars, exportVars
<1> QED BY LeavingExclusive, LeavingShared, <1>1, <1>2, <1>3, <1>4, <1>5, <1>6, <1>7, <1>8,
           <1>9, <1>10, <1>11, <1>12, <1>13, <1>14, <1>15, <1>16, <1>17, <1>18
    DEF Next, Done, Exclusive, Shared, Export, Released

\* Every step leaves a cursor only with an export that goes on.
LEMMA CursorsAreAccountedForStep == IInv /\ [Next]_vars => CursorsAreAccountedFor'
<1> SUFFICES ASSUME TypeOK, PlaceInv, ExportInv, CursorsAreAccountedFor,
                    pc \in [Requests -> Labels], cursors \subseteq Requests, [Next]_vars
             PROVE  CursorsAreAccountedFor'
  BY DEF IInv, TypeOK, Lock!LockTypeOK
<1> USE DEF CursorsAreAccountedFor, ExportInv, PlaceInv, Streaming, lockVars, dataVars,
           batchVars, exportVars
<1>1. ASSUME NEW r \in Requests, Submit(r) PROVE CursorsAreAccountedFor'
  BY <1>1 DEF Submit, End, Goto
<1>2. ASSUME NEW r \in Requests, CloseGate(r) PROVE CursorsAreAccountedFor'
  BY <1>2 DEF CloseGate, Lock!CloseGate, Goto
<1>3. ASSUME NEW r \in Requests, EnterExclusive(r) PROVE CursorsAreAccountedFor'
  BY <1>3 DEF EnterExclusive, Lock!AcquireExclusive, Goto
<1>4. ASSUME NEW r \in Requests, pc[r] = "writing", EngineWrites(r)
      PROVE CursorsAreAccountedFor'
  BY <1>4 DEF EngineWrites, InBatch
<1>5. ASSUME NEW r \in Requests, NEW a, pc[r] = "writing", Leaves(r, a)
      PROVE CursorsAreAccountedFor'
  BY <1>5 DEF Leaves, LeaveExclusive, Lock!ReleaseExclusive, End, Goto
<1>6. ASSUME NEW r \in Requests, EnterShared(r) PROVE CursorsAreAccountedFor'
  BY <1>6 DEF EnterShared, Lock!AcquireShared, Goto
<1>7. ASSUME NEW r \in Requests, NEW a, pc[r] = "reading", LeaveShared(r, a)
      PROVE CursorsAreAccountedFor'
  BY <1>7 DEF LeaveShared, Lock!ReleaseShared, End, Goto
<1>8. ASSUME NEW r \in Requests, pc[r] = "reading", OpenExport(r) PROVE CursorsAreAccountedFor'
  BY <1>8 DEF OpenExport, Lock!ReleaseShared, Goto
<1>9. ASSUME NEW r \in Requests, EnterBatch(r) PROVE CursorsAreAccountedFor'
  BY <1>9 DEF EnterBatch, Lock!AcquireShared, Goto
<1>10. ASSUME NEW r \in Requests, NextBatch(r) PROVE CursorsAreAccountedFor'
  BY <1>10 DEF NextBatch, LeaveBatch, Lock!ReleaseShared, Goto, Unread
<1>11. ASSUME NEW r \in Requests, LastBatch(r) PROVE CursorsAreAccountedFor'
  <2>1. CASE read[r] = {}
    BY <1>11, <2>1 DEF LastBatch, LeaveBatch, Lock!ReleaseShared, End, Goto, Unread
  <2>2. CASE read[r] # {}
    BY <1>11, <2>2 DEF LastBatch, LeaveBatch, Lock!ReleaseShared, End, Goto, Unread
  <2> QED BY <2>1, <2>2
<1>12. ASSUME NEW r \in Requests, BatchFails(r) PROVE CursorsAreAccountedFor'
  BY <1>12 DEF BatchFails, LeaveBatch, Lock!ReleaseShared, End, Goto
<1>13. ASSUME NEW r \in Requests, StartBody(r) PROVE CursorsAreAccountedFor'
  <2>1. CASE read[r] = {}
    BY <1>13, <2>1 DEF StartBody, End, Goto
  <2>2. CASE read[r] # {}
    BY <1>13, <2>2 DEF StartBody, End, Goto
  <2> QED BY <2>1, <2>2
<1>14. ASSUME NEW r \in Requests, NeverStarts(r) PROVE CursorsAreAccountedFor'
  BY <1>14 DEF NeverStarts, Goto
<1>15. ASSUME NEW r \in Requests, Collect(r) PROVE CursorsAreAccountedFor'
  BY <1>15 DEF Collect, Goto
<1>16. ASSUME NEW r \in Requests, Resume(r) PROVE CursorsAreAccountedFor'
  BY <1>16 DEF Resume, Goto
<1>17. ASSUME NEW r \in Requests, Abandon(r) PROVE CursorsAreAccountedFor'
  BY <1>17 DEF Abandon, End, Goto
<1>18. CASE UNCHANGED vars
  BY <1>18 DEF vars, lockVars, dataVars, batchVars, exportVars
<1> QED BY LeavingExclusive, LeavingShared, <1>1, <1>2, <1>3, <1>4, <1>5, <1>6, <1>7, <1>8,
           <1>9, <1>10, <1>11, <1>12, <1>13, <1>14, <1>15, <1>16, <1>17, <1>18
    DEF Next, Done, Exclusive, Shared, Export, Released

-----------------------------------------------------------------------------
(* The progress of a batch.                                                 *)

\* Nothing written yet.
LEMMA TrailStarts ==
  ASSUME NEW r, NEW o, NEW d, NEW s
  PROVE  /\ \E f : IsTrail(f, r, o, d, s, <<>>)
         /\ \A f : IsTrail(f, r, o, d, s, <<>>) => f[0] = d
<1>1. Len(<<>>) = 0 /\ 0..0 = {0}
  OBVIOUS
<1>2. IsTrail([n \in 0..0 |-> d], r, o, d, s, <<>>)
  BY <1>1 DEF IsTrail
<1>3. ASSUME NEW f, IsTrail(f, r, o, d, s, <<>>) PROVE f[0] = d
  BY <1>1, <1>3 DEF IsTrail
<1> QED BY <1>2, <1>3

\* A trail can be continued by one more document, and one that has been is the
\* trail of the documents before, and one more step.
LEMMA TrailGrows ==
  ASSUME NEW r, NEW o, NEW d, NEW s, NEW a \in Seq(BOOLEAN), NEW ok \in BOOLEAN
  PROVE  /\ \A f : IsTrail(f, r, o, d, s, a) => \E g : IsTrail(g, r, o, d, s, Append(a, ok))
         /\ \A g : IsTrail(g, r, o, d, s, Append(a, ok)) =>
              \E f : /\ IsTrail(f, r, o, d, s, a)
                     /\ \A n \in 0..Len(a) : g[n] = f[n]
                     /\ g[Len(a) + 1] = IF ok THEN Put(r, o, f[Len(a)], s[Len(a) + 1]) ELSE f[Len(a)]
<1> DEFINE k == Len(a)
           b == Append(a, ok)
           Next1(e) == IF ok THEN Put(r, o, e, s[k + 1]) ELSE e
<1>1. /\ k \in Nat /\ Len(b) = k + 1 /\ b[k + 1] = ok
      /\ \A n \in 1..k : b[n] = a[n]
  BY AppendProperties, LenProperties
<1> HIDE DEF b, k
<1>2. ASSUME NEW f, IsTrail(f, r, o, d, s, a)
      PROVE  \E g : IsTrail(g, r, o, d, s, b)
  <2> DEFINE g == [n \in 0..(k + 1) |-> IF n = k + 1 THEN Next1(f[k]) ELSE f[n]]
  <2>1. \A n \in 0..k : f[n] = IF n = 0 THEN d
                               ELSE IF a[n] THEN Put(r, o, f[n - 1], s[n]) ELSE f[n - 1]
    BY <1>2 DEF IsTrail, k
  <2>2. \A n \in 0..(k + 1) : g[n] = IF n = 0 THEN d
                                     ELSE IF b[n] THEN Put(r, o, g[n - 1], s[n]) ELSE g[n - 1]
    <3>1. ASSUME NEW n \in 1..k
          PROVE  g[n] = IF b[n] THEN Put(r, o, g[n - 1], s[n]) ELSE g[n - 1]
      BY <1>1, <2>1
    <3>2. g[k + 1] = IF b[k + 1] THEN Put(r, o, g[k], s[k + 1]) ELSE g[k]
      BY <1>1
    <3>3. g[0] = d
      BY <1>1, <2>1
    <3> HIDE DEF g, Next1
    <3> QED BY <1>1, <3>1, <3>2, <3>3
  <2>3. g = [n \in 0..(k + 1) |-> g[n]]
    OBVIOUS
  <2> HIDE DEF g
  <2> QED BY <1>1, <2>2, <2>3 DEF IsTrail
<1>3. ASSUME NEW g, IsTrail(g, r, o, d, s, b)
      PROVE  \E f : /\ IsTrail(f, r, o, d, s, a)
                    /\ \A n \in 0..k : g[n] = f[n]
                    /\ g[k + 1] = Next1(f[k])
  <2> DEFINE f == [n \in 0..k |-> g[n]]
  <2>1. \A n \in 0..(k + 1) : g[n] = IF n = 0 THEN d
                                     ELSE IF b[n] THEN Put(r, o, g[n - 1], s[n]) ELSE g[n - 1]
    BY <1>1, <1>3 DEF IsTrail
  <2>2. \A n \in 0..k : f[n] = IF n = 0 THEN d
                               ELSE IF a[n] THEN Put(r, o, f[n - 1], s[n]) ELSE f[n - 1]
    BY <1>1, <2>1
  <2>3. IsTrail(f, r, o, d, s, a)
    <3>1. f = [n \in 0..k |-> f[n]]
      OBVIOUS
    <3> HIDE DEF f
    <3> QED BY <2>2, <3>1 DEF IsTrail, k
  <2>4. g[k + 1] = Next1(f[k])
    BY <1>1, <2>1
  <2> QED BY <2>3, <2>4
<1> QED BY <1>2, <1>3 DEF k, b

\* Every step keeps to the batch of the writer, if there is one.
LEMMA BatchQuiet ==
  ASSUME IInv, NEW r \in Requests,
         pc[r] # "writing", pc'[r] # "writing",
         \A q \in Requests \ {r} : pc'[q] = pc[q] /\ asked'[q] = asked[q],
         UNCHANGED <<opened, docs, batchVars>>
  PROVE  BatchInv' /\ TrailInv'
<1> USE DEF batchVars
<1>1. BatchInv'
  BY DEF IInv, BatchInv, InBatch
<1>2. TrailInv'
  BY DEF IInv, TrailInv
<1> QED BY <1>1, <1>2

\* Every step leaves the writer's batch where its statuses say: it begins with
\* none, each document adds one, and it is gone when the lock is let go.
LEMMA BatchStep == IInv /\ [Next]_vars => BatchInv' /\ TrailInv'
<1> SUFFICES ASSUME IInv, [Next]_vars PROVE BatchInv' /\ TrailInv'
  OBVIOUS
<1>0. /\ pc \in [Requests -> Labels] /\ asked \in [Requests -> Bodies \cup {None}]
      /\ ids \in [Requests -> Batches(Ids)] /\ oks \in [Requests -> Batches(BOOLEAN)]
      /\ docs \in Stores
  BY DEF IInv, TypeOK
<1>1. ASSUME NEW r \in Requests, Submit(r) \/ CloseGate(r) \/ Shared(r) \/ Export(r)
      PROVE  BatchInv' /\ TrailInv'
  BY <1>1, QuietSteps, BatchQuiet DEF IInv
<1>2. ASSUME NEW r \in Requests, EnterExclusive(r) PROVE BatchInv' /\ TrailInv'
  <2>1. PICK s \in Resolve(asked[r]) : ids' = [ids EXCEPT ![r] = s]
    BY <1>2 DEF EnterExclusive
  <2>2. /\ pc[r] = "gated" /\ pc'[r] = "writing" /\ before' = docs
        /\ \A q \in Requests \ {r} : pc'[q] = pc[q]
        /\ UNCHANGED <<asked, opened, docs, oks>>
    BY <1>0, <1>2 DEF EnterExclusive, Goto, dataVars
  <2>3. asked[r] \in Bodies /\ asked[r].op \in ExclusiveOps
    BY <1>0, <2>2 DEF IInv, PlaceInv, AtLock
  <2>4. oks[r] = <<>> /\ Len(oks[r]) = 0 /\ ids'[r] = s
    BY <1>0, <2>1, <2>2 DEF IInv, BatchInv
  <2>5. \A q \in Requests \ {r} : pc'[q] # "writing" /\ ids'[q] = ids[q] /\ oks'[q] = oks[q]
    BY <1>0, <1>2, <2>1, <2>2, ValuesAssumption
       DEF IInv, LockInv, EnterExclusive, Lock!AcquireExclusive
  <2>6. asked[r].ids # None => s \in Store!Resolved(asked[r], docs)
    <3> SUFFICES ASSUME asked[r].ids # None PROVE s \in Store!Resolved(asked[r], docs)
      OBVIOUS
    <3>1. /\ s \in Batches(Ids) /\ Len(s) = Len(asked[r].ids)
          /\ \A n \in DOMAIN s : IF asked[r].ids[n] # None THEN s[n] = asked[r].ids[n]
                                 ELSE s[n] \in Fresh \ generated
      BY <2>3, ResolvedIds
    <3>2. \A n, m \in DOMAIN s : n # m /\ asked[r].ids[n] = None => s[n] # s[m]
      BY <2>1 DEF Resolve
    <3>3. Fresh \ generated \subseteq Fresh \ Present(docs)
      BY IdsAssumption DEF IInv, IdsInv, Taken
    <3>4. \A n \in DOMAIN s :
            \/ s[n] = asked[r].ids[n]
            \/ asked[r].ids[n] = None /\ s[n] \in Fresh \ Present(docs)
      BY <3>1, <3>3
    <3> QED BY <3>1, <3>2, <3>4
               DEF Store!Resolved, Store!Batches, Store!Ids, Store!Present, Batches, Ids,
                   Present
  <2>7. Len(s) \in Nat
    BY <2>3, ResolvedIds, BatchElements
  <2>8. BatchInv'
    BY <2>2, <2>4, <2>5, <2>6, <2>7 DEF IInv, BatchInv
  <2>9. TrailInv'
    <3> SUFFICES ASSUME NEW q \in Requests, pc'[q] = "writing"
                 PROVE  /\ \E f : IsTrail(f, q, asked'[q].op, before', ids'[q], oks'[q])
                        /\ \A f : IsTrail(f, q, asked'[q].op, before', ids'[q], oks'[q]) =>
                             /\ f[Len(oks'[q])] = docs'
                             /\ \A n \in DOMAIN oks'[q] :
                                  oks'[q][n] => Accepts(asked'[q].op, f[n - 1][ids'[q][n]] # None)
      BY DEF TrailInv
    <3>1. q = r /\ oks'[q] = <<>> /\ Len(oks'[q]) = 0 /\ DOMAIN oks'[q] = {} /\ before' = docs'
      BY <2>2, <2>4, <2>5
    <3> QED BY <3>1, TrailStarts
  <2> QED BY <2>8, <2>9
<1>3. ASSUME NEW r \in Requests, pc[r] = "writing", EngineWrites(r) PROVE BatchInv' /\ TrailInv'
  <2> DEFINE a == oks[r]
             s == ids[r]
             o == asked[r].op
  <2>1. PICK ok \in BOOLEAN : /\ ok => Accepts(o, docs[s[Len(a) + 1]] # None)
                              /\ docs' = IF ok THEN Put(r, o, docs, s[Len(a) + 1]) ELSE docs
                              /\ oks' = [oks EXCEPT ![r] = Append(a, ok)]
    BY <1>3 DEF EngineWrites
  <2>2. a \in Seq(BOOLEAN) /\ Len(a) \in Nat /\ Len(s) \in Nat /\ s \in Batches(Ids)
    BY <1>0, BatchElements
  <2>3. /\ InBatch(r) /\ Len(a) < Len(s)
        /\ UNCHANGED <<pc, asked, opened, before, ids>>
    BY <1>3 DEF EngineWrites
  <2>4. /\ oks'[r] = Append(a, ok)
        /\ \A q \in Requests \ {r} : oks'[q] = oks[q] /\ pc[q] # "writing"
    BY <1>0, <1>3, <2>1, ValuesAssumption DEF IInv, LockInv
  <2>5. Len(oks'[r]) = Len(a) + 1
    BY <2>2, <2>4, AppendProperties
  <2>6. BatchInv'
    BY <1>3, <2>2, <2>3, <2>4, <2>5 DEF IInv, BatchInv, InBatch
  <2>7. TrailInv'
    <3>1. /\ \E f : IsTrail(f, r, o, before, s, a)
          /\ \A f : IsTrail(f, r, o, before, s, a) =>
               /\ f[Len(a)] = docs
               /\ \A n \in DOMAIN a : a[n] => Accepts(o, f[n - 1][s[n]] # None)
      BY <1>3 DEF IInv, TrailInv
    <3>2. \E g : IsTrail(g, r, o, before, s, Append(a, ok))
      BY <2>2, <3>1, TrailGrows
    <3>3. ASSUME NEW g, IsTrail(g, r, o, before, s, Append(a, ok))
          PROVE  /\ g[Len(a) + 1] = docs'
                 /\ \A n \in DOMAIN Append(a, ok) :
                      Append(a, ok)[n] => Accepts(o, g[n - 1][s[n]] # None)
      <4>1. PICK f : /\ IsTrail(f, r, o, before, s, a)
                     /\ \A n \in 0..Len(a) : g[n] = f[n]
                     /\ g[Len(a) + 1] = IF ok THEN Put(r, o, f[Len(a)], s[Len(a) + 1]) ELSE f[Len(a)]
        <5>1. a \in Seq(BOOLEAN) /\ ok \in BOOLEAN /\ IsTrail(g, r, o, before, s, Append(a, ok))
          BY <2>2, <3>3
        <5> HIDE DEF a, s, o
        <5>2. \A h : IsTrail(h, r, o, before, s, Append(a, ok)) =>
                \E f : /\ IsTrail(f, r, o, before, s, a)
                       /\ \A n \in 0..Len(a) : h[n] = f[n]
                       /\ h[Len(a) + 1] = IF ok THEN Put(r, o, f[Len(a)], s[Len(a) + 1]) ELSE f[Len(a)]
          BY <5>1, TrailGrows
        <5> QED BY <5>1, <5>2
      <4>2. f[Len(a)] = docs /\ g[Len(a)] = docs
        BY <2>2, <3>1, <4>1
      <4>3. g[Len(a) + 1] = docs'
        BY <2>1, <4>1, <4>2
      <4>4. ASSUME NEW n \in 1..Len(a), a[n] PROVE Accepts(o, g[n - 1][s[n]] # None)
        <5>1. n \in DOMAIN a /\ n - 1 \in 0..Len(a)
          BY <2>2, LenProperties
        <5> QED BY <3>1, <4>1, <4>4, <5>1
      <4>5. ok => Accepts(o, g[Len(a)][s[Len(a) + 1]] # None)
        BY <2>1, <4>2
      <4>6. /\ DOMAIN Append(a, ok) = 1..(Len(a) + 1)
            /\ Append(a, ok)[Len(a) + 1] = ok
            /\ \A n \in 1..Len(a) : Append(a, ok)[n] = a[n]
        BY <2>2, AppendProperties, LenProperties
      <4>7. ASSUME NEW n \in DOMAIN Append(a, ok), Append(a, ok)[n]
            PROVE  Accepts(o, g[n - 1][s[n]] # None)
        <5>1. CASE n \in 1..Len(a)
          BY <4>4, <4>6, <4>7, <5>1
        <5>2. CASE n = Len(a) + 1
          BY <2>2, <4>5, <4>6, <4>7, <5>2
        <5> QED BY <2>2, <4>6, <4>7, <5>1, <5>2
      <4> QED BY <4>3, <4>7
    <3> SUFFICES ASSUME NEW q \in Requests, pc'[q] = "writing"
                 PROVE  /\ \E f : IsTrail(f, q, asked'[q].op, before', ids'[q], oks'[q])
                        /\ \A f : IsTrail(f, q, asked'[q].op, before', ids'[q], oks'[q]) =>
                             /\ f[Len(oks'[q])] = docs'
                             /\ \A n \in DOMAIN oks'[q] :
                                  oks'[q][n] => Accepts(asked'[q].op, f[n - 1][ids'[q][n]] # None)
      BY DEF TrailInv
    <3>4. /\ q = r /\ asked'[q].op = o /\ before' = before /\ ids'[q] = s
          /\ oks'[q] = Append(a, ok) /\ Len(oks'[q]) = Len(a) + 1
      BY <2>3, <2>4, <2>5
    <3> HIDE DEF a, s, o
    <3> QED BY <3>2, <3>3, <3>4
  <2> QED BY <2>6, <2>7
<1>4. ASSUME NEW r \in Requests, NEW a, pc[r] = "writing", Leaves(r, a)
      PROVE BatchInv' /\ TrailInv'
  <2>1. \A q \in Requests : pc'[q] # "writing"
    BY <1>0, <1>4, ValuesAssumption DEF IInv, LockInv, Leaves, LeaveExclusive, End, Goto
  <2>2. \A q \in Requests : ids'[q] = <<>> /\ oks'[q] = <<>>
    BY <1>0, <1>4, ValuesAssumption DEF IInv, LockInv, BatchInv, Leaves, LeaveExclusive
  <2> QED BY <2>1, <2>2 DEF BatchInv, TrailInv
<1>5. CASE UNCHANGED vars
  BY <1>5 DEF IInv, BatchInv, TrailInv, InBatch, vars, lockVars, dataVars, batchVars
<1> QED BY LeavingExclusive, <1>1, <1>2, <1>3, <1>4, <1>5
           DEF IInv, Next, Done, Exclusive, Released

-----------------------------------------------------------------------------
\* Nobody has asked for anything yet.
LEMMA InvariantInit == Init => IInv
<1> SUFFICES ASSUME Init PROVE IInv
  OBVIOUS
<1> USE DEF Init, Lock!LockInit
<1>1. docs \in Stores /\ Present(docs) \subseteq Given
  <2>1. PICK S \in SUBSET Given : docs = [i \in Ids |-> IF i \in S THEN Old ELSE None]
    OBVIOUS
  <2> QED BY <2>1 DEF Stores, Values, Present
<1>2. Empty \in Stores /\ Present(Empty) = {} /\ <<>> \in Batches(Ids) /\ <<>> \in Batches(BOOLEAN)
  BY EmptyIsStore, EmptyBatch
<1>3. TypeOK
  BY <1>1, <1>2 DEF TypeOK, Lock!LockTypeOK, Labels
<1>4. PlaceInv
  BY DEF PlaceInv, AtLock, Streaming
<1>5. LockInv
  BY ValuesAssumption DEF LockInv, Lock!Exclusion
<1>6. IdsInv
  <2>1. DOMAIN <<>> = {}
    OBVIOUS
  <2> QED BY <1>1, <1>2, <2>1 DEF IdsInv, Taken
<1>7. BatchInv /\ TrailInv /\ ExportInv
  BY DEF BatchInv, TrailInv, ExportInv, Streaming
<1>8. CursorsAreAccountedFor
  BY DEF CursorsAreAccountedFor
<1> QED BY <1>3, <1>4, <1>5, <1>6, <1>7, <1>8 DEF IInv

\* The invariant holds for every set of requests, ids and sizes of batches.
THEOREM Invariance == Spec => []IInv
<1>1. IInv /\ [Next]_vars => IInv'
  BY TypeOKStep, PlaceInvStep, LockInvStep, IdsInvStep, BatchStep, ExportInvStep,
     CursorsAreAccountedForStep DEF IInv
<1> QED BY InvariantInit, <1>1, PTL DEF Spec

\* Every request, document and batch is of its type at all times; that includes
\* that ids resolved for a write are ids (to_zvec_docs) and that no batch gets
\* more statuses than documents.
THEOREM TypeCorrect == Spec => []TypeOK
<1>1. IInv => TypeOK
  BY DEF IInv
<1> QED BY <1>1, Invariance, PTL

\* A snapshot cursor outlives its export only until it is collected, and the
\* collection never (ManagedCollection.cursors, stream's finally and drop).
THEOREM CursorsAccountedFor == Spec => []CursorsAreAccountedFor
<1>1. IInv => CursorsAreAccountedFor
  BY DEF IInv
<1> QED BY <1>1, Invariance, PTL

-----------------------------------------------------------------------------
(* Documents implements DocumentStore.                                      *)

\* The store as the clients know it.
Committed == IF writer = None THEN docs ELSE before

\* Both modules speak of the same documents.
LEMMA SameModels ==
  /\ Store!Ids = Ids /\ Store!Bodies = Bodies /\ Store!Stores = Stores
  /\ Store!WriteOps = WriteOps /\ Store!EngineErrors = EngineErrors /\ Store!Errors = Errors
  /\ Store!Empty = Empty
  /\ \A b : Store!Valid(b) = Valid(b)
  /\ \A d, S : Store!Only(d, S) = Only(d, S)
  /\ \A d : Store!Present(d) = Present(d)
  /\ \A d, v : Store!Matching(d, v) = Matching(d, v)
<1> USE DEF Store!Ids, Ids, Store!Batches, Batches, Store!Values, Values, Store!WriteOps,
           WriteOps
<1>1. Store!Bodies = Bodies
  BY DEF Store!Bodies, Bodies, Store!Body, Body
<1>2. Store!Stores = Stores /\ Store!Empty = Empty
  BY DEF Store!Stores, Stores, Store!Empty, Empty
<1>3. Store!EngineErrors = EngineErrors /\ Store!Errors = Errors
  BY DEF Store!EngineErrors, EngineErrors, Store!Errors, Errors
<1>4. \A b : Store!Valid(b) = Valid(b)
  BY DEF Store!Valid, Valid
<1>5. /\ \A d, S : Store!Only(d, S) = Only(d, S)
      /\ \A d : Store!Present(d) = Present(d)
      /\ \A d, v : Store!Matching(d, v) = Matching(d, v)
  BY DEF Store!Only, Only, Store!Present, Present, Store!Matching, Matching
<1> QED BY <1>1, <1>2, <1>3, <1>4, <1>5

\* And of the same answers.
LEMMA SameAnswers ==
  /\ \A c : Store!Plain(c) = Plain(c)
  /\ \A d : Store!Docs(d) = Docs(d)
  /\ \A d, w : Store!Exported(d, w) = Exported(d, w)
  /\ \A s, a : Store!Results(s, a) = Results(s, a)
BY DEF Store!Plain, Plain, Store!Docs, Docs, Store!Exported, Exported, Store!Results, Results

\* What a batch does according to its clients is its trail.
LEMMA EffectIsTrail ==
  ASSUME NEW r, NEW o, NEW d, NEW s, NEW a, \E f : IsTrail(f, r, o, d, s, a)
  PROVE  IsTrail(Store!Effect(r, o, d, s, a), r, o, d, s, a)
<1>1. Store!Effect(r, o, d, s, a) = CHOOSE f : IsTrail(f, r, o, d, s, a)
  BY DEF Store!Effect, IsTrail, Store!Put, Put
<1> QED BY <1>1

\* All the documents of a store are that store.
LEMMA OnlyAll ==
  ASSUME NEW d \in Stores, NEW S, Present(d) \subseteq S
  PROVE  Only(d, S) = d
BY DEF Stores, Only, Present

\* A request that has written nothing found the documents it leaves.
LEMMA NothingWritten ==
  ASSUME IInv, NEW r \in Requests, pc[r] = "writing", oks[r] = <<>>
  PROVE  docs = before
<1>1. PICK f : IsTrail(f, r, asked[r].op, before, ids[r], <<>>) /\ f[Len(<<>>)] = docs
  BY DEF IInv, TrailInv
<1>2. Len(<<>>) = 0
  OBVIOUS
<1> QED BY <1>1, <1>2, TrailStarts

\* A request waits for its answer until it has ended.
LEMMA Waiting ==
  ASSUME IInv, NEW r \in Requests, pc[r] \notin {"new", "ended", "stranded"}
  PROVE  asked[r] \in Bodies /\ asked[r] # None /\ answer[r] = None
<1>1. asked[r] \in Bodies \cup {None}
  BY DEF IInv, TypeOK
<1> QED BY <1>1 DEF IInv, PlaceInv

\* A request arrives: Submit is the client's Ask.
LEMMA Arriving ==
  ASSUME IInv, NEW r \in Requests, Submit(r)
  PROVE  Store!Ask(r)
<1> USE SameModels, SameAnswers
<1>1. PICK b \in Bodies :
        /\ asked' = [asked EXCEPT ![r] = b]
        /\ \/ ~Valid(b) /\ answer' = [answer EXCEPT ![r] = Plain("validation_error")]
           \/ Valid(b) /\ ~opened /\ answer' = [answer EXCEPT ![r] = Plain("collection_unavailable")]
           \/ Valid(b) /\ UNCHANGED answer
  BY DEF Submit, End, Unavailable
<1>2. b # None
  BY BodyFields
<1>3. asked[r] = None /\ asked'[r] = b
  BY <1>1 DEF IInv, PlaceInv, TypeOK, Submit
<1>4. UNCHANGED <<Committed, opened, snapshot>>
  BY DEF Submit, Committed, lockVars, dataVars, batchVars, exportVars
<1>5. asked' = [asked EXCEPT ![r] = asked'[r]] /\ asked'[r] \in Store!Bodies /\ asked'[r] # None
  <2>1. asked' = [asked EXCEPT ![r] = b]
    BY <1>1
  <2>2. asked' = [asked EXCEPT ![r] = asked'[r]]
    BY <1>3, <2>1
  <2> QED BY <1>2, <1>3, <2>2
<1>6. \/ Store!Valid(asked'[r]) /\ UNCHANGED answer
      \/ Store!Valid(asked'[r]) /\ ~opened /\ Store!Reply(r, Store!Plain("collection_unavailable"))
      \/ ~Store!Valid(asked'[r]) /\ Store!Reply(r, Store!Plain("validation_error"))
  BY <1>1, <1>3 DEF Store!Reply
<1> QED BY <1>3, <1>4, <1>5, <1>6 DEF Store!Ask, Committed

\* What is known of a request that leaves the exclusive lock.
LEMMA Committing ==
  ASSUME IInv, NEW r \in Requests, NEW a, pc[r] = "writing", LeaveExclusive(r, a)
  PROVE  /\ Committed = before /\ Committed' = docs'
         /\ asked[r] # None /\ answer[r] = None
         /\ answer' = [answer EXCEPT ![r] = a]
         /\ UNCHANGED <<asked, snapshot>>
<1>1. writer = r /\ writer' = None
  BY DEF IInv, LockInv, LeaveExclusive, Lock!ReleaseExclusive
<1> QED BY <1>1, Waiting, ValuesAssumption DEF Committed, LeaveExclusive, End, exportVars

\* What is known of a request that leaves the shared lock.
LEMMA Answering ==
  ASSUME IInv, NEW r \in Requests, NEW a, pc[r] = "reading", LeaveShared(r, a)
  PROVE  /\ Committed = docs /\ UNCHANGED <<Committed, opened, asked, snapshot>>
         /\ asked[r] # None /\ answer[r] = None
         /\ answer' = [answer EXCEPT ![r] = a]
<1>1. writer = None
  BY DEF IInv, LockInv, Lock!Exclusion
<1>2. UNCHANGED <<writer, docs, opened, before, asked, snapshot>>
  BY DEF LeaveShared, Lock!ReleaseShared, dataVars, batchVars, exportVars
<1> QED BY <1>1, <1>2, Waiting DEF Committed, LeaveShared, End

\* Under the exclusive lock, a request happens for its clients when it lets go.
\* A batch does so as far as its statuses go.
LEMMA BatchAnswers ==
  ASSUME IInv, NEW r \in Requests, pc[r] = "writing", RespondWrite(r) \/ WriteFails(r)
  PROVE  Store!Write(r)
<1> DEFINE o == asked[r].op
           s == ids[r]
           a == oks[r]
           eff == Store!Effect(r, o, before, s, a)
<1>1. PICK m : /\ LeaveExclusive(r, m)
               /\ \/ Len(a) = Len(s) /\ m = Results(s, a)
                  \/ \E e \in EngineErrors : m = Plain(e)
  BY DEF RespondWrite, WriteFails
<1>2. InBatch(r) /\ UNCHANGED <<opened, docs>>
  BY DEF RespondWrite, WriteFails, dataVars
<1>3. /\ Committed = before /\ Committed' = docs
      /\ Store!Pending(r, WriteOps \cup {"delete"})
      /\ answer' = [answer EXCEPT ![r] = m] /\ UNCHANGED <<asked, snapshot>>
  BY <1>1, <1>2, Committing DEF InBatch, Store!Pending
<1>4. s \in Store!Resolved(asked[r], before) /\ Len(a) <= Len(s)
  BY <1>2 DEF IInv, BatchInv, InBatch
<1>5. a \in [1..Len(a) -> BOOLEAN] /\ Len(a) \in Nat /\ Len(s) \in Nat /\ DOMAIN a = 1..Len(a)
  BY BatchElements, LenProperties DEF IInv, TypeOK
<1>6. Len(a) \in 0..Len(s)
  BY <1>4, <1>5
<1>7. /\ \E f : IsTrail(f, r, o, before, s, a)
      /\ \A f : IsTrail(f, r, o, before, s, a) =>
           /\ f[Len(a)] = docs
           /\ \A n \in DOMAIN a : a[n] => Accepts(o, f[n - 1][s[n]] # None)
  BY DEF IInv, TrailInv
<1>8. IsTrail(eff, r, o, before, s, a)
  BY <1>7, EffectIsTrail
<1>9. eff[Len(a)] = docs /\ \A n \in DOMAIN a : a[n] => Accepts(o, eff[n - 1][s[n]] # None)
  BY <1>7, <1>8
<1>10. Store!Legal(r, o, before, s, a)
  BY <1>9 DEF Store!Legal, Store!Accepts, Accepts
<1>11. \/ Len(a) = Len(s) /\ Store!Reply(r, Store!Results(s, a))
       \/ \E e \in Store!EngineErrors : Store!Reply(r, Store!Plain(e))
  BY <1>1, <1>3, SameModels, SameAnswers DEF Store!Reply
<1> HIDE DEF o, s, a, eff
<1>12. \E t \in Store!Resolved(asked[r], Committed) : \E k \in 0..Len(t) : \E b \in [1..k -> BOOLEAN] :
         /\ Store!Legal(r, o, Committed, t, b)
         /\ Committed' = Store!Effect(r, o, Committed, t, b)[k]
         /\ \/ k = Len(t) /\ Store!Reply(r, Store!Results(t, b))
            \/ \E e \in Store!EngineErrors : Store!Reply(r, Store!Plain(e))
  BY <1>3, <1>4, <1>5, <1>6, <1>9, <1>10, <1>11 DEF eff
<1> QED BY <1>2, <1>3, <1>12, SameModels DEF Store!Write, InBatch, Committed, o

\* A request that is refused, that does not convert or that the engine will not
\* drop the collection for leaves no trace but its answer.
LEMMA NothingDone ==
  ASSUME IInv, NEW r \in Requests, pc[r] = "writing",
         \/ RefuseExclusive(r) \/ ConversionFails(r)
         \/ Drop(r) /\ UNCHANGED <<opened, docs>> /\ LeaveExclusive(r, Plain("zvec_operation_error"))
  PROVE  Store!Unavailable(r) \/ Store!Fail(r)
<1>1. PICK a : /\ LeaveExclusive(r, a) /\ UNCHANGED <<opened, docs>>
               /\ \/ ~opened /\ a = Plain("collection_unavailable")
                  \/ \E e \in Errors : a = Plain(e)
  BY DEF RefuseExclusive, ConversionFails, Unavailable, dataVars, Errors, EngineErrors
<1>2. oks[r] = <<>>
  BY DEF IInv, BatchInv, InBatch, RefuseExclusive, ConversionFails, Drop, WriteOps
<1>3. UNCHANGED <<Committed, opened, asked, snapshot>> /\ asked[r] # None /\ answer[r] = None
  BY <1>1, <1>2, Committing, NothingWritten
<1>4. answer' = [answer EXCEPT ![r] = a]
  BY <1>1, Committing
<1> QED BY <1>1, <1>3, <1>4, SameModels, SameAnswers
    DEF Store!Unavailable, Store!Fail, Store!Reply, Committed

\* A delete by filter takes effect, whole or in part, when it lets go.
LEMMA FilterDeletes ==
  ASSUME IInv, NEW r \in Requests, pc[r] = "writing", DeleteByFilter(r)
  PROVE  Store!DeleteByFilter(r)
<1> DEFINE Applied(S, a) ==
             /\ docs' = Only(docs, Ids \ S) /\ LeaveExclusive(r, a)
             /\ \/ S = Matching(docs, asked[r].filter) /\ a = Plain("ok")
                \/ \E e \in EngineErrors : a = Plain(e)
<1>0. PICK S \in SUBSET Matching(docs, asked[r].filter) : \E a : Applied(S, a)
  BY DEF DeleteByFilter
<1>1. PICK a : Applied(S, a)
  BY <1>0
<1>2. opened /\ asked[r].op = "delete" /\ asked[r].ids = None /\ UNCHANGED opened
  BY DEF DeleteByFilter
<1>3. docs = before
  BY <1>2, NothingWritten DEF IInv, BatchInv, InBatch
<1>4. /\ Committed = docs /\ Committed' = docs'
      /\ Store!Pending(r, {"delete"}) /\ UNCHANGED <<asked, snapshot>>
      /\ answer' = [answer EXCEPT ![r] = a]
  BY <1>1, <1>2, <1>3, Committing DEF Store!Pending
<1>5. \E T \in SUBSET Store!Matching(Committed, asked[r].filter) :
        /\ Committed' = Store!Only(Committed, Store!Ids \ T)
        /\ \/ T = Store!Matching(Committed, asked[r].filter) /\ Store!Reply(r, Store!Plain("ok"))
           \/ \E e \in Store!EngineErrors : Store!Reply(r, Store!Plain(e))
  BY <1>1, <1>4, SameModels, SameAnswers DEF Store!Reply
<1> QED BY <1>2, <1>4, <1>5 DEF Store!DeleteByFilter, Committed

\* A drop takes effect, or has failed, when it lets go.
LEMMA Dropping ==
  ASSUME IInv, NEW r \in Requests, pc[r] = "writing", Drop(r)
  PROVE  Store!Drop(r) \/ Store!Unavailable(r) \/ Store!Fail(r)
<1>1. CASE opened' = FALSE /\ docs' = Empty /\ LeaveExclusive(r, Plain("ok"))
  <2>1. /\ Committed' = Empty /\ Store!Pending(r, {"drop"}) /\ UNCHANGED <<asked, snapshot>>
        /\ answer' = [answer EXCEPT ![r] = Plain("ok")] /\ opened
    BY <1>1, Committing DEF Drop, Store!Pending
  <2> QED BY <1>1, <2>1, SameModels, SameAnswers DEF Store!Drop, Store!Reply, Committed
<1>2. CASE UNCHANGED <<opened, docs>> /\ LeaveExclusive(r, Plain("zvec_operation_error"))
  BY <1>2, NothingDone
<1> QED BY <1>1, <1>2 DEF Drop

-----------------------------------------------------------------------------
\* Under the shared lock, a request reads the store that the clients know of.
LEMMA Reading ==
  ASSUME IInv, NEW r \in Requests, pc[r] = "reading", Fetch(r) \/ GetDoc(r) \/ Search(r)
  PROVE  Store!Read(r)
<1> DEFINE wanted == {asked[r].ids[n] : n \in DOMAIN asked[r].ids}
<1>1. opened /\ asked[r].op \in {"fetch", "get", "search"}
  BY DEF Fetch, GetDoc, Search
<1>2. asked[r] \in Bodies
  BY Waiting
<1>3. PICK a : /\ LeaveShared(r, a)
               /\ \/ asked[r].op = "fetch" /\ a = Docs(Only(docs, Named(asked[r])))
                  \/ /\ asked[r].op = "get"
                     /\ a = IF Named(asked[r]) \cap Present(docs) = {} THEN Plain("document_not_found")
                            ELSE Docs(Only(docs, Named(asked[r])))
                  \/ /\ asked[r].op = "search"
                     /\ \E hits \in SUBSET Present(docs) : a = Docs(Only(docs, hits))
  BY DEF Fetch, GetDoc, Search
<1>4. /\ Committed = docs /\ UNCHANGED <<Committed, opened, asked, snapshot>>
      /\ Store!Pending(r, {"fetch", "get", "search"})
      /\ answer' = [answer EXCEPT ![r] = a]
  BY <1>1, <1>3, Answering DEF Store!Pending
<1>5. ASSUME asked[r].op = "fetch" PROVE Named(asked[r]) = wanted
  <2>1. asked[r].ids \in Batches(Ids)
    BY <1>2, <1>5, BodyFields
  <2>2. asked[r].ids # None /\ wanted \subseteq Ids
    BY <2>1, BatchElements, NoneAssumption DEF Batches
  <2> QED BY <2>2, IdsAssumption DEF Named, Ids
<1>6. ASSUME asked[r].op = "get"
      PROVE  \E i \in Ids : Named(asked[r]) = {i} /\ wanted = {i}
  <2>1. PICK i \in Ids : asked[r].ids = <<i>>
    BY <1>2, <1>6, BodyFields
  <2>2. wanted = {i}
    BY <2>1
  <2>3. <<i>> \in Batches(Ids \cup {None})
    <3>1. <<i>> \in Seq(Ids \cup {None}) /\ Len(<<i>>) <= MaxDocs
      BY MaxDocsAssumption
    <3> QED BY <3>1, SequencesAreBatches
  <2>4. asked[r].ids # None
    BY <2>1, <2>3, NoneAssumption
  <2> QED BY <2>2, <2>4, IdsAssumption DEF Named, Ids
<1> HIDE DEF wanted
<1>7. \/ asked[r].op = "fetch" /\ Store!Reply(r, Store!Docs(Store!Only(Committed, wanted)))
      \/ /\ asked[r].op = "get"
         /\ Store!Reply(r, IF wanted \subseteq Store!Present(Committed)
                           THEN Store!Docs(Store!Only(Committed, wanted))
                           ELSE Store!Plain("document_not_found"))
      \/ /\ asked[r].op = "search"
         /\ \E hits \in SUBSET Store!Present(Committed) :
              Store!Reply(r, Store!Docs(Store!Only(Committed, hits)))
  <2>1. CASE asked[r].op = "fetch"
    BY <1>3, <1>4, <1>5, <2>1, SameModels, SameAnswers DEF Store!Reply
  <2>2. CASE asked[r].op = "get"
    <3>1. PICK i \in Ids : Named(asked[r]) = {i} /\ wanted = {i}
      BY <1>6, <2>2
    <3>2. a = IF wanted \subseteq Present(docs) THEN Docs(Only(docs, wanted))
              ELSE Plain("document_not_found")
      BY <1>3, <2>2, <3>1
    <3> QED BY <1>4, <2>2, <3>2, SameModels, SameAnswers DEF Store!Reply
  <2>3. CASE asked[r].op = "search"
    BY <1>3, <1>4, <2>3, SameModels, SameAnswers DEF Store!Reply
  <2> QED BY <1>1, <2>1, <2>2, <2>3
<1> QED BY <1>1, <1>4, <1>7 DEF Store!Read, Committed, wanted

\* A read that fails changes nothing.
LEMMA ReadFailing ==
  ASSUME IInv, NEW r \in Requests, pc[r] = "reading", ReadFails(r)
  PROVE  Store!Fail(r) \/ Store!Unavailable(r)
<1>1. PICK a : /\ LeaveShared(r, a)
               /\ \/ ~opened /\ a = Plain("collection_unavailable")
                  \/ \E e \in Errors : a = Plain(e)
  BY DEF ReadFails, Unavailable, Errors
<1> QED BY <1>1, Answering, SameModels, SameAnswers
    DEF Store!Unavailable, Store!Fail, Store!Reply, Committed

\* An export's moment is the opening of its cursor.
LEMMA Opening ==
  ASSUME IInv, NEW r \in Requests, pc[r] = "reading", OpenExport(r)
  PROVE  Store!OpenExport(r)
<1>1. writer = None
  BY DEF IInv, LockInv, Lock!Exclusion
<1>2. snapshot[r] = None /\ asked[r] # None /\ answer[r] = None
  BY Waiting DEF IInv, PlaceInv, Streaming
<1> QED BY <1>1, <1>2
    DEF OpenExport, Lock!ReleaseShared, batchVars, Store!OpenExport, Store!Pending, Committed

-----------------------------------------------------------------------------
\* However an export ends once its cursor is open, DocumentStore allows for it.
LEMMA Ending ==
  ASSUME IInv, NEW r \in Requests, pc[r] \in Streaming \ {"stranded"},
         UNCHANGED <<writer, docs, before, opened, asked, snapshot>>,
         NEW a, answer' = [answer EXCEPT ![r] = a],
         \/ a = Exported(snapshot[r], TRUE)
         \/ a = Delivered(r, FALSE)
         \/ a = Plain("collection_unavailable")
  PROVE  Store!EndExport(r)
<1>1. Store!Pending(r, {"export"}) /\ snapshot[r] # None
  BY Waiting DEF IInv, PlaceInv, Streaming, Store!Pending
<1>2. sent[r] \in SUBSET Ids
  BY DEF IInv, TypeOK
<1>3. \/ Store!Reply(r, Store!Exported(snapshot[r], TRUE))
      \/ \E S \in SUBSET Store!Ids : Store!Reply(r, Store!Exported(Store!Only(snapshot[r], S), FALSE))
      \/ Store!Reply(r, Store!Plain("collection_unavailable"))
  BY <1>2, SameModels, SameAnswers DEF Store!Reply, Delivered
<1> QED BY <1>1, <1>3 DEF Store!EndExport

\* An export that has sent all of its snapshot has sent the snapshot.
LEMMA WholeExport ==
  ASSUME IInv, NEW r \in Requests, pc[r] \in Streaming, Present(snapshot[r]) \subseteq sent[r]
  PROVE  Delivered(r, TRUE) = Exported(snapshot[r], TRUE)
<1>1. snapshot[r] \in Stores
  BY DEF IInv, TypeOK, PlaceInv
<1> QED BY <1>1, OnlyAll DEF Delivered

\* Of an export's steps the clients see the cursor's opening and the end.
LEMMA Exporting ==
  ASSUME IInv, NEW r \in Requests, Export(r)
  PROVE  Store!Next \/ UNCHANGED <<Committed, opened, asked, snapshot, answer>>
<1> USE DEF lockVars, dataVars, batchVars, exportVars
<1>1. CASE EnterBatch(r) \/ NextBatch(r) \/ Collect(r) \/ Resume(r)
  BY <1>1 DEF EnterBatch, Lock!AcquireShared, NextBatch, LeaveBatch, Lock!ReleaseShared,
              Collect, Resume, Committed
<1>2. CASE LastBatch(r)
  <2>1. /\ pc[r] = "batch" /\ Present(snapshot[r]) \subseteq read[r]
        /\ UNCHANGED <<writer, docs, before, opened, asked, snapshot>>
    BY <1>2 DEF LastBatch, LeaveBatch, Lock!ReleaseShared, Unread
  <2>2. CASE read[r] = {}
    BY <1>2, <2>1, <2>2 DEF LastBatch, Committed
  <2>3. CASE read[r] # {}
    <3>1. Delivered(r, TRUE) = Exported(snapshot[r], TRUE)
      BY <2>1, WholeExport DEF IInv, ExportInv, Streaming
    <3>2. answer' = [answer EXCEPT ![r] = Exported(snapshot[r], TRUE)]
      BY <1>2, <2>3, <3>1 DEF LastBatch, End
    <3> QED BY <2>1, <3>2, Ending DEF Streaming, Store!Next
  <2> QED BY <2>2, <2>3
<1>3. CASE BatchFails(r)
  <2>1. /\ pc[r] = "batch"
        /\ UNCHANGED <<writer, docs, before, opened, asked, snapshot>>
    BY <1>3 DEF BatchFails, LeaveBatch, Lock!ReleaseShared
  <2>2. PICK a : /\ answer' = [answer EXCEPT ![r] = a]
                 /\ \/ \E e \in Errors : a = Plain(e)
                    \/ a = Delivered(r, FALSE) \/ a = Plain("collection_unavailable")
    BY <1>3 DEF BatchFails, End, Errors, EngineErrors
  <2>3. CASE \E e \in Errors : a = Plain(e)
    <3>1. asked[r] # None /\ answer[r] = None
      BY <2>1, Waiting
    <3>2. Store!Fail(r)
      BY <2>1, <2>2, <2>3, <3>1, SameModels, SameAnswers DEF Store!Fail, Store!Reply
    <3> QED BY <3>2 DEF Store!Next
  <2>4. CASE a = Delivered(r, FALSE) \/ a = Plain("collection_unavailable")
    BY <2>1, <2>2, <2>4, Ending DEF Streaming, Store!Next
  <2> QED BY <2>2, <2>3, <2>4
<1>4. CASE StartBody(r)
  <2>1. /\ pc[r] = "responding"
        /\ UNCHANGED <<writer, docs, before, opened, asked, snapshot>>
    BY <1>4 DEF StartBody
  <2>2. CASE read[r] = {}
    <3>1. Delivered(r, TRUE) = Exported(snapshot[r], TRUE)
      BY <2>1, <2>2, WholeExport DEF IInv, ExportInv, Streaming
    <3>2. answer' = [answer EXCEPT ![r] = Exported(snapshot[r], TRUE)]
      BY <1>4, <2>2, <3>1 DEF StartBody, End
    <3> QED BY <2>1, <3>2, Ending DEF Streaming, Store!Next
  <2>3. CASE read[r] # {}
    BY <1>4, <2>1, <2>3 DEF StartBody, Committed
  <2> QED BY <2>2, <2>3
<1>5. CASE NeverStarts(r) \/ Abandon(r)
  <2>1. /\ pc[r] \in {"responding", "sending"}
        /\ answer' = [answer EXCEPT ![r] = Delivered(r, FALSE)]
        /\ UNCHANGED <<writer, docs, before, opened, asked, snapshot>>
    BY <1>5 DEF NeverStarts, Abandon, End
  <2> QED BY <2>1, Ending DEF Streaming, Store!Next
<1> QED BY <1>1, <1>2, <1>3, <1>4, <1>5 DEF Export

-----------------------------------------------------------------------------
\* Every step is one that DocumentStore allows, or one its clients do not see.
LEMMA StoreStep ==
  IInv /\ [Next]_vars => Store!Next \/ UNCHANGED <<Committed, opened, asked, snapshot, answer>>
<1> SUFFICES ASSUME IInv, [Next]_vars
             PROVE  Store!Next \/ UNCHANGED <<Committed, opened, asked, snapshot, answer>>
  OBVIOUS
<1>1. ASSUME NEW r \in Requests, Submit(r) PROVE Store!Next
  BY <1>1, Arriving DEF Store!Next
<1>2. ASSUME NEW r \in Requests, CloseGate(r)
      PROVE  UNCHANGED <<Committed, opened, asked, snapshot, answer>>
  BY <1>2 DEF CloseGate, Lock!CloseGate, Committed, dataVars, batchVars, exportVars
<1>3. ASSUME NEW r \in Requests, EnterExclusive(r)
      PROVE  UNCHANGED <<Committed, opened, asked, snapshot, answer>>
  BY <1>3, ValuesAssumption
     DEF EnterExclusive, Lock!AcquireExclusive, Committed, dataVars, exportVars
<1>4. ASSUME NEW r \in Requests, pc[r] = "writing", EngineWrites(r)
      PROVE  UNCHANGED <<Committed, opened, asked, snapshot, answer>>
  BY <1>4, ValuesAssumption
     DEF IInv, LockInv, EngineWrites, Committed, lockVars, exportVars
<1>5. ASSUME NEW r \in Requests, pc[r] = "writing", Released(r) PROVE Store!Next
  BY <1>5, BatchAnswers, NothingDone, FilterDeletes, Dropping DEF Released, Store!Next
<1>6. ASSUME NEW r \in Requests, EnterShared(r)
      PROVE  UNCHANGED <<Committed, opened, asked, snapshot, answer>>
  BY <1>6 DEF EnterShared, Lock!AcquireShared, Committed, dataVars, batchVars, exportVars
<1>7. ASSUME NEW r \in Requests, pc[r] = "reading",
             Fetch(r) \/ GetDoc(r) \/ Search(r) \/ OpenExport(r) \/ ReadFails(r)
      PROVE  Store!Next
  BY <1>7, Reading, ReadFailing, Opening DEF Store!Next
<1>8. CASE UNCHANGED vars
  BY <1>8 DEF vars, lockVars, dataVars, batchVars, exportVars, Committed
<1> QED BY Exporting, <1>1, <1>2, <1>3, <1>4, <1>5, <1>6, <1>7, <1>8
    DEF Next, Done, Exclusive, Shared, Released

\* However requests interleave, fail and are cut short, the document endpoints do
\* what DocumentStore promises: a batch takes effect at one moment, document by
\* document, also when only part of it could be applied (api/vectors.py under
\* the exclusive lock), reads and searches see one moment, and an export that
\* ends without an error is the whole collection as it was when its cursor was
\* opened.
THEOREM ImplementsDocumentStore == Spec => ImplementsStore
<1>1. Init => Store!Init
  BY SameModels DEF Init, Lock!LockInit, Store!Init
<1>2. IInv /\ [Next]_vars => [Store!Next]_(Store!vars)
  BY StoreStep DEF Store!vars, Committed
<1> QED BY <1>1, <1>2, Invariance, PTL DEF Spec, ImplementsStore, Store!Spec

-----------------------------------------------------------------------------
\* Every step uses the lock as the library has it, or not at all.
LEMMA LockStep == IInv /\ [Next]_vars => [Lock!LockNext]_(Lock!lockVars)
<1> SUFFICES ASSUME IInv, [Next]_vars PROVE [Lock!LockNext]_(Lock!lockVars)
  OBVIOUS
<1> USE DEF lockVars, Lock!lockVars
<1>1. ASSUME NEW r \in Requests, Exclusive(r) PROVE [Lock!LockNext]_(Lock!lockVars)
  <2>1. CASE CloseGate(r) \/ EnterExclusive(r)
    BY <2>1 DEF CloseGate, EnterExclusive, Lock!LockNext
  <2>2. CASE pc[r] = "writing" /\ Released(r)
    BY <2>2, LeavingExclusive DEF IInv, Leaves, LeaveExclusive, Lock!LockNext
  <2>3. CASE EngineWrites(r)
    BY <2>3 DEF EngineWrites
  <2> QED BY <1>1, <2>1, <2>2, <2>3 DEF Exclusive, Released
<1>2. ASSUME NEW r \in Requests, Shared(r) PROVE [Lock!LockNext]_(Lock!lockVars)
  <2>1. CASE Fetch(r) \/ GetDoc(r) \/ Search(r) \/ ReadFails(r)
    BY <2>1, LeavingShared DEF LeaveShared, Lock!LockNext
  <2>2. CASE EnterShared(r) \/ OpenExport(r)
    BY <2>2 DEF EnterShared, OpenExport, Lock!LockNext
  <2> QED BY <1>2, <2>1, <2>2 DEF Shared
<1>3. ASSUME NEW r \in Requests, Submit(r) \/ Export(r) PROVE [Lock!LockNext]_(Lock!lockVars)
  BY <1>3
     DEF Submit, Export, EnterBatch, NextBatch, LastBatch, BatchFails, LeaveBatch, StartBody,
              NeverStarts, Collect, Resume, Abandon, Lock!LockNext
<1>4. CASE UNCHANGED vars
  BY <1>4 DEF vars
<1> QED BY <1>1, <1>2, <1>3, <1>4 DEF Next, Done

\* The document endpoints use the collection's lock by the library's rules,
\* batch by batch for an export: nobody enters twice, passes a closed gate or
\* gives back what another one holds (ManagedCollection.read, write and stream).
THEOREM LockIsUsedByTheRules == Spec => Lock!LockSpec
<1>1. Init => Lock!LockInit
  BY DEF Init
<1> QED BY <1>1, LockStep, Invariance, PTL DEF Spec, Lock!LockSpec
=============================================================================
