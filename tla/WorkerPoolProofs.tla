-------------------------- MODULE WorkerPoolProofs --------------------------
(***************************************************************************)
(* The safety of WorkerPool for every set of requests and collections and  *)
(* every size of the pool: who holds what, and that nobody waits in a      *)
(* circle.                                                                 *)
(***************************************************************************)
EXTENDS WorkerPool, TLAPS, FiniteSetTheorems, SequenceTheorems

\* Kinds that run in a thread of the pool, and the places inside one.
Pooled == Kinds \ (LoopKinds \cup {"none"})
Working == Waiting \cup {"resolved", "lookup", "creating", "inside", "visiting", "finished"}

\* The queue holds each request that waits for a thread once.
QueueInv ==
  /\ \A n \in DOMAIN queue : pc[queue[n]] \in {"arrived", "queued"}
  /\ \A n, m \in DOMAIN queue : queue[n] = queue[m] => n = m

\* Which operations get to which place.
PlaceInv ==
  \A r \in Requests :
    /\ pc[r] \in {"new", "arrived", "resolved"} => kind[r] = "none" /\ entry[r] = r
    /\ pc[r] = "queued" => kind[r] \in Pooled
    /\ pc[r] = "paused" => kind[r] = "export"
    /\ pc[r] = "lookup" => kind[r] = "info"
    /\ pc[r] = "mutexWait" => kind[r] = "maintain"
    /\ pc[r] = "sharedWait" => kind[r] \notin Exclusive
    /\ pc[r] \in {"exclWait", "gated"} => kind[r] \in Exclusive
    /\ pc[r] = "visiting" => kind[r] \in {"list", "close"}
    /\ kind[r] = "create" => entry[r] = r

\* A request at work has a thread, or runs on the loop; the threads are finite
\* in number.
ThreadInv ==
  /\ IsFiniteSet(threads)
  /\ \A r \in Requests : pc[r] \in Working => r \in threads \/ kind[r] \in LoopKinds

\* Who holds a lock, and where it can be meanwhile: the registry lock goes
\* before the mutex, that before the shared lock, the gate before the inside.
HolderInv ==
  /\ \A r \in Requests : reglock = r =>
       kind[r] = "create" /\ entry[r] = r /\ pc[r] \in {"creating", "sharedWait", "inside"}
  /\ \A r \in Requests, e \in Entries :
       /\ mutex[e] = r => kind[r] = "maintain" /\ entry[r] = e /\ pc[r] \in {"sharedWait", "inside"}
       /\ gate[e] = r => kind[r] \in Exclusive /\ entry[r] = e /\ pc[r] \in {"gated", "inside"}
       /\ r \in readers[e] => kind[r] \notin Exclusive /\ entry[r] = e /\ pc[r] = "inside"

\* The converse: whoever is past a lock still holds it, and a writer inside
\* is alone there.
HeldInv ==
  \A r \in Requests :
    /\ pc[r] = "creating" => reglock = r
    /\ pc[r] = "gated" \/ (pc[r] = "inside" /\ kind[r] \in Exclusive) => gate[entry[r]] = r
    /\ pc[r] = "inside" /\ kind[r] \notin Exclusive => r \in readers[entry[r]]
    /\ pc[r] = "inside" /\ kind[r] \in Exclusive => readers[entry[r]] = {}

IInv == TypeOK /\ QueueInv /\ PlaceInv /\ ThreadInv /\ HolderInv /\ HeldInv

\* A request that joins the queue was not in it.
LEMMA EnqueueKeepsQueue ==
  ASSUME TypeOK, QueueInv, NEW r \in Requests, pc[r] \notin {"arrived", "queued"},
         NEW l \in {"arrived", "queued"}, Enqueue(r), Goto(r, l)
  PROVE  queue' \in Seq(Requests) /\ QueueInv'
<1> USE DEF TypeOK, QueueInv, Enqueue, Goto
<1>1. /\ queue' \in Seq(Requests)
      /\ Len(queue') = Len(queue) + 1
      /\ \A n \in 1..Len(queue) : queue'[n] = queue[n]
      /\ queue'[Len(queue) + 1] = r
  BY AppendProperties
<1>2. DOMAIN queue = 1..Len(queue) /\ DOMAIN queue' = 1..Len(queue')
  BY <1>1, LenProperties
<1>3. \A n \in DOMAIN queue : queue[n] \in Requests /\ queue[n] # r
  BY <1>2, ElementOfSeq
<1>4. \A n \in DOMAIN queue' : pc'[queue'[n]] \in {"arrived", "queued"}
  BY <1>1, <1>2, <1>3
<1>5. \A n, m \in DOMAIN queue' : queue'[n] = queue'[m] => n = m
  BY <1>1, <1>2, <1>3
<1> QED BY <1>1, <1>4, <1>5

\* The head of the queue leaves it for a thread that was not taken.
LEMMA DispatchKeepsQueue ==
  ASSUME TypeOK, QueueInv, Dispatch
  PROVE  /\ Head(queue) \in Requests /\ pc[Head(queue)] \in {"arrived", "queued"}
         /\ queue' \in Seq(Requests) /\ QueueInv'
<1> USE DEF TypeOK, QueueInv, Dispatch, Goto
<1>1. /\ Head(queue) = queue[1] /\ queue' \in Seq(Requests)
      /\ Len(queue') = Len(queue) - 1
      /\ \A n \in 1..Len(queue') : queue'[n] = queue[n + 1]
  BY HeadTailProperties
<1>2. /\ DOMAIN queue = 1..Len(queue) /\ DOMAIN queue' = 1..Len(queue')
      /\ Len(queue) \in Nat /\ Len(queue) > 0
  BY <1>1, LenProperties, EmptySeq
<1>3. Head(queue) \in Requests /\ pc[Head(queue)] \in {"arrived", "queued"}
  <2>1. 1 \in 1..Len(queue)
    BY <1>2
  <2>2. queue[1] \in Requests
    BY <2>1, ElementOfSeq
  <2>3. pc[queue[1]] \in {"arrived", "queued"}
    BY <2>1, <1>2
  <2> QED BY <1>1, <2>2, <2>3
<1>4. \A n \in DOMAIN queue' : n + 1 \in DOMAIN queue /\ queue[n + 1] # Head(queue)
  <2>1. \A n \in 1..Len(queue') : n + 1 \in 1..Len(queue) /\ n + 1 # 1
    BY <1>1, <1>2
  <2>2. 1 \in DOMAIN queue
    BY <1>2
  <2> QED BY <1>1, <1>2, <2>1, <2>2, Zenon
<1>5. \A n \in DOMAIN queue' : queue'[n] \in Requests /\ pc'[queue'[n]] \in {"arrived", "queued"}
  BY <1>1, <1>2, <1>4, ElementOfSeq
<1>6. \A n, m \in DOMAIN queue' : queue'[n] = queue'[m] => n = m
  BY <1>1, <1>2, <1>4
<1> QED BY <1>1, <1>3, <1>5, <1>6

\* A request that learns its operation keeps its types.
LEMMA OperationIsTyped ==
  ASSUME TypeOK, NEW r \in Requests, NEW k \in Kinds, Becomes(r, k)
  PROVE  kind' \in [Requests -> Kinds] /\ left' \in [Requests -> 0..(MaxBatches + 1)]
<1>1. (CASE k = "export" -> MaxBatches + 1 [] k = "close" -> 1 [] OTHER -> 0)
        \in 0..(MaxBatches + 1)
  <2>1. CASE k = "export"
    BY <2>1, PoolAssumption
  <2>2. CASE k = "close"
    BY <2>2, PoolAssumption
  <2>3. CASE k \notin {"export", "close"}
    BY <2>3, PoolAssumption
  <2> QED BY <2>1, <2>2, <2>3
<1>2. kind' \in [Requests -> Kinds]
  BY DEF Becomes, TypeOK
<1> QED BY <1>1, <1>2 DEF Becomes, TypeOK

\* A set of threads that takes or loses one stays finite, and within the pool.
LEMMA DispatchTakesThread ==
  ASSUME TypeOK, ThreadInv, NEW r \in Requests, Cardinality(threads) < PoolSize
  PROVE  IsFiniteSet(threads \cup {r}) /\ Cardinality(threads \cup {r}) <= PoolSize
<1>1. /\ Cardinality(threads) \in Nat /\ IsFiniteSet(threads \cup {r})
      /\ Cardinality(threads \cup {r}) \in {Cardinality(threads), Cardinality(threads) + 1}
  BY FS_AddElement, FS_CardinalityType DEF ThreadInv
<1> QED BY <1>1, PoolAssumption DEF TypeOK

\* A thread that is freed leaves room, and never too many threads.
LEMMA ReturnFreesThread ==
  ASSUME TypeOK, ThreadInv, NEW r \in Requests
  PROVE  IsFiniteSet(threads \ {r}) /\ Cardinality(threads \ {r}) <= PoolSize
<1>1. /\ Cardinality(threads) \in Nat /\ IsFiniteSet(threads \ {r})
      /\ Cardinality(threads \ {r}) \in {Cardinality(threads), Cardinality(threads) - 1}
  BY FS_RemoveElement, FS_CardinalityType DEF ThreadInv
<1> QED BY <1>1, PoolAssumption DEF TypeOK

\* Every step preserves the invariant.
LEMMA InvariantStep == IInv /\ [Next]_vars => IInv'
<1> SUFFICES ASSUME IInv, [Next]_vars PROVE IInv'
  OBVIOUS
<1> USE DistinctAssumption, PoolAssumption
    DEF IInv, TypeOK, QueueInv, PlaceInv, ThreadInv, HolderInv, HeldInv, Entries, Labels,
        Waiting, Working, Kinds, GetKinds, LoopKinds, Pooled, Exclusive, Goto, vars, poolVars,
        lockVars, tableVars, opVars
<1>1. ASSUME Dispatch PROVE IInv'
  <2>1. TypeOK'
    <3>1. pc' \in [Requests -> Labels]
      <4>1. InThread(Head(queue)) \in Labels
        BY DEF InThread, FirstPlace
      <4> QED BY <1>1, <4>1 DEF Dispatch
    <3>2. Head(queue) \in Requests /\ queue' \in Seq(Requests)
      BY <1>1, DispatchKeepsQueue
    <3>3. Cardinality(threads \cup {Head(queue)}) <= PoolSize
      BY <1>1, <3>2, DispatchTakesThread DEF Dispatch
    <3> QED BY <1>1, <3>1, <3>2, <3>3 DEF Dispatch
  <2>2. QueueInv'
    BY <1>1, DispatchKeepsQueue
  <2>3. PlaceInv'
    BY <1>1, DispatchKeepsQueue DEF Dispatch, InThread, FirstPlace
  <2>4. ThreadInv'
    <3>1. IsFiniteSet(threads')
      BY <1>1, DispatchKeepsQueue, DispatchTakesThread DEF Dispatch
    <3> QED BY <1>1, <3>1, DispatchKeepsQueue DEF Dispatch
  <2>5. HolderInv'
    BY <1>1, DispatchKeepsQueue DEF Dispatch, InThread, FirstPlace
  <2>6. HeldInv'
    BY <1>1, DispatchKeepsQueue DEF Dispatch, InThread, FirstPlace
  <2> QED BY <2>1, <2>2, <2>3, <2>4, <2>5, <2>6
<1>2. ASSUME NEW r \in Requests, SubmitRoute(r) PROVE IInv'
  <2>1. TypeOK'
    BY <1>2, EnqueueKeepsQueue DEF SubmitRoute, Arrives
  <2>2. QueueInv'
    BY <1>2, EnqueueKeepsQueue DEF SubmitRoute, Arrives
  <2>3. PlaceInv'
    BY <1>2 DEF SubmitRoute, Arrives
  <2>4. ThreadInv'
    BY <1>2 DEF SubmitRoute, Arrives
  <2>5. HolderInv'
    BY <1>2 DEF SubmitRoute, Arrives
  <2>6. HeldInv'
    BY <1>2 DEF SubmitRoute, Arrives
  <2> QED BY <2>1, <2>2, <2>3, <2>4, <2>5, <2>6
<1>3. ASSUME NEW r \in Requests, SubmitOnLoop(r) PROVE IInv'
  <2>1. TypeOK'
    <3>1. PICK k \in LoopKinds : Becomes(r, k)
      BY <1>3 DEF SubmitOnLoop
    <3>2. k \in Kinds
      BY <3>1
    <3> QED BY <1>3, <3>1, <3>2, OperationIsTyped DEF SubmitOnLoop, Arrives
  <2>2. QueueInv'
    BY <1>3 DEF SubmitOnLoop, Arrives
  <2>3. PlaceInv'
    BY <1>3 DEF SubmitOnLoop, Arrives, Becomes
  <2>4. ThreadInv'
    BY <1>3 DEF SubmitOnLoop, Arrives, Becomes
  <2>5. HolderInv'
    BY <1>3 DEF SubmitOnLoop, Arrives, Becomes
  <2>6. HeldInv'
    BY <1>3 DEF SubmitOnLoop, Arrives, Becomes
  <2> QED BY <2>1, <2>2, <2>3, <2>4, <2>5, <2>6
<1>4. ASSUME NEW r \in Requests, Handle(r), CallsEngine(r) \/ CallsManager(r) PROVE IInv'
  <2>1. PICK k \in Pooled : /\ Becomes(r, k) /\ Offload(r)
                            /\ \E e \in Entries : entry' = [entry EXCEPT ![r] = e]
                            /\ k = "create" => entry' = entry
    <3>1. CASE CallsEngine(r)
      <4>1. PICK k \in GetKinds, e \in Available :
              Becomes(r, k) /\ entry' = [entry EXCEPT ![r] = e] /\ Offload(r)
        BY <3>1 DEF CallsEngine
      <4>2. k \in Pooled /\ k # "create" /\ e \in Entries
        BY <4>1 DEF Available
      <4> QED BY <4>1, <4>2
    <3>2. CASE CallsManager(r)
      <4>1. PICK k \in {"info", "create", "drop", "list"} : Becomes(r, k)
        BY <3>2 DEF CallsManager
      <4>2. k \in Pooled /\ entry[r] \in Entries /\ entry' = [entry EXCEPT ![r] = entry[r]]
        BY <3>2, <4>1 DEF CallsManager
      <4> QED BY <3>2, <4>1, <4>2 DEF CallsManager
    <3> QED BY <1>4, <3>1, <3>2
  <2>2. TypeOK'
    <3>1. threads' \subseteq Requests /\ Cardinality(threads') <= PoolSize
      BY <1>4, ReturnFreesThread DEF Handle
    <3>2. queue' \in Seq(Requests)
      BY <1>4, <2>1, EnqueueKeepsQueue DEF Handle, Offload
    <3> QED BY <1>4, <2>1, <3>1, <3>2, OperationIsTyped DEF Handle, Offload
  <2>3. QueueInv'
    BY <1>4, <2>1, EnqueueKeepsQueue DEF Handle, Offload
  <2>4. PlaceInv'
    BY <1>4, <2>1 DEF Handle, Offload, Becomes
  <2>5. ThreadInv'
    <3>1. IsFiniteSet(threads')
      BY <1>4, ReturnFreesThread DEF Handle
    <3> QED BY <1>4, <2>1, <3>1 DEF Handle, Offload, Becomes
  <2>6. HolderInv'
    BY <1>4, <2>1 DEF Handle, Offload, Becomes
  <2>7. HeldInv'
    BY <1>4, <2>1 DEF Handle, Offload, Becomes
  <2> QED BY <2>2, <2>3, <2>4, <2>5, <2>6, <2>7
<1>5. ASSUME NEW r \in Requests, Handle(r), Refused(r) PROVE IInv'
  <2>1. TypeOK'
    BY <1>5, ReturnFreesThread DEF Handle, Refused
  <2>2. QueueInv'
    BY <1>5 DEF Handle, Refused
  <2>3. PlaceInv'
    BY <1>5 DEF Handle, Refused
  <2>4. ThreadInv'
    <3>1. IsFiniteSet(threads')
      BY <1>5, ReturnFreesThread DEF Handle
    <3> QED BY <1>5, <3>1 DEF Handle, Refused
  <2>5. HolderInv'
    BY <1>5 DEF Handle, Refused
  <2>6. HeldInv'
    BY <1>5 DEF Handle, Refused
  <2> QED BY <2>1, <2>2, <2>3, <2>4, <2>5, <2>6
<1>6. ASSUME NEW r \in Requests, Return(r) PROVE IInv'
  <2>1. TypeOK'
    <3>1. queue' \in Seq(Requests)
      <4>1. CASE Offload(r)
        BY <1>6, <4>1, EnqueueKeepsQueue DEF Return, Offload
      <4>2. CASE queue' = queue
        BY <4>2
      <4> QED BY <1>6, <4>1, <4>2 DEF Return
    <3>2. threads' \subseteq Requests /\ Cardinality(threads') <= PoolSize
      BY <1>6, ReturnFreesThread DEF Return
    <3>3. left' \in [Requests -> 0..(MaxBatches + 1)]
      <4>1. CASE left' = [left EXCEPT ![r] = @ - 1] /\ left[r] > 0
        BY <4>1
      <4>2. CASE left' = left
        BY <4>2
      <4> QED BY <1>6, <4>1, <4>2 DEF Return
    <3>4. pc' \in [Requests -> Labels]
      <4>1. \E l \in {"queued", "paused", "ended"} : Goto(r, l)
        BY <1>6 DEF Return, Offload
      <4> QED BY <4>1
    <3> QED BY <1>6, <3>1, <3>2, <3>3, <3>4 DEF Return
  <2>2. QueueInv'
    <3>1. CASE Offload(r)
      BY <1>6, <3>1, EnqueueKeepsQueue DEF Return, Offload
    <3>2. CASE queue' = queue /\ (Goto(r, "paused") \/ Goto(r, "ended"))
      BY <1>6, <3>2 DEF Return
    <3> QED BY <1>6, <3>1, <3>2 DEF Return
  <2>3. PlaceInv'
    BY <1>6 DEF Return, Offload
  <2>4. ThreadInv'
    <3>1. IsFiniteSet(threads')
      BY <1>6, ReturnFreesThread DEF Return
    <3>2. pc'[r] \notin Working /\ \A q \in Requests \ {r} : pc'[q] = pc[q] /\ kind'[q] = kind[q]
      BY <1>6 DEF Return, Offload
    <3> QED BY <1>6, <3>1, <3>2 DEF Return
  <2>5. HolderInv'
    BY <1>6 DEF Return, Offload
  <2>6. HeldInv'
    BY <1>6 DEF Return, Offload
  <2> QED BY <2>1, <2>2, <2>3, <2>4, <2>5, <2>6
<1>7. ASSUME NEW r \in Requests, Resume(r) PROVE IInv'
  <2>1. TypeOK'
    BY <1>7, EnqueueKeepsQueue DEF Resume, Offload
  <2>2. QueueInv'
    BY <1>7, EnqueueKeepsQueue DEF Resume, Offload
  <2>3. PlaceInv'
    BY <1>7 DEF Resume, Offload
  <2>4. ThreadInv'
    BY <1>7 DEF Resume, Offload
  <2>5. HolderInv'
    BY <1>7 DEF Resume, Offload
  <2>6. HeldInv'
    BY <1>7 DEF Resume, Offload
  <2> QED BY <2>1, <2>2, <2>3, <2>4, <2>5, <2>6
<1>8. ASSUME NEW r \in Requests, Abandon(r) PROVE IInv'
  BY <1>8, SMTT(30) DEF Abandon
<1>9. ASSUME NEW r \in Requests, DropLooksUp(r) PROVE IInv'
  <2>1. CASE Goto(r, "finished") /\ entry' = entry
    BY <1>9, <2>1, SMTT(30) DEF DropLooksUp
  <2>2. CASE Goto(r, "exclWait") /\ \E e \in registered : entry' = [entry EXCEPT ![r] = e]
    BY <1>9, <2>2, SMTT(30) DEF DropLooksUp
  <2> QED BY <1>9, <2>1, <2>2 DEF DropLooksUp
<1>10. ASSUME NEW r \in Requests, DropUnregisters(r) PROVE IInv'
  BY <1>10, SMTT(30) DEF DropUnregisters
<1>11. ASSUME NEW r \in Requests, CreateBegins(r) PROVE IInv'
  <2>1. TypeOK'
    <3>1. reglock' \in Requests \cup {None} /\ pc' \in [Requests -> Labels]
      <4>1. CASE Goto(r, "finished") /\ reglock' = reglock
        BY <4>1
      <4>2. CASE Goto(r, "creating") /\ reglock' = r
        BY <4>2
      <4> QED BY <1>11, <4>1, <4>2 DEF CreateBegins
    <3>2. UNCHANGED <<poolVars, mutex, gate, readers, tableVars, opVars>>
      BY <1>11 DEF CreateBegins
    <3> QED BY <3>1, <3>2
  <2>2. QueueInv'
    <3>1. \A q \in Requests \ {r} : pc'[q] = pc[q]
      BY <1>11 DEF CreateBegins
    <3>2. DOMAIN queue = 1..Len(queue)
      BY LenProperties
    <3>3. \A n \in DOMAIN queue : queue[n] \in Requests /\ queue[n] # r
      BY <1>11, <3>2, ElementOfSeq DEF CreateBegins
    <3> QED BY <1>11, <3>1, <3>3 DEF CreateBegins
  <2>3. PlaceInv'
    BY <1>11 DEF CreateBegins
  <2>4. ThreadInv'
    BY <1>11 DEF CreateBegins
  <2>5. HolderInv'
    BY <1>11 DEF CreateBegins
  <2>6. HeldInv'
    BY <1>11 DEF CreateBegins
  <2> QED BY <2>1, <2>2, <2>3, <2>4, <2>5, <2>6
<1>12. ASSUME NEW r \in Requests, CreateFails(r) PROVE IInv'
  BY <1>12, SMTT(30) DEF CreateFails
<1>13. ASSUME NEW r \in Requests, CreateRegisters(r) PROVE IInv'
  BY <1>13, SMTT(30) DEF CreateRegisters
<1>14. ASSUME NEW r \in Requests, Snapshot(r) PROVE IInv'
  BY <1>14, SMTT(30) DEF Snapshot
<1>15. ASSUME NEW r \in Requests, ProbeCounts(r) PROVE IInv'
  BY <1>15, SMTT(30) DEF ProbeCounts
<1>16. ASSUME NEW r \in Requests, Lookup(r) PROVE IInv'
  <2>1. CASE Goto(r, "finished") /\ entry' = entry
    BY <1>16, <2>1, SMTT(30) DEF Lookup
  <2>2. CASE Goto(r, "sharedWait") /\ \E e \in Available : entry' = [entry EXCEPT ![r] = e]
    BY <1>16, <2>2, SMTT(30) DEF Lookup, Available
  <2> QED BY <1>16, <2>1, <2>2 DEF Lookup
<1>17. ASSUME NEW r \in Requests, Visit(r) PROVE IInv'
  <2>1. TypeOK'
    <3>1. PICK e \in todo[r] :
            /\ todo' = [todo EXCEPT ![r] = @ \ {e}]
            /\ IF state[e] = "open" \/ (kind[r] = "close" /\ left[r] = 0)
               THEN /\ entry' = [entry EXCEPT ![r] = e]
                    /\ Goto(r, IF kind[r] = "list" THEN "sharedWait" ELSE "exclWait")
               ELSE UNCHANGED <<pc, entry>>
      BY <1>17 DEF Visit
    <3>2. e \in Entries /\ todo' \in [Requests -> SUBSET Entries]
      BY <3>1
    <3>3. CASE entry' = [entry EXCEPT ![r] = e] /\ Goto(r, "sharedWait")
      BY <1>17, <3>2, <3>3 DEF Visit
    <3>4. CASE entry' = [entry EXCEPT ![r] = e] /\ Goto(r, "exclWait")
      BY <1>17, <3>2, <3>4 DEF Visit
    <3>5. CASE UNCHANGED <<pc, entry>>
      BY <1>17, <3>2, <3>5 DEF Visit
    <3> QED BY <3>1, <3>3, <3>4, <3>5, Zenon
  <2>2. QueueInv'
    BY <1>17 DEF Visit
  <2>3. PlaceInv'
    BY <1>17 DEF Visit
  <2>4. ThreadInv'
    BY <1>17 DEF Visit
  <2>5. HolderInv'
    BY <1>17 DEF Visit
  <2>6. HeldInv'
    BY <1>17 DEF Visit
  <2> QED BY <2>1, <2>2, <2>3, <2>4, <2>5, <2>6
<1>18. ASSUME NEW r \in Requests, Visited(r) PROVE IInv'
  <2>1. TypeOK'
    <3>1. CASE left' = [left EXCEPT ![r] = 0] /\ Goto(r, "regWait")
      BY <1>18, <3>1 DEF Visited
    <3>2. CASE Goto(r, "ended") /\ left' = left
      BY <1>18, <3>2 DEF Visited
    <3>3. CASE Goto(r, "finished") /\ left' = left
      BY <1>18, <3>3 DEF Visited
    <3> QED BY <1>18, <3>1, <3>2, <3>3, Zenon DEF Visited
  <2>2. QueueInv'
    BY <1>18 DEF Visited
  <2>3. PlaceInv'
    BY <1>18 DEF Visited
  <2>4. ThreadInv'
    BY <1>18 DEF Visited
  <2>5. HolderInv'
    BY <1>18 DEF Visited
  <2>6. HeldInv'
    BY <1>18 DEF Visited
  <2> QED BY <2>1, <2>2, <2>3, <2>4, <2>5, <2>6
<1>19. ASSUME NEW r \in Requests, TakeMutex(r) PROVE IInv'
  BY <1>19, SMTT(30) DEF TakeMutex
<1>20. ASSUME NEW r \in Requests, EnterShared(r) PROVE IInv'
  BY <1>20, SMTT(30) DEF EnterShared
<1>21. ASSUME NEW r \in Requests, CloseGate(r) PROVE IInv'
  BY <1>21, SMTT(30) DEF CloseGate
<1>22. ASSUME NEW r \in Requests, EnterExclusive(r) PROVE IInv'
  BY <1>22, SMTT(30) DEF EnterExclusive
<1>23. ASSUME NEW r \in Requests, LeaveShared(r) PROVE IInv'
  BY <1>23, SMTT(30) DEF LeaveShared
<1>24. ASSUME NEW r \in Requests, Wrote(r) PROVE IInv'
  <2>1. TypeOK'
    <3>1. CASE LeaveExclusive(r, "finished")
      BY <1>24, <3>1 DEF Wrote, LeaveExclusive
    <3>2. CASE LeaveExclusive(r, "visiting")
      BY <1>24, <3>2 DEF Wrote, LeaveExclusive
    <3> QED BY <1>24, <3>1, <3>2 DEF Wrote
  <2>2. QueueInv'
    BY <1>24 DEF Wrote, LeaveExclusive
  <2>3. PlaceInv'
    BY <1>24 DEF Wrote, LeaveExclusive
  <2>4. ThreadInv'
    BY <1>24 DEF Wrote, LeaveExclusive
  <2>5. HolderInv'
    BY <1>24 DEF Wrote, LeaveExclusive
  <2>6. HeldInv'
    <3>1. CASE LeaveExclusive(r, "finished")
      BY <1>24, <3>1, SMTT(30) DEF Wrote, LeaveExclusive
    <3>2. CASE LeaveExclusive(r, "visiting")
      BY <1>24, <3>2, SMTT(30) DEF Wrote, LeaveExclusive
    <3> QED BY <1>24, <3>1, <3>2 DEF Wrote
  <2> QED BY <2>1, <2>2, <2>3, <2>4, <2>5, <2>6
<1>25. ASSUME NEW r \in Requests, Closes(r) PROVE IInv'
  BY <1>25, SMTT(30) DEF Closes, LeaveExclusive
<1>26. ASSUME NEW r \in Requests, DropLeaves(r) PROVE IInv'
  BY <1>26, SMTT(30) DEF DropLeaves, LeaveExclusive
<1>27. ASSUME NEW r \in Requests, Destroys(r) PROVE IInv'
  BY <1>27, SMTT(30) DEF Destroys, LeaveExclusive
<1>28. CASE UNCHANGED vars
  BY <1>28
<1> QED BY <1>1, <1>2, <1>3, <1>4, <1>5, <1>6, <1>7, <1>8, <1>9, <1>10, <1>11, <1>12, <1>13,
           <1>14, <1>15, <1>16, <1>17, <1>18, <1>19, <1>20, <1>21, <1>22, <1>23, <1>24, <1>25,
           <1>26, <1>27, <1>28
    DEF Next, Done, Client, Server, Submit, Handle, RegistryStep, EntryStep

\* It holds when the server has just started.
LEMMA InvariantInit == Init => IInv
<1> SUFFICES ASSUME Init PROVE IInv
  OBVIOUS
<1> USE DistinctAssumption, PoolAssumption DEF Init, Entries
<1>1. TypeOK
  <2>1. threads \subseteq Requests /\ Cardinality(threads) <= PoolSize
    BY FS_EmptySet
  <2>2. queue \in Seq(Requests)
    BY EmptySeq
  <2>3. /\ state \in [Entries -> {"absent", "open", "closed", "dropped"}]
        /\ pc \in [Requests -> Labels] /\ kind \in [Requests -> Kinds]
    BY DEF Labels, Kinds
  <2> QED BY <2>1, <2>2, <2>3 DEF TypeOK
<1>2. QueueInv
  BY EmptySeq DEF QueueInv
<1>3. PlaceInv /\ HolderInv /\ HeldInv
  BY DEF PlaceInv, HolderInv, HeldInv
<1>4. ThreadInv
  BY FS_EmptySet DEF ThreadInv, Working, Waiting
<1> QED BY <1>1, <1>2, <1>3, <1>4 DEF IInv

\* The invariant holds of every behaviour.
THEOREM Invariance == Spec => []IInv
BY InvariantInit, InvariantStep, PTL DEF Spec

-----------------------------------------------------------------------------
(* What follows from the invariant.                                         *)

\* Every variable keeps its type, and the pool its size, however many requests
\* arrive (starlette's run_in_threadpool and its limiter).
THEOREM TypeCorrect == Spec => []TypeOK
<1>1. IInv => TypeOK
  BY DEF IInv
<1> QED BY <1>1, Invariance, PTL

\* Whoever holds a lock of manager.py is in a thread or is the event loop, and
\* needs neither another thread nor a turn of the loop to let go of it.
THEOREM HoldersRun == Spec => []HoldersCanRun
<1>1. IInv => HoldersCanRun
  <2> SUFFICES ASSUME IInv, NEW r \in Requests, Holds(r)
               PROVE  /\ r \in threads \/ kind[r] \in LoopKinds
                      /\ pc[r] \in Waiting \cup {"creating", "inside"}
    BY DEF HoldersCanRun
  <2>1. pc[r] \in {"creating", "sharedWait", "gated", "inside"}
    BY DEF IInv, HolderInv, Holds
  <2> QED BY <2>1 DEF IInv, ThreadInv, Working, Waiting
<1> QED BY <1>1, Invariance, PTL

\* The registry lock is kept over a wait only by create(), which waits for the
\* entry it has just registered (_build_info under self._lock).
THEOREM RegistryWaits == Spec => []RegistryWaitsForItsOwn
<1>1. IInv => RegistryWaitsForItsOwn
  BY DistinctAssumption DEF IInv, TypeOK, HolderInv, RegistryWaitsForItsOwn
<1> QED BY <1>1, Invariance, PTL

\* Whoever is waited for is further on its way than the one who waits.
LEMMA WaitsForward ==
  ASSUME IInv, NEW r \in Requests, NEW q \in WaitsFor(r)
  PROVE  /\ q \in Requests
         /\ pc[r] \in {"regWait", "mutexWait"} => pc[q] \in {"creating", "sharedWait", "inside"}
         /\ pc[r] \in {"sharedWait", "exclWait"} => pc[q] \in {"gated", "inside"}
         /\ pc[r] = "gated" => pc[q] = "inside"
         /\ pc[r] \in Waiting
<1> USE DEF IInv, TypeOK, HolderInv, WaitsFor, Waiting
<1>1. CASE pc[r] = "regWait"
  BY <1>1
<1>2. CASE pc[r] = "mutexWait"
  BY <1>2
<1>3. CASE pc[r] \in {"sharedWait", "exclWait"}
  BY <1>3
<1>4. CASE pc[r] = "gated"
  BY <1>4
<1>5. CASE pc[r] \notin Waiting
  BY <1>5
<1> QED BY <1>1, <1>2, <1>3, <1>4, <1>5

\* In every set of requests somebody waits for no one of the set: the order in
\* which create, drop, maintain, list and close() take the registry lock, the
\* mutex and the two halves of the collection's lock admits no deadlock.
THEOREM NobodyWaitsInACircle == Spec => []NoWaitCycle
<1>1. IInv => NoWaitCycle
  <2> SUFFICES ASSUME IInv, NEW S \in SUBSET Requests, S # {}
               PROVE  \E r \in S : WaitsFor(r) \cap S = {}
    BY DEF NoWaitCycle
  <2>1. CASE \E r \in S : pc[r] \notin Waiting
    BY <2>1, WaitsForward
  <2>2. CASE (\A r \in S : pc[r] \in Waiting) /\ \E r \in S : pc[r] = "gated"
    BY <2>2, WaitsForward DEF Waiting
  <2>3. CASE /\ \A r \in S : pc[r] \in Waiting \ {"gated"}
             /\ \E r \in S : pc[r] \in {"sharedWait", "exclWait"}
    BY <2>3, WaitsForward DEF Waiting
  <2>4. CASE \A r \in S : pc[r] \in {"regWait", "mutexWait"}
    BY <2>4, WaitsForward
  <2> QED BY <2>1, <2>2, <2>3, <2>4 DEF Waiting
<1> QED BY <1>1, Invariance, PTL

-----------------------------------------------------------------------------
(* The collections' locks, as WorkerPool has them, are locks of FairRWLock.  *)
Lock(e) == INSTANCE FairRWLock WITH
             Procs <- Requests,
             gate <- gate[e],
             readers <- readers[e],
             writer <- IF gate[e] # None /\ pc[gate[e]] = "inside" THEN gate[e] ELSE None

\* Every step takes, passes on or gives back the lock of an entry as its gate
\* allows, or leaves the lock alone.
LEMMA LockStep ==
  ASSUME NEW e \in Entries, IInv, [Next]_vars
  PROVE  [Lock(e)!LockNext]_(Lock(e)!lockVars)
<1> USE DistinctAssumption
    DEF IInv, TypeOK, PlaceInv, HolderInv, HeldInv, Goto, Exclusive, Entries
<1>1. ASSUME UNCHANGED <<gate, readers>>,
             NEW r \in Requests, \A q \in Requests \ {r} : pc'[q] = pc[q],
             pc[r] \notin {"gated", "inside"}
      PROVE  UNCHANGED Lock(e)!lockVars
  BY <1>1 DEF Lock!lockVars
<1>2. ASSUME Dispatch PROVE UNCHANGED Lock(e)!lockVars
  <2>1. PICK r \in Requests : r = Head(queue) /\ pc[r] \in {"arrived", "queued"}
    BY <1>2, DispatchKeepsQueue
  <2>2. \A q \in Requests \ {r} : pc'[q] = pc[q]
    BY <1>2, <2>1 DEF Dispatch
  <2>3. UNCHANGED <<gate, readers>>
    BY <1>2 DEF Dispatch, lockVars
  <2>4. pc[r] \notin {"gated", "inside"}
    BY <2>1
  <2> QED BY <1>1, <2>2, <2>3, <2>4
<1>3. ASSUME NEW r \in Requests, Client(r) \/ Handle(r) \/ Return(r)
      PROVE  UNCHANGED Lock(e)!lockVars
  <2>1. \A q \in Requests \ {r} : pc'[q] = pc[q]
    BY <1>3
        DEF Client, Submit, SubmitRoute, SubmitOnLoop, Arrives, Handle, CallsEngine,
            CallsManager, Refused, Return, Resume, Abandon, Offload
  <2>2. pc[r] \notin {"gated", "inside"} /\ UNCHANGED <<gate, readers>>
    BY <1>3
        DEF Client, Submit, SubmitRoute, SubmitOnLoop, Arrives, Handle, Return, Resume, Abandon,
            lockVars
  <2> QED BY <1>1, <2>1, <2>2
<1>4. ASSUME NEW r \in Requests,
             RegistryStep(r) \/ Lookup(r) \/ Visit(r) \/ Visited(r) \/ TakeMutex(r)
      PROVE  UNCHANGED Lock(e)!lockVars
  <2>1. \A q \in Requests \ {r} : pc'[q] = pc[q]
    BY <1>4
        DEF RegistryStep, DropLooksUp, DropUnregisters, CreateBegins, CreateFails,
            CreateRegisters,
                Snapshot, ProbeCounts, Lookup, Visit, Visited, TakeMutex
  <2>2. pc[r] \notin {"gated", "inside"} /\ UNCHANGED <<gate, readers>>
    BY <1>4
        DEF RegistryStep, DropLooksUp, DropUnregisters, CreateBegins, CreateFails,
            CreateRegisters,
                Snapshot, ProbeCounts, Lookup, Visit, Visited, TakeMutex, lockVars
  <2> QED BY <1>1, <2>1, <2>2
<1>5. ASSUME NEW r \in Requests, EnterShared(r)
      PROVE  Lock(e)!AcquireShared(r) \/ UNCHANGED Lock(e)!lockVars
  BY <1>5 DEF EnterShared, Lock!AcquireShared, Lock!lockVars
<1>6. ASSUME NEW r \in Requests, LeaveShared(r)
      PROVE  Lock(e)!ReleaseShared(r) \/ UNCHANGED Lock(e)!lockVars
  BY <1>6 DEF LeaveShared, Lock!ReleaseShared, Lock!lockVars
<1>7. ASSUME NEW r \in Requests, CloseGate(r)
      PROVE  Lock(e)!CloseGate(r) \/ UNCHANGED Lock(e)!lockVars
  BY <1>7 DEF CloseGate, Lock!CloseGate, Lock!lockVars
<1>8. ASSUME NEW r \in Requests, EnterExclusive(r)
      PROVE  Lock(e)!AcquireExclusive(r) \/ UNCHANGED Lock(e)!lockVars
  BY <1>8 DEF EnterExclusive, lockVars, Lock!AcquireExclusive, Lock!lockVars
<1>9. ASSUME NEW r \in Requests, kind[r] \in Exclusive,
             NEW l \in {"finished", "visiting", "regWait"}, LeaveExclusive(r, l)
      PROVE  Lock(e)!ReleaseExclusive(r) \/ UNCHANGED Lock(e)!lockVars
  BY <1>9 DEF LeaveExclusive, Lock!ReleaseExclusive, Lock!lockVars
<1>10. ASSUME NEW r \in Requests, Wrote(r) \/ Closes(r) \/ DropLeaves(r) \/ Destroys(r)
       PROVE  Lock(e)!ReleaseExclusive(r) \/ UNCHANGED Lock(e)!lockVars
  BY <1>9, <1>10 DEF Wrote, Closes, DropLeaves, Destroys
<1>11. CASE UNCHANGED vars
  BY <1>11 DEF vars, lockVars, Lock!lockVars
<1> QED BY <1>2, <1>3, <1>4, <1>5, <1>6, <1>7, <1>8, <1>10, <1>11
    DEF Next, Done, Server, EntryStep, Lock!LockNext

\* Whatever an operation does in between, it uses the lock of each collection by
\* the library's rules: nobody enters twice, passes a closed gate or gives back
\* what another one holds (ManagedCollection.read, write, stream and drop).
THEOREM LocksAreUsedByTheRules == ASSUME NEW e \in Entries PROVE Spec => Lock(e)!LockSpec
<1>1. Init => Lock(e)!LockInit
  BY DEF Init, Lock!LockInit
<1>2. IInv /\ [Next]_vars => [Lock(e)!LockNext]_(Lock(e)!lockVars)
  BY LockStep
<1> QED BY <1>1, <1>2, Invariance, PTL DEF Spec, Lock!LockSpec

\* A writer is alone with the collection, whichever operation it is.
THEOREM WritersAreAlone == ASSUME NEW e \in Entries PROVE Spec => []Lock(e)!Exclusion
<1>1. IInv => Lock(e)!Exclusion
  BY DistinctAssumption DEF IInv, TypeOK, HolderInv, HeldInv, Lock!Exclusion
<1> QED BY <1>1, Invariance, PTL
=============================================================================
