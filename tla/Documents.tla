------------------------------ MODULE Documents ------------------------------
(***************************************************************************)
(* The document endpoints of one open collection: api/vectors.py over      *)
(* adapter/operations.py, under the collection's fair lock.  The engine    *)
(* works through a batch document by document, and an export reads its     *)
(* snapshot batch by batch, letting go of the lock in between.  The drop is *)
(* here for what it does to documents and cursors; ManagedCollection has   *)
(* the entry itself and WorkerPool the threads.                            *)
(***************************************************************************)
EXTENDS DocumentModels

CONSTANT BatchSize \* documents of an export's batch (EXPORT_BATCH_SIZE)

ASSUME BatchSizeAssumption == BatchSize \in Nat \ {0}

VARIABLES
  gate, readers, writer, \* ManagedCollection.rwlock
  opened,    \* ManagedCollection.collection is not None
  docs,      \* engine: id -> content or None
  before,    \* docs when the request inside took the exclusive lock
  cursors,   \* ManagedCollection.cursors, a cursor named after its export
  generated, \* ids the server has made up
  pc,        \* where each request is
  asked,     \* its body
  ids,       \* the document ids resolved for a write
  oks,       \* the engine's statuses so far
  snapshot,  \* an export: the documents when its cursor was opened
  read,      \* an export: ids read off the cursor
  sent,      \* an export: ids sent to the client
  answer     \* what the client got

lockVars == <<gate, readers, writer>>
dataVars == <<opened, docs, cursors>>
batchVars == <<before, generated, ids, oks>>
exportVars == <<snapshot, read, sent>>
vars == <<lockVars, dataVars, batchVars, exportVars, pc, asked, answer>>

Lock == INSTANCE FairRWLock WITH Procs <- Requests

Labels == {"new", "exclWait", "gated", "writing", "sharedWait", "reading",
           "batchWait", "batch", "responding", "sending", "stranded", "ended"}

TypeOK == /\ Lock!LockTypeOK
          /\ opened \in BOOLEAN
          /\ docs \in Stores /\ before \in Stores
          /\ cursors \subseteq Requests /\ generated \subseteq Fresh
          /\ pc \in [Requests -> Labels]
          /\ asked \in [Requests -> Bodies \cup {None}]
          /\ ids \in [Requests -> Batches(Ids)]
          /\ oks \in [Requests -> Batches(BOOLEAN)]
          /\ snapshot \in [Requests -> Stores \cup {None}]
          /\ read \in [Requests -> SUBSET Ids]
          /\ sent \in [Requests -> SUBSET Ids]

Init == /\ Lock!LockInit
        /\ opened = TRUE
        /\ \E S \in SUBSET Given : docs = [i \in Ids |-> IF i \in S THEN Old ELSE None]
        /\ before = Empty /\ cursors = {} /\ generated = {}
        /\ pc = [r \in Requests |-> "new"]
        /\ asked = [r \in Requests |-> None]
        /\ ids = [r \in Requests |-> <<>>] /\ oks = [r \in Requests |-> <<>>]
        /\ snapshot = [r \in Requests |-> None]
        /\ read = [r \in Requests |-> {}] /\ sent = [r \in Requests |-> {}]
        /\ answer = [r \in Requests |-> None]

Goto(r, l) == pc' = [pc EXCEPT ![r] = l]
End(r, a) == Goto(r, "ended") /\ answer' = [answer EXCEPT ![r] = a]
Unavailable == Plain("collection_unavailable")

-----------------------------------------------------------------------------
\* Clients name the ids they chose or were told of; bound: ids still to be made
\* up do not run out.
Named(b) == IF b.ids = None THEN {} ELSE {b.ids[n] : n \in DOMAIN b.ids} \ {None}
Nameless(a) == {p \in Requests \X (1..MaxDocs) :
                  /\ a[p[1]] # None /\ a[p[1]].ids # None
                  /\ p[2] \in DOMAIN a[p[1]].ids /\ a[p[1]].ids[p[2]] = None}

(* The body is validated before the handler runs, and the handler looks at  *)
(* the collection before it queues for its lock.                            *)
Submit(r) == /\ pc[r] = "new"
             /\ \E b \in Bodies :
                  /\ Named(b) \subseteq Given \cup generated
                  /\ asked' = [asked EXCEPT ![r] = b]
                  /\ Cardinality(Nameless(asked')) <= Cardinality(Fresh)
                  /\ IF ~Valid(b) THEN End(r, Plain("validation_error"))
                     ELSE IF ~opened THEN End(r, Unavailable)
                     ELSE /\ Goto(r, IF b.op \in WriteOps \cup {"delete", "drop"}
                                     THEN "exclWait" ELSE "sharedWait")
                          /\ UNCHANGED answer
             /\ UNCHANGED <<lockVars, dataVars, batchVars, exportVars>>

-----------------------------------------------------------------------------
(* Under the exclusive lock: ManagedCollection.write and drop.              *)
CloseGate(r) == /\ pc[r] = "exclWait"
                /\ Lock!CloseGate(r)
                /\ Goto(r, "gated")
                /\ UNCHANGED <<dataVars, batchVars, exportVars, asked, answer>>

\* Mutant of Resolve: a missing id is left to the engine.
ResolveGiven(b) == {IF b.ids = None THEN <<>> ELSE b.ids}

\* to_zvec_docs: where no id is given, one that nobody has had is made up.
Resolve(b) == {s \in Batches(Ids) :
                 /\ Len(s) = IF b.ids = None THEN 0 ELSE Len(b.ids)
                 /\ \A n \in DOMAIN s :
                      IF b.ids[n] # None THEN s[n] = b.ids[n]
                      ELSE /\ s[n] \in Fresh \ generated
                           /\ \A m \in DOMAIN s \ {n} : s[m] # s[n]}

EnterExclusive(r) == /\ pc[r] = "gated"
                     /\ Lock!AcquireExclusive(r)
                     /\ \E s \in Resolve(asked[r]) :
                          /\ ids' = [ids EXCEPT ![r] = s]
                          /\ generated' = generated \cup
                               {s[n] : n \in {m \in DOMAIN s : asked[r].ids[m] = None}}
                     /\ before' = docs
                     /\ Goto(r, "writing")
                     /\ UNCHANGED <<dataVars, oks, exportVars, asked, answer>>

LeaveExclusive(r, a) == /\ Lock!ReleaseExclusive(r)
                        /\ End(r, a)
                        /\ before' = Empty
                        /\ ids' = [ids EXCEPT ![r] = <<>>]
                        /\ oks' = [oks EXCEPT ![r] = <<>>]
                        /\ UNCHANGED <<generated, exportVars, asked>>

\* A drop came first.
RefuseExclusive(r) == /\ ~opened
                      /\ LeaveExclusive(r, Unavailable)
                      /\ UNCHANGED dataVars

InBatch(r) == opened /\ asked[r].op \in WriteOps \cup {"delete"} /\ asked[r].ids # None

\* The engine comes to the next document, and may reject it on its own account.
EngineWrites(r) == /\ InBatch(r)
                   /\ Len(oks[r]) < Len(ids[r])
                   /\ LET i == ids[r][Len(oks[r]) + 1]
                      IN \E ok \in BOOLEAN :
                           /\ ok => Accepts(asked[r].op, docs[i] # None)
                           /\ docs' = IF ok THEN Put(r, asked[r].op, docs, i) ELSE docs
                           /\ oks' = [oks EXCEPT ![r] = Append(@, ok)]
                   /\ UNCHANGED <<lockVars, opened, cursors, before, generated, ids,
                                  exportVars, pc, asked, answer>>

\* build_write_response pairs the resolved ids with the statuses.
RespondWrite(r) == /\ InBatch(r)
                   /\ Len(oks[r]) = Len(ids[r])
                   /\ LeaveExclusive(r, Results(ids[r], oks[r]))
                   /\ UNCHANGED dataVars

\* to_zvec_docs fails before the engine is called.
ConversionFails(r) == /\ InBatch(r)
                      /\ asked[r].op \in WriteOps /\ oks[r] = <<>>
                      /\ LeaveExclusive(r, Plain("internal_error"))
                      /\ UNCHANGED dataVars

\* An exception of the engine ends the batch where it is.
WriteFails(r) == /\ InBatch(r)
                 /\ \E e \in EngineErrors : LeaveExclusive(r, Plain(e))
                 /\ UNCHANGED dataVars

DeleteByFilter(r) == /\ opened /\ asked[r].op = "delete" /\ asked[r].ids = None
                     /\ \E S \in SUBSET Matching(docs, asked[r].filter) :
                          /\ docs' = Only(docs, Ids \ S)
                          /\ \/ /\ S = Matching(docs, asked[r].filter)
                                /\ LeaveExclusive(r, Plain("ok"))
                             \/ \E e \in EngineErrors : LeaveExclusive(r, Plain(e))
                     /\ UNCHANGED <<opened, cursors>>

\* drop closes the cursors, then destroys; the engine may refuse to.
Drop(r) == /\ opened /\ asked[r].op = "drop"
           /\ cursors' = {}
           /\ \/ opened' = FALSE /\ docs' = Empty /\ LeaveExclusive(r, Plain("ok"))
              \/ UNCHANGED <<opened, docs>> /\ LeaveExclusive(r, Plain("zvec_operation_error"))

-----------------------------------------------------------------------------
(* Under the shared lock: ManagedCollection.read, and stream's cursor.      *)
\* Mutant of EnterShared: a read that does not take the lock's gate.
EnterSharedAnytime(r) == /\ pc[r] = "sharedWait"
                         /\ readers' = readers \cup {r}
                         /\ Goto(r, "reading")
                         /\ UNCHANGED <<gate, writer, dataVars, batchVars, exportVars, asked, answer>>

EnterShared(r) == /\ pc[r] = "sharedWait"
                  /\ Lock!AcquireShared(r)
                  /\ Goto(r, "reading")
                  /\ UNCHANGED <<dataVars, batchVars, exportVars, asked, answer>>

LeaveShared(r, a) == /\ Lock!ReleaseShared(r)
                     /\ End(r, a)
                     /\ UNCHANGED <<dataVars, batchVars, exportVars, asked>>

\* The engine fails, or a document it found does not convert (from_zvec_doc).
ReadFails(r) == IF opened
                THEN \E e \in IF asked[r].op = "export" THEN EngineErrors ELSE Errors :
                       LeaveShared(r, Plain(e))
                ELSE LeaveShared(r, Unavailable)

\* Missing ids are left out.
Fetch(r) == /\ opened /\ asked[r].op = "fetch"
            /\ LeaveShared(r, Docs(Only(docs, Named(asked[r]))))

GetDoc(r) == /\ opened /\ asked[r].op = "get"
             /\ LeaveShared(r, IF Named(asked[r]) \cap Present(docs) = {} THEN Plain("document_not_found")
                               ELSE Docs(Only(docs, Named(asked[r]))))

Search(r) == /\ opened /\ asked[r].op = "search"
             /\ \E hits \in SUBSET Present(docs) : LeaveShared(r, Docs(Only(docs, hits)))

OpenExport(r) == /\ opened /\ asked[r].op = "export"
                 /\ Lock!ReleaseShared(r)
                 /\ snapshot' = [snapshot EXCEPT ![r] = docs]
                 /\ cursors' = cursors \cup {r}
                 /\ Goto(r, "batchWait")
                 /\ UNCHANGED <<opened, docs, batchVars, read, sent, asked, answer>>

-----------------------------------------------------------------------------
(* The export's batches.  The first one is read before the response starts. *)
Delivered(r, whole) == Exported(Only(snapshot[r], sent[r]), whole)

EnterBatch(r) == /\ pc[r] = "batchWait"
                 /\ Lock!AcquireShared(r)
                 /\ Goto(r, "batch")
                 /\ UNCHANGED <<dataVars, batchVars, exportVars, asked, answer>>

LeaveBatch(r) == /\ pc[r] = "batch"
                 /\ Lock!ReleaseShared(r)
                 /\ UNCHANGED <<opened, docs, batchVars, snapshot, asked>>

Unread(r) == Present(snapshot[r]) \ read[r]

NextBatch(r) == /\ r \in cursors
                /\ LeaveBatch(r)
                /\ \E S \in SUBSET Unread(r) :
                     /\ S # {}
                     /\ Cardinality(S) = BatchSize \/ (Cardinality(S) < BatchSize /\ S = Unread(r))
                     /\ read' = [read EXCEPT ![r] = @ \cup S]
                     /\ IF read[r] = {}
                        THEN Goto(r, "responding") /\ UNCHANGED sent
                        ELSE Goto(r, "sending") /\ sent' = [sent EXCEPT ![r] = @ \cup S]
                /\ UNCHANGED <<cursors, answer>>

\* An empty batch ends the stream, and its finally releases the cursor.
LastBatch(r) == /\ r \in cursors /\ Unread(r) = {}
                /\ LeaveBatch(r)
                /\ cursors' = cursors \ {r}
                /\ IF read[r] = {} THEN Goto(r, "responding") /\ UNCHANGED answer
                   ELSE End(r, Delivered(r, TRUE))
                /\ UNCHANGED <<read, sent>>

\* The cursor is gone or the engine fails: an error envelope, as the answer or
\* as the last line.  A document that does not convert breaks the connection
\* instead of a last line.
BatchFails(r) == /\ LeaveBatch(r)
                 /\ cursors' = cursors \ {r}
                 /\ \E e \in IF r \in cursors THEN {"zvec_operation_error", "internal_error"}
                             ELSE {"collection_unavailable"} :
                      End(r, IF read[r] = {} THEN Plain(e) ELSE Delivered(r, FALSE))
                 /\ UNCHANGED <<read, sent>>

\* The body: the first batch, if it is not empty, then those that follow.
StartBody(r) == /\ pc[r] = "responding"
                /\ sent' = [sent EXCEPT ![r] = read[r]]
                /\ IF read[r] = {} THEN End(r, Delivered(r, TRUE))
                   ELSE Goto(r, "sending") /\ UNCHANGED answer
                /\ UNCHANGED <<lockVars, dataVars, batchVars, snapshot, read, asked>>

\* The client is gone before the body's generator has run: closing it runs no
\* finally, and the cursor waits for the garbage collector.
NeverStarts(r) == /\ pc[r] = "responding"
                  /\ answer' = [answer EXCEPT ![r] = Delivered(r, FALSE)]
                  /\ Goto(r, IF r \in cursors THEN "stranded" ELSE "ended")
                  /\ UNCHANGED <<lockVars, dataVars, batchVars, exportVars, asked>>

Collect(r) == /\ pc[r] = "stranded"
              /\ Goto(r, "ended")
              /\ cursors' = cursors \ {r}
              /\ UNCHANGED <<lockVars, opened, docs, batchVars, exportVars, asked, answer>>

Resume(r) == /\ pc[r] = "sending"
             /\ Goto(r, "batchWait")
             /\ UNCHANGED <<lockVars, dataVars, batchVars, exportVars, asked, answer>>

\* Mutant of Abandon: the body is left to the garbage collector, as in starlette.
AbandonUnclosed(r) == /\ pc[r] = "sending"
                      /\ End(r, Delivered(r, FALSE))
                      /\ UNCHANGED <<lockVars, dataVars, batchVars, exportVars, asked>>

\* The client leaves: _ClosingStreamingResponse closes the body.
Abandon(r) == /\ pc[r] = "sending"
              /\ cursors' = cursors \ {r}
              /\ End(r, Delivered(r, FALSE))
              /\ UNCHANGED <<lockVars, opened, docs, batchVars, exportVars, asked>>

-----------------------------------------------------------------------------
Exclusive(r) == \/ CloseGate(r) \/ EnterExclusive(r)
                \/ /\ pc[r] = "writing"
                   /\ \/ RefuseExclusive(r) \/ EngineWrites(r) \/ RespondWrite(r)
                      \/ WriteFails(r) \/ ConversionFails(r) \/ DeleteByFilter(r) \/ Drop(r)

Shared(r) == \/ EnterShared(r)
             \/ /\ pc[r] = "reading"
                /\ Fetch(r) \/ GetDoc(r) \/ Search(r) \/ OpenExport(r) \/ ReadFails(r)

Export(r) == \/ EnterBatch(r) \/ NextBatch(r) \/ LastBatch(r)
             \/ BatchFails(r) \/ StartBody(r) \/ NeverStarts(r) \/ Collect(r)
             \/ Resume(r) \/ Abandon(r)

Done == (\A r \in Requests : pc[r] \in {"new", "ended"}) /\ UNCHANGED vars

Next == Done \/ \E r \in Requests : Submit(r) \/ Exclusive(r) \/ Shared(r) \/ Export(r)

Spec == Init /\ [][Next]_vars

-----------------------------------------------------------------------------
\* A request under the exclusive lock has not happened yet for its clients.
Store == INSTANCE DocumentStore WITH
           store <- IF writer = None THEN docs ELSE before,
           serving <- opened

\* However requests interleave, fail and are cut short: each takes effect and
\* reads at one moment, documents are answered for one by one, and an export
\* that ends without an error is the collection of one moment, whole.
ImplementsStore == Store!Spec

\* A snapshot cursor keeps the engine from closing or destroying the
\* collection: one is there only while its export goes on or, when the response
\* never started, until it is collected, and none in a collection that is gone.
CursorsAreAccountedFor ==
  /\ \A r \in cursors : pc[r] \in {"batchWait", "batch", "responding", "sending", "stranded"}
  /\ ~opened => cursors = {}
=============================================================================
