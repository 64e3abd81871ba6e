---------------------------- MODULE DocumentStore ----------------------------
(***************************************************************************)
(* What the document endpoints of one collection promise their clients:    *)
(* every request takes effect, and reads, at one moment between its        *)
(* arrival and its answer.  A batch has an outcome for each document, an   *)
(* export is the collection at one moment, whole or visibly cut short.     *)
(* What is unavailable is a collection that is gone, or an export whose    *)
(* cursor a drop has closed, even one that then failed.                    *)
(***************************************************************************)
EXTENDS DocumentModels

VARIABLES store,    \* id -> content or None; a write's content is the request
          serving,  \* the collection exists
          asked,    \* per request: its body
          snapshot, \* per export: the store it reports
          answer    \* per request: what it was answered

vars == <<store, serving, asked, snapshot, answer>>

\* Generated ids are new and different from each other.
Resolved(b, d) == {ids \in Batches(Ids) :
                     /\ Len(ids) = Len(b.ids)
                     /\ \A n \in DOMAIN ids :
                          \/ ids[n] = b.ids[n]
                          \/ b.ids[n] = None /\ ids[n] \in Fresh \ Present(d)
                     /\ \A n, m \in DOMAIN ids : n # m /\ b.ids[n] = None => ids[n] # ids[m]}

\* The stores a batch goes through, document after document.
Effect(r, o, d, ids, oks) ==
  LET after[n \in 0..Len(oks)] ==
        IF n = 0 THEN d
        ELSE IF oks[n] THEN Put(r, o, after[n - 1], ids[n]) ELSE after[n - 1]
  IN after

Legal(r, o, d, ids, oks) ==
  \A n \in DOMAIN oks :
    oks[n] => Accepts(o, Effect(r, o, d, ids, oks)[n - 1][ids[n]] # None)

StoreTypeOK == /\ store \in Stores /\ serving \in BOOLEAN
               /\ asked \in [Requests -> Bodies \cup {None}]
               /\ snapshot \in [Requests -> Stores \cup {None}]

-----------------------------------------------------------------------------
Init == /\ \E S \in SUBSET Given : store = [i \in Ids |-> IF i \in S THEN Old ELSE None]
        /\ serving = TRUE
        /\ asked = [r \in Requests |-> None]
        /\ snapshot = [r \in Requests |-> None]
        /\ answer = [r \in Requests |-> None]

Reply(r, a) == answer' = [answer EXCEPT ![r] = a]
Pending(r, ops) == asked[r] # None /\ answer[r] = None /\ asked[r].op \in ops

Ask(r) == /\ asked[r] = None /\ asked'[r] # None
          /\ asked'[r] \in Bodies
          /\ asked' = [asked EXCEPT ![r] = asked'[r]]
          /\ \/ Valid(asked'[r]) /\ UNCHANGED answer
             \/ Valid(asked'[r]) /\ ~serving /\ Reply(r, Plain("collection_unavailable"))
             \/ ~Valid(asked'[r]) /\ Reply(r, Plain("validation_error"))
          /\ UNCHANGED <<store, serving, snapshot>>

Unavailable(r) == /\ asked[r] # None /\ answer[r] = None
                  /\ ~serving
                  /\ Reply(r, Plain("collection_unavailable"))
                  /\ UNCHANGED <<store, serving, asked, snapshot>>

\* The whole batch at once, or the part of it that a failure left applied.
Write(r) == /\ serving /\ Pending(r, WriteOps \cup {"delete"}) /\ asked[r].ids # None
            /\ LET o == asked[r].op
               IN \E ids \in Resolved(asked[r], store) :
                    \E k \in 0..Len(ids) : \E oks \in [1..k -> BOOLEAN] :
                      /\ Legal(r, o, store, ids, oks)
                      /\ store' = Effect(r, o, store, ids, oks)[k]
                      /\ \/ k = Len(ids) /\ Reply(r, Results(ids, oks))
                         \/ \E e \in EngineErrors : Reply(r, Plain(e))
            /\ UNCHANGED <<serving, asked, snapshot>>

DeleteByFilter(r) == /\ serving /\ Pending(r, {"delete"}) /\ asked[r].ids = None
                     /\ \E S \in SUBSET Matching(store, asked[r].filter) :
                          /\ store' = Only(store, Ids \ S)
                          /\ \/ S = Matching(store, asked[r].filter) /\ Reply(r, Plain("ok"))
                             \/ \E e \in EngineErrors : Reply(r, Plain(e))
                     /\ UNCHANGED <<serving, asked, snapshot>>

Read(r) == /\ serving /\ Pending(r, {"fetch", "get", "search"})
           /\ LET wanted == {asked[r].ids[n] : n \in DOMAIN asked[r].ids}
              IN \/ asked[r].op = "fetch" /\ Reply(r, Docs(Only(store, wanted)))
                 \/ asked[r].op = "get" /\
                      Reply(r, IF wanted \subseteq Present(store) THEN Docs(Only(store, wanted))
                               ELSE Plain("document_not_found"))
                 \/ asked[r].op = "search" /\
                      \E hits \in SUBSET Present(store) : Reply(r, Docs(Only(store, hits)))
           /\ UNCHANGED <<store, serving, asked, snapshot>>

\* Nothing but the answer changes.
Fail(r) == /\ asked[r] # None /\ answer[r] = None
           /\ \E e \in Errors : Reply(r, Plain(e))
           /\ UNCHANGED <<store, serving, asked, snapshot>>

OpenExport(r) == /\ serving /\ Pending(r, {"export"}) /\ snapshot[r] = None
                 /\ snapshot' = [snapshot EXCEPT ![r] = store]
                 /\ UNCHANGED <<store, serving, asked, answer>>

EndExport(r) == /\ Pending(r, {"export"}) /\ snapshot[r] # None
                /\ \/ Reply(r, Exported(snapshot[r], TRUE))
                   \/ \E S \in SUBSET Ids : Reply(r, Exported(Only(snapshot[r], S), FALSE))
                   \/ Reply(r, Plain("collection_unavailable"))
                /\ UNCHANGED <<store, serving, asked, snapshot>>

Drop(r) == /\ serving /\ Pending(r, {"drop"})
           /\ store' = Empty /\ serving' = FALSE
           /\ Reply(r, Plain("ok"))
           /\ UNCHANGED <<asked, snapshot>>

Next == \E r \in Requests : \/ Ask(r) \/ Unavailable(r) \/ Write(r) \/ DeleteByFilter(r)
                            \/ Read(r) \/ Fail(r) \/ OpenExport(r) \/ EndExport(r) \/ Drop(r)

Spec == Init /\ [][Next]_vars
=============================================================================
