--------------------------- MODULE DocumentModels ---------------------------
(***************************************************************************)
(* The bodies and the answers of the document endpoints (models/vectors.py, *)
(* adapter/doc_mapper.py), and what the Zvec engine does with one document. *)
(* Documents are ids with a content; a write's content is the request that  *)
(* made it, so that vectors and fields are told apart by their writer.      *)
(***************************************************************************)
EXTENDS Naturals, Sequences, FiniteSets

CONSTANTS Requests, \* the clients' calls, each made once
          Given,    \* document ids that clients choose
          Fresh,    \* document ids that the server generates
          Old,      \* the content of a document written earlier
          None,     \* "no document", "no id", "no filter", "no answer"
          MaxDocs   \* bound: documents in a batch

ASSUME IdsAssumption == Given \cap Fresh = {} /\ None \notin Given \cup Fresh
ASSUME ValuesAssumption == None \notin Requests \cup {Old} /\ Old \notin Requests
ASSUME MaxDocsAssumption == MaxDocs \in Nat \ {0}

Ids == Given \cup Fresh
Values == Requests \cup {Old}
Empty == [i \in Ids |-> None]
Stores == [Ids -> Values \cup {None}]
Present(d) == {i \in Ids : d[i] # None}
Only(d, S) == [i \in Ids |-> IF i \in S THEN d[i] ELSE None]

Batches(S) == UNION {[1..n -> S] : n \in 0..MaxDocs}

\* The request bodies: vectors, fields and output options left out.
WriteOps == {"insert", "upsert", "update"}
Body(o, ids, f) == [op |-> o, ids |-> ids, filter |-> f]
Bodies == {Body(o, ids, None) : o \in WriteOps, ids \in Batches(Given \cup {None})}
     \cup {Body("delete", ids, None) : ids \in Batches(Ids) \cup {None}}
     \cup {Body("delete", ids, f) : ids \in {None, <<>>}, f \in Values}
     \cup {Body("fetch", ids, None) : ids \in Batches(Ids)}
     \cup {Body("get", <<i>>, None) : i \in Ids}
     \cup {Body(o, <<>>, None) : o \in {"search", "export", "drop"}}

\* WriteRequest and FetchRequest ask for at least one element, DeleteRequest
\* for exactly one of ids and filter (an empty list of ids is a list of ids).
Valid(b) == CASE b.op \in WriteOps \cup {"fetch"} -> b.ids # <<>>
              [] b.op = "delete" -> (b.ids = None) # (b.filter = None)
              [] OTHER -> TRUE

\* "Nothing" is no list, no body and no collection.
ASSUME NoneAssumption == None \notin Batches(Ids \cup {None}) \cup Bodies \cup Stores

\* What the engine may accept, given whether the id is there.
Accepts(o, there) == CASE o = "insert" -> ~there
                       [] o = "update" -> there
                       [] OTHER -> TRUE

Put(r, o, d, i) == [d EXCEPT ![i] = IF o = "delete" THEN None ELSE r]

Results(ids, oks) == [code |-> "results",
                      items |-> [n \in DOMAIN oks |-> [id |-> ids[n], ok |-> oks[n]]]]
Docs(d) == [code |-> "docs", docs |-> d]
Exported(d, whole) == [code |-> "export", docs |-> d, whole |-> whole]
Plain(c) == [code |-> c]

EngineErrors == {"invalid_argument", "zvec_operation_error"}

\* Outside the try around the engine: a document that does not convert.
Errors == EngineErrors \cup {"internal_error"}

\* The documents a filter selects.
Matching(d, v) == {i \in Ids : d[i] = v}
=============================================================================
