------------------------ MODULE DocumentModelsProofs ------------------------
(***************************************************************************)
(* What the bodies and the batches of the document endpoints look like:    *)
(* lemmas for DocumentsProofs.                                             *)
(***************************************************************************)
EXTENDS DocumentModels, TLAPS, SequenceTheorems

\* The operations that take the collection's lock exclusively, and the others.
ExclusiveOps == WriteOps \cup {"delete", "drop"}
SharedOps == {"fetch", "get", "search", "export"}

\* A batch is a sequence of at most MaxDocs of the things it is made of.
LEMMA BatchElements ==
  ASSUME NEW S, NEW s \in Batches(S)
  PROVE  /\ s \in Seq(S) /\ Len(s) \in 0..MaxDocs
         /\ DOMAIN s = 1..Len(s)
         /\ \A n \in 1..Len(s) : s[n] \in S
<1>1. PICK m \in 0..MaxDocs : s \in [1..m -> S]
  BY DEF Batches
<1>2. m \in Nat
  BY <1>1, MaxDocsAssumption
<1>3. s \in Seq(S) /\ Len(s) = m
  BY <1>1, <1>2
<1> QED BY <1>1, <1>2, <1>3

\* Every sequence of at most MaxDocs things is a batch.
LEMMA SequencesAreBatches ==
  ASSUME NEW S, NEW s \in Seq(S), Len(s) <= MaxDocs
  PROVE  s \in Batches(S)
<1>1. Len(s) \in 0..MaxDocs /\ s \in [1..Len(s) -> S]
  BY MaxDocsAssumption, LenProperties
<1> QED BY <1>1 DEF Batches

\* An empty list of documents or ids is a batch too.
LEMMA EmptyBatch == ASSUME NEW S PROVE <<>> \in Batches(S)
<1>1. <<>> \in Seq(S) /\ Len(<<>>) <= MaxDocs
  BY MaxDocsAssumption
<1> QED BY <1>1, SequencesAreBatches

\* What the models let through.
LEMMA BodyFields ==
  ASSUME NEW b \in Bodies
  PROVE  /\ b # None
         /\ b.op \in ExclusiveOps \cup SharedOps
         /\ b.op \in WriteOps => b.ids \in Batches(Given \cup {None})
         /\ b.op = "delete" => b.ids \in Batches(Ids) \cup {None}
         /\ b.op = "fetch" => b.ids \in Batches(Ids)
         /\ b.op = "get" => \E i \in Ids : b.ids = <<i>>
         /\ b.op \in {"search", "export", "drop"} => b.ids = <<>>
<1> DEFINE Writes == {Body(o, ids, None) : o \in WriteOps, ids \in Batches(Given \cup {None})}
           Deletes == {Body("delete", ids, None) : ids \in Batches(Ids) \cup {None}}
           Filters == {Body("delete", ids, f) : ids \in {None, <<>>}, f \in Values}
           Fetches == {Body("fetch", ids, None) : ids \in Batches(Ids)}
           Gets == {Body("get", <<i>>, None) : i \in Ids}
           Others == {Body(o, <<>>, None) : o \in {"search", "export", "drop"}}
<1> DEFINE P(c) ==
         /\ c.op \in ExclusiveOps \cup SharedOps
         /\ c.op \in WriteOps => c.ids \in Batches(Given \cup {None})
         /\ c.op = "delete" => c.ids \in Batches(Ids) \cup {None}
         /\ c.op = "fetch" => c.ids \in Batches(Ids)
         /\ c.op = "get" => \E i \in Ids : c.ids = <<i>>
         /\ c.op \in {"search", "export", "drop"} => c.ids = <<>>
<1>1. Bodies = Writes \cup Deletes \cup Filters \cup Fetches \cup Gets \cup Others
  BY DEF Bodies
<1>2. \A c \in Writes : P(c)
  <2>1. ASSUME NEW o \in WriteOps, NEW s \in Batches(Given \cup {None}) PROVE P(Body(o, s, None))
    BY DEF Body, WriteOps, ExclusiveOps
  <2> HIDE DEF P
  <2> QED BY <2>1
<1>3. \A c \in Deletes : P(c)
  BY DEF Body, WriteOps, ExclusiveOps
<1>4. \A c \in Filters : P(c)
  BY EmptyBatch DEF Body, WriteOps, ExclusiveOps
<1>5. \A c \in Fetches : P(c)
  BY DEF Body, WriteOps, SharedOps
<1>6. \A c \in Gets : P(c)
  BY DEF Body, WriteOps, SharedOps
<1>7. \A c \in Others : P(c)
  BY DEF Body, WriteOps, ExclusiveOps, SharedOps
<1>8. b # None
  BY NoneAssumption
<1> HIDE DEF Writes, Deletes, Filters, Fetches, Gets, Others, P
<1>9. P(b)
  BY <1>2, <1>3, <1>4, <1>5, <1>6, <1>7, <1>1
<1> QED BY <1>8, <1>9 DEF P

\* The bodies of writes have ids to resolve.
LEMMA BatchIds ==
  ASSUME NEW b \in Bodies, b.op \in WriteOps \cup {"delete"}, b.ids # None
  PROVE  b.ids \in Batches(Ids \cup {None})
<1>1. b.ids \in Batches(Given \cup {None}) \/ b.ids \in Batches(Ids)
  BY BodyFields DEF WriteOps
<1>2. b.ids \in Seq(Ids \cup {None}) /\ Len(b.ids) <= MaxDocs
  <2>1. \A S : b.ids \in Batches(S) =>
           /\ Len(b.ids) \in 0..MaxDocs /\ DOMAIN b.ids = 1..Len(b.ids)
           /\ b.ids \in Seq(S)
           /\ \A n \in 1..Len(b.ids) : b.ids[n] \in S
    BY BatchElements
  <2>2. \A S, T : b.ids \in Seq(S) /\ S \subseteq T => b.ids \in Seq(T)
    OBVIOUS
  <2> QED BY <1>1, <2>1, <2>2, MaxDocsAssumption DEF Ids
<1> QED BY <1>2, SequencesAreBatches
=============================================================================
