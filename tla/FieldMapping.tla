---------------------------- MODULE FieldMapping ----------------------------
(***************************************************************************)
(* How the bodies of create, search and group-by become parameters of the  *)
(* Zvec engine: models/collections.py and models/search.py validate them,  *)
(* adapter/schema_mapper.py, enums.py and query_mapper.py translate them.   *)
(* Values are abstracted to their kind; a token (a data type, an index or a *)
(* metric) is its name in the case the code compares it in, so that other  *)
(* spellings of the same token are the same token.                         *)
(***************************************************************************)
EXTENDS Naturals, Sequences, FiniteSets, Functions

CONSTANTS None,      \* "nothing"
          MaxParams  \* bound: keys given in one params object

ASSUME MaxParamsAssumption == MaxParams \in Nat

VARIABLES schema, \* engine: the open collection's fields, or None
          made,   \* the vector and scalar fields as the client asked for them
          last    \* the exchange under way: call, body, what the engine was given (a set
          \* of at most one thing), reply

vars == <<schema, made, last>>

-----------------------------------------------------------------------------
(* Kinds of JSON value: "quantizer" is a string that names a quantization.  *)
Kinds == {"int", "float", "bool", "quantizer", "text"}

IndexTypes == {"hnsw", "flat", "ivf", "hnsw_rabitq", "ivf_rabitq"}
VectorTypes == {"VECTOR_FP16", "VECTOR_FP32", "VECTOR_FP64", "VECTOR_INT8",
                "SPARSE_VECTOR_FP16", "SPARSE_VECTOR_FP32"}
PlainTypes == {"INT32", "INT64", "UINT32", "UINT64", "FLOAT", "DOUBLE", "STRING", "BOOL"}
ArrayTypes == {"ARRAY_INT32", "ARRAY_INT64", "ARRAY_UINT32", "ARRAY_UINT64",
               "ARRAY_FLOAT", "ARRAY_DOUBLE", "ARRAY_STRING", "ARRAY_BOOL"}
ScalarTypes == PlainTypes \cup ArrayTypes
EngineMetrics == {"COSINE", "IP", "L2"}
MetricAliases == [DOT |-> "IP", INNER_PRODUCT |-> "IP", EUCLIDEAN |-> "L2"]

QuantizeParams == {"quantize_type", "enable_rotate"}
IndexParams ==
  [hnsw        |-> {"m", "ef_construction"} \cup QuantizeParams,
   ivf         |-> {"n_list", "n_iters", "use_soar"} \cup QuantizeParams,
   flat        |-> QuantizeParams,
   hnsw_rabitq |-> {"m", "ef_construction", "total_bits", "num_clusters", "sample_count"},
   ivf_rabitq  |-> {"n_list", "total_bits", "sample_count"}]

HnswParams == [ef |-> "int", radius |-> "float", is_linear |-> "bool", is_using_refiner |-> "bool"]
QueryParams ==
  [HNSW        |-> [class |-> "HnswQueryParam", allowed |-> HnswParams],
   HNSW_RABITQ |-> [class |-> "HnswRabitqQueryParam", allowed |-> HnswParams],
   IVF         |-> [class |-> "IVFQueryParam", allowed |-> [nprobe |-> "int"]],
   IVF_RABITQ  |-> [class |-> "IvfRabitqQueryParam",
                    allowed |-> [nprobe |-> "int", radius |-> "float", is_linear |-> "bool",
                                 is_using_refiner |-> "bool", scale_factor |-> "float"]]]

-----------------------------------------------------------------------------
(* The requests: every key and kind one by one and in combination, and the  *)
(* other parts of a body varied around a plain one.                         *)
Objects(keys, kinds) == UNION {[K -> kinds] : K \in {K \in SUBSET keys : Cardinality(K) <= MaxParams}}
NoParams == [k \in {} |-> "int"]

IndexKeys == UNION Range(IndexParams) \cup {"quantize"}
QueryKeys == {"ef", "radius", "is_linear", "is_using_refiner", "nprobe", "scale_factor", "efs"}

VectorSpec(n, d, t, i, m, p) ==
  [name |-> n, dim |-> d, dtype |-> t, index |-> i, metric |-> m, params |-> p]
Plain(n, i) == VectorSpec(n, 4, "VECTOR_FP32", i, "COSINE", NoParams)
VectorSpecs ==
       {VectorSpec("v", 4, "VECTOR_FP32", i, "COSINE", p) :
          i \in IndexTypes \cup {"btree"}, p \in Objects(IndexKeys, Kinds)}
  \cup {VectorSpec("v", d, t, "hnsw", m, NoParams) :
          d \in {0, 1}, t \in VectorTypes \cup {"INT32", "VECTOR_FP8"},
          m \in EngineMetrics \cup DOMAIN MetricAliases \cup {"HAMMING"}}
FieldSpecs == {[name |-> "s", dtype |-> t, indexed |-> x] :
                 t \in ScalarTypes \cup {"VECTOR_FP32", "DATE"}, x \in BOOLEAN}

CreateBody(n, vs, fs) == [validName |-> n, vectors |-> vs, fields |-> fs]
CreateBodies ==
       {CreateBody(TRUE, <<v>>, <<>>) : v \in VectorSpecs}
  \cup {CreateBody(TRUE, <<Plain("v", i), Plain("w", j)>>, fs) :
          i \in IndexTypes, j \in IndexTypes \cup {"btree"},
          fs \in {<<>>} \cup {<<f>> : f \in FieldSpecs}}
  \cup {CreateBody(n, vs, <<>>) : n \in BOOLEAN, vs \in {<<>>, <<Plain("v", "flat")>>}}

Query(f, v, i, p) == [field |-> f, vector |-> v, id |-> i, params |-> p]
Queries == {Query(f, TRUE, FALSE, p) : f \in {"v", "w", "nosuch"}, p \in Objects(QueryKeys, Kinds)}
      \cup {Query("v", v, i, NoParams) : v \in BOOLEAN, i \in BOOLEAN}
SearchBody(qs, g, n) == [queries |-> qs, groupBy |-> g, limit |-> n]
SearchBodies ==
       {SearchBody(qs, None, 10) : qs \in {<<>>} \cup {<<q>> : q \in Queries}}
  \cup {SearchBody(<<Query("v", TRUE, FALSE, p), Query("w", TRUE, FALSE, NoParams)>>, None, 10) :
          p \in Objects({"ef", "nprobe"}, {"int", "text"})}
  \cup {SearchBody(<<Query("v", TRUE, FALSE, NoParams)>>, g, n) :
          g \in {None, "s", "v", "nosuch"}, n \in {0, 1, 1000, 1001}}

-----------------------------------------------------------------------------
(* Validation of the bodies (422 validation_error).                         *)
ValidCreate(b) == /\ b.validName
                  /\ b.vectors # <<>>
                  /\ \A n \in DOMAIN b.vectors : b.vectors[n].dim > 0

ValidSearch(b) == /\ b.queries # <<>>
                  /\ \A n \in DOMAIN b.queries : b.queries[n].vector # b.queries[n].id
                  /\ b.limit \in 1..1000

-----------------------------------------------------------------------------
(* schema_mapper.  A raise is a condition, since all have the same code.    *)
Metric(m) == IF m \in DOMAIN MetricAliases THEN MetricAliases[m] ELSE m

Mistyped(p, keys, kind) == \E k \in DOMAIN p \cap keys : p[k] # kind

BadQuantize(p) == \/ Mistyped(p, {"quantize_type"}, "quantizer")
                  \/ Mistyped(p, {"enable_rotate"}, "bool")
                  \/ "enable_rotate" \in DOMAIN p /\ "quantize_type" \notin DOMAIN p

\* Mutant of BadParams: unknown keys pass, as before SPEC-011.
BadParamsOfKnownKeys(i, p) ==
  \/ i \in {"hnsw", "ivf", "flat"} /\ BadQuantize(p)
  \/ i = "hnsw" /\ Mistyped(p, {"m", "ef_construction"}, "int")
  \/ i = "ivf" /\ (Mistyped(p, {"n_list", "n_iters"}, "int") \/ Mistyped(p, {"use_soar"}, "bool"))

BadParams(i, p) ==
  \/ ~ DOMAIN p \subseteq IndexParams[i]
  \/ i \in {"hnsw", "ivf", "flat"} /\ BadQuantize(p)
  \/ i = "hnsw" /\ Mistyped(p, {"m", "ef_construction"}, "int")
  \/ i = "ivf" /\ (Mistyped(p, {"n_list", "n_iters"}, "int") \/ Mistyped(p, {"use_soar"}, "bool"))
  \/ i \in {"hnsw_rabitq", "ivf_rabitq"} /\ Mistyped(p, DOMAIN p, "int")

BadVector(v) == \/ v.dtype \notin VectorTypes
                \/ v.index \notin IndexTypes
                \/ Metric(v.metric) \notin EngineMetrics
                \/ v.index \in IndexTypes /\ BadParams(v.index, v.params)

BadSchema(b) == \/ \E n \in DOMAIN b.vectors : BadVector(b.vectors[n])
                \/ \E n \in DOMAIN b.fields : b.fields[n].dtype \notin ScalarTypes

IndexClass == [hnsw |-> "HnswIndexParam", ivf |-> "IVFIndexParam", flat |-> "FlatIndexParam",
               hnsw_rabitq |-> "HnswRabitqIndexParam", ivf_rabitq |-> "IvfRabitqIndexParam"]

\* The engine's name of a param: enable_rotate is wrapped in a QuantizerParam.
KwargName(i, k) == CASE i = "ivf_rabitq" /\ k = "n_list" -> "nlist"
                     [] k = "enable_rotate" -> "quantizer_param"
                     [] OTHER -> k

\* Mutant of Passed: a param that is validated and then forgotten.
PassedWithoutSoar(i, p) == CASE i = "hnsw" -> {"m", "ef_construction"} \cup QuantizeParams
                             [] i = "ivf" -> {"n_list", "n_iters"} \cup QuantizeParams
                             [] i = "flat" -> QuantizeParams
                             [] OTHER -> DOMAIN p

\* The params each branch of _build_vector_index_param passes on.
Passed(i, p) == CASE i = "hnsw" -> {"m", "ef_construction"} \cup QuantizeParams
                  [] i = "ivf" -> {"n_list", "n_iters", "use_soar"} \cup QuantizeParams
                  [] i = "flat" -> QuantizeParams
                  [] OTHER -> DOMAIN p

IndexParam(v) == [class |-> IndexClass[v.index],
                  metric |-> Metric(v.metric),
                  kwargs |-> {<<KwargName(v.index, k), v.params[k]>> :
                                k \in DOMAIN v.params \cap Passed(v.index, v.params)}]

\* Mutant of EngineSchema: scalar fields listed by their type.
EngineSchemaByType(b) == [vectors |-> [n \in DOMAIN b.vectors |->
                            [name |-> b.vectors[n].name, param |-> IndexParam(b.vectors[n])]],
                          fields |-> {b.fields[n].dtype : n \in DOMAIN b.fields}]

\* build_collection_schema: what create_and_open is given.
EngineSchema(b) == [vectors |-> [n \in DOMAIN b.vectors |->
                                   [name |-> b.vectors[n].name, param |-> IndexParam(b.vectors[n])]],
                    fields |-> {b.fields[n].name : n \in DOMAIN b.fields}]

-----------------------------------------------------------------------------
(* query_mapper, given the index types of the open collection's schema.     *)
EngineType == [HnswIndexParam |-> "HNSW", IVFIndexParam |-> "IVF", FlatIndexParam |-> "FLAT",
               HnswRabitqIndexParam |-> "HNSW_RABITQ", IvfRabitqIndexParam |-> "IVF_RABITQ"]

\* Mutant of IndexTypeOf: the primary vector's index stands for every field.
IndexTypeOfPrimary(f) == IF \E n \in DOMAIN schema.vectors : schema.vectors[n].name = f
                         THEN schema.vectors[1].type ELSE None

\* vector_index_types
IndexTypeOf(f) == LET found == {n \in DOMAIN schema.vectors : schema.vectors[n].name = f}
                  IN IF found = {} THEN None
                     ELSE schema.vectors[CHOOSE n \in found : TRUE].type

Allowed(t) == IF t \in DOMAIN QueryParams THEN QueryParams[t].allowed ELSE NoParams

\* A bool is no int, and a float may be written as an int.
CheckType(kind, expected) == \/ kind = expected
                             \/ kind = "int" /\ expected = "float"

BadQuery(q) == /\ q.params # NoParams
               /\ LET allowed == Allowed(IndexTypeOf(q.field))
                  IN \/ IndexTypeOf(q.field) = None
                     \/ ~ DOMAIN q.params \subseteq DOMAIN allowed
                     \/ \E k \in DOMAIN q.params \cap DOMAIN allowed :
                          ~CheckType(q.params[k], allowed[k])

QueryParam(q) == IF q.params = NoParams THEN None
                 ELSE [class |-> QueryParams[IndexTypeOf(q.field)].class, kwargs |-> q.params]

EngineQueries(b) == [n \in DOMAIN b.queries |->
                       [field |-> b.queries[n].field, byId |-> ~b.queries[n].vector,
                        param |-> QueryParam(b.queries[n])]]

-----------------------------------------------------------------------------
Schemas == [vectors : Seq([name : {"v", "w"}, type : Range(EngineType)]), fields : SUBSET {"s"}]
Wishes == [vectors : SUBSET ({"v", "w"} \X IndexTypes), fields : SUBSET {"s"}]

\* "Nothing" is no index type and no collection.
ASSUME NoneAssumption == None \notin Range(EngineType) \cup Schemas \cup Wishes

TypeOK == /\ schema \in Schemas \cup {None} /\ made \in Wishes \cup {None}
          /\ last = None \/ last.reply \in {"ok", "validation_error", "schema_validation_error",
                                            "invalid_argument", "zvec_operation_error"}
          /\ schema = None <=> made = None

Init == schema = None /\ made = None /\ last = None

Exchange(c, b, g, r) == last' = [call |-> c, body |-> b, given |-> g, reply |-> r]

\* POST /collections; the engine may refuse the schema or fail.
Create(b) ==
  /\ schema = None /\ last = None
  /\ \/ /\ ~ValidCreate(b)
        /\ Exchange("create", b, {}, "validation_error")
        /\ UNCHANGED <<schema, made>>
     \/ /\ ValidCreate(b) /\ BadSchema(b)
        /\ Exchange("create", b, {}, "schema_validation_error")
        /\ UNCHANGED <<schema, made>>
     \/ /\ ValidCreate(b) /\ ~BadSchema(b)
        /\ \E r \in {"schema_validation_error", "zvec_operation_error"} :
             Exchange("create", b, {EngineSchema(b)}, r)
        /\ UNCHANGED <<schema, made>>
     \/ /\ ValidCreate(b) /\ ~BadSchema(b)
        /\ Exchange("create", b, {EngineSchema(b)}, "ok")
        /\ schema' = [vectors |-> [n \in DOMAIN b.vectors |->
                                     [name |-> b.vectors[n].name,
                                      type |-> EngineType[EngineSchema(b).vectors[n].param.class]]],
                      fields |-> EngineSchema(b).fields]
        /\ made' = [vectors |-> {<<b.vectors[n].name, b.vectors[n].index>> : n \in DOMAIN b.vectors},
                    fields |-> {b.fields[n].name : n \in DOMAIN b.fields}]

\* POST search and search/group-by: a group_by is checked before the query.
Search(b) ==
  /\ schema # None /\ last = None
  /\ \/ /\ ~ValidSearch(b)
        /\ Exchange("search", b, {}, "validation_error")
     \/ /\ ValidSearch(b)
        /\ \/ b.groupBy \notin schema.fields \cup {None}
           \/ \E n \in DOMAIN b.queries : BadQuery(b.queries[n])
        /\ Exchange("search", b, {}, "invalid_argument")
     \/ /\ ValidSearch(b)
        /\ b.groupBy \in schema.fields \cup {None}
        /\ \A n \in DOMAIN b.queries : ~BadQuery(b.queries[n])
        /\ \E r \in {"ok", "invalid_argument", "zvec_operation_error"} :
             Exchange("search", b, {EngineQueries(b)}, r)
  /\ UNCHANGED <<schema, made>>

\* The client has its answer.
Answered == last # None /\ last' = None /\ UNCHANGED <<schema, made>>

\* DELETE: the name may come back with other indexes.
Drop == /\ schema # None /\ last = None
        /\ schema' = None /\ made' = None
        /\ UNCHANGED last

Next == \/ \E b \in CreateBodies : Create(b)
        \/ \E b \in SearchBodies : Search(b)
        \/ Answered \/ Drop

Spec == Init /\ [][Next]_vars

-----------------------------------------------------------------------------
(* The documented tables: <<index, param, kind of value>>.                  *)
DocumentedParams ==
       {"hnsw", "hnsw_rabitq"} \X {"m", "ef_construction"} \X {"int"}
  \cup {"ivf"} \X {"n_list", "n_iters"} \X {"int"}
  \cup {<<"ivf", "use_soar", "bool">>}
  \cup {"hnsw", "ivf", "flat"} \X {"quantize_type"} \X {"quantizer"}
  \cup {"hnsw", "ivf", "flat"} \X {"enable_rotate"} \X {"bool"}
  \cup {"hnsw_rabitq"} \X {"total_bits", "num_clusters", "sample_count"} \X {"int"}
  \cup {"ivf_rabitq"} \X {"n_list", "total_bits", "sample_count"} \X {"int"}

DocumentedQueryParams ==
       {"hnsw", "hnsw_rabitq"} \X {"ef"} \X {"int"}
  \cup {"ivf", "ivf_rabitq"} \X {"nprobe"} \X {"int"}
  \cup {"hnsw", "hnsw_rabitq", "ivf_rabitq"} \X {"radius"} \X {"int", "float"}
  \cup {"hnsw", "hnsw_rabitq", "ivf_rabitq"} \X {"is_linear", "is_using_refiner"} \X {"bool"}
  \cup {"ivf_rabitq"} \X {"scale_factor"} \X {"int", "float"}

DocumentedVector(v) ==
  /\ v.dtype \in VectorTypes
  /\ v.metric \in {"COSINE", "IP", "L2", "DOT", "INNER_PRODUCT", "EUCLIDEAN"}
  /\ v.index \in {"hnsw", "flat", "ivf", "hnsw_rabitq", "ivf_rabitq"}
  /\ \A k \in DOMAIN v.params : <<v.index, k, v.params[k]>> \in DocumentedParams
  /\ "enable_rotate" \in DOMAIN v.params => "quantize_type" \in DOMAIN v.params

\* Nothing reaches the engine but what the tables list for the field's index,
\* with the kinds they list, and all of that does: a typo or a mistyped value
\* never builds another index in silence.
CreateTakesWhatIsDocumented ==
  last # None /\ last.call = "create" /\ last.reply # "validation_error" =>
    (last.given # {} <=>
       /\ \A n \in DOMAIN last.body.vectors : DocumentedVector(last.body.vectors[n])
       /\ \A n \in DOMAIN last.body.fields : last.body.fields[n].dtype \in ScalarTypes)

\* No parameter that was accepted is lost on its way into the index: each
\* arrives under the engine's name for it, whatever branch builds the index.
ParamsReachTheIndex ==
  last # None /\ last.call = "create" =>
    \A given \in last.given : \A n \in DOMAIN last.body.vectors :
      LET v == last.body.vectors[n]
          engineName(k) == IF k = "n_list" /\ v.index = "ivf_rabitq" THEN "nlist"
                           ELSE IF k = "enable_rotate" THEN "quantizer_param" ELSE k
      IN given.vectors[n].param.kwargs =
           {<<engineName(k), v.params[k]>> : k \in DOMAIN v.params}

\* A search parameter is accepted exactly when the tables list it for the index
\* with which the field was created, whatever the collection of that name looked
\* like before; the other errors of a search do not depend on it.
SearchTakesWhatFits ==
  last # None /\ last.call = "search" /\ last.reply # "validation_error" =>
    (last.given # {} <=>
       /\ last.body.groupBy \in made.fields \cup {None}
       /\ \A n \in DOMAIN last.body.queries : LET q == last.body.queries[n] IN
            \A k \in DOMAIN q.params :
              \E i \in IndexTypes : /\ <<q.field, i>> \in made.vectors
                                    /\ <<i, k, q.params[k]>> \in DocumentedQueryParams)
=============================================================================
