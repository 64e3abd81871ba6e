-------------------------- MODULE FieldMappingProofs --------------------------
(***************************************************************************)
(* The tables of the mappers against the documented ones, and with them the *)
(* properties of FieldMapping, whatever number of keys one params object    *)
(* holds.  VectorsDocumented and QueryParamsDocumented compare the tables   *)
(* for every value there is, not for those of the bodies alone.             *)
(***************************************************************************)
EXTENDS FieldMapping, TLAPS

-----------------------------------------------------------------------------
(* Index parameters.                                                        *)

\* The metrics the mapper takes, aliases included.
LEMMA Metrics ==
  \A m : Metric(m) \in EngineMetrics <=>
           m \in {"COSINE", "IP", "L2", "DOT", "INNER_PRODUCT", "EUCLIDEAN"}
<1>1. DOMAIN MetricAliases = {"DOT", "INNER_PRODUCT", "EUCLIDEAN"}
  BY DEF MetricAliases
<1>2. /\ MetricAliases["DOT"] = "IP" /\ MetricAliases["INNER_PRODUCT"] = "IP"
      /\ MetricAliases["EUCLIDEAN"] = "L2"
  BY DEF MetricAliases
<1> QED BY <1>1, <1>2 DEF Metric, EngineMetrics

\* The documented table, read off for one index at a time.
LEMMA HnswParamsDocumented ==
  \A k, x : <<"hnsw", k, x>> \in DocumentedParams <=>
              \/ k \in {"m", "ef_construction"} /\ x = "int"
              \/ k = "quantize_type" /\ x = "quantizer"
              \/ k = "enable_rotate" /\ x = "bool"
BY DEF DocumentedParams

\* The same for ivf.
LEMMA IvfParamsDocumented ==
  \A k, x : <<"ivf", k, x>> \in DocumentedParams <=>
              \/ k \in {"n_list", "n_iters"} /\ x = "int"
              \/ k = "use_soar" /\ x = "bool"
              \/ k = "quantize_type" /\ x = "quantizer"
              \/ k = "enable_rotate" /\ x = "bool"
BY DEF DocumentedParams

\* The same for flat.
LEMMA FlatParamsDocumented ==
  \A k, x : <<"flat", k, x>> \in DocumentedParams <=>
              \/ k = "quantize_type" /\ x = "quantizer"
              \/ k = "enable_rotate" /\ x = "bool"
BY DEF DocumentedParams

\* The same for the two RaBitQ indexes.
LEMMA RabitqParamsDocumented ==
  /\ \A k, x : <<"hnsw_rabitq", k, x>> \in DocumentedParams <=>
       k \in {"m", "ef_construction", "total_bits", "num_clusters", "sample_count"} /\ x = "int"
  /\ \A k, x : <<"ivf_rabitq", k, x>> \in DocumentedParams <=>
       k \in {"n_list", "total_bits", "sample_count"} /\ x = "int"
BY DEF DocumentedParams

\* The allow-lists of _build_vector_index_param.
LEMMA AllowedIndexParams ==
  /\ IndexParams["hnsw"] = {"m", "ef_construction", "quantize_type", "enable_rotate"}
  /\ IndexParams["ivf"] = {"n_list", "n_iters", "use_soar", "quantize_type", "enable_rotate"}
  /\ IndexParams["flat"] = {"quantize_type", "enable_rotate"}
  /\ IndexParams["hnsw_rabitq"] =
       {"m", "ef_construction", "total_bits", "num_clusters", "sample_count"}
  /\ IndexParams["ivf_rabitq"] = {"n_list", "total_bits", "sample_count"}
BY DEF IndexParams, QuantizeParams

\* All of a params object is documented for an index.
DocumentedFor(i, p) ==
  /\ \A k \in DOMAIN p : <<i, k, p[k]>> \in DocumentedParams
  /\ "enable_rotate" \in DOMAIN p => "quantize_type" \in DOMAIN p

\* The allow-lists and the checks of the branches make up the documented table.
LEMMA IndexParamsDocumented ==
  ASSUME NEW i \in IndexTypes, NEW p
  PROVE  ~BadParams(i, p) <=> DocumentedFor(i, p)
<1> USE AllowedIndexParams DEF BadParams, BadQuantize, Mistyped, DocumentedFor
<1>1. CASE i = "hnsw"
  BY <1>1, HnswParamsDocumented
<1>2. CASE i = "ivf"
  BY <1>2, IvfParamsDocumented
<1>3. CASE i = "flat"
  BY <1>3, FlatParamsDocumented
<1>4. CASE i = "hnsw_rabitq"
  BY <1>4, RabitqParamsDocumented
<1>5. CASE i = "ivf_rabitq"
  BY <1>5, RabitqParamsDocumented
<1> QED BY <1>1, <1>2, <1>3, <1>4, <1>5 DEF IndexTypes

\* A vector spec is refused exactly when some of it is not documented.
LEMMA VectorsDocumented ==
  ASSUME NEW v
  PROVE  ~BadVector(v) <=> DocumentedVector(v)
BY IndexParamsDocumented, Metrics DEF BadVector, DocumentedVector, DocumentedFor, IndexTypes

-----------------------------------------------------------------------------
(* Search parameters.                                                       *)

\* The engine's type of a field that was asked for with an index.
EngineTypeOf(i) == EngineType[IndexClass[i]]

\* The engine reports an index under the name the query mapper knows it by.
LEMMA EngineTypes ==
  /\ EngineTypeOf("hnsw") = "HNSW" /\ EngineTypeOf("ivf") = "IVF" /\ EngineTypeOf("flat") = "FLAT"
  /\ EngineTypeOf("hnsw_rabitq") = "HNSW_RABITQ" /\ EngineTypeOf("ivf_rabitq") = "IVF_RABITQ"
BY DEF EngineTypeOf, EngineType, IndexClass

\* An index type is never "nothing".
LEMMA EngineTypesAreTypes ==
  ASSUME NEW i \in IndexTypes
  PROVE  EngineTypeOf(i) \in Range(EngineType) /\ EngineTypeOf(i) # None
<1>1. IndexClass[i] \in DOMAIN EngineType
  BY DEF IndexTypes, IndexClass, EngineType
<1> QED BY <1>1, NoneAssumption DEF EngineTypeOf, Range

\* The allow-lists of the query mapper; a flat index has none.
LEMMA AllowedQueryParams ==
  /\ Allowed("HNSW") = HnswParams /\ Allowed("HNSW_RABITQ") = HnswParams
  /\ Allowed("IVF") = [nprobe |-> "int"] /\ Allowed("FLAT") = NoParams
  /\ Allowed("IVF_RABITQ") = [nprobe |-> "int", radius |-> "float", is_linear |-> "bool",
                              is_using_refiner |-> "bool", scale_factor |-> "float"]
<1>1. DOMAIN QueryParams = {"HNSW", "HNSW_RABITQ", "IVF", "IVF_RABITQ"}
  BY DEF QueryParams
<1>2. /\ QueryParams["HNSW"].allowed = HnswParams
      /\ QueryParams["HNSW_RABITQ"].allowed = HnswParams
      /\ QueryParams["IVF"].allowed = [nprobe |-> "int"]
      /\ QueryParams["IVF_RABITQ"].allowed =
           [nprobe |-> "int", radius |-> "float", is_linear |-> "bool",
            is_using_refiner |-> "bool", scale_factor |-> "float"]
  BY DEF QueryParams
<1> QED BY <1>1, <1>2 DEF Allowed

\* A search parameter passes the mapper for a field with this index.
Fits(i, k, x) == LET allowed == Allowed(EngineTypeOf(i))
                 IN k \in DOMAIN allowed /\ CheckType(x, allowed[k])

\* It does exactly when the documented table lists it for that index.
LEMMA QueryParamsDocumented ==
  ASSUME NEW i \in IndexTypes, NEW k, NEW x
  PROVE  Fits(i, k, x) <=> <<i, k, x>> \in DocumentedQueryParams
<1> USE EngineTypes, AllowedQueryParams DEF Fits, CheckType
<1>1. CASE i \in {"hnsw", "hnsw_rabitq"}
  <2>1. Allowed(EngineTypeOf(i)) = HnswParams
    BY <1>1
  <2>2. <<i, k, x>> \in DocumentedQueryParams <=>
          \/ k = "ef" /\ x = "int"
          \/ k = "radius" /\ x \in {"int", "float"}
          \/ k \in {"is_linear", "is_using_refiner"} /\ x = "bool"
    BY <1>1 DEF DocumentedQueryParams
  <2> QED BY <2>1, <2>2 DEF HnswParams
<1>2. CASE i = "ivf"
  <2>1. Allowed(EngineTypeOf(i)) = [nprobe |-> "int"]
    BY <1>2
  <2>2. <<i, k, x>> \in DocumentedQueryParams <=> k = "nprobe" /\ x = "int"
    BY <1>2 DEF DocumentedQueryParams
  <2> QED BY <2>1, <2>2
<1>3. CASE i = "ivf_rabitq"
  <2>1. Allowed(EngineTypeOf(i)) =
          [nprobe |-> "int", radius |-> "float", is_linear |-> "bool",
           is_using_refiner |-> "bool", scale_factor |-> "float"]
    BY <1>3
  <2>2. <<i, k, x>> \in DocumentedQueryParams <=>
          \/ k = "nprobe" /\ x = "int"
          \/ k \in {"radius", "scale_factor"} /\ x \in {"int", "float"}
          \/ k \in {"is_linear", "is_using_refiner"} /\ x = "bool"
    BY <1>3 DEF DocumentedQueryParams
  <2> QED BY <2>1, <2>2
<1>4. CASE i = "flat"
  <2>1. DOMAIN Allowed(EngineTypeOf(i)) = {}
    BY <1>4 DEF NoParams
  <2>2. <<i, k, x>> \notin DocumentedQueryParams
    BY <1>4 DEF DocumentedQueryParams
  <2> QED BY <2>1, <2>2
<1> QED BY <1>1, <1>2, <1>3, <1>4 DEF IndexTypes

-----------------------------------------------------------------------------
(* The bodies.                                                              *)

\* The vectors of a create have different names, and a scalar field is "s".
LEMMA CreateBodyNames ==
  ASSUME NEW b \in CreateBodies
  PROVE  /\ \E k \in Nat : DOMAIN b.vectors = 1..k
         /\ \A n \in DOMAIN b.vectors : b.vectors[n].name \in {"v", "w"}
         /\ \A n, m \in DOMAIN b.vectors : b.vectors[n].name = b.vectors[m].name => n = m
         /\ \A n \in DOMAIN b.fields : b.fields[n].name = "s"
<1> DEFINE Ones == {CreateBody(TRUE, <<v>>, <<>>) : v \in VectorSpecs}
           Fields == {<<>>} \cup {<<f>> : f \in FieldSpecs}
           Twos == {CreateBody(TRUE, <<Plain("v", i), Plain("w", j)>>, fs) :
                      i \in IndexTypes, j \in IndexTypes \cup {"btree"}, fs \in Fields}
           Rest == {CreateBody(n, vs, <<>>) :
                      n \in BOOLEAN, vs \in {<<>>, <<Plain("v", "flat")>>}}
           Q(vs, fs) == /\ \E k \in Nat : DOMAIN vs = 1..k
                        /\ \A n \in DOMAIN vs : vs[n].name \in {"v", "w"}
                        /\ \A n, m \in DOMAIN vs : vs[n].name = vs[m].name => n = m
                        /\ \A n \in DOMAIN fs : fs[n].name = "s"
           P(c) == Q(c.vectors, c.fields)
<1>1. \A n, vs, fs : Q(vs, fs) => P(CreateBody(n, vs, fs))
  <2>1. \A n, vs, fs : CreateBody(n, vs, fs).vectors = vs /\ CreateBody(n, vs, fs).fields = fs
    BY DEF CreateBody
  <2> HIDE DEF Q
  <2> QED BY <2>1
<1>2. Q(<<>>, <<>>)
  OBVIOUS
<1>3. \A x : x.name \in {"v", "w"} => Q(<<x>>, <<>>)
  OBVIOUS
<1>4. \A x, y : x.name = "v" /\ y.name = "w" => Q(<<x, y>>, <<>>)
  OBVIOUS
<1>5. \A x, y, f : x.name = "v" /\ y.name = "w" /\ f.name = "s" => Q(<<x, y>>, <<f>>)
  OBVIOUS
<1>6. \A n, i : Plain(n, i).name = n
  BY DEF Plain, VectorSpec
<1> HIDE DEF P, Q
<1>7. \A c \in Ones : P(c)
  <2>1. ASSUME NEW v \in VectorSpecs PROVE P(CreateBody(TRUE, <<v>>, <<>>))
    <3>1. v.name = "v"
      BY DEF VectorSpecs, VectorSpec
    <3>2. Q(<<v>>, <<>>)
      BY <1>3, <3>1
    <3> QED BY <1>1, <3>2
  <2> QED BY <2>1
<1>8. \A c \in Twos : P(c)
  <2>1. ASSUME NEW i \in IndexTypes, NEW j \in IndexTypes \cup {"btree"}, NEW fs \in Fields
        PROVE  P(CreateBody(TRUE, <<Plain("v", i), Plain("w", j)>>, fs))
    <3>1. CASE fs = <<>>
      BY <1>1, <1>4, <1>6, <3>1
    <3>2. ASSUME NEW f \in FieldSpecs, fs = <<f>>
          PROVE  P(CreateBody(TRUE, <<Plain("v", i), Plain("w", j)>>, fs))
      <4>1. f.name = "s"
        BY DEF FieldSpecs
      <4> QED BY <1>1, <1>5, <1>6, <3>2, <4>1
    <3> QED BY <3>1, <3>2
  <2>2. ASSUME NEW c \in Twos PROVE P(c)
    <3>1. PICK i \in IndexTypes, j \in IndexTypes \cup {"btree"}, fs \in Fields :
            c = CreateBody(TRUE, <<Plain("v", i), Plain("w", j)>>, fs)
      <4> HIDE DEF Fields
      <4> QED BY DEF CreateBody
    <3> HIDE DEF Fields, Twos
    <3> QED BY <2>1, <3>1
  <2> HIDE DEF Twos
  <2> QED BY <2>2
<1>9. \A c \in Rest : P(c)
  <2>1. ASSUME NEW n \in BOOLEAN PROVE P(CreateBody(n, <<>>, <<>>))
    BY <1>1, <1>2
  <2>2. ASSUME NEW n \in BOOLEAN PROVE P(CreateBody(n, <<Plain("v", "flat")>>, <<>>))
    BY <1>1, <1>3, <1>6
  <2> QED BY <2>1, <2>2
<1>10. CreateBodies = Ones \cup Twos \cup Rest
  BY DEF CreateBodies
<1> HIDE DEF Ones, Twos, Rest
<1>11. P(b)
  BY <1>7, <1>8, <1>9, <1>10
<1> QED BY <1>11 DEF P, Q

\* The params of a query are an object.
LEMMA ParamsAreFunctions ==
  ASSUME NEW b \in SearchBodies
  PROVE  \A n \in DOMAIN b.queries : \E K : b.queries[n].params \in [K -> Kinds]
<1> DEFINE F(p) == \E K : p \in [K -> Kinds]
           Params == Objects(QueryKeys, Kinds)
           Varied == {Query(f, TRUE, FALSE, p) : f \in {"v", "w", "nosuch"},
                                                 p \in Params}
           Others == {Query("v", v, i, NoParams) : v \in BOOLEAN, i \in BOOLEAN}
           Ones == {SearchBody(qs, None, 10) : qs \in {<<>>} \cup {<<q>> : q \in Queries}}
           Twos == {SearchBody(<<Query("v", TRUE, FALSE, p), Query("w", TRUE, FALSE, NoParams)>>,
                               None, 10) :
                      p \in Objects({"ef", "nprobe"}, {"int", "text"})}
           Rest == {SearchBody(<<Query("v", TRUE, FALSE, NoParams)>>, g, n) :
                      g \in {None, "s", "v", "nosuch"}, n \in {0, 1, 1000, 1001}}
           Q(qs) == \A n \in DOMAIN qs : F(qs[n].params)
           P(c) == Q(c.queries)
<1>1. \A f, v, i, p : Query(f, v, i, p).params = p
  BY DEF Query
<1>2. \A qs, g, n : Q(qs) => P(SearchBody(qs, g, n))
  <2>1. \A qs, g, n : SearchBody(qs, g, n).queries = qs
    BY DEF SearchBody
  <2> HIDE DEF Q
  <2> QED BY <2>1
<1>3. F(NoParams)
  <2>1. NoParams \in [{} -> Kinds]
    BY DEF NoParams
  <2> QED BY <2>1
<1>4. \A keys, kinds : \A p \in Objects(keys, kinds) : kinds \subseteq Kinds => F(p)
  BY DEF Objects
<1> HIDE DEF F
<1>5. /\ Q(<<>>)
      /\ \A x : F(x.params) => Q(<<x>>)
      /\ \A x, y : F(x.params) /\ F(y.params) => Q(<<x, y>>)
  OBVIOUS
<1> HIDE DEF P, Q
<1>6. \A q \in Queries : F(q.params)
  <2>1. \A q \in Varied : F(q.params)
    <3>1. ASSUME NEW f \in {"v", "w", "nosuch"}, NEW p \in Params
          PROVE  F(Query(f, TRUE, FALSE, p).params)
      <4>1. F(p)
        BY <1>4
      <4> QED BY <1>1, <4>1
    <3>2. ASSUME NEW q \in Varied PROVE F(q.params)
      <4> HIDE DEF Params
      <4>1. PICK f \in {"v", "w", "nosuch"}, p \in Params : q = Query(f, TRUE, FALSE, p)
        BY DEF Query
      <4> HIDE DEF Varied
      <4> QED BY <3>1, <4>1
    <3> HIDE DEF Varied
    <3> QED BY <3>2
  <2>2. \A q \in Others : F(q.params)
    BY <1>1, <1>3
  <2>3. Queries = Varied \cup Others
    BY DEF Queries
  <2> HIDE DEF Varied, Others
  <2> QED BY <2>1, <2>2, <2>3
<1>7. \A c \in Ones : P(c)
  BY <1>2, <1>5, <1>6
<1>8. \A c \in Twos : P(c)
  <2>1. ASSUME NEW p \in Objects({"ef", "nprobe"}, {"int", "text"})
        PROVE  P(SearchBody(<<Query("v", TRUE, FALSE, p), Query("w", TRUE, FALSE, NoParams)>>,
                            None, 10))
    <3>1. F(p)
      BY <1>4 DEF Kinds
    <3>2. F(Query("v", TRUE, FALSE, p).params)
      BY <3>1 DEF Query
    <3>3. F(Query("w", TRUE, FALSE, NoParams).params)
      BY <1>3 DEF Query
    <3>4. Q(<<Query("v", TRUE, FALSE, p), Query("w", TRUE, FALSE, NoParams)>>)
      BY <1>5, <3>2, <3>3, Zenon
    <3> QED BY <1>2, <3>4
  <2> QED BY <2>1
<1>9. \A c \in Rest : P(c)
  <2>1. F(Query("v", TRUE, FALSE, NoParams).params)
    BY <1>1, <1>3
  <2>2. Q(<<Query("v", TRUE, FALSE, NoParams)>>)
    BY <1>5, <2>1, Zenon
  <2>3. ASSUME NEW c \in Rest PROVE P(c)
    <3>1. PICK g \in {None, "s", "v", "nosuch"}, n \in {0, 1, 1000, 1001} :
            c = SearchBody(<<Query("v", TRUE, FALSE, NoParams)>>, g, n)
      OBVIOUS
    <3> HIDE DEF Rest
    <3>2. P(SearchBody(<<Query("v", TRUE, FALSE, NoParams)>>, g, n))
      BY <1>2, <2>2
    <3> QED BY <3>1, <3>2
  <2> HIDE DEF Rest
  <2> QED BY <2>3
<1>10. SearchBodies = Ones \cup Twos \cup Rest
  BY DEF SearchBodies
<1> HIDE DEF Ones, Twos, Rest
<1>11. P(b)
  BY <1>7, <1>8, <1>9, <1>10
<1> QED BY <1>11 DEF P, Q, F

-----------------------------------------------------------------------------
(* What a create leaves behind.                                             *)

Opened(b) ==
  [vectors |-> [n \in DOMAIN b.vectors |->
                  [name |-> b.vectors[n].name,
                   type |-> EngineType[EngineSchema(b).vectors[n].param.class]]],
   fields |-> EngineSchema(b).fields]

Asked(b) == [vectors |-> {<<b.vectors[n].name, b.vectors[n].index>> : n \in DOMAIN b.vectors},
             fields |-> {b.fields[n].name : n \in DOMAIN b.fields}]

\* The open collection was made from a request the mapper accepted, and the
\* client's record of it is of that request.
SchemaInv == schema # None =>
               \E b \in CreateBodies : /\ ~BadSchema(b)
                                       /\ schema = Opened(b) /\ made = Asked(b)

IInv == /\ TypeOK /\ SchemaInv
        /\ CreateTakesWhatIsDocumented /\ ParamsReachTheIndex /\ SearchTakesWhatFits

\* The engine's types of an accepted schema are those of the indexes asked for.
LEMMA OpenedTypes ==
  ASSUME NEW b \in CreateBodies, ~BadSchema(b)
  PROVE  /\ \A n \in DOMAIN b.vectors : b.vectors[n].index \in IndexTypes
         /\ Opened(b).vectors = [n \in DOMAIN b.vectors |->
                                   [name |-> b.vectors[n].name,
                                    type |-> EngineTypeOf(b.vectors[n].index)]]
         /\ Opened(b).fields = Asked(b).fields
<1>1. \A n \in DOMAIN b.vectors : b.vectors[n].index \in IndexTypes
  BY DEF BadSchema, BadVector
<1>2. \A n \in DOMAIN b.vectors :
        EngineSchema(b).vectors[n].param.class = IndexClass[b.vectors[n].index]
  BY DEF EngineSchema, IndexParam
<1>3. Opened(b).fields = Asked(b).fields
  BY DEF Opened, Asked, EngineSchema
<1>4. Opened(b).vectors = [n \in DOMAIN b.vectors |->
                             [name |-> b.vectors[n].name,
                              type |-> EngineType[EngineSchema(b).vectors[n].param.class]]]
  BY DEF Opened
<1> QED BY <1>1, <1>2, <1>3, <1>4 DEF EngineTypeOf

\* An accepted schema has the shape of a schema.
LEMMA OpenedIsSchema ==
  ASSUME NEW b \in CreateBodies, ~BadSchema(b)
  PROVE  Opened(b) \in Schemas /\ Asked(b) \in Wishes
<1> DEFINE S == [name : {"v", "w"}, type : Range(EngineType)]
<1>1. PICK k \in Nat : DOMAIN b.vectors = 1..k
  BY CreateBodyNames
<1>2. Opened(b).vectors \in [1..k -> S]
  <2>1. \A n \in 1..k : /\ b.vectors[n].name \in {"v", "w"}
                         /\ EngineTypeOf(b.vectors[n].index) \in Range(EngineType)
    BY <1>1, OpenedTypes, EngineTypesAreTypes, CreateBodyNames
  <2>2. \A n \in 1..k : [name |-> b.vectors[n].name,
                          type |-> EngineTypeOf(b.vectors[n].index)] \in S
    BY <2>1
  <2>3. Opened(b).vectors = [n \in 1..k |-> [name |-> b.vectors[n].name,
                                             type |-> EngineTypeOf(b.vectors[n].index)]]
    BY <1>1, OpenedTypes
  <2> HIDE DEF S
  <2> QED BY <2>2, <2>3
<1>3. Opened(b).vectors \in Seq(S)
  <2> HIDE DEF S
  <2> QED BY <1>2
<1>4. Asked(b).fields \in SUBSET {"s"}
  BY CreateBodyNames DEF Asked
<1>5. Asked(b).vectors \in SUBSET ({"v", "w"} \X IndexTypes)
  <2>1. \A n \in DOMAIN b.vectors :
          <<b.vectors[n].name, b.vectors[n].index>> \in {"v", "w"} \X IndexTypes
    BY CreateBodyNames, OpenedTypes
  <2>2. Asked(b).vectors = {<<b.vectors[n].name, b.vectors[n].index>> : n \in DOMAIN b.vectors}
    BY DEF Asked
  <2> QED BY <2>1, <2>2
<1>6. Opened(b) = [vectors |-> Opened(b).vectors, fields |-> Opened(b).fields]
  BY DEF Opened
<1>7. Asked(b) = [vectors |-> Asked(b).vectors, fields |-> Asked(b).fields]
  BY DEF Asked
<1>8. Opened(b) \in Schemas
  <2> HIDE DEF S
  <2>1. Opened(b) \in [vectors : Seq(S), fields : SUBSET {"s"}]
    BY <1>3, <1>4, <1>6, OpenedTypes
  <2> QED BY <2>1 DEF Schemas, S
<1>9. Asked(b) \in Wishes
  BY <1>4, <1>5, <1>7 DEF Wishes
<1> QED BY <1>8, <1>9

\* The index type the engine reports for a field is that of the one index the
\* client asked for, and nothing for a field it did not ask for.
LEMMA FieldIndex ==
  ASSUME SchemaInv, schema # None, NEW f
  PROVE  \/ IndexTypeOf(f) = None /\ \A i : <<f, i>> \notin made.vectors
         \/ \E i \in IndexTypes : /\ IndexTypeOf(f) = EngineTypeOf(i)
                                  /\ \A j : <<f, j>> \in made.vectors <=> j = i
<1>1. PICK b \in CreateBodies : /\ ~BadSchema(b)
                                /\ schema = Opened(b) /\ made = Asked(b)
  BY DEF SchemaInv
<1>2. schema.vectors = [n \in DOMAIN b.vectors |->
                          [name |-> b.vectors[n].name,
                           type |-> EngineTypeOf(b.vectors[n].index)]]
  BY <1>1, OpenedTypes
<1>3. \A j : <<f, j>> \in made.vectors <=>
               \E n \in DOMAIN b.vectors : b.vectors[n].name = f /\ b.vectors[n].index = j
  BY <1>1 DEF Asked
<1> DEFINE found == {n \in DOMAIN schema.vectors : schema.vectors[n].name = f}
<1>4. found = {n \in DOMAIN b.vectors : b.vectors[n].name = f}
  BY <1>2
<1>5. CASE found = {}
  <2>1. IndexTypeOf(f) = None
    BY <1>5 DEF IndexTypeOf
  <2> QED BY <1>3, <1>4, <1>5, <2>1
<1>6. CASE found # {}
  <2> DEFINE n == CHOOSE n \in found : TRUE
  <2>1. IndexTypeOf(f) = schema.vectors[n].type
    BY <1>6 DEF IndexTypeOf
  <2>2. n \in found
    BY <1>6
  <2> HIDE DEF n
  <2>3. n \in DOMAIN b.vectors /\ b.vectors[n].name = f
    BY <1>4, <2>2
  <2>4. IndexTypeOf(f) = EngineTypeOf(b.vectors[n].index)
    BY <1>2, <2>1, <2>3
  <2>5. \A m \in DOMAIN b.vectors : b.vectors[m].name = f => m = n
    BY <2>3, CreateBodyNames
  <2>6. \A j : <<f, j>> \in made.vectors <=> j = b.vectors[n].index
    BY <1>3, <2>3, <2>5
  <2>7. b.vectors[n].index \in IndexTypes
    BY <1>1, <2>3, OpenedTypes
  <2> QED BY <2>4, <2>6, <2>7
<1> QED BY <1>5, <1>6

\* A query passes the mapper exactly when every parameter fits the index with
\* which its field was created.
LEMMA QueryFits ==
  ASSUME SchemaInv, schema # None, NEW q, \E K : q.params \in [K -> Kinds]
  PROVE  ~BadQuery(q) <=>
           \A k \in DOMAIN q.params :
             \E i \in IndexTypes : /\ <<q.field, i>> \in made.vectors
                                   /\ <<i, k, q.params[k]>> \in DocumentedQueryParams
<1>1. CASE q.params = NoParams
  <2>1. DOMAIN q.params = {}
    BY <1>1 DEF NoParams
  <2> QED BY <1>1, <2>1 DEF BadQuery
<1>2. CASE q.params # NoParams
  <2>1. DOMAIN q.params # {}
    BY <1>2 DEF NoParams
  <2>2. CASE IndexTypeOf(q.field) = None /\ \A i : <<q.field, i>> \notin made.vectors
    BY <1>2, <2>1, <2>2 DEF BadQuery
  <2>3. ASSUME NEW i \in IndexTypes, IndexTypeOf(q.field) = EngineTypeOf(i),
               \A j : <<q.field, j>> \in made.vectors <=> j = i
        PROVE  ~BadQuery(q) <=>
                 \A k \in DOMAIN q.params :
                   \E j \in IndexTypes : /\ <<q.field, j>> \in made.vectors
                                         /\ <<j, k, q.params[k]>> \in DocumentedQueryParams
    <3>1. ~BadQuery(q) <=> \A k \in DOMAIN q.params : Fits(i, k, q.params[k])
      BY <1>2, <2>3, EngineTypesAreTypes DEF BadQuery, Fits
    <3>2. \A k : Fits(i, k, q.params[k]) <=> <<i, k, q.params[k]>> \in DocumentedQueryParams
      BY QueryParamsDocumented
    <3> QED BY <2>3, <3>1, <3>2
  <2> QED BY <2>2, <2>3, FieldIndex
<1> QED BY <1>1, <1>2

-----------------------------------------------------------------------------
(* The steps.                                                               *)

\* Nothing is open, and no exchange is under way.
LEMMA Initially == Init => IInv
BY DEF Init, IInv, TypeOK, SchemaInv, CreateTakesWhatIsDocumented, ParamsReachTheIndex,
       SearchTakesWhatFits

\* What the mapper makes of a create body it accepts carries every parameter,
\* under the engine's name for it.
LEMMA ParamsArePassed ==
  ASSUME NEW b, ~BadSchema(b), NEW n \in DOMAIN b.vectors
  PROVE  LET v == b.vectors[n]
             engineName(k) == IF k = "n_list" /\ v.index = "ivf_rabitq" THEN "nlist"
                              ELSE IF k = "enable_rotate" THEN "quantizer_param" ELSE k
         IN EngineSchema(b).vectors[n].param.kwargs =
              {<<engineName(k), v.params[k]>> : k \in DOMAIN v.params}
<1> DEFINE v == b.vectors[n]
           engineName(k) == IF k = "n_list" /\ v.index = "ivf_rabitq" THEN "nlist"
                            ELSE IF k = "enable_rotate" THEN "quantizer_param" ELSE k
<1>1. v.index \in IndexTypes /\ ~BadParams(v.index, v.params)
  BY DEF BadSchema, BadVector
<1>2. DOMAIN v.params \subseteq IndexParams[v.index]
  BY <1>1 DEF BadParams
<1>3. DOMAIN v.params \cap Passed(v.index, v.params) = DOMAIN v.params
  <2> HIDE DEF v
  <2> USE <1>2, AllowedIndexParams DEF Passed, QuantizeParams
  <2>1. CASE v.index = "hnsw"
    BY <2>1
  <2>2. CASE v.index = "ivf"
    BY <2>2
  <2>3. CASE v.index = "flat"
    BY <2>3
  <2>4. CASE v.index \in {"hnsw_rabitq", "ivf_rabitq"}
    BY <2>4
  <2> QED BY <1>1, <2>1, <2>2, <2>3, <2>4 DEF IndexTypes
<1>4. \A k : KwargName(v.index, k) = engineName(k)
  <2> HIDE DEF v
  <2> QED BY DEF KwargName
<1>5. EngineSchema(b).vectors[n].param.kwargs =
        {<<KwargName(v.index, k), v.params[k]>> :
           k \in DOMAIN v.params \cap Passed(v.index, v.params)}
  BY DEF EngineSchema, IndexParam
<1>6. EngineSchema(b).vectors[n].param.kwargs =
        {<<engineName(k), v.params[k]>> : k \in DOMAIN v.params}
  <2> HIDE DEF v, engineName
  <2> QED BY <1>3, <1>4, <1>5
<1> QED BY <1>6

\* A body is accepted exactly when all of it is documented.
LEMMA AcceptedIsDocumented ==
  ASSUME NEW b
  PROVE  ~BadSchema(b) <=>
           /\ \A n \in DOMAIN b.vectors : DocumentedVector(b.vectors[n])
           /\ \A n \in DOMAIN b.fields : b.fields[n].dtype \in ScalarTypes
BY VectorsDocumented DEF BadSchema

\* Create: every one of its four ends records the body and the verdict on it.
LEMMA CreateStep ==
  ASSUME IInv, NEW b \in CreateBodies, Create(b)
  PROVE  IInv'
<1>1. PICK g, r :
        /\ last' = [call |-> "create", body |-> b, given |-> g, reply |-> r]
        /\ r \in {"ok", "validation_error", "schema_validation_error", "zvec_operation_error"}
        /\ \/ r = "validation_error" /\ g = {}
           \/ r = "schema_validation_error" /\ g = {} /\ BadSchema(b)
           \/ g = {EngineSchema(b)} /\ ~BadSchema(b)
  BY DEF Create, Exchange
<1>2. /\ last'.call = "create" /\ last'.body = b
      /\ last'.given = g /\ last'.reply = r
  BY <1>1
<1>3. \/ UNCHANGED <<schema, made>>
      \/ schema' = Opened(b) /\ made' = Asked(b) /\ ~BadSchema(b)
  BY DEF Create, Opened, Asked
<1>4. (schema \in Schemas \cup {None} /\ made \in Wishes \cup {None}
         /\ (schema = None <=> made = None))'
  <2>1. CASE UNCHANGED <<schema, made>>
    BY <2>1 DEF IInv, TypeOK
  <2>2. CASE schema' = Opened(b) /\ made' = Asked(b) /\ ~BadSchema(b)
    <3>1. Opened(b) \in Schemas /\ Asked(b) \in Wishes
      BY <2>2, OpenedIsSchema
    <3>2. None \notin Schemas /\ None \notin Wishes
      BY NoneAssumption
    <3> QED BY <2>2, <3>1, <3>2
  <2> QED BY <1>3, <2>1, <2>2
<1>5. TypeOK'
  BY <1>1, <1>2, <1>4 DEF TypeOK
<1>6. SchemaInv'
  <2>1. CASE UNCHANGED <<schema, made>>
    BY <2>1 DEF IInv, SchemaInv
  <2>2. CASE schema' = Opened(b) /\ made' = Asked(b) /\ ~BadSchema(b)
    BY <2>2 DEF SchemaInv
  <2> QED BY <1>3, <2>1, <2>2
<1>7. CreateTakesWhatIsDocumented'
  <2>1. r # "validation_error" => (g # {} <=> ~BadSchema(b))
    BY <1>1
  <2> QED BY <1>2, <2>1, AcceptedIsDocumented DEF CreateTakesWhatIsDocumented
<1>8. ParamsReachTheIndex'
  <2>1. CASE g = {}
    BY <1>2, <2>1 DEF ParamsReachTheIndex
  <2>2. CASE g = {EngineSchema(b)} /\ ~BadSchema(b)
    BY <1>2, <2>2, ParamsArePassed DEF ParamsReachTheIndex
  <2> QED BY <1>1, <2>1, <2>2
<1>9. SearchTakesWhatFits'
  BY <1>2 DEF SearchTakesWhatFits
<1> QED BY <1>5, <1>6, <1>7, <1>8, <1>9 DEF IInv

\* Search: the verdict on a query depends on the collection that is open.
LEMMA SearchStep ==
  ASSUME IInv, NEW b \in SearchBodies, Search(b)
  PROVE  IInv'
<1> DEFINE Refused == \/ b.groupBy \notin schema.fields \cup {None}
                      \/ \E n \in DOMAIN b.queries : BadQuery(b.queries[n])
<1>1. PICK g, r :
        /\ last' = [call |-> "search", body |-> b, given |-> g, reply |-> r]
        /\ r \in {"ok", "validation_error", "invalid_argument", "zvec_operation_error"}
        /\ \/ r = "validation_error" /\ g = {}
           \/ g = {} /\ Refused
           \/ g = {EngineQueries(b)} /\ ~Refused
  BY DEF Search, Exchange
<1>2. /\ last'.call = "search" /\ last'.body = b
      /\ last'.given = g /\ last'.reply = r
  BY <1>1
<1>3. schema # None /\ UNCHANGED <<schema, made>>
  BY DEF Search
<1>4. TypeOK'
  BY <1>1, <1>2, <1>3 DEF IInv, TypeOK
<1>5. SchemaInv'
  BY <1>3 DEF IInv, SchemaInv
<1>6. schema.fields = made.fields
  BY <1>3, OpenedTypes DEF IInv, SchemaInv
<1>7. \A n \in DOMAIN b.queries :
        ~BadQuery(b.queries[n]) <=>
          \A k \in DOMAIN b.queries[n].params :
            \E i \in IndexTypes :
              /\ <<b.queries[n].field, i>> \in made.vectors
              /\ <<i, k, b.queries[n].params[k]>> \in DocumentedQueryParams
  BY <1>3, ParamsAreFunctions, QueryFits DEF IInv
<1>8. SearchTakesWhatFits'
  <2>1. r # "validation_error" => (g # {} <=> ~Refused)
    BY <1>1
  <2> QED BY <1>2, <1>3, <1>6, <1>7, <2>1 DEF SearchTakesWhatFits
<1>9. CreateTakesWhatIsDocumented' /\ ParamsReachTheIndex'
  BY <1>2 DEF CreateTakesWhatIsDocumented, ParamsReachTheIndex
<1> QED BY <1>4, <1>5, <1>8, <1>9 DEF IInv

\* The other steps begin or end with no exchange under way.
LEMMA Step == IInv /\ [Next]_vars => IInv'
<1> SUFFICES ASSUME IInv, [Next]_vars
             PROVE  IInv'
  OBVIOUS
<1>1. ASSUME NEW b \in CreateBodies, Create(b) PROVE IInv'
  BY <1>1, CreateStep
<1>2. ASSUME NEW b \in SearchBodies, Search(b) PROVE IInv'
  BY <1>2, SearchStep
<1>3. CASE Answered
  BY <1>3 DEF IInv, Answered, TypeOK, SchemaInv, CreateTakesWhatIsDocumented,
              ParamsReachTheIndex, SearchTakesWhatFits
<1>4. CASE Drop
  BY <1>4 DEF IInv, Drop, TypeOK, SchemaInv, CreateTakesWhatIsDocumented,
              ParamsReachTheIndex, SearchTakesWhatFits
<1>5. CASE UNCHANGED vars
  <2>1. schema' = schema /\ made' = made /\ last' = last
    BY <1>5 DEF vars
  <2>2. TypeOK' /\ SchemaInv'
    BY <2>1 DEF IInv, TypeOK, SchemaInv
  <2>3. CreateTakesWhatIsDocumented' /\ ParamsReachTheIndex' /\ SearchTakesWhatFits'
    BY <2>1 DEF IInv, CreateTakesWhatIsDocumented, ParamsReachTheIndex, SearchTakesWhatFits
  <2> QED BY <2>2, <2>3 DEF IInv
<1> QED BY <1>1, <1>2, <1>3, <1>4, <1>5 DEF Next

-----------------------------------------------------------------------------
(* The theorems.                                                            *)

\* The inductive invariant, for whatever is given as one params object.
THEOREM Invariance == Spec => []IInv
BY Initially, Step, PTL DEF Spec

\* The engine's schema and the client's record of it keep their shape, and one
\* is there exactly when the other is.
THEOREM TypeCorrect == Spec => []TypeOK
<1>1. IInv => TypeOK
  BY DEF IInv
<1> QED BY <1>1, Invariance, PTL

\* A create reaches the engine exactly when everything in it is documented: the
\* table-driven checks of schema_mapper and the documented tables agree.
THEOREM CreateIsDocumented == Spec => []CreateTakesWhatIsDocumented
<1>1. IInv => CreateTakesWhatIsDocumented
  BY DEF IInv
<1> QED BY <1>1, Invariance, PTL

\* Every accepted index parameter arrives at the engine, under its name there.
THEOREM ParamsArrive == Spec => []ParamsReachTheIndex
<1>1. IInv => ParamsReachTheIndex
  BY DEF IInv
<1> QED BY <1>1, Invariance, PTL

\* A search reaches the engine exactly when its parameters fit the indexes of
\* the collection that is open now, however often the name was made before.
THEOREM SearchFits == Spec => []SearchTakesWhatFits
<1>1. IInv => SearchTakesWhatFits
  BY DEF IInv
<1> QED BY <1>1, Invariance, PTL
=============================================================================
