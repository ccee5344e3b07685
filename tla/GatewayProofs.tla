--------------------------- MODULE GatewayProofs ---------------------------
(***************************************************************************)
(* Theorems about Gateway, with the clients of HttpRpc and the codec: for   *)
(* any clients and exchanges, any parameters and results, any width of an   *)
(* id, and ids of callers that are anything JSON has.                       *)
(*                                                                          *)
(* An action moves one exchange and leaves the others alone, so that the    *)
(* invariants speak of an exchange as a record, View(e), and each action is *)
(* taken once to a step of such records (Step, Delivers, RunsUpstream).     *)
(* TypeInv gives their types, Replies what a server has replied; Further    *)
(* adds what was made of a run, what the frames of the upstream connection  *)
(* stand for, and which ids are in use.                                     *)
(***************************************************************************)
EXTENDS Gateway, FiniteSetTheorems, TLAPS

-----------------------------------------------------------------------------
(* What the codec makes of its own output.                                  *)

Ids == [id : {"Null", "Number", "String"}, v : Int]
I64Ids == {i \in Ids : i.id = "Number" /\ i.v \in MinI64..MaxI64}
Requests == [method : JsonValues, params : Optional(JsonValues), id : Optional(Ids)]
Responses == [result : Optional(JsonValues), error : Optional(ErrorObjects), id : Ids]

\* What a response is on the wire.
ReplyObjects == [jsonrpc : {{Version}}, result : Optional(JsonValues),
                 error : Optional(ErrorObjects), id : Optional(JsonValues)]

\* Sets with at most one member.
LEMMA OptionalFacts ==
    /\ \A S : {} \in Optional(S) /\ \A x \in S : {x} \in Optional(S)
    /\ \A S : \A m \in Optional(S) : m = {} \/ \E x \in S : m = {x}
    /\ \A S, T : \A m \in Optional(S) : m \ T \in Optional(S)
BY DEF Optional

\* The constants of the codec are what they should be.
LEMMA CodecConstants ==
    /\ \A n \in Int : Num(n) \in JsonValues /\ Text(n) \in JsonValues
    /\ Null \in JsonValues /\ Version \in JsonValues
    /\ Known \in JsonValues /\ Unknown \in JsonValues
    /\ Known.t = "method" /\ Unknown.t = "method"
    /\ Unserialisable \notin JsonValues
    /\ NullId \in Ids /\ I64Ids \subseteq Ids /\ NullId \notin I64Ids
    /\ ParseError \in ErrorObjects /\ InvalidRequest \in ErrorObjects
    /\ MethodNotFound \in ErrorObjects /\ InvalidParams \in ErrorObjects
    /\ InternalError \in ErrorObjects
<1>1. \A n \in Int : Num(n) \in JsonValues /\ Text(n) \in JsonValues
  BY DEF Num, Text, Null, Json, JsonValues, JsonTypes
<1>2. Null \in JsonValues
  BY DEF Null, Json, JsonValues, JsonTypes
<1>3. Version \in JsonValues
  BY DEF Version, Null, Json, JsonValues, JsonTypes
<1>4. Known \in JsonValues /\ Unknown \in JsonValues
  BY DEF Known, Unknown, Null, Json, JsonValues, JsonTypes
<1>5. Known.t = "method" /\ Unknown.t = "method"
  BY DEF Known, Unknown, Json
<1>6. Unserialisable \notin JsonValues
  BY DEF Unserialisable, Json, JsonValues, JsonTypes
<1>7. NullId \in Ids /\ I64Ids \subseteq Ids /\ NullId \notin I64Ids
  BY DEF NullId, I64Ids, Ids, Id
<1>8. \A n \in Int : Error(n) \in ErrorObjects
  BY OptionalFacts DEF Error, ErrorObjects
<1>9. QED
  BY <1>1, <1>2, <1>3, <1>4, <1>5, <1>6, <1>7, <1>8
     DEF ParseError, InvalidRequest, MethodNotFound, InvalidParams, InternalError

\* A client's id is an i64, and two counters with the same id are the same.
LEMMA NextIdFacts ==
    /\ \A c \in 0..MaxU64 : NextId(c) \in I64Ids /\ Increment(c) \in 0..MaxU64
    /\ \A c, d \in 0..MaxU64 : NextId(c) = NextId(d) => c = d
<1>1. \A c \in 0..MaxU64 : NextId(c) \in I64Ids
  BY SignBitAssumption DEF NextId, I64Ids, Ids, Id, MinI64, MaxI64, MaxU64
<1>2. \A c \in 0..MaxU64 : Increment(c) \in 0..MaxU64
  BY SignBitAssumption DEF Increment, MaxU64
<1>3. \A c, d \in 0..MaxU64 : NextId(c) = NextId(d) => c = d
  BY SignBitAssumption DEF NextId, Id, MaxI64, MaxU64
<1>4. QED
  BY <1>1, <1>2, <1>3

\* An i64 id, and the null id, are read as they were written.
LEMMA IdRoundTrip ==
    /\ \A i \in I64Ids \cup {NullId} : ReadId(WriteId(i)) = {i}
    /\ \A i \in Ids : WriteId(i) \in JsonValues
BY SignBitAssumption, CodecConstants
   DEF I64Ids, NullId, ReadId, WriteId, Id, Ids, Null, Num, Text, Json, MinI64, MaxI64

\* An id is read to at most one id, which is written as its echo.
LEMMA ReadIdFacts ==
    ASSUME NEW j \in JsonValues
    PROVE  /\ ReadId(j) \in Optional(Ids)
           /\ \A i \in ReadId(j) : WriteId(i) = Echo(j)
<1>1. j.v \in Int /\ j = [t |-> j.t, v |-> j.v] /\ (j.t = "null" => j = Null)
  BY DEF JsonValues
<1>2. ReadId(j) = {} \/ \E i \in Ids : ReadId(j) = {i} /\ WriteId(i) = Echo(j)
  <2>1. CASE j.t = "null"
    <3>1. ReadId(j) = {NullId} /\ WriteId(NullId) = Null
      BY <2>1 DEF ReadId, WriteId, NullId, Id
    <3>2. Echo(j) = j
      BY <2>1 DEF Echo
    <3>3. QED
      BY <1>1, <2>1, <3>1, <3>2, CodecConstants
  <2>2. CASE j.t = "str"
    <3>1. ReadId(j) = {Id("String", j.v)} /\ Echo(j) = j
      BY <2>2 DEF ReadId, Echo
    <3>2. WriteId(Id("String", j.v)) = Text(j.v) /\ Id("String", j.v) \in Ids
      BY <1>1 DEF WriteId, Id, Ids
    <3>3. QED
      BY <1>1, <2>2, <3>1, <3>2 DEF Text, Json
  <2>3. CASE j.t = "num" /\ j.v \in MinI64..MaxI64
    <3>1. ReadId(j) = {Id("Number", j.v)} /\ Echo(j) = j
      BY <1>1, <2>3, SignBitAssumption DEF ReadId, Echo, MinI64, MaxI64
    <3>2. WriteId(Id("Number", j.v)) = Num(j.v) /\ Id("Number", j.v) \in Ids
      BY <1>1 DEF WriteId, Id, Ids
    <3>3. QED
      BY <1>1, <2>3, <3>1, <3>2 DEF Num, Json
  <2>4. CASE j.t = "num" /\ j.v \in (MaxI64 + 1)..MaxU64
    <3>1. ReadId(j) = {Id("String", j.v)} /\ Echo(j) = Text(j.v)
      BY <1>1, <2>4, SignBitAssumption DEF ReadId, Echo, MinI64, MaxI64, MaxU64
    <3>2. WriteId(Id("String", j.v)) = Text(j.v) /\ Id("String", j.v) \in Ids
      BY <1>1 DEF WriteId, Id, Ids
    <3>3. QED
      BY <3>1, <3>2
  <2>5. CASE /\ j.t # "null" /\ j.t # "str"
             /\ ~(j.t = "num" /\ j.v \in MinI64..MaxI64)
             /\ ~(j.t = "num" /\ j.v \in (MaxI64 + 1)..MaxU64)
    <3>1. ReadId(j) = {}
      BY Zenon, <2>5 DEF ReadId
    <3>2. QED
      BY <3>1
  <2>6. QED
    BY <2>1, <2>2, <2>3, <2>4, <2>5
<1>3. QED
  <2> HIDE DEF ReadId
  <2>1. \A m : (m = {} \/ \E i \in Ids : m = {i} /\ WriteId(i) = Echo(j))
                 => m \in Optional(Ids) /\ \A i \in m : WriteId(i) = Echo(j)
    BY DEF Optional
  <2>2. QED
    BY <1>2, <2>1

\* What a body is read to.
Reading(body) == UNION {ReadRequest(o) : o \in body \ {Garbage}}

\* Every request can be written.
LEMMA WrittenRequest ==
    ASSUME NEW req \in Requests
    PROVE  WriteRequest(req) \in RequestObjects
<1>1. {req.method} \in Optional(JsonValues) /\ {Version} \in Optional(JsonValues)
      /\ req.params \in Optional(JsonValues)
  BY CodecConstants, OptionalFacts DEF Requests
<1>2. {WriteId(i) : i \in req.id} \in Optional(JsonValues)
  <2>1. req.id = {} \/ \E i \in Ids : req.id = {i}
    BY OptionalFacts DEF Requests
  <2>2. CASE req.id = {}
    <3> DEFINE written == {WriteId(k) : k \in req.id}
    <3>1. written = {}
      BY <2>2
    <3> HIDE DEF written
    <3>2. written \in Optional(JsonValues)
      BY <3>1, OptionalFacts
    <3>3. QED
      BY <3>2 DEF written
  <2>3. ASSUME NEW i \in Ids, req.id = {i} PROVE {WriteId(k) : k \in req.id} \in Optional(JsonValues)
    <3>1. {WriteId(k) : k \in req.id} = {WriteId(i)}
      BY <2>3
    <3>2. QED
      BY <3>1, IdRoundTrip, OptionalFacts
  <2>4. QED
    BY <2>1, <2>2, <2>3
<1>3. QED
  BY <1>1, <1>2 DEF WriteRequest, RequestObjects

\* A request object is read to at most one request; its id is written as the echo
\* of the one it had.
LEMMA ReadRequestFacts ==
    ASSUME NEW o \in RequestObjects, NEW req \in ReadRequest(o)
    PROVE  /\ req \in Requests /\ ReadRequest(o) = {req}
           /\ req.method.t = "method" /\ NotNull(req.params) = req.params
           /\ req.id = {} <=> o.id = {}
           /\ {WriteId(i) : i \in req.id} = {Echo(j) : j \in o.id}
<1> DEFINE ids == UNION {ReadId(j) : j \in o.id}
<1>1. /\ o.method \in Optional(JsonValues) /\ o.params \in Optional(JsonValues)
      /\ o.id \in Optional(JsonValues)
  BY DEF RequestObjects
<1>2. /\ \A j \in o.id : ReadId(j) # {}
      /\ ReadRequest(o) = {Request(m, NotNull(o.params), ids) : m \in {j \in o.method : j.t = "method"}}
  BY DEF ReadRequest
<1>3. PICK m \in o.method : m.t = "method" /\ req = Request(m, NotNull(o.params), ids)
  BY <1>2
<1>4. o.method = {m} /\ m \in JsonValues
  BY <1>1, <1>3 DEF Optional
<1>5. ReadRequest(o) = {req}
  BY <1>2, <1>3, <1>4
<1>6. /\ ids \in Optional(Ids) /\ (ids = {} <=> o.id = {})
      /\ {WriteId(i) : i \in ids} = {Echo(j) : j \in o.id}
  <2>1. CASE o.id = {}
    <3>1. ids = {} /\ {Echo(j) : j \in o.id} = {} /\ {WriteId(i) : i \in {}} = {}
      BY <2>1
    <3> HIDE DEF ids
    <3>2. QED
      BY <2>1, <3>1, OptionalFacts
  <2>2. ASSUME NEW j \in JsonValues, o.id = {j}
        PROVE  /\ ids \in Optional(Ids) /\ (ids = {} <=> o.id = {})
               /\ {WriteId(i) : i \in ids} = {Echo(k) : k \in o.id}
    <3>1. ids = ReadId(j) /\ ReadId(j) # {}
      BY <1>2, <2>2
    <3>2. PICK i \in Ids : ReadId(j) = {i} /\ WriteId(i) = Echo(j)
      BY <3>1, ReadIdFacts, OptionalFacts
    <3>3. {WriteId(k) : k \in ids} = {WriteId(i)} /\ {Echo(k) : k \in o.id} = {Echo(j)}
      BY <2>2, <3>1, <3>2
    <3>4. QED
      BY <2>2, <3>1, <3>2, <3>3, OptionalFacts
  <2>3. o.id = {} \/ \E j \in JsonValues : o.id = {j}
    BY <1>1, OptionalFacts
  <2> HIDE DEF ids
  <2>4. QED
    BY <2>1, <2>2, <2>3
<1> HIDE DEF ids
<1>7. NotNull(o.params) \in Optional(JsonValues) /\ NotNull(NotNull(o.params)) = NotNull(o.params)
  BY <1>1, OptionalFacts DEF NotNull
<1>8. req.method = m /\ req.params = NotNull(o.params) /\ req.id = ids
  BY <1>3 DEF Request
<1>9. req \in Requests
  BY <1>3, <1>4, <1>6, <1>7 DEF Requests, Request
<1>10. QED
  BY <1>3, <1>5, <1>6, <1>7, <1>8, <1>9

\* So does a body.
LEMMA ReadingFacts ==
    ASSUME NEW body \in Optional(RequestObjects \cup {Garbage}), NEW req \in Reading(body)
    PROVE  /\ req \in Requests /\ Reading(body) = {req}
           /\ req.method.t = "method" /\ NotNull(req.params) = req.params
           /\ req.id = {} <=> UNION {o.id : o \in body} = {}
           /\ {WriteId(i) : i \in req.id} = {Echo(j) : j \in UNION {o.id : o \in body}}
<1>1. PICK o \in body \ {Garbage} : req \in ReadRequest(o)
  BY DEF Reading
<1>2. body = {o} /\ o \in RequestObjects
  BY <1>1 DEF Optional
<1>3. Reading(body) = ReadRequest(o) /\ UNION {x.id : x \in body} = o.id
  BY <1>1, <1>2 DEF Reading
<1>4. QED
  BY <1>1, <1>2, <1>3, ReadRequestFacts

\* A request with an i64 id, or none, is read as it was written, but for null
\* parameters (protocol.rs's Request and Id, and parse_id of the multiplexer).
THEOREM RequestRoundTrip ==
    ASSUME NEW req \in Requests, req.method.t = "method", req.id \in Optional(I64Ids)
    PROVE  /\ ReadRequest(WriteRequest(req)) = {Request(req.method, NotNull(req.params), req.id)}
           /\ ParseId(WriteRequest(req)) = req.id
           /\ WriteRequest(req) # Garbage
<1> DEFINE o == WriteRequest(req)
<1>1. /\ o.jsonrpc = {Version} /\ o.method = {req.method} /\ o.params = req.params
      /\ o.id = {WriteId(i) : i \in req.id}
  BY DEF WriteRequest
<1>2. UNION {ReadId(j) : j \in o.id} = req.id /\ \A j \in o.id : ReadId(j) # {}
  <2>1. CASE req.id = {}
    BY <1>1, <2>1
  <2>2. ASSUME NEW i \in I64Ids, req.id = {i}
        PROVE  UNION {ReadId(j) : j \in o.id} = req.id /\ \A j \in o.id : ReadId(j) # {}
    <3>1. o.id = {WriteId(i)} /\ ReadId(WriteId(i)) = {i}
      BY <1>1, <2>2, IdRoundTrip
    <3>2. QED
      BY <2>2, <3>1
  <2>3. req.id = {} \/ \E i \in I64Ids : req.id = {i}
    BY OptionalFacts
  <2> HIDE DEF o
  <2>4. QED
    BY <2>1, <2>2, <2>3
<1>3. o # Garbage
  <2>1. Garbage.jsonrpc = {Unserialisable} /\ Version # Unserialisable
    BY DEF Garbage, WriteRequest, Version, Unserialisable, Json
  <2>2. QED
    BY <1>1, <2>1
<1> HIDE DEF o
<1>4. {j \in o.method : j.t = "method"} = {req.method}
  BY <1>1
<1>5. ReadRequest(o) = {Request(m, NotNull(o.params), UNION {ReadId(j) : j \in o.id}) :
                           m \in {j \in o.method : j.t = "method"}}
  BY <1>1, <1>2 DEF ReadRequest
<1>6. ReadRequest(o) = {Request(req.method, NotNull(req.params), req.id)}
  BY <1>1, <1>2, <1>4, <1>5
<1>7. ParseId(o) = req.id
  BY <1>2, <1>3 DEF ParseId
<1>8. QED
  BY <1>3, <1>6, <1>7 DEF o

-----------------------------------------------------------------------------
(* What becomes of the result of a run on its way to the caller.            *)

Results == {r \in [ok : Optional(JsonValues), err : Optional(ErrorObjects)] :
               (r.ok = {}) # (r.err = {})}

\* The one response that the router makes of a result, for a request with an id.
ResponseOf(id, result) ==
    IF result.err = {} THEN ResultResponse(id, CHOOSE v \in result.ok : TRUE)
    ELSE ErrorResponse(id, CHOOSE x \in result.err : TRUE)

\* An error object after it was read.
Clean(x) == [x EXCEPT !.data = NotNull(@)]

\* A response that tells of a result all that survives being read.
Tells(resp, result) == /\ NotNull(resp.result) = NotNull(result.ok)
                       /\ {Clean(x) : x \in resp.error} = {Clean(x) : x \in result.err}

\* What the caller gets of a result.
CallOutcome(result) ==
    IF result.err # {} THEN Rpc(CHOOSE x \in {Clean(y) : y \in result.err} : TRUE)
    ELSE IF NotNull(result.ok) = {} THEN Err("malformed")
    ELSE Ok(CHOOSE v \in result.ok : TRUE)

\* An error object that is read loses a null data member, once.
LEMMA CleanFacts ==
    ASSUME NEW x \in ErrorObjects
    PROVE  /\ ReadError(x) = {Clean(x)} /\ Clean(x) \in ErrorObjects
           /\ Clean(Clean(x)) = Clean(x) /\ x # Null
<1>1. x.t = "error" /\ x.data \in Optional(JsonValues)
  BY DEF ErrorObjects
<1>2. ReadError(x) = {Clean(x)}
  BY <1>1 DEF ReadError, Clean
<1>3. NotNull(x.data) \in Optional(JsonValues) /\ NotNull(NotNull(x.data)) = NotNull(x.data)
  BY <1>1, OptionalFacts DEF NotNull
<1>4. Clean(x) \in ErrorObjects /\ Clean(x).data = NotNull(x.data)
  BY <1>3 DEF Clean, ErrorObjects
<1>5. Clean(Clean(x)) = Clean(x)
  BY <1>3, <1>4 DEF Clean, ErrorObjects
<1>6. x # Null
  BY <1>1 DEF Null, Json
<1>7. QED
  BY <1>2, <1>4, <1>5, <1>6

\* A run ends with a value or with an error.
LEMMA ResultFacts ==
    /\ \A v \in JsonValues : Value(v) \in Results /\ \A i : ResponseOf(i, Value(v)) = ResultResponse(i, v)
    /\ \A x \in ErrorObjects : Failure(x) \in Results /\ \A i : ResponseOf(i, Failure(x)) = ErrorResponse(i, x)
    /\ \A r \in Results : \/ \E v \in JsonValues : r = Value(v)
                          \/ \E x \in ErrorObjects : r = Failure(x)
<1>1. ASSUME NEW v \in JsonValues
      PROVE  Value(v) \in Results /\ \A i : ResponseOf(i, Value(v)) = ResultResponse(i, v)
  <2>1. Value(v) \in Results
    BY OptionalFacts DEF Value, Results
  <2>2. Value(v).err = {} /\ (CHOOSE w \in Value(v).ok : TRUE) = v
    BY DEF Value
  <2>3. QED
    BY <2>1, <2>2 DEF ResponseOf
<1>2. ASSUME NEW x \in ErrorObjects
      PROVE  Failure(x) \in Results /\ \A i : ResponseOf(i, Failure(x)) = ErrorResponse(i, x)
  <2>1. Failure(x) \in Results
    BY OptionalFacts DEF Failure, Results
  <2>2. Failure(x).err # {} /\ (CHOOSE w \in Failure(x).err : TRUE) = x
    BY DEF Failure
  <2>3. QED
    BY <2>1, <2>2 DEF ResponseOf
<1>3. ASSUME NEW r \in Results
      PROVE  \/ \E v \in JsonValues : r = Value(v)
             \/ \E x \in ErrorObjects : r = Failure(x)
  <2>1. /\ r.ok = {} \/ \E v \in JsonValues : r.ok = {v}
        /\ r.err = {} \/ \E x \in ErrorObjects : r.err = {x}
    BY OptionalFacts DEF Results
  <2>2. r = [ok |-> r.ok, err |-> r.err] /\ (r.ok = {}) # (r.err = {})
    BY DEF Results
  <2>3. QED
    BY <2>1, <2>2 DEF Value, Failure
<1>4. QED
  BY <1>1, <1>2, <1>3

\* Every run of the gateway's upstream, and of the router, ends in such a result.
LEMMA RunFacts ==
    ASSUME NEW req \in Requests
    PROVE  /\ HandlerResults(req) \subseteq Results /\ Failure(MethodNotFound) \in Results
           /\ \A r, i : req.id = {i} => RouterResponse(req, r) = {ResponseOf(i, r)}
           /\ \A r : req.id = {} => RouterResponse(req, r) = {}
<1>1. Failure(InvalidParams) \in Results /\ Failure(MethodNotFound) \in Results
  BY ResultFacts, CodecConstants
<1>2. \A x \in Failures : Failure(x) \in Results
  BY ResultFacts, DataAssumption
<1>3. ASSUME NEW v \in Returns PROVE Resolved(v) \in Results
  <2>1. CASE v = Unserialisable
    <3>1. Raw(v) = {} /\ Raw(Text(0)) \in Optional(JsonValues)
      BY <2>1, CodecConstants, OptionalFacts DEF Raw
    <3>2. WithData(InternalError, Text(0)) \in ErrorObjects
      BY <3>1, CodecConstants DEF WithData, ErrorObjects
    <3>3. QED
      BY <3>1, <3>2, ResultFacts DEF Resolved
  <2>2. CASE v # Unserialisable
    <3>1. v \in JsonValues /\ Raw(v) # {}
      BY <2>2, DataAssumption DEF Raw
    <3>2. QED
      BY <3>1, ResultFacts DEF Resolved
  <2>3. QED
    BY <2>1, <2>2
<1>4. HandlerResults(req) \subseteq Results
  BY <1>1, <1>2, <1>3 DEF HandlerResults
<1>5. QED
  BY <1>1, <1>4 DEF RouterResponse, ResponseOf

\* The router's response tells of the result.
LEMMA ResponseOfFacts ==
    ASSUME NEW id \in Ids, NEW r \in Results
    PROVE  /\ ResponseOf(id, r) \in Responses /\ ResponseOf(id, r).id = id
           /\ Tells(ResponseOf(id, r), r)
<1>1. CASE \E v \in JsonValues : r = Value(v)
  <2>1. PICK v \in JsonValues : r = Value(v)
    BY <1>1
  <2>2. ResponseOf(id, r) = Response({v}, {}, id) /\ r.ok = {v} /\ r.err = {}
    BY <2>1, ResultFacts DEF ResultResponse, Value
  <2>3. Response({v}, {}, id) \in Responses
    BY OptionalFacts DEF Response, Responses
  <2>4. Response({v}, {}, id).result = {v} /\ Response({v}, {}, id).error = {}
        /\ Response({v}, {}, id).id = id
    BY DEF Response
  <2>5. QED
    BY <2>2, <2>3, <2>4 DEF Tells
<1>2. CASE \E x \in ErrorObjects : r = Failure(x)
  <2>1. PICK x \in ErrorObjects : r = Failure(x)
    BY <1>2
  <2>2. ResponseOf(id, r) = Response({}, {x}, id) /\ r.ok = {} /\ r.err = {x}
    BY <2>1, ResultFacts DEF ErrorResponse, Failure
  <2>3. Response({}, {x}, id) \in Responses
    BY OptionalFacts DEF Response, Responses
  <2>4. Response({}, {x}, id).result = {} /\ Response({}, {x}, id).error = {x}
        /\ Response({}, {x}, id).id = id
    BY DEF Response
  <2>5. QED
    BY <2>2, <2>3, <2>4 DEF Tells
<1>3. QED
  BY <1>1, <1>2, ResultFacts

\* Every response can be written.
LEMMA WrittenResponse ==
    ASSUME NEW resp \in Responses
    PROVE  WriteResponse(resp) \in ReplyObjects
<1>1. {WriteId(resp.id)} \in Optional(JsonValues)
  BY IdRoundTrip, OptionalFacts DEF Responses
<1>2. resp.result \in Optional(JsonValues) /\ resp.error \in Optional(ErrorObjects)
  BY DEF Responses
<1>3. QED
  BY <1>1, <1>2 DEF WriteResponse, ReplyObjects

\* The error member is read to its one error object.
LEMMA ReadErrorMember ==
    ASSUME NEW m \in Optional(ErrorObjects)
    PROVE  /\ NotNull(m) = m /\ \A j \in m : ReadError(j) # {}
           /\ UNION {ReadError(j) : j \in m} = {Clean(x) : x \in m}
           /\ {Clean(x) : x \in m} \in Optional(ErrorObjects)
<1>1. \A x \in m : ReadError(x) = {Clean(x)} /\ Clean(x) \in ErrorObjects /\ x # Null
  BY CleanFacts DEF Optional
<1>2. \A x, y \in m : x = y
  BY DEF Optional
<1>3. QED
  BY <1>1, <1>2 DEF NotNull, Optional

\* What comes from upstream is read to at most one response.
LEMMA ReadResponseFacts ==
    ASSUME NEW o \in ReplyObjects
    PROVE  /\ \A r \in ReadResponse(o) : r \in Responses /\ ReadResponse(o) = {r}
           /\ ReadResponse(o) = {Response(NotNull(o.result), {Clean(x) : x \in o.error}, id) :
                                    id \in UNION {ReadId(j) : j \in o.id}}
<1> DEFINE ids == UNION {ReadId(j) : j \in o.id}
           errors == {Clean(x) : x \in o.error}
<1>1. /\ o.jsonrpc = {Version} /\ o.result \in Optional(JsonValues)
      /\ o.error \in Optional(ErrorObjects) /\ o.id \in Optional(JsonValues)
  BY DEF ReplyObjects
<1>2. /\ NotNull(o.error) = o.error /\ \A j \in o.error : ReadError(j) # {}
      /\ UNION {ReadError(j) : j \in o.error} = errors
      /\ errors \in Optional(ErrorObjects)
  BY <1>1, ReadErrorMember
<1>3. ids \in Optional(Ids)
  <2>1. \A j \in o.id : ReadId(j) \in Optional(Ids)
    BY <1>1, ReadIdFacts DEF Optional
  <2>2. \A j, k \in o.id : j = k
    BY <1>1 DEF Optional
  <2> HIDE DEF ids
  <2>3. QED
    BY <2>1, <2>2 DEF Optional, ids
<1>4. NotNull(o.result) \in Optional(JsonValues)
  BY <1>1, OptionalFacts DEF NotNull
<1> HIDE DEF ids, errors
<1>5. ReadResponse(o) = {Response(NotNull(o.result), errors, id) : id \in ids}
  BY <1>1, <1>2 DEF ReadResponse, ids
<1>6. \A id \in ids : Response(NotNull(o.result), errors, id) \in Responses
  BY <1>2, <1>3, <1>4 DEF Response, Responses, Optional
<1>7. \A x, y \in ids : x = y
  BY <1>3 DEF Optional
<1>8. QED
  BY <1>5, <1>6, <1>7 DEF ids, errors

\* A response with an i64 id, or the null id, is read as it was written, but for
\* a null result and null data (protocol.rs's Response and Error).
THEOREM ResponseRoundTrip ==
    ASSUME NEW resp \in Responses, resp.id \in I64Ids \cup {NullId}
    PROVE  /\ ReadResponse(WriteResponse(resp))
                = {Response(NotNull(resp.result), {Clean(x) : x \in resp.error}, resp.id)}
           /\ ParseId(WriteResponse(resp)) = {resp.id}
<1> DEFINE o == WriteResponse(resp)
<1>1. o \in ReplyObjects
  BY WrittenResponse
<1>2. o.result = resp.result /\ o.error = resp.error /\ o.id = {WriteId(resp.id)}
  BY DEF WriteResponse
<1>3. UNION {ReadId(j) : j \in o.id} = {resp.id}
  BY <1>2, IdRoundTrip
<1> HIDE DEF o
<1>4. ReadResponse(o) = {Response(NotNull(o.result), {Clean(x) : x \in o.error}, id) :
                            id \in UNION {ReadId(j) : j \in o.id}}
  BY <1>1, ReadResponseFacts
<1>5. QED
  BY <1>2, <1>3, <1>4 DEF o, ParseId

\* What is read of a response tells no less than the response.
LEMMA TellsAfterRead ==
    ASSUME NEW resp \in Responses, NEW r, Tells(resp, r), NEW id
    PROVE  Tells(Response(NotNull(resp.result), {Clean(x) : x \in resp.error}, id), r)
<1>1. \A x \in resp.error : Clean(Clean(x)) = Clean(x)
  BY CleanFacts DEF Responses, Optional
<1>2. {Clean(y) : y \in {Clean(x) : x \in resp.error}} = {Clean(x) : x \in resp.error}
  BY <1>1
<1>3. NotNull(NotNull(resp.result)) = NotNull(resp.result)
  BY DEF NotNull
<1>4. QED
  BY <1>2, <1>3 DEF Tells, Response

\* A caller that reads a response with its own id gets the result it tells of.
LEMMA CallDecoded ==
    ASSUME NEW resp \in Responses, resp.id \in I64Ids, NEW r \in Results, Tells(resp, r)
    PROVE  DecodeResult(WriteResponse(resp), resp.id) = CallOutcome(r)
<1> DEFINE errors == {Clean(x) : x \in resp.error}
           read == Response(NotNull(resp.result), errors, resp.id)
<1>1. ReadResponse(WriteResponse(resp)) = {read}
  BY ResponseRoundTrip
<1>2. read.id = resp.id /\ read.result = NotNull(r.ok) /\ read.error = {Clean(x) : x \in r.err}
  BY DEF Tells, Response
<1>3. ReadResponse(WriteResponse(resp)) # {}
      /\ (CHOOSE x \in ReadResponse(WriteResponse(resp)) : TRUE) = read
  <2>1. (CHOOSE x \in {read} : TRUE) = read /\ {read} # {}
    OBVIOUS
  <2> HIDE DEF read
  <2>2. QED
    BY <1>1, <2>1
<1> HIDE DEF read
<1>4. DecodeResult(WriteResponse(resp), resp.id) =
          IF ~IsValid(read) THEN Err("malformed")
          ELSE IF read.error = {} THEN Ok(CHOOSE v \in read.result : TRUE)
          ELSE Rpc(CHOOSE x \in read.error : TRUE)
  <2> DEFINE Decoded(q) == IF q.id # resp.id THEN Err("id_mismatch")
                           ELSE IF ~IsValid(q) THEN Err("malformed")
                           ELSE IF q.error = {} THEN Ok(CHOOSE v \in q.result : TRUE)
                           ELSE Rpc(CHOOSE e \in q.error : TRUE)
  <2>1. DecodeResult(WriteResponse(resp), resp.id)
           = Decoded(CHOOSE r1 \in ReadResponse(WriteResponse(resp)) : TRUE)
    BY Zenon, <1>3 DEF DecodeResult
  <2>2. DecodeResult(WriteResponse(resp), resp.id) = Decoded(read)
    BY <1>3, <2>1
  <2>3. QED
    BY <1>2, <2>2
<1>5. CASE r.err = {}
  <2>1. r.ok # {} /\ r.ok \in Optional(JsonValues)
    BY <1>5 DEF Results
  <2>2. PICK v \in JsonValues : r.ok = {v}
    BY <2>1, OptionalFacts
  <2>3. read.error = {}
    BY <1>2, <1>5
  <2>4. CASE v = Null
    <3>1. NotNull(r.ok) = {}
      BY <2>2, <2>4 DEF NotNull
    <3>2. QED
      BY <1>2, <1>4, <1>5, <2>3, <3>1 DEF IsValid, CallOutcome
  <2>5. CASE v # Null
    <3>1. NotNull(r.ok) = r.ok /\ r.ok # {}
      BY <2>2, <2>5 DEF NotNull
    <3>2. QED
      BY <1>2, <1>4, <1>5, <2>3, <3>1 DEF IsValid, CallOutcome
  <2>6. QED
    BY <2>4, <2>5
<1>6. CASE r.err # {}
  <2>1. read.error # {} /\ read.result = {}
    BY <1>2, <1>6 DEF Results, NotNull
  <2>2. QED
    BY <1>2, <1>4, <1>6, <2>1 DEF IsValid, CallOutcome
<1>7. QED
  BY <1>5, <1>6

\* A caller that reads a response with the null id gets an error.
LEMMA MismatchDecoded ==
    ASSUME NEW resp \in Responses, resp.id = NullId, NEW id \in I64Ids
    PROVE  DecodeResult(WriteResponse(resp), id) = Err("id_mismatch")
<1> DEFINE read == Response(NotNull(resp.result), {Clean(x) : x \in resp.error}, resp.id)
<1>1. ReadResponse(WriteResponse(resp)) = {read}
  BY ResponseRoundTrip
<1>2. read.id # id
  BY CodecConstants DEF Response
<1>3. (CHOOSE x \in {read} : TRUE) = read /\ {read} # {}
  OBVIOUS
<1> HIDE DEF read
<1>4. QED
  BY <1>1, <1>2, <1>3 DEF DecodeResult

\* The gateway's reply, as an operator of the caller's id and the upstream's reply.
Relayed(id, body) ==
    IF ReadResponse(body) = {} THEN WriteResponse(ErrorResponse(id, InternalError))
    ELSE WriteResponse(SetId(CHOOSE r \in ReadResponse(body) : TRUE, id))

\* It is a response with the caller's id, and tells what the upstream's told.
LEMMA RelayedFacts ==
    ASSUME NEW id \in Ids, NEW body \in ReplyObjects
    PROVE  /\ \E resp \in Responses : resp.id = id /\ Relayed(id, body) = WriteResponse(resp)
           /\ \A told \in Responses, r \in Results :
                 body = WriteResponse(told) /\ told.id \in I64Ids /\ Tells(told, r) =>
                    \E resp \in Responses :
                       resp.id = id /\ Tells(resp, r) /\ Relayed(id, body) = WriteResponse(resp)
<1>1. \A r \in Responses : SetId(r, id) \in Responses /\ SetId(r, id).id = id
                           /\ SetId(r, id) = Response(r.result, r.error, id)
  BY DEF SetId, Responses, Response
<1>2. ErrorResponse(id, InternalError) \in Responses /\ ErrorResponse(id, InternalError).id = id
  BY CodecConstants, OptionalFacts DEF ErrorResponse, Response, Responses
<1>3. ASSUME NEW r \in ReadResponse(body)
      PROVE  r \in Responses /\ Relayed(id, body) = WriteResponse(SetId(r, id))
  <2>1. r \in Responses /\ ReadResponse(body) = {r}
    BY ReadResponseFacts
  <2>2. (CHOOSE x \in {r} : TRUE) = r
    OBVIOUS
  <2>3. QED
    BY <2>1, <2>2 DEF Relayed
<1>4. \E resp \in Responses : resp.id = id /\ Relayed(id, body) = WriteResponse(resp)
  <2>1. CASE ReadResponse(body) = {}
    BY <1>2, <2>1 DEF Relayed
  <2>2. CASE ReadResponse(body) # {}
    BY <1>1, <1>3, <2>2
  <2>3. QED
    BY <2>1, <2>2
<1>5. ASSUME NEW told \in Responses, NEW r \in Results,
             body = WriteResponse(told), told.id \in I64Ids, Tells(told, r)
      PROVE  \E resp \in Responses :
                resp.id = id /\ Tells(resp, r) /\ Relayed(id, body) = WriteResponse(resp)
  <2> DEFINE read == Response(NotNull(told.result), {Clean(x) : x \in told.error}, told.id)
  <2>1. read \in ReadResponse(body)
    BY <1>5, ResponseRoundTrip
  <2>2. Tells(read, r)
    BY <1>5, TellsAfterRead
  <2> HIDE DEF read
  <2>3. read \in Responses /\ Relayed(id, body) = WriteResponse(SetId(read, id))
    BY <1>3, <2>1
  <2>4. Tells(SetId(read, id), r)
    BY <1>1, <2>2, <2>3 DEF Tells, Response
  <2>5. QED
    BY <1>1, <2>3, <2>4
<1>6. QED
  BY <1>4, <1>5

-----------------------------------------------------------------------------
(* One exchange, and what the steps of the system do to it.                 *)

View(e) == [front |-> front, request |-> request[e], client |-> client[e],
            server |-> server[e], reply |-> reply[e], outcome |-> outcome[e],
            ran |-> ran[e], mishaps |-> mishaps[e], pending |-> pending[e],
            source |-> source[e]]

\* ReadBody, OriginalId and Received of a view.
Body(x) == Reading(x.request.body)
CallersId(x) == CHOOSE id \in UNION {req.id : req \in Body(x)} : TRUE
Got(x) ==
    IF x.reply.status \notin 200..299 THEN Err("transport")
    ELSE IF x.request.kind # "call" THEN Ok(x.reply.body)
    ELSE IF x.reply.body = {} THEN Err("protocol")
    ELSE DecodeResult(CHOOSE o \in x.reply.body : TRUE, CHOOSE id \in x.request.id : TRUE)

\* The body, the caller's id and the outcome are functions of the record.
LEMMA ViewFacts ==
    ASSUME NEW e
    PROVE  /\ Body(View(e)) = ReadBody(e) /\ CallersId(View(e)) = OriginalId(e)
           /\ Got(View(e)) = Received(e)
<1>1. View(e).request = request[e] /\ View(e).reply = reply[e]
  BY DEF View
<1>2. Body(View(e)) = ReadBody(e)
  BY <1>1 DEF Body, Reading, ReadBody
<1>3. CallersId(View(e)) = OriginalId(e)
  BY <1>2 DEF CallersId, OriginalId
<1>4. Got(View(e)) = Received(e)
  BY <1>1 DEF Got, Received
<1>5. QED
  BY <1>2, <1>3, <1>4

\* What a request can be; a call is read as a request with its id.
RequestRecords ==
    {q \in [kind : {"none", "call", "notify", "raw"}, id : Optional(I64Ids),
            body : Optional(RequestObjects \cup {Garbage}), authorized : BOOLEAN] :
        q.kind = "call" => /\ q.id # {} /\ Reading(q.body) # {}
                           /\ \A req \in Reading(q.body) : req.id = q.id}

\* The two halves of a view that a step of the other half leaves alone.
ClientSame(x, y) == y.request = x.request /\ y.client = x.client /\ y.outcome = x.outcome
ServerSame(x, y) == /\ y.server = x.server /\ y.reply = x.reply /\ y.ran = x.ran
                    /\ y.pending = x.pending /\ y.source = x.source

\* A call or a notification that cannot be encoded; one that is sent.
FailsToSend(x, y) ==
    /\ x.client = "idle"
    /\ y.client = "done" /\ y.outcome = Err("protocol")
    /\ ServerSame(x, y) /\ y.request = x.request /\ y.mishaps = x.mishaps

Sends(x, y) ==
    /\ x.client = "idle"
    /\ y.request \in RequestRecords /\ y.client = "waiting" /\ y.server = "arrived"
    /\ y.outcome = x.outcome /\ y.reply = x.reply /\ y.ran = x.ran
    /\ y.pending = x.pending /\ y.source = x.source /\ y.mishaps = x.mishaps

\* The client gets the reply, loses the connection, or stops waiting.
Ends(x, y) ==
    /\ x.client = "waiting" /\ y.client = "done"
    /\ ServerSame(x, y) /\ y.request = x.request
    /\ \/ x.server = "replied" /\ y.outcome = Got(x) /\ y.mishaps = x.mishaps
       \/ y.outcome = Err("transport") /\ y.mishaps = x.mishaps \cup {"connection"}
       \/ y.outcome = Err("timeout") /\ y.mishaps = x.mishaps

\* The server has the request and may look at it.
Accepted(x) == x.server = "arrived" /\ (x.front = "gateway" => x.request.authorized)
HasCall(x) == \E req \in Body(x) : ~IsNotification(req)

LosesBody(x, y) ==
    /\ Accepted(x)
    /\ y.reply = JsonResponse(ParseErrorBody) /\ y.server = "replied"
    /\ y.mishaps = x.mishaps \cup {"body"}
    /\ ClientSame(x, y) /\ y.ran = x.ran /\ y.pending = x.pending /\ y.source = x.source

Rejects(x, y) ==
    /\ Accepted(x) /\ Body(x) = {}
    /\ \E error \in {ParseError, InvalidRequest} : y.reply = JsonResponse(ErrorResponse(NullId, error))
    /\ y.server = "replied"
    /\ ClientSame(x, y) /\ y.ran = x.ran /\ y.pending = x.pending /\ y.source = x.source
    /\ y.mishaps = x.mishaps

Begins(x, y) ==
    /\ Accepted(x) /\ x.front = "adapter" /\ Body(x) # {}
    /\ y.server = "running"
    /\ ClientSame(x, y) /\ y.reply = x.reply /\ y.ran = x.ran
    /\ y.pending = x.pending /\ y.source = x.source /\ y.mishaps = x.mishaps

Runs(x, y) ==
    /\ x.front = "adapter" /\ (Accepted(x) \/ x.server = "running")
    /\ \E req \in Body(x), r \in Results : /\ y.ran = Append(x.ran, r)
                                           /\ y.reply = HttpOutcome(RouterResponse(req, r))
    /\ y.server = "replied"
    /\ ClientSame(x, y) /\ y.pending = x.pending /\ y.source = x.source /\ y.mishaps = x.mishaps

Refuses(x, y) ==
    /\ x.front = "gateway" /\ x.server = "arrived" /\ ~x.request.authorized
    /\ y.reply = HttpReply(401, {Garbage}) /\ y.server = "replied"
    /\ ClientSame(x, y) /\ y.ran = x.ran /\ y.pending = x.pending /\ y.source = x.source
    /\ y.mishaps = x.mishaps

Notes(x, y) ==
    /\ x.front = "gateway" /\ Accepted(x)
    /\ \E req \in Body(x) : IsNotification(req)
    /\ y.reply = HttpReply(204, {}) /\ y.server = "replied"
    /\ ClientSame(x, y) /\ y.ran = x.ran /\ y.pending = x.pending /\ y.source = x.source
    /\ y.mishaps = x.mishaps

Forwards(x, y) ==
    /\ x.front = "gateway" /\ Accepted(x) /\ HasCall(x)
    /\ y.server = "proxied" /\ \E i \in I64Ids : y.pending = {i}
    /\ ClientSame(x, y) /\ y.reply = x.reply /\ y.ran = x.ran /\ y.source = x.source
    /\ y.mishaps = x.mishaps

FailsUpstream(x, y) ==
    /\ x.front = "gateway" /\ (Accepted(x) \/ x.server = "proxied") /\ HasCall(x)
    /\ y.reply = JsonResponse(ErrorResponse(CallersId(x), InternalError)) /\ y.server = "replied"
    /\ y.mishaps = x.mishaps \cup {"upstream"} /\ y.pending = {}
    /\ ClientSame(x, y) /\ y.ran = x.ran /\ y.source = x.source

Delivers(x, y, f) ==
    /\ x.server = "proxied" /\ x.pending = ParseId(f.body)
    /\ y.reply = HttpReply(200, {Relayed(CallersId(x), f.body)}) /\ y.server = "replied"
    /\ y.pending = {} /\ y.source = f.for
    /\ ClientSame(x, y) /\ y.ran = x.ran /\ y.mishaps = x.mishaps

Abandons(x, y) ==
    /\ x.client = "done" /\ x.server \in {"arrived", "running", "proxied"}
    /\ y.server = "gone" /\ y.pending = {}
    /\ ClientSame(x, y) /\ y.reply = x.reply /\ y.ran = x.ran /\ y.source = x.source
    /\ y.mishaps = x.mishaps

\* The upstream runs what was forwarded.
RunsUpstream(x, y, r) ==
    /\ y.ran = Append(x.ran, r)
    /\ ClientSame(x, y) /\ y.server = x.server /\ y.reply = x.reply
    /\ y.pending = x.pending /\ y.source = x.source /\ y.mishaps = x.mishaps

\* A step of one exchange that neither takes a reply nor is taken upstream.
Step(x, y) == \/ FailsToSend(x, y) \/ Sends(x, y) \/ Ends(x, y) \/ LosesBody(x, y)
              \/ Rejects(x, y) \/ Begins(x, y) \/ Runs(x, y) \/ Refuses(x, y)
              \/ Notes(x, y) \/ Forwards(x, y) \/ FailsUpstream(x, y) \/ Abandons(x, y)

\* All exchanges but e are left alone.
OthersUnchanged(e) == \A d \in Exchanges \ {e} : View(d)' = View(d)
Moves(e) == OthersUnchanged(e) /\ View(e)'.front = View(e).front

-----------------------------------------------------------------------------
(* The types.                                                               *)

RequestFrames == [body : RequestObjects, for : Exchanges]
ReplyFrames == [body : ReplyObjects, for : Exchanges]

\* The types of an exchange, and what holds where its server's future is.
Typed(x) ==
    /\ x.front \in {"adapter", "gateway"}
    /\ x.client \in {"idle", "waiting", "done"}
    /\ x.server \in {"none", "arrived", "running", "proxied", "replied", "gone"}
    /\ x.request \in RequestRecords
    /\ x.mishaps \in SUBSET {"connection", "body", "upstream"}
    /\ x.ran \in Seq(Results)
    /\ x.pending \in Optional(I64Ids)
    /\ x.source \in Exchanges \cup {NoExchange}
    /\ x.pending # {} <=> x.server = "proxied"
    /\ x.client = "idle" => x.server = "none"
    /\ x.server = "none" => x.request = NoRequest
    /\ x.server = "running" => x.front = "adapter" /\ Body(x) # {}
    /\ x.server = "proxied" => /\ x.front = "gateway" /\ x.request.authorized
                               /\ HasCall(x)

\* The variables are functions on the exchanges.
Functions == /\ DOMAIN request = Exchanges /\ DOMAIN reply = Exchanges
             /\ DOMAIN outcome = Exchanges /\ DOMAIN ran = Exchanges
             /\ DOMAIN mishaps = Exchanges /\ DOMAIN pending = Exchanges
             /\ client = [e \in Exchanges |-> client[e]]
             /\ server = [e \in Exchanges |-> server[e]]
             /\ source = [e \in Exchanges |-> source[e]]

TypeInv ==
    /\ Functions
    /\ counter \in [Clients -> 0..MaxU64] /\ gatewayId \in 0..MaxU64
    /\ toUp \in Seq(RequestFrames) /\ fromUp \in Seq(ReplyFrames)
    /\ \A e \in Exchanges : Typed(View(e))

-----------------------------------------------------------------------------
(* Every action is one of these steps.                                      *)

\* What the client encodes is read as a request with its id.
LEMMA CallRecord ==
    ASSUME NEW method \in {Known, Unknown}, NEW params \in Params, NEW id \in I64Ids,
           NEW a \in BOOLEAN, EncodeCall(method, params, id) # {}
    PROVE  [kind |-> "call", id |-> {id}, body |-> EncodeCall(method, params, id),
            authorized |-> a] \in RequestRecords
<1> DEFINE req == Request(method, {params}, {id})
           body == EncodeCall(method, params, id)
<1>1. params # Unserialisable /\ body = {WriteRequest(req)}
  BY DEF EncodeCall, TryCall, Raw
<1>2. params \in JsonValues
  BY <1>1, DataAssumption
<1>3. method \in JsonValues /\ method.t = "method" /\ id \in Ids
  BY CodecConstants
<1>4. req \in Requests /\ req.method = method /\ req.id = {id} /\ req.id \in Optional(I64Ids)
  BY <1>2, <1>3, OptionalFacts DEF Requests, Request
<1> HIDE DEF req, body
<1>5. /\ WriteRequest(req) \in RequestObjects /\ WriteRequest(req) # Garbage
      /\ ReadRequest(WriteRequest(req)) = {Request(req.method, NotNull(req.params), req.id)}
  BY <1>3, <1>4, WrittenRequest, RequestRoundTrip
<1>6. Reading(body) = {Request(req.method, NotNull(req.params), req.id)}
  BY <1>1, <1>5 DEF Reading
<1>7. body \in Optional(RequestObjects \cup {Garbage}) /\ {id} \in Optional(I64Ids)
  BY <1>1, <1>5, OptionalFacts
<1>8. \A r \in Reading(body) : r.id = {id}
  BY <1>4, <1>6 DEF Request
<1>9. QED
  BY <1>6, <1>7, <1>8 DEF RequestRecords, body

\* A notification has no id.
LEMMA NotifyRecord ==
    ASSUME NEW method \in {Known, Unknown}, NEW params \in Params,
           NEW a \in BOOLEAN, EncodeNotification(method, params) # {}
    PROVE  [kind |-> "notify", id |-> {}, body |-> EncodeNotification(method, params),
            authorized |-> a] \in RequestRecords
<1> DEFINE req == Request(method, {params}, {})
           body == EncodeNotification(method, params)
<1>1. params # Unserialisable /\ body = {WriteRequest(req)}
  BY DEF EncodeNotification, TryNotification, Raw
<1>2. params \in JsonValues
  BY <1>1, DataAssumption
<1>3. method \in JsonValues
  BY CodecConstants
<1>4. req \in Requests
  BY <1>2, <1>3, OptionalFacts DEF Requests, Request
<1> HIDE DEF req
<1>5. WriteRequest(req) \in RequestObjects
  BY <1>4, WrittenRequest
<1>6. body \in Optional(RequestObjects \cup {Garbage}) /\ {} \in Optional(I64Ids)
  BY <1>1, <1>5, OptionalFacts
<1> HIDE DEF body
<1>7. QED
  BY <1>6 DEF RequestRecords, body

\* What other programs send is an object or garbage.
LEMMA RawRecord ==
    ASSUME NEW body \in RawBodies, NEW a \in BOOLEAN
    PROVE  [kind |-> "raw", id |-> {}, body |-> {body}, authorized |-> a] \in RequestRecords
<1>1. {body} \in Optional(RequestObjects \cup {Garbage}) /\ {} \in Optional(I64Ids)
  BY DataAssumption, OptionalFacts
<1>2. QED
  BY <1>1 DEF RequestRecords

\* Sending, or failing to.
LEMMA SendView ==
    ASSUME TypeInv, NEW e \in Exchanges, client[e] = "idle", NEW kind, NEW id, NEW body,
           \A a \in BOOLEAN : [kind |-> kind, id |-> id, body |-> body, authorized |-> a] \in RequestRecords,
           Send(e, kind, id, body), UNCHANGED <<front, reply, ran, mishaps, upVars>>
    PROVE  Moves(e) /\ Functions' /\ Sends(View(e), View(e)')
<1>1. PICK q \in RequestRecords : request' = [request EXCEPT ![e] = q]
  BY HttpAssumption DEF Send
<1>2. /\ client' = [client EXCEPT ![e] = "waiting"] /\ server' = [server EXCEPT ![e] = "arrived"]
      /\ UNCHANGED <<front, outcome, reply, ran, mishaps, pending, source>>
  BY DEF Send, upVars
<1>3. QED
  BY <1>1, <1>2 DEF TypeInv, Functions, Moves, OthersUnchanged, View, Sends

\* A call whose parameters do not serialise ends before it is sent.
LEMMA FailsToSendView ==
    ASSUME TypeInv, NEW e \in Exchanges, client[e] = "idle", Finish(e, Err("protocol")),
           UNCHANGED <<request, server, front, reply, ran, mishaps, upVars>>
    PROVE  Moves(e) /\ Functions' /\ FailsToSend(View(e), View(e)')
BY DEF Finish, upVars, TypeInv, Functions, Moves, OthersUnchanged, View, FailsToSend, ServerSame

\* Client::call.
LEMMA StartCallView ==
    ASSUME TypeInv, NEW e \in Exchanges, NEW c \in Clients, StartCall(e, c), UNCHANGED upVars
    PROVE  /\ Moves(e) /\ Functions' /\ Step(View(e), View(e)')
           /\ counter' \in [Clients -> 0..MaxU64]
<1>1. PICK method \in {Known, Unknown}, params \in Params :
           IF EncodeCall(method, params, NextId(counter[c])) = {}
           THEN Finish(e, Err("protocol")) /\ UNCHANGED <<request, server>>
           ELSE Send(e, "call", {NextId(counter[c])}, EncodeCall(method, params, NextId(counter[c])))
  BY DEF StartCall
<1>2. /\ client[e] = "idle" /\ UNCHANGED <<front, reply, ran, mishaps>>
      /\ counter' = [counter EXCEPT ![c] = Increment(@)]
  BY DEF StartCall
<1>3. counter[c] \in 0..MaxU64
  BY DEF TypeInv
<1>4. NextId(counter[c]) \in I64Ids /\ counter' \in [Clients -> 0..MaxU64]
  BY <1>2, <1>3, NextIdFacts DEF TypeInv
<1>5. CASE EncodeCall(method, params, NextId(counter[c])) = {}
  BY <1>1, <1>2, <1>4, <1>5, FailsToSendView DEF Step
<1>6. CASE EncodeCall(method, params, NextId(counter[c])) # {}
  BY <1>1, <1>2, <1>4, <1>6, CallRecord, SendView DEF Step
<1>7. QED
  BY <1>5, <1>6

\* Client::notify.
LEMMA StartNotifyView ==
    ASSUME TypeInv, NEW e \in Exchanges, StartNotify(e), UNCHANGED upVars
    PROVE  Moves(e) /\ Functions' /\ Step(View(e), View(e)')
<1>1. PICK method \in {Known, Unknown}, params \in Params :
           IF EncodeNotification(method, params) = {}
           THEN Finish(e, Err("protocol")) /\ UNCHANGED <<request, server>>
           ELSE Send(e, "notify", {}, EncodeNotification(method, params))
  BY DEF StartNotify
<1>2. client[e] = "idle" /\ UNCHANGED <<front, reply, ran, mishaps>>
  BY DEF StartNotify
<1>3. CASE EncodeNotification(method, params) = {}
  BY <1>1, <1>2, <1>3, FailsToSendView DEF Step
<1>4. CASE EncodeNotification(method, params) # {}
  BY <1>1, <1>2, <1>4, NotifyRecord, SendView DEF Step
<1>5. QED
  BY <1>3, <1>4

\* A program that sends a body of its own.
LEMMA StartRawView ==
    ASSUME TypeInv, NEW e \in Exchanges, StartRaw(e), UNCHANGED upVars
    PROVE  Moves(e) /\ Functions' /\ Step(View(e), View(e)')
BY RawRecord, SendView DEF StartRaw, Step

\* The client's last step.
LEMMA EndView ==
    ASSUME TypeInv, NEW e \in Exchanges, Receive(e) \/ TransportFails(e) \/ Timeout(e), UNCHANGED upVars
    PROVE  Moves(e) /\ Functions' /\ Step(View(e), View(e)')
<1>1. Got(View(e)) = Received(e)
  BY ViewFacts
<1>2. CASE Receive(e)
  <2>1. Moves(e) /\ Functions' /\ Ends(View(e), View(e)')
    BY <1>1, <1>2 DEF Receive, Finish, upVars, TypeInv, Functions, Moves, OthersUnchanged, View, Ends, ServerSame
  <2>2. QED
    BY <2>1 DEF Step
<1>3. CASE TransportFails(e)
  <2>1. Moves(e) /\ Functions' /\ Ends(View(e), View(e)')
    BY <1>3 DEF TransportFails, Finish, upVars, TypeInv, Functions, Moves, OthersUnchanged, View, Ends, ServerSame
  <2>2. QED
    BY <2>1 DEF Step
<1>4. CASE Timeout(e)
  <2>1. Moves(e) /\ Functions' /\ Ends(View(e), View(e)')
    BY <1>4 DEF Timeout, Finish, upVars, TypeInv, Functions, Moves, OthersUnchanged, View, Ends, ServerSame
  <2>2. QED
    BY <2>1 DEF Step
<1>5. QED
  BY <1>2, <1>3, <1>4

\* The adapter's steps, and the gateway's that answer at once.
LEMMA BodyFailsView ==
    ASSUME TypeInv, NEW e \in Exchanges, BodyFails(e), UNCHANGED upVars
    PROVE  Moves(e) /\ Functions' /\ LosesBody(View(e), View(e)')
BY DEF BodyFails, Respond, clientVars, upVars, TypeInv, Functions, Moves, OthersUnchanged, View,
       LosesBody, Accepted, ClientSame

\* The adapter's router answers a body that it cannot dispatch.
LEMMA RejectBodyView ==
    ASSUME TypeInv, NEW e \in Exchanges, RejectBody(e), UNCHANGED upVars
    PROVE  Moves(e) /\ Functions' /\ Rejects(View(e), View(e)')
<1>1. PICK error \in {ParseError, InvalidRequest} :
           Respond(e, HttpOutcome({ErrorResponse(NullId, error)}))
  BY Zenon DEF RejectBody
<1>2. HttpOutcome({ErrorResponse(NullId, error)}) = JsonResponse(ErrorResponse(NullId, error))
  BY DEF HttpOutcome
<1>3. Body(View(e)) = {} /\ front = "adapter" /\ server[e] = "arrived"
  BY ViewFacts DEF RejectBody
<1>4. UNCHANGED <<front, request, client, outcome, ran, mishaps, pending, source>>
  BY DEF RejectBody, clientVars, upVars
<1>5. QED
  BY <1>1, <1>2, <1>3, <1>4
     DEF Respond, TypeInv, Functions, Moves, OthersUnchanged, View, Rejects, Accepted, ClientSame

\* The gateway answers a body that is no request.
LEMMA NotARequestView ==
    ASSUME TypeInv, NEW e \in Exchanges, NotARequest(e)
    PROVE  Moves(e) /\ Functions' /\ Rejects(View(e), View(e)')
<1>1. Body(View(e)) = {}
  BY ViewFacts DEF NotARequest
<1>2. QED
  BY <1>1 DEF NotARequest, Admitted, Respond, clientVars, upVars, TypeInv, Functions, Moves,
              OthersUnchanged, View, Rejects, Accepted, ClientSame

\* The router calls a handler.
LEMMA BeginHandlerView ==
    ASSUME TypeInv, NEW e \in Exchanges, BeginHandler(e), UNCHANGED upVars
    PROVE  Moves(e) /\ Functions' /\ Begins(View(e), View(e)')
<1>1. Body(View(e)) # {}
  BY ViewFacts DEF BeginHandler
<1>2. QED
  BY <1>1 DEF BeginHandler, clientVars, upVars, TypeInv, Functions, Moves, OthersUnchanged, View,
              Begins, Accepted, ClientSame

\* What was read of a request is one.
LEMMA BodyFacts ==
    ASSUME NEW x, x.request \in RequestRecords, NEW req \in Body(x)
    PROVE  /\ req \in Requests /\ Body(x) = {req}
           /\ req.method.t = "method" /\ NotNull(req.params) = req.params
           /\ req.id = {} \/ \E i \in Ids : req.id = {i} /\ CallersId(x) = i
           /\ x.request.kind = "call" => \E i \in I64Ids : req.id = {i} /\ x.request.id = {i}
<1>1. x.request.body \in Optional(RequestObjects \cup {Garbage})
  BY DEF RequestRecords
<1>2. req \in Requests /\ Body(x) = {req} /\ req.method.t = "method" /\ NotNull(req.params) = req.params
  BY <1>1, ReadingFacts DEF Body
<1>3. req.id = {} \/ \E i \in Ids : req.id = {i}
  BY <1>2, OptionalFacts DEF Requests
<1>4. ASSUME NEW i \in Ids, req.id = {i} PROVE CallersId(x) = i
  <2>1. UNION {r.id : r \in Body(x)} = {i}
    BY <1>2, <1>4
  <2>2. QED
    BY <2>1 DEF CallersId
<1>5. x.request.kind = "call" => \E i \in I64Ids : req.id = {i} /\ x.request.id = {i}
  <2>1. x.request.id = {} \/ \E i \in I64Ids : x.request.id = {i}
    BY OptionalFacts DEF RequestRecords
  <2>2. x.request.kind = "call" => x.request.id # {} /\ req.id = x.request.id
    BY DEF RequestRecords, Body
  <2>3. QED
    BY <2>1, <2>2
<1>6. QED
  BY <1>2, <1>3, <1>4, <1>5

\* A request is run with a result of a run.
LEMMA RunView ==
    ASSUME TypeInv, NEW e \in Exchanges, NoSuchMethod(e) \/ HandlerReturns(e), UNCHANGED upVars
    PROVE  Moves(e) /\ Functions' /\ Runs(View(e), View(e)')
<1>1. Typed(View(e)) /\ Body(View(e)) = ReadBody(e)
  BY ViewFacts DEF TypeInv
<1>2. \A req \in Body(View(e)) : req \in Requests
  BY <1>1, BodyFacts DEF Typed
<1>3. PICK req \in Body(View(e)), r \in Results :
           /\ ran' = [ran EXCEPT ![e] = Append(@, r)]
           /\ Respond(e, HttpOutcome(RouterResponse(req, r)))
  <2>1. CASE NoSuchMethod(e)
    BY <1>1, <1>2, <2>1, RunFacts DEF NoSuchMethod
  <2>2. CASE HandlerReturns(e)
    BY <1>1, <1>2, <2>2, RunFacts DEF HandlerReturns
  <2>3. QED
    BY <2>1, <2>2
<1>4. /\ UNCHANGED <<front, request, client, outcome, mishaps, pending, source>>
      /\ front = "adapter" /\ server[e] \in {"arrived", "running"}
  BY <1>1 DEF NoSuchMethod, HandlerReturns, clientVars, upVars, Typed, View
<1>5. Moves(e) /\ Functions'
  BY <1>3, <1>4 DEF Respond, TypeInv, Functions, Moves, OthersUnchanged, View
<1>6. QED
  BY <1>3, <1>4, <1>5 DEF Respond, TypeInv, Functions, View, Runs, Accepted, ClientSame

\* The gateway refuses a request without its token.
LEMMA UnauthorizedView ==
    ASSUME TypeInv, NEW e \in Exchanges, Unauthorized(e)
    PROVE  Moves(e) /\ Functions' /\ Refuses(View(e), View(e)')
BY DEF Unauthorized, Respond, clientVars, upVars, TypeInv, Functions, Moves, OthersUnchanged, View,
       Refuses, ClientSame

\* proxy_one for a notification: it is written upstream and answered with 204.
LEMMA ProxyNotificationView ==
    ASSUME TypeInv, NEW e \in Exchanges, ProxyNotification(e)
    PROVE  Moves(e) /\ Functions' /\ Notes(View(e), View(e)')
<1>1. \E req \in Body(View(e)) : IsNotification(req)
  BY ViewFacts DEF ProxyNotification
<1>2. QED
  BY <1>1 DEF ProxyNotification, Admitted, Respond, clientVars, TypeInv, Functions, Moves,
              OthersUnchanged, View, Notes, Accepted, ClientSame

\* proxy_one for a call: it takes the gateway's next id and waits.
LEMMA ProxyCallView ==
    ASSUME TypeInv, NEW e \in Exchanges, ProxyCall(e)
    PROVE  /\ Moves(e) /\ Functions' /\ Forwards(View(e), View(e)')
           /\ View(e)'.pending = {NextId(gatewayId)}
<1>1. HasCall(View(e)) /\ pending' = [pending EXCEPT ![e] = {NextId(gatewayId)}]
  BY ViewFacts DEF ProxyCall, HasCall
<1>2. NextId(gatewayId) \in I64Ids
  BY NextIdFacts DEF TypeInv
<1>3. QED
  BY <1>1, <1>2 DEF ProxyCall, Admitted, clientVars, TypeInv, Functions, Moves,
              OthersUnchanged, View, Forwards, Accepted, ClientSame

\* proxy_one when the upstream fails or is too slow: an internal error.
LEMMA FailsUpstreamView ==
    ASSUME TypeInv, NEW e \in Exchanges, ProxyFails(e) \/ GiveUp(e)
    PROVE  Moves(e) /\ Functions' /\ FailsUpstream(View(e), View(e)')
<1>1. /\ Body(View(e)) = ReadBody(e) /\ CallersId(View(e)) = OriginalId(e)
      /\ Typed(View(e))
  BY ViewFacts DEF TypeInv
<1>2. /\ server[e] = "proxied" => front = "gateway"
      /\ server[e] = "proxied" => HasCall(View(e))
      /\ pending[e] # {} => server[e] = "proxied"
  BY <1>1 DEF Typed, View
<1>3. CASE ProxyFails(e)
  <2>1. HasCall(View(e))
    BY <1>1, <1>3 DEF ProxyFails, HasCall
  <2>2. QED
    BY <1>1, <1>2, <1>3, <2>1 DEF ProxyFails, Admitted, RespondInternalError, Respond, clientVars, TypeInv,
                  Functions, Moves, OthersUnchanged, View, FailsUpstream, Accepted, ClientSame
<1>4. CASE GiveUp(e)
  BY <1>1, <1>2, <1>4 DEF GiveUp, RespondInternalError, Respond, clientVars, TypeInv,
                Functions, Moves, OthersUnchanged, View, FailsUpstream, Accepted, ClientSame
<1>5. QED
  BY <1>3, <1>4

\* The client has gone: the server's future is dropped, and what is pending with it.
LEMMA AbandonView ==
    ASSUME TypeInv, NEW e \in Exchanges, AbandonProxied(e)
    PROVE  Moves(e) /\ Functions' /\ Abandons(View(e), View(e)')
<1>1. /\ client[e] = "done" /\ server[e] \notin {"none", "replied", "gone"}
      /\ server' = [server EXCEPT ![e] = "gone"] /\ pending' = [pending EXCEPT ![e] = {}]
      /\ UNCHANGED <<front, request, client, outcome, reply, ran, mishaps, source>>
  BY DEF AbandonProxied, Abandon, clientVars
<1>2. server[e] \in {"arrived", "running", "proxied"}
  BY <1>1 DEF TypeInv, Typed, View
<1>3. Moves(e)
  BY <1>1 DEF TypeInv, Functions, Moves, OthersUnchanged, View
<1>4. Functions'
  BY <1>1 DEF TypeInv, Functions
<1>5. Abandons(View(e), View(e)')
  BY <1>1, <1>2 DEF TypeInv, Functions, View, Abandons, ClientSame
<1>6. QED
  BY <1>3, <1>4, <1>5

\* The reader hands a reply to one of those who wait for its id, or to nobody.
LEMMA DeliverView ==
    ASSUME TypeInv, Deliver
    PROVE  /\ fromUp # <<>> /\ fromUp' = Tail(fromUp) /\ Functions'
           /\ \/ UNCHANGED <<front, request, client, server, reply, outcome, ran, mishaps, pending, source>>
              \/ \E e \in Exchanges : Moves(e) /\ Delivers(View(e), View(e)', Head(fromUp))
<1> DEFINE f == Head(fromUp)
           waiters == {e \in Exchanges : pending[e] # {} /\ pending[e] = ParseId(f.body)}
<1>1. /\ fromUp # <<>> /\ fromUp' = Tail(fromUp)
      /\ UNCHANGED <<front, request, client, outcome, ran, mishaps>>
  BY DEF Deliver, clientVars
<1>2. \/ UNCHANGED <<server, reply, pending, source>>
      \/ \E e \in waiters :
            /\ pending' = [pending EXCEPT ![e] = {}]
            /\ source' = [source EXCEPT ![e] = f.for]
            /\ Respond(e, HttpReply(200, {Restored(e, f.body)}))
  BY DEF Deliver
<1>3. CASE UNCHANGED <<server, reply, pending, source>>
  BY <1>1, <1>3 DEF TypeInv, Functions
<1>4. ASSUME NEW e \in waiters,
             pending' = [pending EXCEPT ![e] = {}], source' = [source EXCEPT ![e] = f.for],
             Respond(e, HttpReply(200, {Restored(e, f.body)}))
      PROVE  Functions' /\ Moves(e) /\ Delivers(View(e), View(e)', f)
  <2>1. /\ CallersId(View(e)) = OriginalId(e) /\ Typed(View(e))
    BY <1>4, ViewFacts DEF TypeInv
  <2>2. Restored(e, f.body) = Relayed(CallersId(View(e)), f.body)
    BY <2>1 DEF Restored, Relayed
  <2>3. server[e] = "proxied" /\ pending[e] = ParseId(f.body)
    BY <1>4, <2>1 DEF Typed, View
  <2> HIDE DEF f
  <2>4. QED
    BY <1>1, <1>4, <2>2, <2>3
       DEF Respond, TypeInv, Functions, Moves, OthersUnchanged, View, Delivers, ClientSame
<1>5. QED
  BY <1>1, <1>2, <1>3, <1>4

\* The upstream runs the first request it was sent, and replies to a call.
LEMMA UpstreamServesView ==
    ASSUME TypeInv, UpstreamServes
    PROVE  /\ toUp # <<>> /\ toUp' = Tail(toUp) /\ Head(toUp) \in RequestFrames /\ Functions'
           /\ \E e \in Exchanges, req \in ReadRequest(Head(toUp).body), r \in Results :
                 /\ e = Head(toUp).for /\ Moves(e) /\ RunsUpstream(View(e), View(e)', r)
                 /\ IF IsNotification(req) THEN fromUp' = fromUp
                    ELSE \E i \in req.id : fromUp' = Append(fromUp, Frame(WriteResponse(ResponseOf(i, r)), e))
<1> DEFINE f == Head(toUp)
<1>1. /\ toUp # <<>> /\ toUp' = Tail(toUp)
      /\ UNCHANGED <<front, request, client, outcome, server, reply, mishaps, pending, source>>
  BY DEF UpstreamServes, clientVars
<1>2. PICK req \in ReadRequest(f.body) :
         \E r \in IF req.method = Known THEN HandlerResults(req) ELSE {Failure(MethodNotFound)} :
            /\ ran' = [ran EXCEPT ![f.for] = Append(@, r)]
            /\ fromUp' = fromUp \o
                  (IF IsNotification(req) THEN <<>>
                   ELSE <<Frame(WriteResponse(CHOOSE x \in RouterResponse(req, r) : TRUE), f.for)>>)
  BY DEF UpstreamServes
<1>3. f \in RequestFrames /\ f.for \in Exchanges
  <2>1. \A S : \A s \in Seq(S) : s # <<>> => Head(s) \in S
    OBVIOUS
  <2>2. f \in RequestFrames
    BY <1>1, <2>1 DEF TypeInv
  <2>3. QED
    BY <2>2 DEF RequestFrames
<1>4. req \in Requests
  BY <1>2, <1>3, ReadRequestFacts DEF RequestFrames
<1>5. PICK r \in Results :
         /\ ran' = [ran EXCEPT ![f.for] = Append(@, r)]
         /\ fromUp' = fromUp \o
               (IF IsNotification(req) THEN <<>>
                ELSE <<Frame(WriteResponse(CHOOSE x \in RouterResponse(req, r) : TRUE), f.for)>>)
  <2>1. HandlerResults(req) \subseteq Results /\ Failure(MethodNotFound) \in Results
    BY <1>4, RunFacts
  <2>2. QED
    BY <1>2, <2>1
<1>6. IF IsNotification(req) THEN fromUp' = fromUp
      ELSE \E i \in req.id : fromUp' = Append(fromUp, Frame(WriteResponse(ResponseOf(i, r)), f.for))
  <2>1. CASE IsNotification(req)
    BY <1>5, <2>1 DEF TypeInv
  <2>2. CASE ~IsNotification(req)
    <3>1. PICK i \in Ids : req.id = {i}
      BY <1>4, <2>2, OptionalFacts DEF IsNotification, Requests
    <3>2. (CHOOSE x \in RouterResponse(req, r) : TRUE) = ResponseOf(i, r)
      <4>1. RouterResponse(req, r) = {ResponseOf(i, r)}
        BY <1>4, <3>1, RunFacts
      <4>2. QED
        BY <4>1
    <3> DEFINE g == Frame(WriteResponse(ResponseOf(i, r)), f.for)
    <3>3. fromUp' = fromUp \o <<g>>
      BY <1>5, <2>2, <3>2
    <3> HIDE DEF g
    <3>4. fromUp' = Append(fromUp, g)
      BY <3>3 DEF TypeInv
    <3>5. QED
      BY <2>2, <3>1, <3>4 DEF g
  <2>3. QED
    BY <2>1, <2>2
<1> HIDE DEF f
<1>7. Functions'
  BY <1>1, <1>3, <1>5 DEF TypeInv, Functions
<1>8. PICK e \in Exchanges : e = f.for
  BY <1>3
<1>9. Moves(e)
  BY <1>1, <1>3, <1>5, <1>8 DEF TypeInv, Functions, Moves, OthersUnchanged, View
<1>10. ran'[e] = Append(ran[e], r)
  BY <1>5, <1>8 DEF TypeInv, Functions
<1>11. RunsUpstream(View(e), View(e)', r)
  BY <1>1, <1>10 DEF View, RunsUpstream, ClientSame
<1>12. QED
  BY <1>1, <1>2, <1>3, <1>5, <1>6, <1>7, <1>8, <1>9, <1>11 DEF f

\* The steps of an exchange keep its types.
LEMMA StepTyped ==
    ASSUME NEW x, NEW y, Typed(x), Step(x, y), y.front = x.front
    PROVE  Typed(y)
<1>1. CASE FailsToSend(x, y)
  BY <1>1 DEF FailsToSend, ServerSame, Typed, Body, HasCall
<1>2. CASE Sends(x, y)
  BY <1>2 DEF Sends, Typed, Body, HasCall
<1>3. CASE Ends(x, y)
  BY <1>3 DEF Ends, ServerSame, Typed, Body, HasCall
<1>4. CASE LosesBody(x, y)
  BY <1>4 DEF LosesBody, Accepted, ClientSame, Typed, Body, HasCall
<1>5. CASE Rejects(x, y)
  BY <1>5 DEF Rejects, Accepted, ClientSame, Typed, Body, HasCall
<1>6. CASE Begins(x, y)
  BY <1>6 DEF Begins, Accepted, ClientSame, Typed, Body, HasCall
<1>7. CASE Runs(x, y)
  BY <1>7 DEF Runs, Accepted, ClientSame, Typed, Body, HasCall
<1>8. CASE Refuses(x, y)
  BY <1>8 DEF Refuses, ClientSame, Typed, Body, HasCall
<1>9. CASE Notes(x, y)
  BY <1>9 DEF Notes, Accepted, ClientSame, Typed, Body, HasCall
<1>10. CASE Forwards(x, y)
  BY <1>10, OptionalFacts DEF Forwards, Accepted, ClientSame, Typed, Body, HasCall
<1>11. CASE FailsUpstream(x, y)
  BY <1>11, OptionalFacts DEF FailsUpstream, Accepted, ClientSame, Typed, Body, HasCall
<1>12. CASE Abandons(x, y)
  BY <1>12, OptionalFacts DEF Abandons, ClientSame, Typed, Body, HasCall
<1>13. QED
  BY <1>1, <1>2, <1>3, <1>4, <1>5, <1>6, <1>7, <1>8, <1>9, <1>10, <1>11, <1>12 DEF Step

\* So does the delivery of an upstream reply.
LEMMA DeliversTyped ==
    ASSUME NEW x, NEW y, NEW f, Typed(x), Delivers(x, y, f), y.front = x.front, f.for \in Exchanges
    PROVE  Typed(y)
BY OptionalFacts DEF Delivers, ClientSame, Typed, Body, HasCall

\* And the run of a handler upstream.
LEMMA RunsUpstreamTyped ==
    ASSUME NEW x, NEW y, NEW r \in Results, Typed(x), RunsUpstream(x, y, r), y.front = x.front
    PROVE  Typed(y)
BY DEF RunsUpstream, ClientSame, Typed, Body, HasCall

\* One exchange has moved, to a view of its types.
LEMMA OneMovesTyped ==
    ASSUME TypeInv, NEW e \in Exchanges, Moves(e), Typed(View(e)')
    PROVE  \A d \in Exchanges : Typed(View(d))'
<1>1. \A d \in Exchanges \ {e} : View(d)' = View(d) /\ Typed(View(d))
  BY DEF TypeInv, Moves, OthersUnchanged
<1>2. ASSUME NEW d \in Exchanges \ {e} PROVE Typed(View(d)')
  BY <1>1
<1>3. QED
  BY <1>2

\* What the gateway writes are frames.
LEMMA ProxyFrames ==
    ASSUME TypeInv, NEW e \in Exchanges, ProxyNotification(e) \/ ProxyCall(e)
    PROVE  toUp' \in Seq(RequestFrames)
<1>1. \A req \in ReadBody(e) : req \in Requests
  BY BodyFacts, ViewFacts DEF TypeInv, Typed
<1>2. \A req \in Requests : Frame(WriteRequest(req), e) \in RequestFrames
  BY WrittenRequest DEF Frame, RequestFrames
<1>3. \A req \in Requests : SetId(req, {NextId(gatewayId)}) \in Requests
  <2>1. NextId(gatewayId) \in Ids
    BY NextIdFacts, CodecConstants DEF TypeInv
  <2>2. {NextId(gatewayId)} \in Optional(Ids)
    BY <2>1, OptionalFacts
  <2>3. QED
    BY <2>2 DEF SetId, Requests
<1>4. CASE toUp' = toUp
  BY <1>4 DEF TypeInv
<1>5. ASSUME NEW req \in Requests, toUp' = Append(toUp, Frame(WriteRequest(req), e))
      PROVE  toUp' \in Seq(RequestFrames)
  BY <1>2, <1>5 DEF TypeInv
<1>6. CASE ProxyNotification(e)
  BY <1>1, <1>4, <1>5, <1>6 DEF ProxyNotification
<1>7. CASE ProxyCall(e)
  BY <1>1, <1>3, <1>5, <1>7 DEF ProxyCall
<1>8. QED
  BY <1>6, <1>7

\* Every step keeps the types.
LEMMA TypeStep ==
    ASSUME TypeInv, [Next]_vars
    PROVE  TypeInv'
<1> DEFINE Rest1 == counter' \in [Clients -> 0..MaxU64] /\ gatewayId' \in 0..MaxU64
                    /\ toUp' \in Seq(RequestFrames) /\ fromUp' \in Seq(ReplyFrames)
<1>1. ASSUME NEW e \in Exchanges, Moves(e), Functions', Step(View(e), View(e)'), Rest1
      PROVE  TypeInv'
  <2>1. Typed(View(e)) /\ View(e)'.front = View(e).front
    BY <1>1 DEF TypeInv, Moves
  <2>2. Typed(View(e)')
    BY <1>1, <2>1, StepTyped
  <2>3. \A d \in Exchanges : Typed(View(d))'
    BY <1>1, <2>2, OneMovesTyped
  <2>4. QED
    BY <1>1, <2>3 DEF TypeInv
<1>2. ASSUME NEW e \in Exchanges, ClientStep(e) \/ AdapterStep(e), UNCHANGED upVars
      PROVE  TypeInv'
  <2>1. gatewayId' \in 0..MaxU64 /\ toUp' \in Seq(RequestFrames) /\ fromUp' \in Seq(ReplyFrames)
    BY <1>2 DEF upVars, TypeInv
  <2>2. CASE \E c \in Clients : StartCall(e, c)
    BY <1>1, <1>2, <2>1, <2>2, StartCallView
  <2>3. ASSUME UNCHANGED counter PROVE Rest1
    BY <2>1, <2>3 DEF TypeInv
  <2>4. CASE StartNotify(e)
    BY <1>1, <1>2, <2>3, <2>4, StartNotifyView DEF StartNotify
  <2>5. CASE StartRaw(e)
    BY <1>1, <1>2, <2>3, <2>5, StartRawView DEF StartRaw
  <2>6. CASE Receive(e) \/ TransportFails(e) \/ Timeout(e)
    <3>1. UNCHANGED counter
      BY <2>6 DEF Receive, TransportFails, Timeout
    <3>2. QED
      BY <1>1, <1>2, <2>3, <2>6, <3>1, EndView
  <2>7. CASE AdapterStep(e)
    <3>1. UNCHANGED counter
      BY <2>7 DEF AdapterStep, BodyFails, RejectBody, NoSuchMethod, BeginHandler, HandlerReturns, clientVars
    <3>2. Moves(e) /\ Functions' /\ Step(View(e), View(e)')
      BY <1>2, <2>7, BodyFailsView, RejectBodyView, BeginHandlerView, RunView DEF AdapterStep, Step
    <3>3. QED
      BY <1>1, <2>3, <3>1, <3>2
  <2>8. QED
    BY <1>2, <2>2, <2>4, <2>5, <2>6, <2>7 DEF ClientStep
<1>3. ASSUME NEW e \in Exchanges, GatewayStep(e) \/ AbandonProxied(e)
      PROVE  TypeInv'
  <2>1. CASE Unauthorized(e) \/ NotARequest(e)
    <3>1. Rest1
      BY <2>1 DEF Unauthorized, NotARequest, clientVars, upVars, TypeInv
    <3>2. QED
      BY <1>1, <2>1, <3>1, UnauthorizedView, NotARequestView DEF Step
  <2>2. CASE ProxyNotification(e)
    <3>1. Rest1
      BY <2>2, ProxyFrames DEF ProxyNotification, clientVars, TypeInv
    <3>2. QED
      BY <1>1, <2>2, <3>1, ProxyNotificationView DEF Step
  <2>3. CASE ProxyCall(e)
    <3>1. Rest1
      BY <2>3, ProxyFrames, NextIdFacts DEF ProxyCall, clientVars, TypeInv
    <3>2. QED
      BY <1>1, <2>3, <3>1, ProxyCallView DEF Step
  <2>4. CASE ProxyFails(e) \/ GiveUp(e)
    <3>1. Rest1
      BY <2>4, NextIdFacts DEF ProxyFails, GiveUp, clientVars, TypeInv
    <3>2. QED
      BY <1>1, <2>4, <3>1, FailsUpstreamView DEF Step
  <2>5. CASE AbandonProxied(e)
    <3>1. Rest1
      BY <2>5 DEF AbandonProxied, Abandon, clientVars, TypeInv
    <3>2. QED
      BY <1>1, <2>5, <3>1, AbandonView DEF Step
  <2>6. QED
    BY <1>3, <2>1, <2>2, <2>3, <2>4, <2>5 DEF GatewayStep, Proxy, UpstreamClosed, UpstreamTimeout
<1>4. CASE Deliver
  <2>1. Rest1
    BY <1>4 DEF Deliver, clientVars, TypeInv
  <2>2. Head(fromUp) \in ReplyFrames
    <3>1. \A S : \A s \in Seq(S) : s # <<>> => Head(s) \in S
      OBVIOUS
    <3>2. QED
      BY <1>4, <3>1, DeliverView DEF TypeInv
  <2>3. Head(fromUp).for \in Exchanges
    BY <2>2 DEF ReplyFrames
  <2>4. CASE UNCHANGED <<front, request, client, server, reply, outcome, ran, mishaps, pending, source>>
    <3>1. \A d \in Exchanges : View(d)' = View(d)
      BY <2>4 DEF View
    <3>2. \A d \in Exchanges : Typed(View(d)')
      BY <3>1 DEF TypeInv
    <3>3. QED
      BY <1>4, <2>1, <3>2, DeliverView DEF TypeInv
  <2>5. ASSUME NEW e \in Exchanges, Moves(e), Delivers(View(e), View(e)', Head(fromUp))
        PROVE  TypeInv'
    <3>1. Typed(View(e)) /\ View(e)'.front = View(e).front
      BY <2>5 DEF TypeInv, Moves
    <3>2. Typed(View(e)')
      BY <2>3, <2>5, <3>1, DeliversTyped
    <3>3. QED
      BY <1>4, <2>1, <2>5, <3>2, DeliverView, OneMovesTyped DEF TypeInv
  <2>6. QED
    BY <1>4, <2>4, <2>5, DeliverView
<1>5. CASE UpstreamServes
  <2>1. counter' \in [Clients -> 0..MaxU64] /\ gatewayId' \in 0..MaxU64
    BY <1>5 DEF UpstreamServes, clientVars, TypeInv
  <2>2. PICK e \in Exchanges, req \in ReadRequest(Head(toUp).body), r \in Results :
           /\ e = Head(toUp).for /\ Moves(e) /\ RunsUpstream(View(e), View(e)', r)
           /\ IF IsNotification(req) THEN fromUp' = fromUp
              ELSE \E i \in req.id : fromUp' = Append(fromUp, Frame(WriteResponse(ResponseOf(i, r)), e))
    BY <1>5, UpstreamServesView
  <2>3. Typed(View(e)) /\ View(e)'.front = View(e).front
    BY <2>2 DEF TypeInv, Moves
  <2>4. Typed(View(e)')
    BY <2>2, <2>3, RunsUpstreamTyped
  <2>5. toUp' \in Seq(RequestFrames) /\ Functions'
    <3>1. \A S : \A s \in Seq(S) : s # <<>> => Tail(s) \in Seq(S)
      OBVIOUS
    <3>2. QED
      BY <1>5, <3>1, UpstreamServesView DEF TypeInv
  <2>6. fromUp' \in Seq(ReplyFrames)
    <3>1. req \in Requests
      BY <1>5, UpstreamServesView, ReadRequestFacts DEF RequestFrames
    <3>2. \A i \in req.id : Frame(WriteResponse(ResponseOf(i, r)), e) \in ReplyFrames
      <4>1. \A i \in req.id : i \in Ids
        BY <3>1 DEF Requests, Optional
      <4>2. QED
        BY <4>1, ResponseOfFacts, WrittenResponse DEF Frame, ReplyFrames
    <3>3. CASE fromUp' = fromUp
      BY <3>3 DEF TypeInv
    <3>4. ASSUME NEW g \in ReplyFrames, fromUp' = Append(fromUp, g) PROVE fromUp' \in Seq(ReplyFrames)
      BY <3>4 DEF TypeInv
    <3>5. QED
      BY <2>2, <3>2, <3>3, <3>4
  <2>7. QED
    BY <2>1, <2>2, <2>4, <2>5, <2>6, OneMovesTyped DEF TypeInv
<1>6. CASE UpstreamStops \/ Rest \/ UNCHANGED vars
  <2>1. UNCHANGED <<httpVars, gatewayId, pending, fromUp, source>>
    BY <1>6 DEF UpstreamStops, Rest, vars, upVars
  <2>2. \A d \in Exchanges : View(d)' = View(d)
    BY <2>1 DEF View, httpVars, clientVars
  <2>3. \A d \in Exchanges : Typed(View(d)')
    BY <2>2 DEF TypeInv
  <2>4. Functions'
    BY <2>1 DEF TypeInv, Functions, httpVars, clientVars
  <2>5. toUp' \in Seq(RequestFrames)
    <3>1. toUp' = toUp \/ toUp' = <<>>
      BY <1>6 DEF UpstreamStops, Rest, vars, upVars
    <3>2. \A S : <<>> \in Seq(S)
      OBVIOUS
    <3>3. CASE toUp' = <<>>
      BY <3>2, <3>3
    <3>4. CASE toUp' = toUp
      BY <3>4 DEF TypeInv
    <3>5. QED
      BY <3>1, <3>3, <3>4
  <2>6. QED
    BY <2>1, <2>3, <2>4, <2>5 DEF TypeInv, httpVars, clientVars
<1>7. QED
  BY <1>2, <1>3, <1>4, <1>5, <1>6 DEF Next

\* The types hold at the start.
LEMMA TypeInit == Init => TypeInv
<1> SUFFICES ASSUME Init PROVE TypeInv
  OBVIOUS
<1>1. Functions
  BY DEF Init, HttpInit, Functions
<1>2. counter \in [Clients -> 0..MaxU64] /\ gatewayId \in 0..MaxU64
  BY HttpAssumption, GatewayAssumption DEF Init, HttpInit
<1>3. toUp \in Seq(RequestFrames) /\ fromUp \in Seq(ReplyFrames)
  BY DEF Init
<1>4. NoRequest \in RequestRecords
  BY OptionalFacts DEF NoRequest, RequestRecords
<1>5. ASSUME NEW e \in Exchanges PROVE Typed(View(e))
  <2>1. /\ request[e] = NoRequest /\ client[e] = "idle" /\ server[e] = "none"
        /\ ran[e] = <<>> /\ mishaps[e] = {} /\ pending[e] = {} /\ source[e] = NoExchange
        /\ front \in {"adapter", "gateway"}
    BY HttpAssumption DEF Init, HttpInit
  <2>2. {} \in Optional(I64Ids) /\ <<>> \in Seq(Results)
    BY OptionalFacts
  <2>3. QED
    BY <1>4, <2>1, <2>2 DEF View, Typed
<1>6. QED
  BY <1>1, <1>2, <1>3, <1>5 DEF TypeInv

\* The types that hold are those of TypeOK.
LEMMA TypesOfVariables == TypeInv => TypeOK
<1> SUFFICES ASSUME TypeInv PROVE TypeOK
  OBVIOUS
<1>1. ASSUME NEW e \in Exchanges
      PROVE  /\ client[e] \in {"idle", "waiting", "done"}
             /\ server[e] \in {"none", "arrived", "running", "proxied", "replied", "gone"}
             /\ source[e] \in Exchanges \cup {NoExchange}
             /\ pending[e] # {} <=> server[e] = "proxied"
  <2>1. Typed(View(e))
    BY DEF TypeInv
  <2>2. QED
    BY <2>1 DEF Typed, View
<1>2. /\ client = [e \in Exchanges |-> client[e]] /\ server = [e \in Exchanges |-> server[e]]
      /\ source = [e \in Exchanges |-> source[e]]
  BY DEF TypeInv, Functions
<1>3. /\ client \in [Exchanges -> {"idle", "waiting", "done"}]
      /\ server \in [Exchanges -> {"none", "arrived", "running", "proxied", "replied", "gone"}]
      /\ source \in [Exchanges -> Exchanges \cup {NoExchange}]
  BY <1>1, <1>2
<1>4. QED
  BY <1>1, <1>3 DEF TypeInv, TypeOK

\* The type invariant holds with what the futures of gateway_handle and of the
\* adapters have fixed by the place they are at.
THEOREM TypesHold == Spec => []TypeInv
<1>1. Init => TypeInv
  BY TypeInit
<1>2. TypeInv /\ [Next]_vars => TypeInv'
  BY TypeStep
<1>3. QED
  BY <1>1, <1>2, PTL DEF Spec

\* The values stay in their ranges, and a call waits upstream if and only if its
\* future is in proxy_one.
THEOREM TypeCorrect == Spec => []TypeOK
BY TypesHold, TypesOfVariables, PTL

-----------------------------------------------------------------------------
(* A reply is one to its request.                                           *)

\* Not authorized; not read; a notification; a response with the caller's id.
Refused(x) == x.front = "gateway" /\ ~x.request.authorized /\ x.reply = HttpReply(401, {Garbage})

Unread(x) == /\ "body" \in x.mishaps \/ Body(x) = {}
             /\ \E resp \in Responses : resp.id = NullId /\ x.reply = JsonResponse(resp)

Noted(x) == /\ "body" \notin x.mishaps /\ (\E req \in Body(x) : IsNotification(req))
            /\ x.reply = HttpReply(204, {})

Matched(x, resp) == /\ "body" \notin x.mishaps /\ HasCall(x)
                    /\ resp.id = CallersId(x) /\ x.reply = JsonResponse(resp)

Fits(x) == /\ x.server # "replied" => x.reply = NoReply /\ "body" \notin x.mishaps
           /\ x.server = "replied" =>
                 Refused(x) \/ Unread(x) \/ Noted(x) \/ \E resp \in Responses : Matched(x, resp)

\* What says whether a reply fits is the same.
LEMMA SameFits ==
    ASSUME NEW x, NEW y, y.front = x.front, y.request = x.request, y.reply = x.reply,
           y.mishaps \ {"connection", "upstream"} = x.mishaps \ {"connection", "upstream"}
    PROVE  /\ Body(y) = Body(x) /\ CallersId(y) = CallersId(x)
           /\ HasCall(y) <=> HasCall(x)
           /\ Refused(y) <=> Refused(x)
           /\ Unread(y) <=> Unread(x)
           /\ Noted(y) <=> Noted(x)
           /\ \A resp : Matched(y, resp) <=> Matched(x, resp)
           /\ "body" \in y.mishaps <=> "body" \in x.mishaps
<1>1. Body(y) = Body(x)
  BY DEF Body
<1>2. "body" \in y.mishaps <=> "body" \in x.mishaps
  OBVIOUS
<1>3. CallersId(y) = CallersId(x) /\ (HasCall(y) <=> HasCall(x))
  BY <1>1 DEF CallersId, HasCall
<1>4. Refused(y) <=> Refused(x)
  BY DEF Refused
<1>5. Unread(y) <=> Unread(x)
  BY <1>1, <1>2 DEF Unread
<1>6. Noted(y) <=> Noted(x)
  BY <1>1, <1>2 DEF Noted
<1>7. \A resp : Matched(y, resp) <=> Matched(x, resp)
  BY <1>2, <1>3 DEF Matched
<1>8. QED
  BY <1>1, <1>2, <1>3, <1>4, <1>5, <1>6, <1>7

\* The responses that say no more than what failed.
LEMMA ErrorResponses ==
    /\ \A id \in Ids, error \in ErrorObjects :
          ErrorResponse(id, error) \in Responses /\ ErrorResponse(id, error).id = id
    /\ ParseErrorBody \in Responses /\ ParseErrorBody.id = NullId
<1>1. \A id \in Ids, error \in ErrorObjects :
         ErrorResponse(id, error) \in Responses /\ ErrorResponse(id, error).id = id
  BY OptionalFacts DEF ErrorResponse, Response, Responses
<1>2. QED
  BY <1>1, CodecConstants DEF ParseErrorBody

\* The id of a call.
LEMMA CallsId ==
    ASSUME NEW x, x.request \in RequestRecords, HasCall(x)
    PROVE  CallersId(x) \in Ids
<1>1. PICK req \in Body(x) : ~IsNotification(req)
  BY DEF HasCall
<1>2. QED
  BY <1>1, BodyFacts DEF IsNotification

\* A run is answered with the response that is made of its result.
LEMMA RunAnswered ==
    ASSUME NEW x, x.request \in RequestRecords, NEW req \in Body(x), NEW r \in Results
    PROVE  \/ IsNotification(req) /\ HttpOutcome(RouterResponse(req, r)) = HttpReply(204, {})
           \/ /\ ~IsNotification(req) /\ CallersId(x) \in Ids
              /\ HttpOutcome(RouterResponse(req, r)) = JsonResponse(ResponseOf(CallersId(x), r))
<1>1. req \in Requests
  BY BodyFacts
<1>2. CASE req.id = {}
  BY <1>1, <1>2, RunFacts DEF IsNotification, HttpOutcome
<1>3. CASE \E i \in Ids : req.id = {i} /\ CallersId(x) = i
  <2>1. req.id = {CallersId(x)} /\ CallersId(x) \in Ids
    BY <1>3
  <2>2. RouterResponse(req, r) = {ResponseOf(CallersId(x), r)}
    BY <1>1, <2>1, RunFacts
  <2>3. \A o : HttpOutcome({o}) = JsonResponse(o)
    BY DEF HttpOutcome
  <2>4. QED
    BY <2>1, <2>2, <2>3 DEF IsNotification
<1>4. QED
  BY <1>2, <1>3, BodyFacts

\* A step replies with what fits the request.
LEMMA StepFits ==
    ASSUME NEW x, NEW y, Typed(x), Typed(y), Fits(x), Step(x, y), y.front = x.front
    PROVE  Fits(y)
<1>1. CASE FailsToSend(x, y)
  BY <1>1, SameFits DEF FailsToSend, ServerSame, Fits
<1>2. CASE Sends(x, y)
  BY <1>2 DEF Sends, Fits, Typed
<1>3. CASE Ends(x, y)
  <2>1. /\ y.server = x.server /\ y.reply = x.reply /\ y.request = x.request
        /\ y.mishaps \ {"connection", "upstream"} = x.mishaps \ {"connection", "upstream"}
    BY <1>3 DEF Ends, ServerSame
  <2>2. QED
    BY <2>1, SameFits DEF Fits
<1>4. CASE LosesBody(x, y)
  BY <1>4, ErrorResponses DEF LosesBody, Fits, Unread
<1>5. CASE Rejects(x, y)
  <2>1. PICK error \in {ParseError, InvalidRequest} : y.reply = JsonResponse(ErrorResponse(NullId, error))
    BY <1>5 DEF Rejects
  <2>2. error \in ErrorObjects /\ NullId \in Ids
    BY CodecConstants
  <2>3. Body(y) = {} /\ y.server = "replied"
    BY <1>5 DEF Rejects, ClientSame, Body
  <2>4. QED
    BY <2>1, <2>2, <2>3, ErrorResponses DEF Fits, Unread
<1>6. CASE Begins(x, y)
  BY <1>6 DEF Begins, Accepted, Fits
<1>7. CASE Runs(x, y)
  <2>1. PICK req \in Body(x), r \in Results : y.reply = HttpOutcome(RouterResponse(req, r))
    BY <1>7 DEF Runs
  <2>2. /\ Body(y) = Body(x) /\ CallersId(y) = CallersId(x) /\ y.server = "replied"
        /\ "body" \notin y.mishaps
    BY <1>7 DEF Runs, Accepted, ClientSame, Body, CallersId, Fits
  <2>3. CASE IsNotification(req) /\ y.reply = HttpReply(204, {})
    BY <2>1, <2>2, <2>3 DEF Fits, Noted
  <2>4. CASE /\ ~IsNotification(req) /\ CallersId(x) \in Ids
             /\ y.reply = JsonResponse(ResponseOf(CallersId(x), r))
    BY <2>1, <2>2, <2>4, ResponseOfFacts DEF Fits, Matched, HasCall
  <2>5. QED
    BY <2>1, <2>3, <2>4, RunAnswered DEF Typed
<1>8. CASE Refuses(x, y)
  BY <1>8 DEF Refuses, ClientSame, Fits, Refused
<1>9. CASE Notes(x, y)
  BY <1>9 DEF Notes, Accepted, ClientSame, Fits, Noted, Body
<1>10. CASE Forwards(x, y)
  BY <1>10 DEF Forwards, Accepted, Fits
<1>11. CASE FailsUpstream(x, y)
  <2>1. /\ Body(y) = Body(x) /\ CallersId(y) = CallersId(x) /\ HasCall(y)
        /\ "body" \notin y.mishaps /\ y.server = "replied"
        /\ y.reply = JsonResponse(ErrorResponse(CallersId(y), InternalError))
    BY <1>11 DEF FailsUpstream, Accepted, ClientSame, Body, CallersId, HasCall, Fits
  <2>2. CallersId(y) \in Ids
    BY <2>1, CallsId DEF Typed
  <2>3. QED
    BY <2>1, <2>2, ErrorResponses, CodecConstants DEF Fits, Matched
<1>12. CASE Abandons(x, y)
  BY <1>12 DEF Abandons, Fits
<1>13. QED
  BY <1>1, <1>2, <1>3, <1>4, <1>5, <1>6, <1>7, <1>8, <1>9, <1>10, <1>11, <1>12 DEF Step

\* So does the delivery of an upstream reply: the caller's id is put back.
LEMMA DeliversFits ==
    ASSUME NEW x, NEW y, NEW f \in ReplyFrames, Typed(x), Fits(x), Delivers(x, y, f)
    PROVE  Fits(y)
<1>1. /\ Body(y) = Body(x) /\ CallersId(y) = CallersId(x) /\ HasCall(y)
      /\ "body" \notin y.mishaps /\ y.server = "replied"
      /\ y.reply = HttpReply(200, {Relayed(CallersId(y), f.body)})
  BY DEF Delivers, ClientSame, Body, CallersId, HasCall, Fits, Typed
<1>2. CallersId(y) \in Ids
  BY <1>1, CallsId DEF Typed, Delivers, ClientSame
<1>3. PICK resp \in Responses : resp.id = CallersId(y) /\ Relayed(CallersId(y), f.body) = WriteResponse(resp)
  BY <1>2, RelayedFacts DEF ReplyFrames
<1>4. QED
  BY <1>1, <1>3 DEF Fits, Matched, JsonResponse

\* A run upstream replies nothing yet.
LEMMA RunsUpstreamFits ==
    ASSUME NEW x, NEW y, NEW r, Fits(x), RunsUpstream(x, y, r), y.front = x.front
    PROVE  Fits(y)
BY SameFits DEF RunsUpstream, ClientSame, Fits

Replies == \A e \in Exchanges : Fits(View(e))

\* Every step does one of these things to the exchanges.
LEMMA Views ==
    ASSUME TypeInv, [Next]_vars
    PROVE  \/ \A d \in Exchanges : View(d)' = View(d)
           \/ \E e \in Exchanges : Moves(e) /\ Step(View(e), View(e)')
           \/ \E e \in Exchanges : /\ fromUp # <<>> /\ Head(fromUp) \in ReplyFrames
                                   /\ Moves(e) /\ Delivers(View(e), View(e)', Head(fromUp))
           \/ UpstreamServes /\ \E e \in Exchanges, r \in Results :
                                   Moves(e) /\ RunsUpstream(View(e), View(e)', r)
<1>1. ASSUME NEW e \in Exchanges, ClientStep(e) \/ AdapterStep(e), UNCHANGED upVars
      PROVE  Moves(e) /\ Step(View(e), View(e)')
  <2>1. CASE ClientStep(e)
    BY <1>1, <2>1, StartCallView, StartNotifyView, StartRawView, EndView DEF ClientStep
  <2>2. CASE AdapterStep(e)
    BY <1>1, <2>2, BodyFailsView, RejectBodyView, BeginHandlerView, RunView DEF AdapterStep, Step
  <2>3. QED
    BY <1>1, <2>1, <2>2
<1>2. ASSUME NEW e \in Exchanges, GatewayStep(e) \/ AbandonProxied(e)
      PROVE  Moves(e) /\ Step(View(e), View(e)')
  BY <1>2, UnauthorizedView, NotARequestView, ProxyNotificationView, ProxyCallView,
     FailsUpstreamView, AbandonView
     DEF GatewayStep, Proxy, UpstreamClosed, UpstreamTimeout, Step
<1>3. CASE Deliver
  <2>1. Head(fromUp) \in ReplyFrames /\ fromUp # <<>>
    <3>1. \A S : \A s \in Seq(S) : s # <<>> => Head(s) \in S
      OBVIOUS
    <3>2. QED
      BY <1>3, <3>1, DeliverView DEF TypeInv
  <2>2. CASE UNCHANGED <<front, request, client, server, reply, outcome, ran, mishaps, pending, source>>
    BY <2>2 DEF View
  <2>3. QED
    BY <1>3, <2>1, <2>2, DeliverView
<1>4. CASE UpstreamServes
  BY <1>4, UpstreamServesView
<1>5. CASE UpstreamStops \/ Rest \/ UNCHANGED vars
  <2>1. UNCHANGED <<httpVars, pending, source>>
    BY <1>5 DEF UpstreamStops, Rest, vars, upVars
  <2>2. QED
    BY <2>1 DEF View, httpVars, clientVars
<1>6. QED
  BY <1>1, <1>2, <1>3, <1>4, <1>5 DEF Next

\* Every step keeps the replies fit.
LEMMA RepliesStep ==
    ASSUME TypeInv, TypeInv', Replies, [Next]_vars
    PROVE  Replies'
<1>1. ASSUME NEW e \in Exchanges, Moves(e), Fits(View(e)') PROVE Replies'
  <2>1. ASSUME NEW d \in Exchanges \ {e} PROVE Fits(View(d)')
    <3>1. View(d)' = View(d) /\ Fits(View(d))
      BY <1>1 DEF Moves, OthersUnchanged, Replies
    <3>2. QED
      BY <3>1
  <2>2. QED
    BY <1>1, <2>1 DEF Replies
<1>2. CASE \A d \in Exchanges : View(d)' = View(d)
  <2>1. ASSUME NEW d \in Exchanges PROVE Fits(View(d)')
    <3>1. View(d)' = View(d) /\ Fits(View(d))
      BY <1>2 DEF Replies
    <3>2. QED
      BY <3>1
  <2>2. QED
    BY <2>1 DEF Replies
<1>3. ASSUME NEW e \in Exchanges, Moves(e)
      PROVE  /\ Typed(View(e)) /\ Typed(View(e)') /\ Fits(View(e))
             /\ View(e)'.front = View(e).front
  <2>1. Typed(View(e)) /\ Typed(View(e))'
    BY DEF TypeInv
  <2>2. QED
    BY <1>3, <2>1 DEF Replies, Moves
<1>4. ASSUME NEW e \in Exchanges, Moves(e), Step(View(e), View(e)') PROVE Replies'
  <2>1. Fits(View(e)')
    BY <1>3, <1>4, StepFits
  <2>2. QED
    BY <1>1, <1>4, <2>1
<1>5. ASSUME NEW e \in Exchanges, Head(fromUp) \in ReplyFrames, Moves(e),
             Delivers(View(e), View(e)', Head(fromUp))
      PROVE  Replies'
  <2>1. Fits(View(e)')
    BY <1>3, <1>5, DeliversFits
  <2>2. QED
    BY <1>1, <1>5, <2>1
<1>6. ASSUME NEW e \in Exchanges, NEW r \in Results, Moves(e), RunsUpstream(View(e), View(e)', r)
      PROVE  Replies'
  <2>1. Fits(View(e)')
    BY <1>3, <1>6, RunsUpstreamFits
  <2>2. QED
    BY <1>1, <1>6, <2>1
<1>7. QED
  BY <1>2, <1>4, <1>5, <1>6, Views

\* At the start nothing has been replied.
LEMMA RepliesInit == Init => Replies
<1> SUFFICES ASSUME Init, NEW e \in Exchanges PROVE Fits(View(e))
  BY DEF Replies
<1>1. server[e] = "none" /\ reply[e] = NoReply /\ mishaps[e] = {}
  BY DEF Init, HttpInit
<1>2. QED
  BY <1>1 DEF Fits, View

\* A reply that fits has the id of the request.
LEMMA FitsTells ==
    ASSUME NEW x, Typed(x), Fits(x), x.reply.status \in 200..299
    PROVE  LET sent == UNION {o.id : o \in x.request.body}
           IN  IF Body(x) = {} \/ "body" \in x.mishaps
               THEN x.reply.status = 200 /\ \A o \in x.reply.body : o.id = {Null}
               ELSE /\ x.reply.status = 204 <=> sent = {}
                    /\ x.reply.body = {} <=> sent = {}
                    /\ \A o \in x.reply.body : o.id = {Echo(j) : j \in sent}
<1> DEFINE sent == UNION {o.id : o \in x.request.body}
<1>1. \A s, b : HttpReply(s, b).status = s /\ HttpReply(s, b).body = b
  BY DEF HttpReply
<1>2. \A resp : WriteResponse(resp).id = {WriteId(resp.id)}
  BY DEF WriteResponse
<1>3. ASSUME NEW req \in Body(x)
      PROVE  /\ Body(x) = {req} /\ (req.id = {} <=> sent = {})
             /\ {WriteId(i) : i \in req.id} = {Echo(j) : j \in sent}
  BY <1>3, ReadingFacts DEF Body, Typed, RequestRecords
<1> HIDE DEF sent
<1>4. CASE Refused(x)
  BY <1>1, <1>4 DEF Refused
<1>5. CASE Unread(x)
  <2>1. PICK resp \in Responses : resp.id = NullId /\ x.reply = HttpReply(200, {WriteResponse(resp)})
    BY <1>5 DEF Unread, JsonResponse
  <2>2. WriteId(NullId) = Null
    BY DEF WriteId, NullId, Id
  <2>3. QED
    BY <1>1, <1>2, <1>5, <2>1, <2>2 DEF Unread, sent
<1>6. CASE Noted(x)
  <2>1. PICK req \in Body(x) : req.id = {}
    BY <1>6 DEF Noted, IsNotification
  <2>2. sent = {} /\ Body(x) # {}
    BY <1>3, <2>1
  <2>3. x.reply.status = 204 /\ x.reply.body = {} /\ "body" \notin x.mishaps
    BY <1>1, <1>6 DEF Noted
  <2>4. QED
    BY <2>2, <2>3 DEF sent
<1>7. ASSUME NEW resp \in Responses, Matched(x, resp)
      PROVE  /\ Body(x) # {} /\ "body" \notin x.mishaps /\ x.reply.status = 200
             /\ sent # {} /\ x.reply.body # {}
             /\ \A o \in x.reply.body : o.id = {Echo(j) : j \in sent}
  <2>1. PICK req \in Body(x) : req.id # {}
    BY <1>7 DEF Matched, HasCall, IsNotification
  <2>2. PICK i \in Ids : req.id = {i} /\ CallersId(x) = i
    BY <2>1, BodyFacts DEF Typed
  <2>3. sent # {} /\ {WriteId(i)} = {Echo(j) : j \in sent}
    BY <1>3, <2>1, <2>2
  <2>4. x.reply = HttpReply(200, {WriteResponse(resp)}) /\ resp.id = i
    BY <1>7, <2>2 DEF Matched, JsonResponse
  <2>5. QED
    BY <1>1, <1>2, <1>7, <2>1, <2>3, <2>4 DEF Matched
<1>8. x.server = "replied"
  BY <1>1 DEF Fits, NoReply
<1>9. QED
  BY <1>4, <1>5, <1>6, <1>7, <1>8 DEF Fits, sent

\* A reply that fits is one to its request.
LEMMA RepliesMatch == TypeInv /\ Replies => RepliesMatchRequests
<1> SUFFICES ASSUME TypeInv, Replies, NEW e \in Exchanges, reply[e].status \in 200..299
             PROVE  IF ReadBody(e) = {} \/ "body" \in mishaps[e]
                    THEN reply[e].status = 200 /\ \A o \in reply[e].body : o.id = {Null}
                    ELSE /\ reply[e].status = 204 <=> SentIds(e) = {}
                         /\ reply[e].body = {} <=> SentIds(e) = {}
                         /\ \A o \in reply[e].body : o.id = {Echo(j) : j \in SentIds(e)}
  BY DEF RepliesMatchRequests
<1> DEFINE x == View(e)
<1>1. Typed(x) /\ Fits(x) /\ Body(x) = ReadBody(e)
  BY ViewFacts DEF TypeInv, Replies
<1>2. /\ x.reply = reply[e] /\ x.mishaps = mishaps[e]
      /\ UNION {o.id : o \in x.request.body} = SentIds(e)
  BY DEF View, SentIds
<1> HIDE DEF x
<1>3. QED
  BY <1>1, <1>2, FitsTells

\* Whatever becomes of the upstream, and whatever ids clients choose, a reply is
\* one to the request it answers: it has that request's id, as the codec echoes
\* it, a notification gets 204 without a body, and what could not be read a null
\* id (Router's handle_bytes, hyper.rs's serve_request, gateway_handle).
THEOREM RepliesCorrect == Spec => []RepliesMatchRequests
<1>1. Init => TypeInv /\ Replies
  BY TypeInit, RepliesInit
<1>2. TypeInv /\ Replies /\ [Next]_vars => (TypeInv /\ Replies)'
  BY TypeStep, RepliesStep
<1>3. TypeInv /\ Replies => RepliesMatchRequests
  BY RepliesMatch
<1>4. QED
  BY <1>1, <1>2, <1>3, PTL DEF Spec

-----------------------------------------------------------------------------
(* Whose result a caller gets.  All calls upstream take their ids from one  *)
(* counter, which wraps: what follows holds as long as it has not come round, *)
(* that is, for no more requests than there are ids (2^64 in the code).      *)

EnoughIds == IsFiniteSet(Exchanges) /\ Cardinality(Exchanges) <= MaxU64 + 1

\* A request that could not be forwarded; one whose reply tells of its run.
Failed(x) == /\ x.front = "gateway" /\ "upstream" \in x.mishaps
             /\ Matched(x, ErrorResponse(CallersId(x), InternalError))

Relays(x, r) == /\ x.ran = <<r>>
                /\ \E resp \in Responses : Matched(x, resp) /\ Tells(resp, r)

\* What has become of an exchange whose server is done with it.
Closed(e, x) ==
    \/ (Refused(x) \/ Unread(x)) /\ x.ran = <<>> /\ x.source = NoExchange
    \/ (Noted(x) \/ Failed(x)) /\ x.source = NoExchange
    \/ /\ \E r \in Results : Relays(x, r)
       /\ x.source = IF x.front = "gateway" THEN e ELSE NoExchange

\* A handler runs once at most, for a request that was read and let in; and the
\* caller has got what the reply says or an error of its own.
Settled(e, x) ==
    /\ x.ran = <<>> \/ \E r \in Results : x.ran = <<r>>
    /\ x.ran # <<>> => x.server \in {"proxied", "replied", "gone"}
    /\ x.server # "replied" => x.source = NoExchange
    /\ x.server = "replied" => Closed(e, x)
    /\ x.client # "done" => x.outcome = NoOutcome
    /\ x.client = "done" =>
          \/ x.server = "replied" /\ x.outcome = Got(x)
          \/ x.outcome = Err("transport") /\ "connection" \in x.mishaps
          \/ x.outcome = Err("timeout")
          \/ x.outcome = Err("protocol") /\ x.server = "none"

Accounts == \A e \in Exchanges : Settled(e, View(e))

\* A frame that asks the upstream to run a request that has not been run yet.
Asks(x, f) ==
    /\ x.front = "gateway" /\ x.request.authorized /\ x.server \in {"proxied", "replied", "gone"}
    /\ "body" \notin x.mishaps /\ Body(x) # {} /\ x.ran = <<>>
    /\ ParseId(f.body) \in Optional(I64Ids)

\* A frame that tells of the run.
Reports(x, f) == \E r \in Results, told \in Responses :
                    /\ x.ran = <<r>> /\ f.body = WriteResponse(told)
                    /\ told.id \in I64Ids /\ Tells(told, r)

Frames ==
    /\ \A e \in Exchanges, m \in DOMAIN toUp : toUp[m].for = e => Asks(View(e), toUp[m])
    /\ \A m, n \in DOMAIN toUp : toUp[m].for = toUp[n].for => m = n
    /\ \A e \in Exchanges, m \in DOMAIN fromUp : fromUp[m].for = e => Reports(View(e), fromUp[m])

\* The id i is under way, in a frame for e.
Carries(queue, i, e) == \E m \in DOMAIN queue : ParseId(queue[m].body) = {i} /\ queue[m].for = e
Travels(i, e) == Carries(toUp, i, e) \/ Carries(fromUp, i, e)

\* A reply with the id of a pending call is that call's.
Correlated == \A e, d \in Exchanges : \A i \in pending[e] : Travels(i, d) => d = e

\* How many ids ago the counter stood at c.
Age(c, now) == IF c < now THEN now - c ELSE now - c + 2 * SignBit

\* Those that may have taken an id, and the ids that are no older.
Spent == {e \in Exchanges : server[e] \notin {"none", "arrived"}}
Young(i) == \E c \in 0..MaxU64 : i = NextId(c) /\ Age(c, gatewayId) <= Cardinality(Spent)

Numbered == \A e \in Exchanges, i \in I64Ids : i \in pending[e] \/ Travels(i, e) => Young(i)

\* What says how an exchange ended is the same.
LEMMA SameClosed ==
    ASSUME NEW e, NEW x, NEW y, y.front = x.front, y.request = x.request, y.reply = x.reply,
           y.mishaps \ {"connection"} = x.mishaps \ {"connection"}, y.source = x.source
    PROVE  /\ y.ran = x.ran => (Closed(e, y) <=> Closed(e, x))
           /\ Noted(x) \/ Failed(x) => (Noted(y) \/ Failed(y))
           /\ Got(y) = Got(x)
<1>1. y.mishaps \ {"connection", "upstream"} = x.mishaps \ {"connection", "upstream"}
      /\ ("upstream" \in y.mishaps <=> "upstream" \in x.mishaps)
  OBVIOUS
<1>2. CallersId(y) = CallersId(x)
      /\ (Refused(y) <=> Refused(x)) /\ (Unread(y) <=> Unread(x)) /\ (Noted(y) <=> Noted(x))
      /\ \A resp : Matched(y, resp) <=> Matched(x, resp)
  BY <1>1, SameFits
<1>3. Failed(y) <=> Failed(x)
  BY <1>1, <1>2 DEF Failed
<1>4. y.ran = x.ran => \A r : Relays(y, r) <=> Relays(x, r)
  BY <1>2 DEF Relays
<1>5. Got(y) = Got(x)
  BY DEF Got
<1>6. QED
  BY <1>2, <1>3, <1>4, <1>5 DEF Closed

\* No run: what is not accounted for by one is not closed by one.
LEMMA StepSettled ==
    ASSUME NEW e, NEW x, NEW y, Typed(x), Typed(y), Fits(x), Fits(y), Settled(e, x),
           Step(x, y), y.front = x.front
    PROVE  Settled(e, y)
<1>1. CASE FailsToSend(x, y)
  BY <1>1 DEF FailsToSend, ServerSame, Settled, Typed
<1>2. CASE Sends(x, y)
  BY <1>2 DEF Sends, Settled, Typed
<1>3. CASE Ends(x, y)
  <2>1. /\ y.server = x.server /\ y.reply = x.reply /\ y.request = x.request
        /\ y.ran = x.ran /\ y.source = x.source /\ y.client = "done"
        /\ y.mishaps \ {"connection"} = x.mishaps \ {"connection"}
    BY <1>3 DEF Ends, ServerSame
  <2>2. Got(y) = Got(x) /\ (Closed(e, y) <=> Closed(e, x))
    BY <2>1, SameClosed
  <2>3. \/ x.server = "replied" /\ y.outcome = Got(x)
        \/ y.outcome = Err("transport") /\ "connection" \in y.mishaps
        \/ y.outcome = Err("timeout")
    BY <1>3 DEF Ends
  <2>4. QED
    BY <2>1, <2>2, <2>3 DEF Settled
<1>4. ASSUME x.server \in {"arrived", "running", "proxied"}, ClientSame(x, y),
             x.mishaps \subseteq y.mishaps, y.server = "replied" => Closed(e, y),
             y.server \in {"running", "proxied", "replied", "gone"},
             y.server # "replied" => y.source = x.source,
             y.ran = x.ran \/ (y.server = "replied" /\ \E r \in Results : y.ran = <<r>>),
             y.server = "running" => x.server = "arrived"
      PROVE  Settled(e, y)
  BY <1>4 DEF ClientSame, Settled
<1>5. CASE LosesBody(x, y)
  <2>1. Unread(y)
    BY <1>5, ErrorResponses DEF LosesBody, Unread
  <2>2. QED
    BY <1>4, <1>5, <2>1 DEF LosesBody, Accepted, ClientSame, Settled, Closed
<1>6. CASE Rejects(x, y)
  <2>1. PICK error \in {ParseError, InvalidRequest} : y.reply = JsonResponse(ErrorResponse(NullId, error))
    BY <1>6 DEF Rejects
  <2>2. error \in ErrorObjects /\ NullId \in Ids
    BY CodecConstants
  <2>3. Body(y) = {}
    BY <1>6 DEF Rejects, ClientSame, Body
  <2>4. Unread(y)
    BY <2>1, <2>2, <2>3, ErrorResponses DEF Unread
  <2>5. QED
    BY <1>4, <1>6, <2>4 DEF Rejects, Accepted, ClientSame, Settled, Closed
<1>7. CASE Begins(x, y)
  BY <1>4, <1>7 DEF Begins, Accepted, ClientSame, Settled
<1>8. CASE Runs(x, y)
  <2>1. PICK req \in Body(x), r \in Results :
             y.ran = Append(x.ran, r) /\ y.reply = HttpOutcome(RouterResponse(req, r))
    BY <1>8 DEF Runs
  <2>2. /\ Body(y) = Body(x) /\ CallersId(y) = CallersId(x) /\ "body" \notin y.mishaps
        /\ x.server \in {"arrived", "running"} /\ y.server = "replied"
        /\ y.source = NoExchange /\ y.front = "adapter"
    BY <1>8 DEF Runs, Accepted, ClientSame, Body, CallersId, Fits, Settled
  <2>3. y.ran = <<r>>
    <3>1. x.ran = <<>>
      BY <2>2 DEF Settled
    <3>2. QED
      BY <2>1, <3>1
  <2>4. ASSUME IsNotification(req), y.reply = HttpReply(204, {}) PROVE Closed(e, y)
    BY <2>2, <2>4 DEF Closed, Noted
  <2>5. ASSUME ~IsNotification(req), CallersId(x) \in Ids,
               y.reply = JsonResponse(ResponseOf(CallersId(x), r))
        PROVE  Closed(e, y)
    <3>1. Matched(y, ResponseOf(CallersId(x), r))
      BY <2>2, <2>5, ResponseOfFacts DEF Matched, HasCall
    <3>2. Relays(y, r)
      BY <2>3, <2>5, <3>1, ResponseOfFacts DEF Relays
    <3>3. QED
      BY <2>2, <3>2 DEF Closed
  <2>6. Closed(e, y)
    BY <2>1, <2>4, <2>5, RunAnswered DEF Typed
  <2>7. QED
    BY <1>4, <1>8, <2>2, <2>3, <2>6 DEF Runs
<1>9. CASE Refuses(x, y)
  <2>1. Refused(y)
    BY <1>9 DEF Refuses, ClientSame, Refused
  <2>2. QED
    BY <1>4, <1>9, <2>1 DEF Refuses, ClientSame, Settled, Closed
<1>10. CASE Notes(x, y)
  <2>1. Noted(y)
    BY <1>10 DEF Notes, Accepted, ClientSame, Fits, Noted, Body
  <2>2. QED
    BY <1>4, <1>10, <2>1 DEF Notes, Accepted, ClientSame, Settled, Closed
<1>11. CASE Forwards(x, y)
  BY <1>4, <1>11 DEF Forwards, Accepted, ClientSame, Settled
<1>12. CASE FailsUpstream(x, y)
  <2>1. /\ Body(y) = Body(x) /\ CallersId(y) = CallersId(x) /\ HasCall(y)
        /\ "body" \notin y.mishaps /\ y.server = "replied"
        /\ y.reply = JsonResponse(ErrorResponse(CallersId(y), InternalError))
    BY <1>12 DEF FailsUpstream, Accepted, ClientSame, Body, CallersId, HasCall, Fits
  <2>2. CallersId(y) \in Ids
    BY <2>1, CallsId DEF Typed
  <2>3. Failed(y)
    BY <1>12, <2>1, <2>2, ErrorResponses, CodecConstants DEF FailsUpstream, Failed, Matched
  <2>4. QED
    BY <1>4, <1>12, <2>3 DEF FailsUpstream, Accepted, ClientSame, Settled, Closed
<1>13. CASE Abandons(x, y)
  BY <1>4, <1>13 DEF Abandons, ClientSame, Settled
<1>14. QED
  BY <1>1, <1>2, <1>3, <1>5, <1>6, <1>7, <1>8, <1>9, <1>10, <1>11, <1>12, <1>13 DEF Step

\* A reply that tells of the run of e, handed to e.
LEMMA DeliversSettled ==
    ASSUME NEW e, NEW x, NEW y, NEW f \in ReplyFrames, Typed(x), Fits(x), Settled(e, x),
           Delivers(x, y, f), y.front = x.front, f.for = e, Reports(x, f)
    PROVE  Settled(e, y)
<1>1. /\ Body(y) = Body(x) /\ CallersId(y) = CallersId(x) /\ HasCall(y)
      /\ "body" \notin y.mishaps /\ y.server = "replied" /\ y.source = e
      /\ y.front = "gateway" /\ y.ran = x.ran
      /\ y.reply = HttpReply(200, {Relayed(CallersId(y), f.body)})
  BY DEF Delivers, ClientSame, Body, CallersId, HasCall, Fits, Typed
<1>2. CallersId(y) \in Ids
  BY <1>1, CallsId DEF Typed, Delivers, ClientSame
<1>3. PICK r \in Results, told \in Responses :
         /\ x.ran = <<r>> /\ f.body = WriteResponse(told)
         /\ told.id \in I64Ids /\ Tells(told, r)
  BY DEF Reports
<1>4. PICK resp \in Responses : /\ resp.id = CallersId(y) /\ Tells(resp, r)
                                /\ Relayed(CallersId(y), f.body) = WriteResponse(resp)
  BY <1>2, <1>3, RelayedFacts DEF ReplyFrames
<1>5. Relays(y, r)
  BY <1>1, <1>3, <1>4 DEF Relays, Matched, JsonResponse
<1>6. Closed(e, y)
  BY <1>1, <1>5 DEF Closed
<1>7. QED
  BY <1>1, <1>3, <1>6 DEF Delivers, ClientSame, Settled

\* A run that was asked for, of a request that had not been run.
LEMMA RunsUpstreamSettled ==
    ASSUME NEW e, NEW x, NEW y, NEW r \in Results, NEW f, Typed(x), Settled(e, x),
           RunsUpstream(x, y, r), y.front = x.front, Asks(x, f)
    PROVE  Settled(e, y)
<1>1. /\ y.ran = <<r>> /\ x.ran = <<>> /\ y.request = x.request /\ y.reply = x.reply
      /\ y.mishaps = x.mishaps /\ y.server = x.server /\ y.source = x.source
      /\ y.client = x.client /\ y.outcome = x.outcome
      /\ x.server \in {"proxied", "replied", "gone"}
  BY DEF RunsUpstream, ClientSame, Asks
<1>2. x.server = "replied" => (Noted(x) \/ Failed(x)) /\ x.source = NoExchange
  <2>1. ~Refused(x) /\ ~Unread(x)
    BY DEF Asks, Refused, Unread
  <2>2. \A q : ~Relays(x, q)
    BY <1>1 DEF Relays
  <2>3. QED
    BY <2>1, <2>2 DEF Settled, Closed
<1>3. Got(y) = Got(x) /\ (Noted(x) \/ Failed(x) => Noted(y) \/ Failed(y))
  BY <1>1, SameClosed
<1>4. y.server = "replied" => Closed(e, y)
  BY <1>1, <1>2, <1>3 DEF Closed
<1>5. QED
  BY <1>1, <1>3, <1>4 DEF Settled

\* What is asked for and told stays so.
LEMMA StepFrames ==
    ASSUME NEW e, NEW x, NEW y, Typed(x), Settled(e, x), Step(x, y), y.front = x.front, NEW f
    PROVE  /\ Asks(x, f) => Asks(y, f)
           /\ Reports(x, f) => Reports(y, f)
<1>1. ASSUME Asks(x, f) PROVE Asks(y, f)
  <2>1. x.server \in {"proxied", "replied", "gone"} /\ x.client # "idle"
    BY <1>1 DEF Asks, Typed
  <2>2. Ends(x, y) \/ FailsUpstream(x, y) \/ Abandons(x, y)
    BY <2>1 DEF Step, FailsToSend, Sends, LosesBody, Rejects, Begins, Runs, Refuses, Notes,
                Forwards, Accepted
  <2>3. /\ y.request = x.request /\ y.ran = x.ran /\ y.server \in {"proxied", "replied", "gone"}
        /\ "body" \in y.mishaps => "body" \in x.mishaps
    BY <2>1, <2>2 DEF Ends, FailsUpstream, Abandons, ClientSame, ServerSame
  <2>4. QED
    BY <1>1, <2>3 DEF Asks, Body
<1>2. ASSUME Reports(x, f) PROVE Reports(y, f)
  <2>1. x.server \in {"proxied", "replied", "gone"}
    BY <1>2 DEF Reports, Settled
  <2>2. y.ran = x.ran
    BY <2>1 DEF Step, FailsToSend, Sends, Ends, LosesBody, Rejects, Begins, Runs, Refuses, Notes,
                Forwards, FailsUpstream, Abandons, Accepted, ServerSame
  <2>3. QED
    BY <1>2, <2>2 DEF Reports
<1>3. QED
  BY <1>1, <1>2

\* A delivery says nothing new of the frames of an exchange.
LEMMA DeliversFrames ==
    ASSUME NEW x, NEW y, NEW g, Delivers(x, y, g), y.front = x.front, NEW f
    PROVE  /\ Asks(x, f) => Asks(y, f)
           /\ Reports(x, f) => Reports(y, f)
BY DEF Delivers, ClientSame, Asks, Reports, Body

\* Queues of frames.
LEMMA Appended ==
    ASSUME NEW S, NEW s \in Seq(S), NEW f
    PROVE  /\ \A m \in DOMAIN s : m \in DOMAIN Append(s, f) /\ Append(s, f)[m] = s[m]
           /\ \A m \in DOMAIN Append(s, f) : m \in DOMAIN s \/ (m = Len(s) + 1 /\ Append(s, f)[m] = f)
           /\ Len(s) + 1 \notin DOMAIN s
OBVIOUS

\* The first frame, and those behind it.
LEMMA TailOf ==
    ASSUME NEW S, NEW s \in Seq(S), s # <<>>
    PROVE  /\ Head(s) \in S /\ 1 \in DOMAIN s /\ Head(s) = s[1]
           /\ \A m \in DOMAIN Tail(s) : /\ m \in Nat \ {0} /\ m + 1 \in DOMAIN s
                                        /\ Tail(s)[m] = s[m + 1]
OBVIOUS

\* Every frame that asks, or reports, still does.
Keep(e) == \A f : /\ Asks(View(e), f) => Asks(View(e)', f)
                  /\ Reports(View(e), f) => Reports(View(e)', f)

\* The frames stand when none is added and the upstream's are taken from the front.
LEMMA FramesQuiet ==
    ASSUME TypeInv, Frames, \A e \in Exchanges : Keep(e),
           toUp' = toUp \/ toUp' = <<>>,
           fromUp' = fromUp \/ (fromUp # <<>> /\ fromUp' = Tail(fromUp))
    PROVE  Frames'
<1>1. /\ \A e \in Exchanges, m \in DOMAIN toUp' : toUp'[m].for = e => Asks(View(e)', toUp'[m])
      /\ \A m, n \in DOMAIN toUp' : toUp'[m].for = toUp'[n].for => m = n
  BY DEF Frames, Keep
<1>2. ASSUME NEW e \in Exchanges, NEW m \in DOMAIN fromUp', fromUp'[m].for = e
      PROVE  Reports(View(e)', fromUp'[m])
  <2>1. PICK n \in DOMAIN fromUp : fromUp'[m] = fromUp[n]
    BY TailOf DEF TypeInv
  <2>2. QED
    BY <1>2, <2>1 DEF Frames, Keep
<1>3. QED
  BY <1>1, <1>2 DEF Frames

\* A request of e is forwarded.
LEMMA FramesAsk ==
    ASSUME TypeInv, Frames, NEW e \in Exchanges, \A d \in Exchanges : Keep(d),
           server[e] = "arrived", NEW f, f.for = e, Asks(View(e)', f),
           toUp' = Append(toUp, f), fromUp' = fromUp
    PROVE  Frames'
<1>1. \A m \in DOMAIN toUp : toUp[m].for # e
  BY DEF Frames, Asks, View
<1>2. /\ \A m \in DOMAIN toUp : m \in DOMAIN toUp' /\ toUp'[m] = toUp[m]
      /\ \A m \in DOMAIN toUp' : m \in DOMAIN toUp \/ (m = Len(toUp) + 1 /\ toUp'[m] = f)
  BY Appended DEF TypeInv
<1>3. ASSUME NEW d \in Exchanges, NEW m \in DOMAIN toUp', toUp'[m].for = d
      PROVE  Asks(View(d)', toUp'[m])
  BY <1>2, <1>3 DEF Frames, Keep
<1>4. \A m, n \in DOMAIN toUp' : toUp'[m].for = toUp'[n].for => m = n
  BY <1>1, <1>2 DEF Frames
<1>5. \A d \in Exchanges, m \in DOMAIN fromUp' : fromUp'[m].for = d => Reports(View(d)', fromUp'[m])
  BY DEF Frames, Keep
<1>6. QED
  BY <1>3, <1>4, <1>5 DEF Frames

\* The upstream runs the first request.
LEMMA FramesServe ==
    ASSUME TypeInv, Frames, NEW e \in Exchanges, toUp # <<>>, Head(toUp).for = e,
           NEW r \in Results, Moves(e), RunsUpstream(View(e), View(e)', r), toUp' = Tail(toUp),
           \/ fromUp' = fromUp
           \/ \E g : fromUp' = Append(fromUp, g) /\ g.for = e /\ Reports(View(e)', g)
    PROVE  Frames'
<1>1. /\ 1 \in DOMAIN toUp /\ Head(toUp) = toUp[1]
      /\ \A m \in DOMAIN toUp' : m \in Nat \ {0} /\ m + 1 \in DOMAIN toUp /\ toUp'[m] = toUp[m + 1]
  BY TailOf DEF TypeInv
<1>2. View(e).ran = <<>>
  BY <1>1 DEF Frames, Asks
<1>3. \A d \in Exchanges \ {e} : View(d)' = View(d)
  BY DEF Moves, OthersUnchanged
<1>4. ASSUME NEW d \in Exchanges, NEW m \in DOMAIN toUp', toUp'[m].for = d
      PROVE  Asks(View(d)', toUp'[m])
  <2>1. m + 1 \in DOMAIN toUp /\ m + 1 # 1 /\ toUp'[m] = toUp[m + 1]
    BY <1>1
  <2>2. d # e
    BY <1>1, <1>4, <2>1 DEF Frames
  <2>3. Asks(View(d), toUp[m + 1]) /\ View(d)' = View(d)
    BY <1>3, <1>4, <2>1, <2>2 DEF Frames
  <2>4. QED
    BY <2>1, <2>3
<1>5. \A m, n \in DOMAIN toUp' : toUp'[m].for = toUp'[n].for => m = n
  BY <1>1 DEF Frames
<1>6. ASSUME NEW d \in Exchanges, NEW m \in DOMAIN fromUp, fromUp[m].for = d
      PROVE  Reports(View(d)', fromUp[m])
  <2>1. Reports(View(d), fromUp[m])
    BY <1>6 DEF Frames
  <2>2. View(d).ran # <<>>
    BY <2>1 DEF Reports
  <2>3. View(d)' = View(d)
    BY <1>2, <1>3, <2>2
  <2>4. QED
    BY <2>1, <2>3
<1>7. ASSUME NEW d \in Exchanges, NEW m \in DOMAIN fromUp', fromUp'[m].for = d
      PROVE  Reports(View(d)', fromUp'[m])
  <2>1. CASE fromUp' = fromUp
    BY <1>6, <1>7, <2>1
  <2>2. ASSUME NEW g, fromUp' = Append(fromUp, g), g.for = e, Reports(View(e)', g)
        PROVE  Reports(View(d)', fromUp'[m])
    <3>1. \/ m \in DOMAIN fromUp /\ fromUp'[m] = fromUp[m]
          \/ fromUp'[m] = g
      BY <1>7, <2>2, Appended DEF TypeInv
    <3>2. QED
      BY <1>6, <1>7, <2>2, <3>1
  <2>3. QED
    BY <2>1, <2>2
<1>8. QED
  BY <1>4, <1>5, <1>7 DEF Frames

-----------------------------------------------------------------------------
(* The gateway's ids.                                                       *)

\* What took an id once is not new again, and the counter goes round.
LEMMA AgeFacts ==
    ASSUME NEW now \in 0..MaxU64
    PROVE  /\ \A c \in 0..MaxU64 : /\ Age(c, now) \in 1..(2 * SignBit)
                                   /\ Age(c, now) < 2 * SignBit => /\ c # now
                                                                   /\ Age(c, Increment(now)) = Age(c, now) + 1
           /\ Age(now, Increment(now)) = 1
<1>1. Increment(now) = IF now = MaxU64 THEN 0 ELSE now + 1
  BY SignBitAssumption DEF Increment, MaxU64
<1>2. QED
  BY <1>1, SignBitAssumption DEF Age, MaxU64

\* A set of exchanges has a size, which is no more than the number of ids.
LEMMA SomeExchanges ==
    ASSUME EnoughIds, NEW S \in SUBSET Exchanges
    PROVE  IsFiniteSet(S) /\ Cardinality(S) \in 0..(2 * SignBit)
<1>1. IsFiniteSet(S) /\ Cardinality(S) <= Cardinality(Exchanges)
  BY FS_Subset DEF EnoughIds
<1>2. Cardinality(S) \in Nat /\ Cardinality(Exchanges) \in Nat
  BY <1>1, FS_CardinalityType DEF EnoughIds
<1>3. QED
  BY <1>1, <1>2, SignBitAssumption DEF EnoughIds, MaxU64

\* A step that takes no id.
LEMMA NoIdTaken ==
    ASSUME EnoughIds, TypeInv, Correlated, Numbered, gatewayId' = gatewayId,
           \A e \in Exchanges : pending'[e] \subseteq pending[e],
           \A e \in Exchanges, i \in I64Ids : Travels(i, e)' => Travels(i, e),
           \A e \in Exchanges : pending[e] \subseteq I64Ids,
           Spent \subseteq Spent'
    PROVE  Correlated' /\ Numbered'
<1>1. Cardinality(Spent) <= Cardinality(Spent') /\ Cardinality(Spent) \in Nat /\ Cardinality(Spent') \in Nat
  <2>1. Spent \in SUBSET Exchanges /\ Spent' \in SUBSET Exchanges
    BY DEF Spent
  <2>2. QED
    BY <2>1, SomeExchanges, FS_Subset
<1>2. Correlated'
  BY DEF Correlated
<1>3. ASSUME NEW e \in Exchanges, NEW i \in I64Ids, i \in pending'[e] \/ Travels(i, e)'
      PROVE  Young(i)'
  <2>1. Young(i)
    BY <1>3 DEF Numbered
  <2>2. PICK c \in 0..MaxU64 : i = NextId(c) /\ Age(c, gatewayId) <= Cardinality(Spent)
    BY <2>1 DEF Young
  <2>3. Age(c, gatewayId') <= Cardinality(Spent')
    BY <1>1, <2>2, AgeFacts DEF TypeInv
  <2>4. QED
    BY <2>2, <2>3 DEF Young
<1>4. QED
  BY <1>2, <1>3 DEF Numbered

\* A step in which e takes the next id.
LEMMA IdTaken ==
    ASSUME EnoughIds, TypeInv, Correlated, Numbered, NEW e \in Exchanges,
           gatewayId' = Increment(gatewayId),
           \A d \in Exchanges, i \in I64Ids : i \in pending'[d] =>
              i \in pending[d] \/ (d = e /\ i = NextId(gatewayId)),
           \A d \in Exchanges, i \in I64Ids : Travels(i, d)' =>
              Travels(i, d) \/ (d = e /\ i = NextId(gatewayId)),
           \A d \in Exchanges : pending'[d] \subseteq I64Ids,
           Spent' = Spent \cup {e}, e \notin Spent
    PROVE  Correlated' /\ Numbered'
<1>0. PICK new : new = NextId(gatewayId)
  OBVIOUS
<1>1. /\ Cardinality(Spent') = Cardinality(Spent) + 1
      /\ Cardinality(Spent) \in Nat /\ Cardinality(Spent) < 2 * SignBit
  <2>1. Spent \in SUBSET Exchanges /\ Spent' \in SUBSET Exchanges
    BY DEF Spent
  <2>2. IsFiniteSet(Spent) /\ Cardinality(Spent) \in 0..(2 * SignBit)
        /\ Cardinality(Spent') \in 0..(2 * SignBit)
    BY <2>1, SomeExchanges
  <2>3. Cardinality(Spent') = Cardinality(Spent) + 1
    BY <2>2, FS_AddElement
  <2>4. QED
    BY <2>2, <2>3, SignBitAssumption
<1>2. gatewayId \in 0..MaxU64 /\ Age(gatewayId, gatewayId') = 1
  BY AgeFacts DEF TypeInv
<1>3. ASSUME NEW i, Young(i) PROVE i # new /\ Young(i)'
  <2>1. PICK c \in 0..MaxU64 : i = NextId(c) /\ Age(c, gatewayId) <= Cardinality(Spent)
    BY <1>3 DEF Young
  <2>2. Age(c, gatewayId) \in Int /\ Age(c, gatewayId) < 2 * SignBit
    BY <1>1, <1>2, <2>1, AgeFacts, SignBitAssumption
  <2>3. c # gatewayId /\ Age(c, gatewayId') = Age(c, gatewayId) + 1
    BY <1>2, <2>2, AgeFacts
  <2>4. i # new
    BY <1>0, <1>2, <2>1, <2>3, NextIdFacts
  <2>5. Age(c, gatewayId') <= Cardinality(Spent')
    BY <1>1, <2>1, <2>2, <2>3
  <2>6. QED
    BY <2>1, <2>4, <2>5 DEF Young
<1>4. Young(new)'
  <2>1. Age(gatewayId, gatewayId') <= Cardinality(Spent')
    BY <1>1, <1>2
  <2>2. QED
    BY <1>0, <1>2, <2>1 DEF Young
<1>5. \A d \in Exchanges, i \in I64Ids : i \in pending[d] \/ Travels(i, d) => i # new /\ Young(i)'
  BY <1>3 DEF Numbered
<1>6. ASSUME NEW d \in Exchanges, NEW i \in I64Ids PROVE i \in pending'[d] \/ Travels(i, d)' => Young(i)'
  BY <1>0, <1>4, <1>5
<1>7. ASSUME NEW c \in Exchanges, NEW d \in Exchanges, NEW i \in pending'[c], Travels(i, d)'
      PROVE  d = c
  <2>1. /\ i \in I64Ids
        /\ i \in pending[c] \/ (c = e /\ i = new)
        /\ Travels(i, d) \/ (d = e /\ i = new)
    BY <1>0, <1>7
  <2>2. CASE i = new
    BY <1>5, <2>1, <2>2
  <2>3. CASE i # new
    BY <2>1, <2>3 DEF Correlated
  <2>4. QED
    BY <2>2, <2>3
<1>8. QED
  BY <1>6, <1>7 DEF Correlated, Numbered

\* Where an id can come from.
LEMMA CarriedBefore ==
    ASSUME NEW S, NEW s \in Seq(S), NEW f, NEW i, NEW e
    PROVE  /\ Carries(Append(s, f), i, e) => Carries(s, i, e) \/ (ParseId(f.body) = {i} /\ f.for = e)
           /\ s # <<>> /\ Carries(Tail(s), i, e) => Carries(s, i, e)
           /\ s # <<>> /\ ParseId(Head(s).body) = {i} /\ Head(s).for = e => Carries(s, i, e)
           /\ ~Carries(<<>>, i, e)
<1>1. Carries(Append(s, f), i, e) => Carries(s, i, e) \/ (ParseId(f.body) = {i} /\ f.for = e)
  <2> SUFFICES ASSUME NEW m \in DOMAIN Append(s, f), ParseId(Append(s, f)[m].body) = {i},
                      Append(s, f)[m].for = e
               PROVE  Carries(s, i, e) \/ (ParseId(f.body) = {i} /\ f.for = e)
    BY DEF Carries
  <2>1. \/ m \in DOMAIN s /\ Append(s, f)[m] = s[m]
        \/ Append(s, f)[m] = f
    BY Appended
  <2>2. QED
    BY <2>1 DEF Carries
<1>2. ASSUME s # <<>>, Carries(Tail(s), i, e) PROVE Carries(s, i, e)
  BY <1>2, TailOf DEF Carries
<1>3. ASSUME s # <<>>, ParseId(Head(s).body) = {i}, Head(s).for = e PROVE Carries(s, i, e)
  BY <1>3, TailOf DEF Carries
<1>4. ~Carries(<<>>, i, e)
  BY DEF Carries
<1>5. QED
  BY <1>1, <1>2, <1>3, <1>4

\* The id of a request, and of a frame that asks.
LEMMA RequestsId ==
    ASSUME NEW o, NEW req \in ReadRequest(o)
    PROVE  req.id = ParseId(o)
BY DEF ReadRequest, ParseId, Request

Further == Accounts /\ Frames /\ Correlated /\ Numbered

\* One exchange moved, and its account is in order: so are all.
LEMMA AccountsMoved ==
    ASSUME Accounts, NEW e \in Exchanges, Moves(e), Settled(e, View(e)')
    PROVE  Accounts'
<1>1. ASSUME NEW d \in Exchanges \ {e} PROVE Settled(d, View(d)')
  <2>1. View(d)' = View(d) /\ Settled(d, View(d))
    BY DEF Moves, OthersUnchanged, Accounts
  <2>2. QED
    BY <2>1
<1>2. QED
  BY <1>1 DEF Accounts

\* One exchange moved and keeps its frames: so do all.
LEMMA KeepMoved ==
    ASSUME NEW e \in Exchanges, Moves(e), Keep(e)
    PROVE  \A d \in Exchanges : Keep(d)
<1>1. ASSUME NEW d \in Exchanges \ {e} PROVE Keep(d)
  <2>1. View(d)' = View(d)
    BY DEF Moves, OthersUnchanged
  <2>2. QED
    BY <2>1 DEF Keep
<1>2. QED
  BY <1>1

\* A server that is past the beginning stays so.
LEMMA SpentMoved ==
    ASSUME NEW e \in Exchanges, Moves(e),
           View(e).server \notin {"none", "arrived"} => View(e)'.server \notin {"none", "arrived"}
    PROVE  /\ Spent \subseteq Spent'
           /\ View(e)'.server \notin {"none", "arrived"} => Spent' = Spent \cup {e}
<1>1. \A d \in Exchanges \ {e} : server'[d] = server[d]
  <2>1. \A d \in Exchanges \ {e} : View(d)'.server = View(d).server
    BY DEF Moves, OthersUnchanged
  <2>2. QED
    BY <2>1 DEF View
<1>2. /\ server[e] \notin {"none", "arrived"} => server'[e] \notin {"none", "arrived"}
      /\ View(e)'.server = server'[e]
  BY DEF View
<1>3. QED
  BY <1>1, <1>2 DEF Spent

\* What is pending changes for the exchange that moves only.
LEMMA PendingMoved ==
    ASSUME NEW e \in Exchanges, Moves(e)
    PROVE  /\ \A d \in Exchanges \ {e} : pending'[d] = pending[d]
           /\ pending[e] = View(e).pending /\ pending'[e] = View(e)'.pending
<1>1. \A d \in Exchanges \ {e} : View(d)'.pending = View(d).pending
  BY DEF Moves, OthersUnchanged
<1>2. QED
  BY <1>1 DEF View

\* The ids that wait for a reply are the gateway's own.
LEMMA PendingIds ==
    ASSUME TypeInv, NEW e \in Exchanges
    PROVE  pending[e] \subseteq I64Ids
<1>1. View(e).pending \subseteq I64Ids
  BY DEF TypeInv, Typed, Optional
<1>2. QED
  BY <1>1 DEF View

\* What a step of one exchange does to what there is of it.
LEMMA StepMoved ==
    ASSUME TypeInv, TypeInv', Replies, Replies', Accounts, NEW e \in Exchanges,
           Moves(e), Step(View(e), View(e)')
    PROVE  /\ Accounts' /\ \A d \in Exchanges : Keep(d)
           /\ View(e).server \notin {"none", "arrived"} => View(e)'.server \notin {"none", "arrived"}
<1>1. /\ Typed(View(e)) /\ Fits(View(e)) /\ Settled(e, View(e))
      /\ View(e)'.front = View(e).front
  BY DEF TypeInv, Replies, Accounts, Moves
<1>2. Typed(View(e))' /\ Fits(View(e))'
  BY DEF TypeInv, Replies
<1>3. Settled(e, View(e)')
  BY <1>1, <1>2, StepSettled
<1>4. Keep(e)
  BY <1>1, StepFrames DEF Keep
<1>5. \A x, y : Typed(x) /\ Step(x, y) /\ x.server \notin {"none", "arrived"} => y.server \notin {"none", "arrived"}
  BY DEF Typed, Step, FailsToSend, Sends, Ends, LosesBody, Rejects, Begins, Runs, Refuses, Notes,
         Forwards, FailsUpstream, Abandons, Accepted, ServerSame
<1>6. QED
  BY <1>1, <1>3, <1>4, <1>5, AccountsMoved, KeepMoved

\* Steps that leave the connection and the counter alone.
LEMMA QuietStep ==
    ASSUME EnoughIds, TypeInv, TypeInv', Replies, Replies', Further, NEW e \in Exchanges,
           Moves(e), Step(View(e), View(e)'), UNCHANGED <<toUp, fromUp, gatewayId>>,
           pending'[e] \subseteq pending[e]
    PROVE  Further'
<1>1. Accounts' /\ (\A d \in Exchanges : Keep(d)) /\ Spent \subseteq Spent'
  BY StepMoved, SpentMoved DEF Further
<1>2. Frames'
  BY <1>1, FramesQuiet DEF Further
<1>3. \A d \in Exchanges, i \in I64Ids : Travels(i, d)' => Travels(i, d)
  BY DEF Travels
<1>4. Correlated' /\ Numbered'
  BY <1>1, <1>3, NoIdTaken, PendingMoved, PendingIds DEF Further
<1>5. QED
  BY <1>1, <1>2, <1>4 DEF Further

\* A frame of a request that e has been admitted with.
LEMMA FrameAsks ==
    ASSUME TypeInv, Replies, Accounts, NEW e \in Exchanges, Moves(e), front = "gateway",
           request[e].authorized, server[e] = "arrived", ReadBody(e) # {},
           View(e)'.server \in {"proxied", "replied"}, View(e)'.request = View(e).request,
           View(e)'.mishaps = View(e).mishaps, View(e)'.ran = View(e).ran,
           NEW f, ParseId(f.body) \in Optional(I64Ids)
    PROVE  Asks(View(e)', f)
<1>1. Fits(View(e)) /\ Settled(e, View(e)) /\ View(e)'.front = View(e).front
  BY DEF Replies, Accounts, Moves
<1>2. View(e).server = "arrived" /\ View(e).front = "gateway" /\ View(e).request.authorized
  BY DEF View
<1>3. "body" \notin View(e).mishaps /\ View(e).ran = <<>>
  BY <1>1, <1>2 DEF Fits, Settled
<1>4. Body(View(e)) # {}
  BY ViewFacts
<1>5. Body(View(e)') = Body(View(e))
  BY DEF Body
<1>6. QED
  BY <1>1, <1>2, <1>3, <1>4, <1>5 DEF Asks

\* The gateway forwards a notification.
LEMMA NotificationStep ==
    ASSUME EnoughIds, TypeInv, TypeInv', Replies, Replies', Further, NEW e \in Exchanges,
           ProxyNotification(e)
    PROVE  Further'
<1>1. Moves(e) /\ Notes(View(e), View(e)') /\ Step(View(e), View(e)')
  BY ProxyNotificationView DEF Step
<1>2. Accounts' /\ (\A d \in Exchanges : Keep(d)) /\ Spent \subseteq Spent'
  BY <1>1, StepMoved, SpentMoved DEF Further
<1>3. /\ front = "gateway" /\ request[e].authorized /\ server[e] = "arrived"
      /\ UNCHANGED <<gatewayId, pending, fromUp>> /\ ReadBody(e) # {}
  BY DEF ProxyNotification, Admitted
<1>4. PICK req \in ReadBody(e) :
           /\ req.id = {}
           /\ toUp' = toUp \/ toUp' = Append(toUp, Frame(WriteRequest(req), e))
  BY DEF ProxyNotification, IsNotification
<1> DEFINE f == Frame(WriteRequest(req), e)
<1>5. ParseId(f.body) = {} /\ f.for = e
  <2>1. req \in Requests /\ req.method.t = "method"
    BY <1>4, BodyFacts, ViewFacts DEF TypeInv, Typed
  <2>2. req.id \in Optional(I64Ids)
    BY <1>4, OptionalFacts
  <2>3. ParseId(WriteRequest(req)) = {}
    BY <1>4, <2>1, <2>2, RequestRoundTrip
  <2>4. QED
    BY <2>3 DEF Frame
<1> HIDE DEF f
<1>6. Asks(View(e)', f)
  <2>1. /\ View(e)'.server = "replied" /\ View(e)'.request = View(e).request
        /\ View(e)'.mishaps = View(e).mishaps /\ View(e)'.ran = View(e).ran
    BY <1>1 DEF Notes, ClientSame
  <2>2. ParseId(f.body) \in Optional(I64Ids)
    BY <1>5, OptionalFacts
  <2>3. QED
    BY <1>1, <1>3, <2>1, <2>2, FrameAsks DEF Further
<1>7. Frames'
  <2>1. CASE toUp' = toUp
    BY <1>2, <1>3, <2>1, FramesQuiet DEF Further
  <2>2. CASE toUp' = Append(toUp, f)
    BY <1>2, <1>3, <1>5, <1>6, <2>2, FramesAsk DEF Further
  <2>3. QED
    BY <1>4, <2>1, <2>2 DEF f
<1>8. ASSUME NEW d \in Exchanges, NEW i \in I64Ids, Travels(i, d)' PROVE Travels(i, d)
  <2>1. Carries(toUp', i, d) => Carries(toUp, i, d)
    <3>1. CASE toUp' = toUp
      BY <3>1
    <3>2. CASE toUp' = Append(toUp, f)
      <4>1. Carries(Append(toUp, f), i, d) => Carries(toUp, i, d) \/ ParseId(f.body) = {i}
        BY CarriedBefore DEF TypeInv
      <4>2. QED
        BY <1>5, <3>2, <4>1
    <3>3. QED
      BY <1>4, <3>1, <3>2 DEF f
  <2>2. QED
    BY <1>3, <1>8, <2>1 DEF Travels
<1>9. Correlated' /\ Numbered'
  BY <1>2, <1>3, <1>8, NoIdTaken, PendingIds DEF Further
<1>10. QED
  BY <1>2, <1>7, <1>9 DEF Further

\* The gateway forwards a call, with the next id.
LEMMA CallStep ==
    ASSUME EnoughIds, TypeInv, TypeInv', Replies, Replies', Further, NEW e \in Exchanges,
           ProxyCall(e)
    PROVE  Further'
<1>1. /\ Moves(e) /\ Forwards(View(e), View(e)') /\ Step(View(e), View(e)')
      /\ View(e)'.pending = {NextId(gatewayId)}
  BY ProxyCallView DEF Step
<1>2. /\ Accounts' /\ (\A d \in Exchanges : Keep(d))
      /\ View(e)'.server = "proxied" /\ View(e).server = "arrived"
  BY <1>1, StepMoved DEF Further, Forwards, Accepted
<1>3. Spent' = Spent \cup {e} /\ e \notin Spent
  BY <1>1, <1>2, SpentMoved DEF Spent, View
<1>4. /\ front = "gateway" /\ request[e].authorized /\ server[e] = "arrived"
      /\ gatewayId' = Increment(gatewayId) /\ fromUp' = fromUp /\ ReadBody(e) # {}
  BY DEF ProxyCall, Admitted
<1>5. PICK new \in I64Ids : new = NextId(gatewayId)
  BY NextIdFacts DEF TypeInv
<1>6. PICK req \in ReadBody(e) : toUp' = Append(toUp, Frame(WriteRequest(SetId(req, {new})), e))
  BY <1>5 DEF ProxyCall
<1> DEFINE f == Frame(WriteRequest(SetId(req, {new})), e)
<1>7. ParseId(f.body) = {new} /\ f.for = e
  <2>1. req \in Requests /\ req.method.t = "method"
    BY <1>6, BodyFacts, ViewFacts DEF TypeInv, Typed
  <2>2. {new} \in Optional(Ids) /\ {new} \in Optional(I64Ids)
    BY CodecConstants, OptionalFacts
  <2>3. /\ SetId(req, {new}) \in Requests /\ SetId(req, {new}).id = {new}
        /\ SetId(req, {new}).method = req.method
    BY <2>1, <2>2 DEF SetId, Requests
  <2>4. ParseId(WriteRequest(SetId(req, {new}))) = {new}
    BY <2>1, <2>2, <2>3, RequestRoundTrip
  <2>5. QED
    BY <2>4 DEF Frame
<1> HIDE DEF f
<1>8. Asks(View(e)', f)
  <2>1. /\ View(e)'.server = "proxied" /\ View(e)'.request = View(e).request
        /\ View(e)'.mishaps = View(e).mishaps /\ View(e)'.ran = View(e).ran
    BY <1>1 DEF Forwards, ClientSame
  <2>2. ParseId(f.body) \in Optional(I64Ids)
    BY <1>7, OptionalFacts
  <2>3. QED
    BY <1>1, <1>4, <2>1, <2>2, FrameAsks DEF Further
<1>9. Frames'
  BY <1>2, <1>4, <1>6, <1>7, <1>8, FramesAsk DEF Further, f
<1>10. ASSUME NEW d \in Exchanges, NEW i \in I64Ids, Travels(i, d)'
       PROVE  Travels(i, d) \/ (d = e /\ i = new)
  <2>1. Carries(Append(toUp, f), i, d) => Carries(toUp, i, d) \/ (ParseId(f.body) = {i} /\ f.for = d)
    BY CarriedBefore DEF TypeInv
  <2>2. QED
    BY <1>4, <1>6, <1>7, <1>10, <2>1 DEF Travels, f
<1>11. /\ \A d \in Exchanges, i \in I64Ids : i \in pending'[d] => i \in pending[d] \/ (d = e /\ i = new)
       /\ \A d \in Exchanges : pending'[d] \subseteq I64Ids
  BY <1>1, <1>5, PendingMoved, PendingIds
<1>12. Correlated' /\ Numbered'
  BY <1>3, <1>4, <1>5, <1>10, <1>11, IdTaken DEF Further
<1>13. QED
  BY <1>2, <1>9, <1>12 DEF Further

\* A call takes the gateway's next id and finds the upstream gone.
LEMMA ProxyFailsStep ==
    ASSUME EnoughIds, TypeInv, TypeInv', Replies, Replies', Further, NEW e \in Exchanges,
           ProxyFails(e)
    PROVE  Further'
<1>1. Moves(e) /\ FailsUpstream(View(e), View(e)') /\ Step(View(e), View(e)')
  BY FailsUpstreamView DEF Step
<1>2. Accounts' /\ (\A d \in Exchanges : Keep(d)) /\ View(e)'.server = "replied"
  BY <1>1, StepMoved DEF Further, FailsUpstream
<1>3. /\ server[e] = "arrived" /\ gatewayId' = Increment(gatewayId)
      /\ UNCHANGED <<pending, toUp, fromUp>>
  BY DEF ProxyFails, Admitted
<1>4. Spent' = Spent \cup {e} /\ e \notin Spent
  BY <1>1, <1>2, <1>3, SpentMoved DEF Spent, View
<1>5. Frames'
  BY <1>2, <1>3, FramesQuiet DEF Further
<1>6. \A d \in Exchanges, i \in I64Ids : Travels(i, d)' => Travels(i, d)
  BY <1>3 DEF Travels
<1>7. \A d \in Exchanges : pending'[d] = pending[d] /\ pending'[d] \subseteq I64Ids
  BY <1>3, PendingIds
<1>8. Correlated' /\ Numbered'
  BY <1>3, <1>4, <1>6, <1>7, IdTaken DEF Further
<1>9. QED
  BY <1>2, <1>5, <1>8 DEF Further

\* The reader takes a frame from the upstream: it goes to the call it is for, or nowhere.
LEMMA DeliverStep ==
    ASSUME EnoughIds, TypeInv, TypeInv', Replies, Further, Deliver
    PROVE  Further'
<1>1. /\ fromUp # <<>> /\ fromUp' = Tail(fromUp) /\ UNCHANGED <<toUp, gatewayId>>
  BY DEF Deliver
<1>2. Head(fromUp) \in ReplyFrames /\ 1 \in DOMAIN fromUp /\ Head(fromUp) = fromUp[1]
  BY <1>1, TailOf DEF TypeInv
<1>3. PICK f \in ReplyFrames : f = Head(fromUp)
  BY <1>2
<1>4. \A d \in Exchanges, i \in I64Ids : Travels(i, d)' => Travels(i, d)
  <2>1. \A d \in Exchanges, i \in I64Ids : Carries(Tail(fromUp), i, d) => Carries(fromUp, i, d)
    BY <1>1, CarriedBefore DEF TypeInv
  <2>2. QED
    BY <1>1, <2>1 DEF Travels
<1>5. CASE UNCHANGED <<front, request, client, server, reply, outcome, ran, mishaps, pending, source>>
  <2>1. \A d \in Exchanges : View(d)' = View(d)
    BY <1>5 DEF View
  <2>2. \A d \in Exchanges : Keep(d)
    BY <2>1 DEF Keep
  <2>3. Accounts'
    <3>1. ASSUME NEW d \in Exchanges PROVE Settled(d, View(d)')
      <4>1. Settled(d, View(d)) /\ View(d)' = View(d)
        BY <2>1 DEF Further, Accounts
      <4>2. QED
        BY <4>1
    <3>2. QED
      BY <3>1 DEF Accounts
  <2>4. Frames'
    BY <1>1, <2>2, FramesQuiet DEF Further
  <2>5. Spent' = Spent /\ pending' = pending
    BY <1>5 DEF Spent
  <2>6. Correlated' /\ Numbered'
    BY <1>1, <1>4, <2>5, NoIdTaken, PendingIds DEF Further
  <2>7. QED
    BY <2>3, <2>4, <2>6 DEF Further
<1>6. ASSUME NEW e \in Exchanges, Moves(e), Delivers(View(e), View(e)', f)
      PROVE  Further'
  <2>1. PICK told \in Responses, r \in Results :
             /\ View(f.for).ran = <<r>> /\ f.body = WriteResponse(told) /\ told.id \in I64Ids
             /\ Tells(told, r)
    <3>1. PICK d \in Exchanges : d = f.for
      BY DEF ReplyFrames
    <3>2. Reports(View(d), f)
      BY <1>2, <1>3, <3>1 DEF Further, Frames
    <3>3. QED
      BY <3>1, <3>2 DEF Reports
  <2>2. ParseId(f.body) = {told.id}
    BY <2>1, ResponseRoundTrip
  <2>3. f.for = e
    <3>1. told.id \in pending[e]
      BY <1>6, <2>2, PendingMoved DEF Delivers
    <3>2. f.for \in Exchanges /\ Carries(fromUp, told.id, f.for)
      <4>1. ParseId(Head(fromUp).body) = {told.id} /\ Head(fromUp).for = f.for
        BY <1>3, <2>2
      <4>2. fromUp \in Seq(ReplyFrames) /\ fromUp # <<>> /\ f.for \in Exchanges
        BY <1>1, <1>3 DEF TypeInv, ReplyFrames
      <4>3. QED
        BY <4>1, <4>2, CarriedBefore
    <3>3. QED
      BY <3>1, <3>2 DEF Further, Correlated, Travels
  <2>4. Reports(View(e), f)
    BY <2>1, <2>3 DEF Reports
  <2>5. /\ Typed(View(e)) /\ Fits(View(e)) /\ Settled(e, View(e))
        /\ View(e)'.front = View(e).front
    BY <1>6 DEF TypeInv, Replies, Further, Accounts, Moves
  <2>6. Settled(e, View(e)')
    BY <1>6, <2>3, <2>4, <2>5, DeliversSettled
  <2>7. Keep(e)
    BY <1>6, <2>5, DeliversFrames DEF Keep
  <2>8. Accounts' /\ \A d \in Exchanges : Keep(d)
    BY <1>6, <2>6, <2>7, AccountsMoved, KeepMoved DEF Further
  <2>9. Frames'
    BY <1>1, <2>8, FramesQuiet DEF Further
  <2>10. View(e)'.server = "replied" /\ View(e)'.pending = {}
    BY <1>6 DEF Delivers
  <2>11. Spent \subseteq Spent' /\ \A d \in Exchanges : pending'[d] \subseteq pending[d]
    BY <1>6, <2>10, SpentMoved, PendingMoved
  <2>12. Correlated' /\ Numbered'
    BY <1>1, <1>4, <2>11, NoIdTaken, PendingIds DEF Further
  <2>13. QED
    BY <2>8, <2>9, <2>12 DEF Further
<1>7. QED
  BY <1>3, <1>5, <1>6, DeliverView

\* The upstream takes a frame and runs its handler.
LEMMA ServeStep ==
    ASSUME EnoughIds, TypeInv, TypeInv', Further, UpstreamServes
    PROVE  Further'
<1>1. toUp # <<>> /\ toUp' = Tail(toUp) /\ UNCHANGED <<server, gatewayId, pending>>
  BY DEF UpstreamServes
<1>2. PICK f \in RequestFrames : f = Head(toUp)
  BY UpstreamServesView
<1>3. PICK e \in Exchanges, req \in ReadRequest(f.body), r \in Results :
         /\ e = f.for /\ Moves(e) /\ RunsUpstream(View(e), View(e)', r)
         /\ IF IsNotification(req) THEN fromUp' = fromUp
            ELSE \E i \in req.id : fromUp' = Append(fromUp, Frame(WriteResponse(ResponseOf(i, r)), e))
  BY <1>2, UpstreamServesView
<1>4. Asks(View(e), f)
  <2>1. 1 \in DOMAIN toUp /\ f = toUp[1]
    BY <1>1, <1>2, TailOf DEF TypeInv
  <2>2. QED
    BY <1>3, <2>1 DEF Further, Frames
<1>5. /\ Typed(View(e)) /\ Settled(e, View(e)) /\ View(e)'.front = View(e).front
  BY <1>3 DEF TypeInv, Further, Accounts, Moves
<1>6. Accounts'
  <2>1. Settled(e, View(e)')
    BY <1>3, <1>4, <1>5, RunsUpstreamSettled
  <2>2. QED
    BY <1>3, <2>1, AccountsMoved DEF Further
<1>7. \/ fromUp' = fromUp
      \/ \E i \in I64Ids : \E g : /\ fromUp' = Append(fromUp, g) /\ g.for = e
                                  /\ ParseId(g.body) = {i} /\ ParseId(f.body) = {i}
                                  /\ Reports(View(e)', g)
  <2>1. CASE IsNotification(req)
    BY <1>3, <2>1
  <2>2. CASE ~IsNotification(req)
    <3>1. PICK i \in req.id : fromUp' = Append(fromUp, Frame(WriteResponse(ResponseOf(i, r)), e))
      BY <1>3, <2>2
    <3>2. req.id = ParseId(f.body)
      BY RequestsId
    <3>3. i \in I64Ids /\ ParseId(f.body) = {i}
      BY <1>4, <3>1, <3>2 DEF Asks, Optional
    <3>4. i \in Ids
      BY <3>3, CodecConstants
    <3>5. /\ ResponseOf(i, r) \in Responses /\ ResponseOf(i, r).id = i
          /\ Tells(ResponseOf(i, r), r)
      BY <3>4, ResponseOfFacts
    <3>6. ParseId(WriteResponse(ResponseOf(i, r))) = {i}
      BY <3>3, <3>5, ResponseRoundTrip
    <3>7. View(e)'.ran = <<r>>
      <4>1. View(e)'.ran = Append(View(e).ran, r) /\ View(e).ran = <<>>
        BY <1>3, <1>4 DEF RunsUpstream, Asks
      <4>2. QED
        BY <4>1
    <3> DEFINE g == Frame(WriteResponse(ResponseOf(i, r)), e)
    <3>8. g.for = e /\ g.body = WriteResponse(ResponseOf(i, r))
      BY DEF Frame
    <3> HIDE DEF g
    <3>9. Reports(View(e)', g)
      BY <3>3, <3>5, <3>7, <3>8 DEF Reports
    <3>10. ParseId(g.body) = {i} /\ fromUp' = Append(fromUp, g)
      BY <3>1, <3>6, <3>8 DEF g
    <3>11. QED
      BY <3>3, <3>8, <3>9, <3>10
  <2>3. QED
    BY <2>1, <2>2
<1>8. Frames'
  BY <1>1, <1>2, <1>3, <1>7, FramesServe DEF Further
<1>9. ASSUME NEW d \in Exchanges, NEW j \in I64Ids, Travels(j, d)' PROVE Travels(j, d)
  <2>1. /\ Carries(Tail(toUp), j, d) => Carries(toUp, j, d)
        /\ ParseId(f.body) = {j} /\ f.for = d => Carries(toUp, j, d)
    BY <1>1, <1>2, CarriedBefore DEF TypeInv
  <2>2. CASE Carries(toUp', j, d)
    BY <1>1, <2>1, <2>2 DEF Travels
  <2>3. CASE Carries(fromUp', j, d)
    <3>1. CASE fromUp' = fromUp
      BY <2>3, <3>1 DEF Travels
    <3>2. ASSUME NEW g, fromUp' = Append(fromUp, g), g.for = e, ParseId(g.body) = ParseId(f.body)
          PROVE  Travels(j, d)
      <4>1. Carries(Append(fromUp, g), j, d) => Carries(fromUp, j, d) \/ (ParseId(g.body) = {j} /\ g.for = d)
        BY CarriedBefore DEF TypeInv
      <4>2. QED
        BY <1>3, <2>1, <2>3, <3>2, <4>1 DEF Travels
    <3>3. QED
      BY <1>7, <3>1, <3>2
  <2>4. QED
    BY <1>9, <2>2, <2>3 DEF Travels
<1>10. Spent' = Spent /\ pending' = pending
  BY <1>1 DEF Spent
<1>11. Correlated' /\ Numbered'
  BY <1>1, <1>9, <1>10, NoIdTaken, PendingIds DEF Further
<1>12. QED
  BY <1>6, <1>8, <1>11 DEF Further

\* Every step keeps it.
LEMMA FurtherStep ==
    ASSUME EnoughIds, TypeInv, TypeInv', Replies, Replies', Further, [Next]_vars
    PROVE  Further'
<1>1. ASSUME NEW e \in Exchanges, ClientStep(e) \/ AdapterStep(e), UNCHANGED upVars
      PROVE  Further'
  <2>1. Moves(e) /\ Step(View(e), View(e)')
    <3>1. CASE ClientStep(e)
      BY <1>1, <3>1, StartCallView, StartNotifyView, StartRawView, EndView DEF ClientStep
    <3>2. CASE AdapterStep(e)
      BY <1>1, <3>2, BodyFailsView, RejectBodyView, BeginHandlerView, RunView DEF AdapterStep, Step
    <3>3. QED
      BY <1>1, <3>1, <3>2
  <2>2. UNCHANGED <<toUp, fromUp, gatewayId, pending>>
    BY <1>1 DEF upVars
  <2>3. QED
    BY <2>1, <2>2, QuietStep
<1>2. ASSUME NEW e \in Exchanges, Unauthorized(e) \/ NotARequest(e) PROVE Further'
  <2>1. Moves(e) /\ Step(View(e), View(e)')
    BY <1>2, UnauthorizedView, NotARequestView DEF Step
  <2>2. UNCHANGED <<toUp, fromUp, gatewayId, pending>>
    BY <1>2 DEF Unauthorized, NotARequest, upVars
  <2>3. QED
    BY <2>1, <2>2, QuietStep
<1>3. ASSUME NEW e \in Exchanges, GiveUp(e) \/ AbandonProxied(e) PROVE Further'
  <2>1. Moves(e) /\ Step(View(e), View(e)') /\ View(e)'.pending = {}
    BY <1>3, FailsUpstreamView, AbandonView DEF Step, FailsUpstream, Abandons
  <2>2. UNCHANGED <<toUp, fromUp, gatewayId>>
    BY <1>3 DEF GiveUp, AbandonProxied
  <2>3. QED
    BY <2>1, <2>2, QuietStep, PendingMoved
<1>4. CASE UpstreamStops \/ Rest \/ UNCHANGED vars
  <2>1. UNCHANGED <<httpVars, gatewayId, pending, fromUp, source>> /\ (toUp' = toUp \/ toUp' = <<>>)
    BY <1>4 DEF UpstreamStops, Rest, vars, upVars
  <2>2. \A d \in Exchanges : View(d)' = View(d)
    BY <2>1 DEF View, httpVars, clientVars
  <2>3. \A d \in Exchanges : Keep(d)
    BY <2>2 DEF Keep
  <2>4. Accounts'
    <3>1. ASSUME NEW d \in Exchanges PROVE Settled(d, View(d)')
      <4>1. Settled(d, View(d)) /\ View(d)' = View(d)
        BY <2>2 DEF Further, Accounts
      <4>2. QED
        BY <4>1
    <3>2. QED
      BY <3>1 DEF Accounts
  <2>5. Frames'
    BY <2>1, <2>3, FramesQuiet DEF Further
  <2>6. Spent' = Spent
    BY <2>1 DEF Spent, httpVars
  <2>7. \A d \in Exchanges, i \in I64Ids : Travels(i, d)' => Travels(i, d)
    BY <2>1 DEF Travels, Carries
  <2>8. Correlated' /\ Numbered'
    BY <2>1, <2>6, <2>7, NoIdTaken, PendingIds DEF Further
  <2>9. QED
    BY <2>4, <2>5, <2>8 DEF Further
<1>5. QED
  BY <1>1, <1>2, <1>3, <1>4, NotificationStep, CallStep, ProxyFailsStep, DeliverStep, ServeStep
     DEF Next, GatewayStep, Proxy, UpstreamClosed, UpstreamTimeout

\* At the start nothing is under way.
LEMMA FurtherInit == Init => Further
<1> SUFFICES ASSUME Init PROVE Further
  OBVIOUS
<1>1. Accounts
  <2>1. ASSUME NEW e \in Exchanges PROVE Settled(e, View(e))
    <3>1. /\ server[e] = "none" /\ client[e] = "idle" /\ outcome[e] = NoOutcome
          /\ ran[e] = <<>> /\ source[e] = NoExchange
      BY DEF Init, HttpInit
    <3>2. QED
      BY <3>1 DEF Settled, View
  <2>2. QED
    BY <2>1 DEF Accounts
<1>2. toUp = <<>> /\ fromUp = <<>> /\ \A e \in Exchanges : pending[e] = {}
  BY DEF Init
<1>3. Frames
  BY <1>2 DEF Frames
<1>4. \A e, i : ~Travels(i, e)
  BY <1>2 DEF Travels, Carries
<1>5. QED
  BY <1>1, <1>2, <1>3, <1>4 DEF Further, Correlated, Numbered

Inv == TypeInv /\ Replies /\ Further

\* The types, the replies, the frames of the connection and the ids in use all
\* hold together.
LEMMA InvHolds == ASSUME EnoughIds PROVE Spec => []Inv
<1>1. Init => Inv
  BY TypeInit, RepliesInit, FurtherInit DEF Inv
<1>2. Inv /\ [Next]_vars => Inv'
  BY TypeStep, RepliesStep, FurtherStep DEF Inv
<1>3. QED
  BY <1>1, <1>2, PTL DEF Spec

-----------------------------------------------------------------------------
(* What callers get.                                                        *)

\* OutcomeExplained for one exchange.
Explains(x) ==
    CASE x.outcome[1] = "ok" -> x.ran = <<Value(x.outcome[2])>>
      [] x.outcome[1] = "rpc" ->
            \/ \E i \in DOMAIN x.ran : {x.outcome[2]} = UNION {ReadError(error) : error \in x.ran[i].err}
            \/ x.outcome[2] = InternalError /\ "upstream" \in x.mishaps
      [] x.outcome[1] = "id_mismatch" -> "body" \in x.mishaps /\ x.ran = <<>>
      [] x.outcome[1] = "malformed"   -> x.ran = <<Value(Null)>>
      [] x.outcome[1] = "transport"   ->
            "connection" \in x.mishaps \/ (~x.request.authorized /\ x.ran = <<>>)
      [] x.outcome[1] = "timeout"     -> TRUE
      [] OTHER -> FALSE

\* The result of a run explains what a caller gets of it.
LEMMA RunExplains ==
    ASSUME NEW x, NEW r \in Results, x.ran = <<r>>, x.outcome = CallOutcome(r)
    PROVE  Explains(x)
<1>1. ASSUME NEW v \in JsonValues, r = Value(v) PROVE Explains(x)
  <2>1. r.err = {} /\ r.ok = {v}
    BY <1>1 DEF Value
  <2>2. CASE v = Null
    <3>1. x.outcome = Err("malformed")
      BY <2>1, <2>2 DEF CallOutcome, NotNull
    <3>2. x.outcome[1] = "malformed" /\ x.ran = <<Value(Null)>>
      BY <1>1, <2>2, <3>1 DEF Err
    <3>3. QED
      BY <3>2 DEF Explains
  <2>3. CASE v # Null
    <3>1. NotNull(r.ok) # {} /\ (CHOOSE w \in r.ok : TRUE) = v
      BY <2>1, <2>3 DEF NotNull
    <3>2. x.outcome = Ok(v)
      BY <2>1, <3>1 DEF CallOutcome
    <3>3. x.outcome[1] = "ok" /\ x.outcome[2] = v /\ x.ran = <<Value(v)>>
      BY <1>1, <3>2 DEF Ok
    <3>4. QED
      BY <3>3 DEF Explains
  <2>4. QED
    BY <2>2, <2>3
<1>2. ASSUME NEW error \in ErrorObjects, r = Failure(error) PROVE Explains(x)
  <2>1. r.err = {error}
    BY <1>2 DEF Failure
  <2>2. (CHOOSE c \in {Clean(y) : y \in r.err} : TRUE) = Clean(error)
    <3>1. {Clean(y) : y \in r.err} = {Clean(error)}
      BY <2>1
    <3>2. QED
      BY <3>1
  <2>3. x.outcome = Rpc(Clean(error))
    BY <2>1, <2>2 DEF CallOutcome
  <2>4. x.outcome[1] = "rpc" /\ x.outcome[2] = Clean(error)
    BY <2>3 DEF Rpc
  <2>5. UNION {ReadError(y) : y \in r.err} = {Clean(error)}
    BY <2>1, CleanFacts
  <2>6. 1 \in DOMAIN x.ran /\ x.ran[1] = r
    OBVIOUS
  <2>7. {x.outcome[2]} = UNION {ReadError(y) : y \in x.ran[1].err}
    BY <2>4, <2>5, <2>6
  <2>8. QED
    BY <2>4, <2>6, <2>7 DEF Explains
<1>3. QED
  BY <1>1, <1>2, ResultFacts

\* The gateway's error for a failure upstream is read as it was written.
LEMMA UpstreamFailure ==
    ASSUME NEW id \in I64Ids
    PROVE  DecodeResult(WriteResponse(ErrorResponse(id, InternalError)), id) = Rpc(InternalError)
<1> DEFINE resp == ErrorResponse(id, InternalError)
<1>1. resp \in Responses /\ resp.id = id
  BY ErrorResponses, CodecConstants
<1>2. resp.result = {} /\ resp.error = {InternalError}
  BY DEF ErrorResponse, Response
<1>3. /\ Failure(InternalError) \in Results
      /\ Failure(InternalError).ok = {} /\ Failure(InternalError).err = {InternalError}
  BY ResultFacts, CodecConstants DEF Failure
<1> HIDE DEF resp
<1>4. Tells(resp, Failure(InternalError))
  BY <1>2, <1>3 DEF Tells
<1>5. Clean(InternalError) = InternalError
  BY DEF Clean, InternalError, Error, NotNull
<1>6. CallOutcome(Failure(InternalError)) = Rpc(InternalError)
  <2>1. {Clean(y) : y \in Failure(InternalError).err} = {InternalError}
    BY <1>3, <1>5
  <2>2. QED
    BY <1>3, <2>1 DEF CallOutcome
<1>7. DecodeResult(WriteResponse(resp), resp.id) = CallOutcome(Failure(InternalError))
  BY <1>1, <1>3, <1>4, CallDecoded
<1>8. QED
  BY <1>1, <1>6, <1>7 DEF resp

\* A call that has returned is explained.
LEMMA CallExplained ==
    ASSUME NEW e, NEW x, Typed(x), Settled(e, x), x.request.kind = "call", x.client = "done"
    PROVE  Explains(x)
<1>1. PICK req \in Body(x) : TRUE
  BY DEF Typed, RequestRecords, Body
<1>2. PICK i \in I64Ids : req.id = {i} /\ x.request.id = {i}
  BY <1>1, BodyFacts DEF Typed
<1>3. CallersId(x) = i
  <2>1. req.id = {} \/ \E k \in Ids : req.id = {k} /\ CallersId(x) = k
    BY <1>1, BodyFacts DEF Typed
  <2>2. QED
    BY <1>2, <2>1
<1>4. ASSUME NEW kind, x.outcome = Err(kind) PROVE x.outcome[1] = kind
  BY <1>4 DEF Err
<1>5. ASSUME NEW resp, x.reply = JsonResponse(resp)
      PROVE  Got(x) = DecodeResult(WriteResponse(resp), i)
  <2>1. x.reply.status = 200 /\ x.reply.body = {WriteResponse(resp)} /\ x.reply.body # {}
    BY <1>5 DEF JsonResponse, HttpReply
  <2>2. (CHOOSE o \in x.reply.body : TRUE) = WriteResponse(resp)
    BY <2>1
  <2>3. (CHOOSE id \in x.request.id : TRUE) = i
    BY <1>2
  <2>4. x.reply.status \in 200..299
    BY <2>1
  <2>5. QED
    BY <2>1, <2>2, <2>3, <2>4 DEF Got
<1>6. ASSUME x.server = "replied", x.outcome = Got(x) PROVE Explains(x)
  <2>1. CASE Refused(x) /\ x.ran = <<>>
    <3>1. x.reply.status = 401
      BY <2>1 DEF Refused, HttpReply
    <3>2. x.outcome[1] = "transport"
      BY <1>4, <1>6, <3>1 DEF Got
    <3>3. QED
      BY <2>1, <3>2 DEF Explains, Refused
  <2>2. CASE Unread(x) /\ x.ran = <<>>
    <3>1. PICK resp \in Responses : resp.id = NullId /\ x.reply = JsonResponse(resp)
      BY <2>2 DEF Unread
    <3>2. x.outcome = Err("id_mismatch")
      BY <1>5, <1>6, <3>1, MismatchDecoded
    <3>3. x.outcome[1] = "id_mismatch" /\ "body" \in x.mishaps
      BY <1>1, <1>4, <2>2, <3>2 DEF Unread
    <3>4. QED
      BY <2>2, <3>3 DEF Explains
  <2>3. ~Noted(x)
    BY <1>1, <1>2, BodyFacts DEF Noted, IsNotification, Typed
  <2>4. CASE Failed(x)
    <3>1. x.outcome = Rpc(InternalError) /\ "upstream" \in x.mishaps
      BY <1>3, <1>5, <1>6, <2>4, UpstreamFailure DEF Failed, Matched
    <3>2. x.outcome[1] = "rpc" /\ x.outcome[2] = InternalError
      BY <3>1 DEF Rpc
    <3>3. QED
      BY <3>1, <3>2 DEF Explains
  <2>5. ASSUME NEW r \in Results, Relays(x, r) PROVE Explains(x)
    <3>1. PICK resp \in Responses : resp.id = i /\ x.reply = JsonResponse(resp) /\ Tells(resp, r)
      BY <1>3, <2>5 DEF Relays, Matched
    <3>2. x.outcome = CallOutcome(r) /\ x.ran = <<r>>
      BY <1>5, <1>6, <2>5, <3>1, CallDecoded DEF Relays
    <3>3. QED
      BY <3>2, RunExplains
  <2>6. QED
    BY <1>6, <2>1, <2>2, <2>3, <2>4, <2>5 DEF Settled, Closed
<1>7. CASE x.outcome = Err("transport") /\ "connection" \in x.mishaps
  BY <1>4, <1>7 DEF Explains
<1>8. CASE x.outcome = Err("timeout")
  BY <1>4, <1>8 DEF Explains
<1>9. x.server # "none"
  BY DEF Typed, NoRequest
<1>10. QED
  BY <1>6, <1>7, <1>8, <1>9 DEF Settled

\* The account of an exchange explains its outcome.
LEMMA AllExplained == Inv => OutcomeExplained
<1> SUFFICES ASSUME Inv PROVE OutcomeExplained
  OBVIOUS
<1>1. ASSUME NEW e \in Exchanges, request[e].kind = "call", client[e] = "done"
      PROVE  Explains(View(e))
  <2>1. Typed(View(e)) /\ Settled(e, View(e))
    BY DEF Inv, TypeInv, Further, Accounts
  <2>2. View(e).request.kind = "call" /\ View(e).client = "done"
    BY <1>1 DEF View
  <2>3. QED
    BY <2>1, <2>2, CallExplained
<1>2. QED
  BY <1>1 DEF OutcomeExplained, Explains, View

\* What Client::call returns tells what became of the request, whatever clients
\* and gateway lose or give up on, and although all calls share one connection
\* and one counter upstream (client/mod.rs's decode_result, gateway_demo.rs's
\* proxy_one, multiplex's reader).
THEOREM OutcomesCorrect == ASSUME EnoughIds PROVE Spec => []OutcomeExplained
BY InvHolds, AllExplained, PTL

-----------------------------------------------------------------------------
(* The gateway and its clients implement CallContract.                      *)

Phase(x) == CASE x.client = "idle"    -> "idle"
              [] x.client = "waiting" -> "issued"
              [] x.client = "done"    -> "settled"

ResultTags == {"ok", "rpc", "malformed", "id_mismatch"}
AnswerOf(e, x) == IF x.outcome[1] \in ResultTags /\ x.reply.status = 200
                  THEN IF x.front = "gateway" THEN x.source
                       ELSE IF x.ran = <<>> THEN NoExchange ELSE e
                  ELSE NoExchange

\* A server that has not replied has not answered; and an answer is the
\* exchange's own, of its one run.
LEMMA AnswerFacts ==
    ASSUME NEW e, NEW x, Settled(e, x)
    PROVE  /\ x.server # "replied" => x.outcome[1] \notin ResultTags
           /\ x.client # "done" => x.outcome[1] \notin ResultTags
           /\ \/ AnswerOf(e, x) = NoExchange
              \/ AnswerOf(e, x) = e /\ \E r \in Results : x.ran = <<r>>
<1>1. \A kind : Err(kind)[1] = kind
  BY DEF Err
<1>2. Err("none")[1] \notin ResultTags /\ Err("transport")[1] \notin ResultTags
      /\ Err("timeout")[1] \notin ResultTags /\ Err("protocol")[1] \notin ResultTags
  BY <1>1 DEF ResultTags
<1>3. x.client # "done" => x.outcome[1] \notin ResultTags
  BY <1>2 DEF Settled, NoOutcome
<1>4. x.server # "replied" => x.outcome[1] \notin ResultTags
  BY <1>2, <1>3 DEF Settled
<1>5. ASSUME x.outcome[1] \in ResultTags, x.reply.status = 200
      PROVE  \/ AnswerOf(e, x) = NoExchange
             \/ AnswerOf(e, x) = e /\ \E r \in Results : x.ran = <<r>>
  <2>1. Closed(e, x)
    BY <1>4, <1>5 DEF Settled
  <2>2. CASE x.ran = <<>> /\ x.source = NoExchange
    BY <2>2 DEF AnswerOf
  <2>3. ~Noted(x)
    BY <1>5 DEF Noted, HttpReply
  <2>4. CASE Failed(x) /\ x.source = NoExchange
    BY <2>4 DEF AnswerOf, Failed
  <2>5. ASSUME NEW r \in Results, Relays(x, r), x.source = IF x.front = "gateway" THEN e ELSE NoExchange
        PROVE  AnswerOf(e, x) = e /\ x.ran = <<r>>
    <3>1. x.ran = <<r>> /\ x.ran # <<>>
      BY <2>5 DEF Relays
    <3>2. QED
      BY <1>5, <2>5, <3>1 DEF AnswerOf
  <2>6. QED
    BY <2>1, <2>2, <2>3, <2>4, <2>5 DEF Closed
<1>6. QED
  BY <1>3, <1>4, <1>5 DEF AnswerOf

\* What a step of an exchange is to its caller.
Unseen(e, x, y) == /\ Phase(y) = Phase(x) /\ AnswerOf(e, y) = AnswerOf(e, x) /\ Len(y.ran) = Len(x.ran)
Issues(e, x, y) == /\ Phase(x) = "idle" /\ Phase(y) = "issued"
                   /\ AnswerOf(e, y) = AnswerOf(e, x) /\ Len(y.ran) = Len(x.ran)
Executes(e, x, y) == /\ Phase(x) # "idle" /\ Len(x.ran) = 0 /\ Len(y.ran) = 1
                     /\ Phase(y) = Phase(x) /\ AnswerOf(e, y) = AnswerOf(e, x)
Answers(e, x, y) == /\ Phase(x) = "issued" /\ Len(x.ran) = 1
                    /\ Phase(y) = "settled" /\ AnswerOf(e, y) = e /\ Len(y.ran) = Len(x.ran)
Fails(e, x, y) == /\ Phase(x) \in {"idle", "issued"} /\ Phase(y) = "settled"
                  /\ AnswerOf(e, y) = AnswerOf(e, x) /\ Len(y.ran) = Len(x.ran)
Shows(e, x, y) == Unseen(e, x, y) \/ Issues(e, x, y) \/ Executes(e, x, y) \/ Answers(e, x, y)
                  \/ Fails(e, x, y)

\* A step of one exchange shows as one of the contract's, or not at all.
LEMMA StepShows ==
    ASSUME NEW e, NEW x, NEW y, Typed(x), Typed(y), Settled(e, x), Settled(e, y), Step(x, y),
           y.front = x.front
    PROVE  Shows(e, x, y)
<1>1. /\ x.client = "idle" => Phase(x) = "idle"
      /\ x.client = "waiting" => Phase(x) = "issued"
      /\ x.client = "done" => Phase(x) = "settled"
      /\ y.client = "waiting" => Phase(y) = "issued"
      /\ y.client = "done" => Phase(y) = "settled"
      /\ y.client = x.client => Phase(y) = Phase(x)
  BY DEF Phase
<1>2. \A z : z.outcome[1] \notin ResultTags => AnswerOf(e, z) = NoExchange
  BY DEF AnswerOf
<1>3. CASE FailsToSend(x, y)
  <2>1. x.client = "idle" /\ y.client = "done" /\ y.ran = x.ran /\ y.server # "replied"
    BY <1>3 DEF FailsToSend, ServerSame, Typed
  <2>2. AnswerOf(e, x) = NoExchange /\ AnswerOf(e, y) = NoExchange
    BY <1>2, <2>1, AnswerFacts
  <2>3. QED
    BY <1>1, <2>1, <2>2 DEF Shows, Fails
<1>4. CASE Sends(x, y)
  <2>1. x.client = "idle" /\ y.client = "waiting" /\ y.ran = x.ran
    BY <1>4 DEF Sends
  <2>2. AnswerOf(e, x) = NoExchange /\ AnswerOf(e, y) = NoExchange
    BY <1>2, <2>1, AnswerFacts
  <2>3. QED
    BY <1>1, <2>1, <2>2 DEF Shows, Issues
<1>5. CASE Ends(x, y)
  <2>1. x.client = "waiting" /\ y.client = "done" /\ y.ran = x.ran
    BY <1>5 DEF Ends, ServerSame
  <2>2. AnswerOf(e, x) = NoExchange
    BY <1>2, <2>1, AnswerFacts
  <2>3. CASE AnswerOf(e, y) = NoExchange
    BY <1>1, <2>1, <2>2, <2>3 DEF Shows, Fails
  <2>4. ASSUME AnswerOf(e, y) = e, NEW r, y.ran = <<r>> PROVE Shows(e, x, y)
    <3>1. Len(x.ran) = 1
      BY <2>1, <2>4
    <3>2. QED
      BY <1>1, <2>1, <2>4, <3>1 DEF Shows, Answers
  <2>5. QED
    BY <2>3, <2>4, AnswerFacts
<1>6. ASSUME ClientSame(x, y), x.server # "replied"
      PROVE  Phase(y) = Phase(x) /\ AnswerOf(e, y) = AnswerOf(e, x)
  BY <1>1, <1>2, <1>6, AnswerFacts DEF ClientSame
<1>7. CASE Runs(x, y)
  <2>1. x.server \in {"arrived", "running"} /\ ClientSame(x, y)
    BY <1>7 DEF Runs, Accepted
  <2>2. PICK r : y.ran = Append(x.ran, r)
    BY <1>7 DEF Runs
  <2>3. x.ran = <<>>
    BY <2>1 DEF Settled
  <2>4. Len(x.ran) = 0 /\ Len(y.ran) = 1
    BY <2>2, <2>3
  <2>5. Phase(x) # "idle"
    BY <2>1 DEF Typed, Phase
  <2>6. QED
    BY <1>6, <2>1, <2>4, <2>5 DEF Shows, Executes
<1>8. CASE LosesBody(x, y) \/ Rejects(x, y) \/ Begins(x, y) \/ Refuses(x, y) \/ Notes(x, y)
           \/ Forwards(x, y) \/ FailsUpstream(x, y) \/ Abandons(x, y)
  <2>1. x.server # "replied" /\ ClientSame(x, y) /\ y.ran = x.ran
    BY <1>8 DEF LosesBody, Rejects, Begins, Refuses, Notes, Forwards, FailsUpstream, Abandons, Accepted
  <2>2. QED
    BY <1>6, <2>1 DEF Shows, Unseen
<1>9. QED
  BY <1>3, <1>4, <1>5, <1>7, <1>8 DEF Step

\* A delivery is not seen: the call has its answer when the client returns it.
LEMMA DeliversShows ==
    ASSUME NEW e, NEW x, NEW y, NEW f, Settled(e, x), Delivers(x, y, f), y.front = x.front
    PROVE  Shows(e, x, y)
<1>1. x.server # "replied" /\ y.client = x.client /\ y.outcome = x.outcome /\ y.ran = x.ran
  BY DEF Delivers, ClientSame
<1>2. QED
  BY <1>1, AnswerFacts DEF Shows, Unseen, Phase, AnswerOf

\* A run upstream is an execution.
LEMMA RunsUpstreamShows ==
    ASSUME NEW e, NEW x, NEW y, NEW r, NEW f, Typed(x), RunsUpstream(x, y, r), y.front = x.front,
           Asks(x, f)
    PROVE  Shows(e, x, y)
<1>1. /\ y.ran = Append(x.ran, r) /\ x.ran = <<>> /\ x.front = "gateway" /\ x.server # "none"
      /\ y.client = x.client /\ y.outcome = x.outcome /\ y.reply = x.reply /\ y.source = x.source
  BY DEF RunsUpstream, ClientSame, Asks
<1>2. Len(x.ran) = 0 /\ Len(y.ran) = 1
  BY <1>1
<1>3. Phase(x) # "idle"
  BY <1>1 DEF Typed, Phase
<1>4. Phase(y) = Phase(x) /\ AnswerOf(e, y) = AnswerOf(e, x)
  BY <1>1 DEF Phase, AnswerOf
<1>5. QED
  BY <1>2, <1>3, <1>4 DEF Shows, Executes

-----------------------------------------------------------------------------
\* The contract's variables, by views.
Phases == [e \in Exchanges |-> Phase(View(e))]
AnswersGiven == [e \in Exchanges |-> AnswerOf(e, View(e))]
Executions == [e \in Exchanges |-> Len(View(e).ran)]

\* The refinement mapping in terms of the records.
LEMMA Abstraction ==
    /\ Contract!contractVars = <<Phases, AnswersGiven, Executions>>
    /\ (Contract!contractVars)' = <<Phases, AnswersGiven, Executions>>'
<1>1. ASSUME NEW e \in Exchanges
      PROVE  /\ Phase(View(e)) = CASE client[e] = "idle"    -> "idle"
                                   [] client[e] = "waiting" -> "issued"
                                   [] client[e] = "done"    -> "settled"
             /\ AnswerOf(e, View(e)) = Answered(e)
             /\ Len(View(e).ran) = Len(ran[e])
  BY DEF View, Phase, AnswerOf, Answered, ResultTags
<1>2. ASSUME NEW e \in Exchanges
      PROVE  /\ Phase(View(e))' = CASE client'[e] = "idle"    -> "idle"
                                    [] client'[e] = "waiting" -> "issued"
                                    [] client'[e] = "done"    -> "settled"
             /\ AnswerOf(e, View(e))' = Answered(e)'
             /\ Len(View(e).ran)' = Len(ran'[e])
  BY DEF View, Phase, AnswerOf, Answered, ResultTags
<1>3. QED
  BY <1>1, <1>2 DEF Contract!contractVars, Phases, AnswersGiven, Executions

\* A move of one exchange, as the contract has it.
LEMMA MovesAbstract ==
    ASSUME NEW e \in Exchanges, Moves(e), Shows(e, View(e), View(e)')
    PROVE  [Contract!Next]_(Contract!contractVars)
<1> DEFINE P == Phase(View(e)')
           A == AnswerOf(e, View(e)')
           X == Len(View(e)'.ran)
<1>1. /\ Phases' = [Phases EXCEPT ![e] = P]
      /\ AnswersGiven' = [AnswersGiven EXCEPT ![e] = A]
      /\ Executions' = [Executions EXCEPT ![e] = X]
  <2>1. \A d \in Exchanges \ {e} : /\ Phase(View(d))' = Phase(View(d))
                                   /\ AnswerOf(d, View(d))' = AnswerOf(d, View(d))
                                   /\ Len(View(d).ran)' = Len(View(d).ran)
    <3>1. ASSUME NEW d \in Exchanges \ {e}
          PROVE  /\ Phase(View(d)') = Phase(View(d))
                 /\ AnswerOf(d, View(d)') = AnswerOf(d, View(d))
                 /\ Len(View(d)'.ran) = Len(View(d).ran)
      <4>1. View(d)' = View(d)
        BY DEF Moves, OthersUnchanged
      <4>2. QED
        BY <4>1
    <3>2. QED
      BY <3>1
  <2>2. Phase(View(e))' = P /\ AnswerOf(e, View(e))' = A /\ Len(View(e).ran)' = X
    OBVIOUS
  <2> HIDE DEF P, A, X
  <2>3. QED
    BY <2>1, <2>2 DEF Phases, AnswersGiven, Executions
<1>2. /\ Phases[e] = Phase(View(e)) /\ AnswersGiven[e] = AnswerOf(e, View(e))
      /\ Executions[e] = Len(View(e).ran)
  BY DEF Phases, AnswersGiven, Executions
<1>3. /\ \A v : v = Phases[e] => Phases = [Phases EXCEPT ![e] = v]
      /\ \A v : v = AnswersGiven[e] => AnswersGiven = [AnswersGiven EXCEPT ![e] = v]
      /\ \A v : v = Executions[e] => Executions = [Executions EXCEPT ![e] = v]
  BY DEF Phases, AnswersGiven, Executions
<1>4. CASE Unseen(e, View(e), View(e)')
  BY <1>1, <1>2, <1>3, <1>4, Abstraction DEF Unseen
<1>5. CASE Issues(e, View(e), View(e)')
  <2>1. Contract!Issue(e)
    BY <1>1, <1>2, <1>3, <1>5, Abstraction DEF Issues, Contract!Issue, Contract!contractVars
  <2>2. QED
    BY <2>1 DEF Contract!Next
<1>6. CASE Executes(e, View(e), View(e)')
  <2>1. Contract!Execute(e)
    BY <1>1, <1>2, <1>3, <1>6, Abstraction DEF Executes, Contract!Execute, Contract!contractVars
  <2>2. QED
    BY <2>1 DEF Contract!Next
<1>7. CASE Answers(e, View(e), View(e)')
  <2>1. Contract!Answer(e)
    BY <1>1, <1>2, <1>3, <1>7, Abstraction DEF Answers, Contract!Answer, Contract!contractVars
  <2>2. QED
    BY <2>1 DEF Contract!Next
<1>8. CASE Fails(e, View(e), View(e)')
  <2>1. Contract!Fail(e)
    BY <1>1, <1>2, <1>3, <1>8, Abstraction DEF Fails, Contract!Fail, Contract!contractVars
  <2>2. QED
    BY <2>1 DEF Contract!Next
<1>9. QED
  BY <1>4, <1>5, <1>6, <1>7, <1>8 DEF Shows

\* Every step is one of the contract's, or a stutter.
LEMMA ContractStep ==
    ASSUME Inv, Inv', [Next]_vars
    PROVE  [Contract!Next]_(Contract!contractVars)
<1>1. ASSUME NEW e \in Exchanges, Moves(e)
      PROVE  /\ Typed(View(e)) /\ Typed(View(e)') /\ Settled(e, View(e)) /\ Settled(e, View(e)')
             /\ View(e)'.front = View(e).front
  <2>1. Typed(View(e)) /\ Typed(View(e))' /\ Settled(e, View(e)) /\ Settled(e, View(e))'
    BY DEF Inv, TypeInv, Further, Accounts
  <2>2. QED
    BY <1>1, <2>1 DEF Moves
<1>2. CASE \A d \in Exchanges : View(d)' = View(d)
  <2>1. ASSUME NEW d \in Exchanges
        PROVE  /\ Phase(View(d)') = Phase(View(d))
               /\ AnswerOf(d, View(d)') = AnswerOf(d, View(d))
               /\ Len(View(d)'.ran) = Len(View(d).ran)
    <3>1. View(d)' = View(d)
      BY <1>2
    <3>2. QED
      BY <3>1
  <2>2. Phases' = Phases /\ AnswersGiven' = AnswersGiven /\ Executions' = Executions
    BY <2>1 DEF Phases, AnswersGiven, Executions
  <2>3. QED
    BY <2>2, Abstraction
<1>3. ASSUME NEW e \in Exchanges, Moves(e), Step(View(e), View(e)')
      PROVE  Shows(e, View(e), View(e)')
  BY <1>1, <1>3, StepShows
<1>4. ASSUME NEW e \in Exchanges, Moves(e), Delivers(View(e), View(e)', Head(fromUp))
      PROVE  Shows(e, View(e), View(e)')
  BY <1>1, <1>4, DeliversShows
<1>5. CASE UpstreamServes
  <2>1. PICK e \in Exchanges, r \in Results :
             e = Head(toUp).for /\ Moves(e) /\ RunsUpstream(View(e), View(e)', r)
    BY <1>5, UpstreamServesView DEF Inv
  <2>2. PICK f : f = Head(toUp)
    OBVIOUS
  <2>3. Asks(View(e), f)
    <3>1. toUp # <<>> /\ toUp \in Seq(RequestFrames)
      BY <1>5 DEF UpstreamServes, Inv, TypeInv
    <3>2. 1 \in DOMAIN toUp /\ f = toUp[1]
      BY <2>2, <3>1, TailOf
    <3>3. QED
      BY <2>1, <2>2, <3>2 DEF Inv, Further, Frames
  <2>4. Shows(e, View(e), View(e)')
    BY <1>1, <2>1, <2>3, RunsUpstreamShows
  <2>5. QED
    BY <2>1, <2>4, MovesAbstract
<1>6. CASE ~UpstreamServes
  BY <1>2, <1>3, <1>4, <1>6, Views, MovesAbstract DEF Inv
<1>7. QED
  BY <1>5, <1>6

\* The initial states are the contract's.
LEMMA ContractInit == Init => Contract!Init
<1> SUFFICES ASSUME Init PROVE Contract!Init
  OBVIOUS
<1>1. \A e \in Exchanges : /\ client[e] = "idle" /\ ran[e] = <<>> /\ outcome[e][1] = "none"
  BY DEF Init, HttpInit, NoOutcome, Err
<1>2. \A e \in Exchanges : Answered(e) = NoExchange
  BY <1>1 DEF Answered
<1>3. QED
  BY <1>1, <1>2 DEF Contract!Init

\* HTTP calls keep the contract of a transport, through the adapters and through
\* the gateway: a handler runs at most once for a request, and its result goes
\* to the caller of that request and to no other.
THEOREM Implements == ASSUME EnoughIds PROVE Spec => ImplementsContract
<1>1. Init => Contract!Init
  BY ContractInit
<1>2. Inv /\ Inv' /\ [Next]_vars => [Contract!Next]_(Contract!contractVars)
  BY ContractStep
<1>3. Spec => []Inv
  BY InvHolds
<1>4. QED
  BY <1>1, <1>2, <1>3, PTL DEF Spec, ImplementsContract, Contract!ContractSpec
=============================================================================
