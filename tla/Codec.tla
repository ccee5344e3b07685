------------------------------- MODULE Codec -------------------------------
(***************************************************************************)
(* What becomes of ids, requests and responses between Rust values and JSON *)
(* (protocol.rs, json.rs) and in the client's encode and decode functions   *)
(* (client/mod.rs).                                                         *)
(*                                                                          *)
(* A JSON value is [t, v]: its type and what tells it from others of that   *)
(* type; Text(n) is the string that spells the number n.  A JSON object has *)
(* the members of a request or a response, each a set: empty if the member  *)
(* is absent, else the one value it has.  Option and Result are such sets   *)
(* too: {} is None or Err.                                                  *)
(***************************************************************************)
EXTENDS Integers

CONSTANT SignBit  \* the weight of an i64's sign bit, 2^63 in the code

ASSUME SignBitAssumption == SignBit \in Nat \ {0}

MinI64 == -SignBit
MaxI64 == SignBit - 1
MaxU64 == 2 * SignBit - 1

Json(type, value) == [t |-> type, v |-> value]
Null == Json("null", 0)
Num(n) == Json("num", n)
Text(n) == Json("str", n)
Version == Json("str", 20)          \* spells "2.0"
Unserialisable == Json("none", 0)   \* a Rust value whose Serialize fails

\* The JSON values there are (a "method" is a string that is taken for a method's
\* name), and what a member that may be absent can be.
JsonTypes == {"null", "bool", "num", "str", "method", "array", "object"}
JsonValues == {j \in [t : JsonTypes, v : Int] : j.t = "null" => j = Null}
Optional(S) == {m \in SUBSET S : \A x, y \in m : x = y}

Id(variant, value) == [id |-> variant, v |-> value]
NullId == Id("Null", 0)

-----------------------------------------------------------------------------
\* Fault: the id is the counter's value, without the cast to i64.
NextId_Unsigned(counter) == Id("Number", counter)

\* IdGen::next_id: the counter's value, cast to i64.
NextId(counter) ==
    Id("Number", IF counter > MaxI64 THEN counter - 2 * SignBit ELSE counter)

\* Fault: the counter does not wrap.
Increment_NoWrap(counter) == counter + 1

\* fetch_add(1) wraps.
Increment(counter) == (counter + 1) % (2 * SignBit)

WriteId(id) == CASE id.id = "Null"   -> Null
                 [] id.id = "Number" -> Num(id.v)
                 [] id.id = "String" -> Text(id.v)

\* A number that only u64 holds becomes a string; one that neither holds, and
\* any other JSON, is no id.
ReadId(j) ==
    CASE j.t = "null" -> {NullId}
      [] j.t = "str"  -> {Id("String", j.v)}
      [] j.t = "num" /\ j.v \in MinI64..MaxI64 -> {Id("Number", j.v)}
      [] j.t = "num" /\ j.v \in (MaxI64 + 1)..MaxU64 -> {Id("String", j.v)}
      [] OTHER -> {}

\* to_raw_value(v).ok(), and Option<JsonRawValue> read from a member.
Raw(v) == {v} \ {Unserialisable}
NotNull(member) == member \ {Null}

-----------------------------------------------------------------------------
\* The error object: v is its code, data is optional.
Error(code) == [t |-> "error", v |-> code, data |-> {}]
WithData(e, v) == [e EXCEPT !.data = Raw(v)]

ParseError     == Error(-32700)
InvalidRequest == Error(-32600)
MethodNotFound == Error(-32601)
InvalidParams  == Error(-32602)
InternalError  == Error(-32603)

ErrorObjects == [t : {"error"}, v : Int, data : Optional(JsonValues)]

ReadError(j) == IF j.t = "error" THEN {[j EXCEPT !.data = NotNull(@)]} ELSE {}

-----------------------------------------------------------------------------
(* Requests.                                                                *)

Request(method, params, id) == [method |-> method, params |-> params, id |-> id]

\* try_call and try_notification fail where Raw does; call and notification
\* would drop the parameters.
TryCall(method, params, id) == {Request(method, {p}, {id}) : p \in Raw(params)}
TryNotification(method, params) == {Request(method, {p}, {}) : p \in Raw(params)}

IsNotification(req) == req.id = {}

\* params_as of a type that takes numbers; for missing params it reads null.
ParamsAs(req) == {p \in req.params : p.t = "num"}

SetId(message, id) == [message EXCEPT !.id = id]

\* The objects that may come where a request is expected.
RequestObjects == [jsonrpc : Optional(JsonValues), method : Optional(JsonValues),
                   params : Optional(JsonValues), id : Optional(JsonValues)]

WriteRequest(req) ==
    [jsonrpc |-> {Version}, method |-> {req.method}, params |-> req.params,
     id |-> {WriteId(i) : i \in req.id}]

\* Fault: a null id is taken for none, as Option<Id> without de_present_id does.
ReadRequest_NullIsAbsent(o) ==
    {Request(m, NotNull(o.params), UNION {ReadId(j) : j \in NotNull(o.id)}) :
        m \in IF o.jsonrpc = {Version} THEN {j \in o.method : j.t = "method"} ELSE {}}

\* A request with the wrong version, no method, or an id that is none, is not
\* one; params that are null are no params; an id that is null is an id.
ReadRequest(o) ==
    IF o.jsonrpc = {Version} /\ \A j \in o.id : ReadId(j) # {}
    THEN {Request(m, NotNull(o.params), UNION {ReadId(j) : j \in o.id}) :
             m \in {j \in o.method : j.t = "method"}}
    ELSE {}

-----------------------------------------------------------------------------
(* Responses.                                                               *)

Response(result, error, id) == [result |-> result, error |-> error, id |-> id]
ResultResponse(id, raw) == Response({raw}, {}, id)
ErrorResponse(id, error) == Response({}, {error}, id)

\* "Exactly one of `result` / `error` is populated."
IsValid(resp) == (resp.result # {}) # (resp.error # {})

WriteResponse(resp) ==
    [jsonrpc |-> {Version}, result |-> resp.result, error |-> resp.error,
     id |-> {WriteId(resp.id)}]

\* The id is required; members that are null are taken for absent ones.
ReadResponse(o) ==
    IF o.jsonrpc = {Version} /\ \A j \in NotNull(o.error) : ReadError(j) # {}
    THEN {Response(NotNull(o.result), UNION {ReadError(j) : j \in NotNull(o.error)}, id) :
             id \in UNION {ReadId(j) : j \in o.id}}
    ELSE {}

\* parse_id: the id of a reply, whatever else is in it.
ParseId(o) == UNION {ReadId(j) : j \in o.id}

-----------------------------------------------------------------------------
(* The client's view of a call.                                             *)

\* What Client::call returns: Ok, or one of ClientError's variants.
Ok(value)  == <<"ok", value>>
Rpc(error) == <<"rpc", error>>
Err(kind)  == <<kind>>

EncodeCall(method, params, id) == {WriteRequest(r) : r \in TryCall(method, params, id)}
EncodeNotification(method, params) == {WriteRequest(r) : r \in TryNotification(method, params)}

\* decode_result of a JSON object; the result type takes any JSON value.
DecodeResult(o, expected) ==
    IF ReadResponse(o) = {} THEN Err("protocol")
    ELSE LET resp == CHOOSE r \in ReadResponse(o) : TRUE
         IN  IF resp.id # expected THEN Err("id_mismatch")
             ELSE IF ~IsValid(resp) THEN Err("malformed")
             ELSE IF resp.error = {} THEN Ok(CHOOSE v \in resp.result : TRUE)
             ELSE Rpc(CHOOSE e \in resp.error : TRUE)
=============================================================================
