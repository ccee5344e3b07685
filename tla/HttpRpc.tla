------------------------------ MODULE HttpRpc ------------------------------
(***************************************************************************)
(* JSON-RPC over HTTP: clients over HttpTransport (client/mod.rs,           *)
(* client/http.rs) and the adapters that put a Router behind a hyper or     *)
(* tower server (integration/{http,hyper,tower}.rs).                        *)
(*                                                                          *)
(* An exchange is one HTTP request.  Several library clients, each with an  *)
(* id counter of its own, and programs that write requests themselves share *)
(* the server.  What a body says is Codec's; a body is {} without any bytes, *)
(* and holds Garbage if its bytes are no JSON.                              *)
(***************************************************************************)
EXTENDS Codec, Sequences

CONSTANTS
    Exchanges,      \* the HTTP requests ever made
    Clients,        \* the library's clients
    FirstCounters,  \* where their id counters may stand
    Params,         \* parameters they pass
    RawBodies,      \* bodies that other programs send
    Returns,        \* what handlers return
    Failures,       \* the error objects they fail with
    Fronts,         \* the servers considered: "adapter", "gateway"
    Credentials     \* whether requests carry the token: a subset of BOOLEAN

ASSUME HttpAssumption == /\ FirstCounters \subseteq 0..MaxU64
                         /\ Fronts \subseteq {"adapter", "gateway"}
                         /\ Credentials \subseteq BOOLEAN

VARIABLES
    front,    \* what serves the HTTP requests
    counter,  \* counter[c]: IdGen of the client c
    request,  \* request[e]: what was sent
    client,   \* client[e]: "idle", "waiting", "done"
    server,   \* server[e]: where the server's future for it is
    reply,    \* reply[e]: the HTTP response
    outcome,  \* outcome[e]: what the caller got
    ran,      \* ran[e]: the results of the router's runs for it
    mishaps   \* mishaps[e]: what else has happened to it

clientVars == <<counter, request, client, outcome>>
httpVars == <<front, clientVars, server, reply, ran, mishaps>>

Known == Json("method", 1)
Unknown == Json("method", 0)

Garbage == [WriteRequest(Request(Known, {}, {})) EXCEPT !.jsonrpc = {Unserialisable}]

\* Programs pass and return what serde_json can or cannot serialise; what they
\* send themselves is a JSON object or garbage.
ASSUME DataAssumption == /\ Params \cup Returns \subseteq JsonValues \cup {Unserialisable}
                         /\ Failures \subseteq ErrorObjects
                         /\ RawBodies \subseteq RequestObjects \cup {Garbage}

NoRequest == [kind |-> "none", id |-> {}, body |-> {}, authorized |-> FALSE]
HttpReply(status, body) == [status |-> status, body |-> body]
NoReply == HttpReply(0, {})
NoOutcome == Err("none")

HttpInit ==
    /\ front \in Fronts
    /\ counter \in [Clients -> FirstCounters]
    /\ request = [e \in Exchanges |-> NoRequest]
    /\ client = [e \in Exchanges |-> "idle"]
    /\ server = [e \in Exchanges |-> "none"]
    /\ reply = [e \in Exchanges |-> NoReply]
    /\ outcome = [e \in Exchanges |-> NoOutcome]
    /\ ran = [e \in Exchanges |-> <<>>]
    /\ mishaps = [e \in Exchanges |-> {}]

-----------------------------------------------------------------------------
(* The client's half.                                                       *)

Send(e, kind, id, body) ==
    /\ \E a \in Credentials :
          request' = [request EXCEPT ![e] =
              [kind |-> kind, id |-> id, body |-> body, authorized |-> a]]
    /\ client' = [client EXCEPT ![e] = "waiting"]
    /\ server' = [server EXCEPT ![e] = "arrived"]
    /\ UNCHANGED outcome

Finish(e, result) == /\ client' = [client EXCEPT ![e] = "done"]
                     /\ outcome' = [outcome EXCEPT ![e] = result]

\* Client::call: take an id, encode, and send; or fail before anything is sent.
StartCall(e, c) ==
    /\ client[e] = "idle"
    /\ counter' = [counter EXCEPT ![c] = Increment(@)]
    /\ \E method \in {Known, Unknown}, params \in Params :
          LET id == NextId(counter[c])
              encoded == EncodeCall(method, params, id)
          IN  IF encoded = {}
              THEN Finish(e, Err("protocol")) /\ UNCHANGED <<request, server>>
              ELSE Send(e, "call", {id}, encoded)
    /\ UNCHANGED <<front, reply, ran, mishaps>>

\* Client::notify: over HTTP a notification is a round trip too.
StartNotify(e) ==
    /\ client[e] = "idle"
    /\ \E method \in {Known, Unknown}, params \in Params :
          LET encoded == EncodeNotification(method, params)
          IN  IF encoded = {}
              THEN Finish(e, Err("protocol")) /\ UNCHANGED <<request, server>>
              ELSE Send(e, "notify", {}, encoded)
    /\ UNCHANGED <<front, counter, reply, ran, mishaps>>

\* round_trip_raw, or a program without this library.
StartRaw(e) ==
    /\ client[e] = "idle"
    /\ \E body \in RawBodies : Send(e, "raw", {}, {body})
    /\ UNCHANGED <<front, counter, reply, ran, mishaps>>

\* round_trip looks at the status, read_body collects; then call decodes the
\* bytes, send_notification and round_trip_raw's caller do not.
Received(e) ==
    IF reply[e].status \notin 200..299 THEN Err("transport")
    ELSE IF request[e].kind # "call" THEN Ok(reply[e].body)
    ELSE IF reply[e].body = {} THEN Err("protocol")
    ELSE DecodeResult(CHOOSE o \in reply[e].body : TRUE, CHOOSE id \in request[e].id : TRUE)

Receive(e) ==
    /\ client[e] = "waiting"
    /\ server[e] = "replied"
    /\ Finish(e, Received(e))
    /\ UNCHANGED <<front, counter, request, server, reply, ran, mishaps>>

\* Connecting fails, the connection is lost, or the body is over the limit.
TransportFails(e) ==
    /\ client[e] = "waiting"
    /\ Finish(e, Err("transport"))
    /\ mishaps' = [mishaps EXCEPT ![e] = @ \cup {"connection"}]
    /\ UNCHANGED <<front, counter, request, server, reply, ran>>

\* The client's request timeout drops the future.
Timeout(e) ==
    /\ client[e] = "waiting"
    /\ Finish(e, Err("timeout"))
    /\ UNCHANGED <<front, counter, request, server, reply, ran, mishaps>>

ClientStep(e) == \/ \E c \in Clients : StartCall(e, c)
                 \/ StartNotify(e) \/ StartRaw(e)
                 \/ Receive(e) \/ TransportFails(e) \/ Timeout(e)

-----------------------------------------------------------------------------
(* The router, for one request; Router.tla has batches.                     *)

ReadBody(e) == UNION {ReadRequest(o) : o \in request[e].body \ {Garbage}}

\* What Handler::call resolves to: a raw value or an error.
Value(v) == [ok |-> {v}, err |-> {}]
Failure(error) == [ok |-> {}, err |-> {error}]
Resolved(v) == IF Raw(v) = {} THEN Failure(WithData(InternalError, Text(0))) ELSE Value(v)

\* The handlers of the gateway's upstream: with parameters they cannot take
\* they fail as `add` does, else they return or fail as they like.
HandlerResults(req) ==
    IF ParamsAs(req) = {} THEN {Failure(InvalidParams)}
    ELSE {Resolved(v) : v \in Returns} \cup {Failure(x) : x \in Failures}

\* handle_request: what it makes of the handler's result.
RouterResponse(req, result) ==
    {IF result.err = {} THEN ResultResponse(id, CHOOSE v \in result.ok : TRUE)
     ELSE ErrorResponse(id, CHOOSE x \in result.err : TRUE) : id \in req.id}

-----------------------------------------------------------------------------
(* The adapters.                                                            *)

Respond(e, http) == /\ reply' = [reply EXCEPT ![e] = http]
                    /\ server' = [server EXCEPT ![e] = "replied"]

JsonResponse(resp) == HttpReply(200, {WriteResponse(resp)})

\* dispatch_with_context: no response is 204, without a body.
HttpOutcome(output) == IF output = {} THEN HttpReply(204, {})
                       ELSE JsonResponse(CHOOSE r \in output : TRUE)

ParseErrorBody == ErrorResponse(NullId, ParseError)

\* serve_request: the body cannot be read.
BodyFails(e) ==
    /\ server[e] = "arrived"
    /\ front = "gateway" => request[e].authorized
    /\ Respond(e, JsonResponse(ParseErrorBody))
    /\ mishaps' = [mishaps EXCEPT ![e] = @ \cup {"body"}]
    /\ UNCHANGED <<front, clientVars, ran>>

\* handle_bytes: the body is no request.
RejectBody(e) ==
    /\ front = "adapter" /\ server[e] = "arrived"
    /\ ReadBody(e) = {}
    /\ LET error == IF Garbage \in request[e].body THEN ParseError ELSE InvalidRequest
       IN  Respond(e, HttpOutcome({ErrorResponse(NullId, error)}))
    /\ UNCHANGED <<front, clientVars, ran, mishaps>>

\* handle_request: the method is not registered.
NoSuchMethod(e) ==
    /\ front = "adapter" /\ server[e] = "arrived"
    /\ \E req \in ReadBody(e) :
          /\ req.method # Known
          /\ ran' = [ran EXCEPT ![e] = Append(@, Failure(MethodNotFound))]
          /\ Respond(e, HttpOutcome(RouterResponse(req, Failure(MethodNotFound))))
    /\ UNCHANGED <<front, clientVars, mishaps>>

BeginHandler(e) ==
    /\ front = "adapter" /\ server[e] = "arrived"
    /\ \E req \in ReadBody(e) : req.method = Known
    /\ server' = [server EXCEPT ![e] = "running"]
    /\ UNCHANGED <<front, clientVars, reply, ran, mishaps>>

HandlerReturns(e) ==
    /\ server[e] = "running"
    /\ \E req \in ReadBody(e) : \E result \in HandlerResults(req) :
          /\ ran' = [ran EXCEPT ![e] = Append(@, result)]
          /\ Respond(e, HttpOutcome(RouterResponse(req, result)))
    /\ UNCHANGED <<front, clientVars, mishaps>>

\* The client hung up: hyper drops the service's future.
Abandon(e) ==
    /\ client[e] = "done"
    /\ server[e] \notin {"none", "replied", "gone"}
    /\ server' = [server EXCEPT ![e] = "gone"]
    /\ UNCHANGED <<front, clientVars, reply, ran, mishaps>>

AdapterStep(e) == BodyFails(e) \/ RejectBody(e) \/ NoSuchMethod(e) \/ BeginHandler(e)
                  \/ HandlerReturns(e)
=============================================================================
