------------------------------ MODULE Gateway ------------------------------
(***************************************************************************)
(* examples/gateway_demo.rs: an HTTP server that checks a token and proxies *)
(* the requests of all its clients to one upstream, over one multiplexed    *)
(* connection, under ids of its own.                                        *)
(*                                                                          *)
(* The module extends HttpRpc with the gateway as the other server that may *)
(* stand behind its clients.  The connection below is taken at the grain    *)
(* of what Multiplex.tla shows of it: frames in order each way, a reply     *)
(* handed to the pending request with its id, ConnectionClosed for those    *)
(* that are left over when it ends.                                         *)
(***************************************************************************)
EXTENDS HttpRpc

CONSTANTS FirstGatewayId,  \* where the gateway's own counter may stand
          NoExchange

ASSUME GatewayAssumption == /\ FirstGatewayId \subseteq 0..MaxU64
                            /\ NoExchange \notin Exchanges

VARIABLES
    gatewayId, \* Gateway::next_id, as an unsigned number
    pending,   \* pending[e]: the id under which e waits upstream, if it does
    toUp,      \* frames to the upstream: [body, for]
    fromUp,    \* replies from the upstream: [body, for]
    upOpen,    \* whether the connection to the upstream is alive
    source     \* source[e]: the exchange whose reply e was handed

upVars == <<gatewayId, pending, toUp, fromUp, upOpen, source>>
vars == <<httpVars, upVars>>

Init ==
    /\ HttpInit
    /\ gatewayId \in FirstGatewayId
    /\ pending = [e \in Exchanges |-> {}]
    /\ toUp = <<>> /\ fromUp = <<>>
    /\ upOpen = TRUE
    /\ source = [e \in Exchanges |-> NoExchange]

Frame(body, e) == [body |-> body, for |-> e]

\* gateway_handle has the request, and the token is right.
Admitted(e) == /\ front = "gateway" /\ server[e] = "arrived"
               /\ request[e].authorized

OriginalId(e) == CHOOSE id \in UNION {req.id : req \in ReadBody(e)} : TRUE
RespondInternalError(e) ==
    Respond(e, JsonResponse(ErrorResponse(OriginalId(e), InternalError)))

-----------------------------------------------------------------------------
(* gateway_handle and proxy_one.                                            *)

Unauthorized(e) ==
    /\ front = "gateway" /\ server[e] = "arrived"
    /\ ~request[e].authorized
    /\ Respond(e, HttpReply(401, {Garbage}))
    /\ UNCHANGED <<front, clientVars, ran, mishaps, upVars>>

NotARequest(e) ==
    /\ Admitted(e)
    /\ ReadBody(e) = {}
    /\ Respond(e, JsonResponse(ErrorResponse(NullId, InvalidRequest)))
    /\ UNCHANGED <<front, clientVars, ran, mishaps, upVars>>

\* UdsClient's ensure_connected: the connection, or a new one after the reader
\* has seen the end of the old one and woken those who waited on it.
EnsureConnected ==
    /\ upOpen \/ (fromUp = <<>> /\ \A e \in Exchanges : pending[e] = {})
    /\ upOpen' = TRUE

\* A notification is forwarded if that is possible, and answered in any case.
ProxyNotification(e) ==
    /\ Admitted(e)
    /\ \E req \in ReadBody(e) :
          /\ IsNotification(req)
          /\ \/ EnsureConnected /\ toUp' = Append(toUp, Frame(WriteRequest(req), e))
             \/ ~upOpen /\ UNCHANGED <<upOpen, toUp>>
    /\ Respond(e, HttpReply(204, {}))
    /\ UNCHANGED <<front, clientVars, ran, mishaps, gatewayId, pending, fromUp, source>>

\* Fault: the request is forwarded under its caller's id.
ProxyCall_KeepsId(e) ==
    /\ Admitted(e)
    /\ EnsureConnected
    /\ \E req \in ReadBody(e) :
          /\ ~IsNotification(req)
          /\ pending' = [pending EXCEPT ![e] = req.id]
          /\ toUp' = Append(toUp, Frame(WriteRequest(req), e))
    /\ server' = [server EXCEPT ![e] = "proxied"]
    /\ UNCHANGED <<front, clientVars, reply, ran, mishaps, gatewayId, fromUp, source>>

\* A call takes the next id of the gateway, registers and is written.
ProxyCall(e) ==
    /\ Admitted(e)
    /\ EnsureConnected
    /\ \E req \in ReadBody(e) :
          /\ ~IsNotification(req)
          /\ pending' = [pending EXCEPT ![e] = {NextId(gatewayId)}]
          /\ toUp' = Append(toUp, Frame(WriteRequest(SetId(req, {NextId(gatewayId)})), e))
    /\ gatewayId' = Increment(gatewayId)
    /\ server' = [server EXCEPT ![e] = "proxied"]
    /\ UNCHANGED <<front, clientVars, reply, ran, mishaps, fromUp, source>>

\* round_trip fails at once: the connection is dead, or dialing did not help.
ProxyFails(e) ==
    /\ Admitted(e)
    /\ ~upOpen
    /\ \E req \in ReadBody(e) : ~IsNotification(req)
    /\ gatewayId' = Increment(gatewayId)
    /\ mishaps' = [mishaps EXCEPT ![e] = @ \cup {"upstream"}]
    /\ RespondInternalError(e)
    /\ UNCHANGED <<front, clientVars, ran, pending, toUp, fromUp, upOpen, source>>

Proxy(e) == Unauthorized(e) \/ NotARequest(e) \/ ProxyNotification(e) \/ ProxyCall(e) \/ ProxyFails(e)

\* The reply with the caller's id again.
Restored(e, body) ==
    LET parsed == ReadResponse(body)
    IN  IF parsed = {} THEN WriteResponse(ErrorResponse(OriginalId(e), InternalError))
        ELSE WriteResponse(SetId(CHOOSE r \in parsed : TRUE, OriginalId(e)))

\* The reader takes a reply; nobody may be waiting for it any more.
Deliver ==
    /\ fromUp # <<>>
    /\ fromUp' = Tail(fromUp)
    /\ LET frame == Head(fromUp)
           waiters == {e \in Exchanges : pending[e] # {} /\ pending[e] = ParseId(frame.body)}
       IN  \/ /\ waiters = {}
              /\ UNCHANGED <<server, reply, pending, source>>
           \/ \E e \in waiters :
                 /\ pending' = [pending EXCEPT ![e] = {}]
                 /\ source' = [source EXCEPT ![e] = frame.for]
                 /\ Respond(e, HttpReply(200, {Restored(e, frame.body)}))
    /\ UNCHANGED <<front, clientVars, ran, mishaps, gatewayId, toUp, upOpen>>

\* A pending call gives up: the connection ended, or the gateway's own
\* request timeout fired.
GiveUp(e) ==
    /\ server[e] = "proxied"
    /\ pending' = [pending EXCEPT ![e] = {}]
    /\ mishaps' = [mishaps EXCEPT ![e] = @ \cup {"upstream"}]
    /\ RespondInternalError(e)
    /\ UNCHANGED <<front, clientVars, ran, gatewayId, toUp, fromUp, upOpen, source>>

UpstreamClosed(e) == ~upOpen /\ fromUp = <<>> /\ GiveUp(e)

\* Fault: there is no timeout.
UpstreamTimeout_None(e) == FALSE

UpstreamTimeout(e) == GiveUp(e)

\* The client hung up: the future is dropped, and its guard with it.
AbandonProxied(e) == /\ Abandon(e)
                     /\ pending' = [pending EXCEPT ![e] = {}]
                     /\ UNCHANGED <<gatewayId, toUp, fromUp, upOpen, source>>

-----------------------------------------------------------------------------
(* run_upstream: one request at a time per connection.                      *)

UpstreamServes ==
    /\ upOpen
    /\ toUp # <<>>
    /\ toUp' = Tail(toUp)
    /\ LET frame == Head(toUp)
       IN  \E req \in ReadRequest(frame.body) :
           \E result \in IF req.method = Known THEN HandlerResults(req) ELSE {Failure(MethodNotFound)} :
              /\ ran' = [ran EXCEPT ![frame.for] = Append(@, result)]
              /\ fromUp' = fromUp \o
                    (IF IsNotification(req) THEN <<>>
                     ELSE <<Frame(WriteResponse(CHOOSE r \in RouterResponse(req, result) : TRUE),
                                  frame.for)>>)
    /\ UNCHANGED <<front, clientVars, server, reply, mishaps, gatewayId, pending, upOpen, source>>

\* The connection ends; what the gateway has not read may still arrive.
UpstreamStops ==
    /\ front = "gateway"
    /\ upOpen
    /\ upOpen' = FALSE
    /\ toUp' = <<>>
    /\ UNCHANGED <<httpVars, gatewayId, pending, fromUp, source>>

-----------------------------------------------------------------------------
\* Every request has been answered, and nothing is under way.
Rest == /\ \A e \in Exchanges : client[e] = "done" /\ server[e] \in {"none", "replied", "gone"}
        /\ toUp = <<>> /\ fromUp = <<>>
        /\ UNCHANGED vars

GatewayStep(e) == Proxy(e) \/ UpstreamClosed(e) \/ UpstreamTimeout(e)

Next == \/ \E e \in Exchanges :
              \/ (ClientStep(e) \/ AdapterStep(e)) /\ UNCHANGED upVars
              \/ GatewayStep(e) \/ AbandonProxied(e)
        \/ Deliver \/ UpstreamServes \/ UpstreamStops \/ Rest

Spec == Init /\ [][Next]_vars

\* Servers and their handlers run, the gateway's timeout fires and its reader
\* reads; nothing is assumed of the upstream.
FairSpec == /\ Spec
            /\ WF_vars(Deliver)
            /\ \A e \in Exchanges :
                  /\ WF_vars(AdapterStep(e) /\ UNCHANGED upVars)
                  /\ WF_vars(GatewayStep(e))
                  /\ WF_vars(Receive(e) /\ UNCHANGED upVars)

-----------------------------------------------------------------------------
(* Properties.                                                              *)

\* The values stay in their ranges; a call waits upstream if and only if its
\* future is in proxy_one.
TypeOK ==
    /\ counter \in [Clients -> 0..MaxU64] /\ gatewayId \in 0..MaxU64
    /\ client \in [Exchanges -> {"idle", "waiting", "done"}]
    /\ server \in [Exchanges -> {"none", "arrived", "running", "proxied", "replied", "gone"}]
    /\ source \in [Exchanges -> Exchanges \cup {NoExchange}]
    /\ \A e \in Exchanges : pending[e] # {} <=> server[e] = "proxied"

\* The exchange whose run the caller of e was given the result of, if any.
Answered(e) ==
    IF outcome[e][1] \in {"ok", "rpc", "malformed", "id_mismatch"} /\ reply[e].status = 200
    THEN IF front = "gateway" THEN source[e]
         ELSE IF ran[e] = <<>> THEN NoExchange ELSE e
    ELSE NoExchange

Contract == INSTANCE CallContract WITH
    Calls  <- Exchanges,
    NoCall <- NoExchange,
    phase  <- [e \in Exchanges |-> CASE client[e] = "idle"    -> "idle"
                                     [] client[e] = "waiting" -> "issued"
                                     [] client[e] = "done"    -> "settled"],
    answer <- [e \in Exchanges |-> Answered(e)],
    execs  <- [e \in Exchanges |-> Len(ran[e])]

\* HTTP calls, through the adapter or through the gateway, keep the contract of
\* a transport: a handler runs at most once for a request, and its result goes
\* to the caller of that request and to no other, although all callers share
\* one connection upstream and may use the same ids.
ImplementsContract == Contract!ContractSpec

SentIds(e) == UNION {o.id : o \in request[e].body}

\* What an id looks like after it was read and written: a number that only u64
\* holds has become a string.
Echo(j) == IF j.t = "num" /\ j.v > MaxI64 THEN Text(j.v) ELSE j

\* A request is answered with a response that has its id, a notification with
\* 204 and an empty body, and what is neither with a null id.
RepliesMatchRequests ==
    \A e \in Exchanges : reply[e].status \in 200..299 =>
        IF ReadBody(e) = {} \/ "body" \in mishaps[e]
        THEN reply[e].status = 200 /\ \A o \in reply[e].body : o.id = {Null}
        ELSE /\ reply[e].status = 204 <=> SentIds(e) = {}
             /\ reply[e].body = {} <=> SentIds(e) = {}
             /\ \A o \in reply[e].body : o.id = {Echo(j) : j \in SentIds(e)}

\* Every outcome of Client::call tells what became of the request: Ok is the
\* value its one run returned; an RPC error is the one its run failed with, or
\* the gateway's for a failure upstream; a mismatched id means that the server
\* could not read the request, a malformed response that the result was null.
OutcomeExplained ==
    \A e \in Exchanges : request[e].kind = "call" /\ client[e] = "done" =>
        CASE outcome[e][1] = "ok" ->
                ran[e] = <<Value(outcome[e][2])>>
          [] outcome[e][1] = "rpc" ->
                \/ \E i \in DOMAIN ran[e] : {outcome[e][2]} = UNION {ReadError(x) : x \in ran[e][i].err}
                \/ outcome[e][2] = InternalError /\ "upstream" \in mishaps[e]
          [] outcome[e][1] = "id_mismatch" -> "body" \in mishaps[e] /\ ran[e] = <<>>
          [] outcome[e][1] = "malformed"   -> ran[e] = <<Value(Null)>>
          [] outcome[e][1] = "transport"   ->
                "connection" \in mishaps[e] \/ (~request[e].authorized /\ ran[e] = <<>>)
          [] outcome[e][1] = "timeout"     -> TRUE
          [] OTHER -> FALSE

\* Without a timeout of its own, a client is answered however the upstream
\* behaves.
EveryExchangeReturns == \A e \in Exchanges : client[e] = "waiting" ~> client[e] = "done"

\* What a handler returned without an error is understood by the client.
ServedIsUnderstood == \A e \in Exchanges : outcome[e][1] # "malformed"
=============================================================================
