------------------------------- MODULE Router -------------------------------
(***************************************************************************)
(* Router (server.rs): what becomes of the bytes of one JSON-RPC message,   *)
(* when clones of the router handle several messages at the same time and   *)
(* the value they were cloned from goes on registering methods.             *)
(*                                                                          *)
(* Clones share a method table behind an Arc; register copies it first      *)
(* unless it is the only holder (Arc::make_mut), inserts, and panics if the *)
(* name was taken.  heap holds the tables; the indices of dead ones are not *)
(* reused.                                                                  *)
(*                                                                          *)
(* A body is abstracted to what the dispatch tells apart: no byte but blank *)
(* space, text that is not JSON, JSON that is no request, one request, or   *)
(* an array of elements.  An element that does not parse as a Request has   *)
(* valid = FALSE; the id of a notification is NoId, which is not NullId:    *)
(* a request with "id": null is a call (protocol.rs, de_present_id).        *)
(***************************************************************************)
EXTENDS Naturals, Sequences, Enumeration

CONSTANTS
    Messages,    \* the messages, each with a future of handle_bytes
    Bodies,      \* Bodies[m]: the bodies m may have: [kind, elements]
    Ids,         \* the ids of requests and responses, the next two among them
    NoId,        \* no id member
    NullId,      \* "id": null, and the id of a response to what has no id
    Methods,     \* the method names
    MaxRegistrations, \* bound on the calls of register
    NoLimit,     \* max_batch_len is None
    MaxBatchLen, \* or Some(MaxBatchLen)
    Droppable    \* messages whose future may be dropped (the peer hung up)

Elements == [valid : BOOLEAN, id : Ids, method : Methods]

ASSUME RouterAssumption ==
    /\ {NoId, NullId} \subseteq Ids /\ NoId # NullId
    /\ MaxBatchLen \in Nat \cup {NoLimit} /\ NoLimit \notin Nat
    /\ Droppable \subseteq Messages
    /\ MaxRegistrations \in Nat
    /\ \A m \in Messages : \A b \in Bodies[m] :
         /\ b.kind \in {"blank", "not_json", "not_request", "single", "batch"}
         /\ b.elements \in Seq(Elements)
         /\ b.kind = "single" => Len(b.elements) = 1 /\ b.elements[1].valid
         /\ b.kind \notin {"single", "batch"} => b.elements = <<>>

VARIABLES
    heap,      \* the method tables: handler numbers by name, 0 for none
    builder,   \* index of the table the builder's router holds; 0: it panicked
    registered,\* how often register was called; the number of the last handler
    holds,     \* holds[m]: index of the table of m's clone of the router
    promised,  \* promised[m]: what was registered when it was cloned
    body,      \* body[m]
    at,        \* at[m]: where its future is
    next,      \* next[m]: the element it is at
    responses, \* responses[m]: pushed so far
    output,    \* output[m]: the Output returned
    ran        \* ran[m]: <<element, handler, result>> of those that returned

tables == <<heap, builder, registered, holds, promised>>
vars == <<tables, body, at, next, responses, output, ran>>

Results == {"value", "error"}
Responses == [id : Ids,
              what : Results \cup {"parse_error", "invalid_request", "method_not_found"}]
Outputs == [kind : {"pending", "empty", "single", "batch"}, responses : Seq(Responses)]

Response(id, what) == [id |-> id, what |-> what]
Output(kind, rs) == [kind |-> kind, responses |-> rs]
Single(id, what) == Output("single", <<Response(id, what)>>)
Pending == Output("pending", <<>>)

Empty == [name \in Methods |-> 0]
NoBody == [kind |-> "none", elements |-> <<>>]

\* with_state: a router with an empty table, and no clone of it yet.
Init ==
    /\ heap = <<Empty>>
    /\ builder = 1
    /\ registered = 0
    /\ holds = [m \in Messages |-> 0]
    /\ promised = [m \in Messages |-> Empty]
    /\ body = [m \in Messages |-> NoBody]
    /\ at = [m \in Messages |-> "unborn"]
    /\ next = [m \in Messages |-> 1]
    /\ responses = [m \in Messages |-> <<>>]
    /\ output = [m \in Messages |-> Pending]
    /\ ran = [m \in Messages |-> <<>>]

\* A definition named after another with a suffix is a plausible bug in it.

\* "id": null taken for no id at all.
IsNotification_NullToo(e) == e.valid /\ e.id \in {NoId, NullId}

Element(m) == body[m].elements[next[m]]
Handler(m) == heap[holds[m]][Element(m).method]
IsNotification(e) == e.valid /\ e.id = NoId
Oversized(b) == /\ b.kind = "batch" /\ MaxBatchLen # NoLimit
                /\ Len(b.elements) > MaxBatchLen

\* handle_bytes returns; m's clone of the router goes with its connection.
Return(m, out) == /\ at' = [at EXCEPT ![m] = "done"]
                  /\ output' = [output EXCEPT ![m] = out]
                  /\ UNCHANGED tables

\* The batch goes on with the element it is at.
Answer_NoAdvance(m, rs) ==
    /\ responses' = [responses EXCEPT ![m] = @ \o rs]
    /\ at' = [at EXCEPT ![m] = "element"]
    /\ UNCHANGED next

\* Push a response and go on with the next element.
Answer(m, rs) ==
    /\ responses' = [responses EXCEPT ![m] = @ \o rs]
    /\ next' = [next EXCEPT ![m] = @ + 1]
    /\ at' = [at EXCEPT ![m] = "element"]

-----------------------------------------------------------------------------
\* The table that clones share is not copied.
Register_InPlace(name) ==
    /\ builder # 0 /\ registered < MaxRegistrations
    /\ registered' = registered + 1
    /\ heap' = [heap EXCEPT ![builder][name] = registered']
    /\ builder' = IF heap[builder][name] # 0 THEN 0 ELSE builder
    /\ UNCHANGED <<holds, promised, body, at, next, responses, output, ran>>

Live == {"new", "element", "handler"}
Shared == \E m \in Messages : at[m] \in Live /\ holds[m] = builder

\* register and register_with_context.
Register(name) ==
    /\ builder # 0 /\ registered < MaxRegistrations
    /\ registered' = registered + 1
    /\ LET new == [heap[builder] EXCEPT ![name] = registered']
       IN  heap' = IF Shared THEN Append(heap, new) ELSE [heap EXCEPT ![builder] = new]
    /\ builder' = IF heap[builder][name] # 0 THEN 0 ELSE
                  IF Shared THEN Len(heap) + 1 ELSE builder
    /\ UNCHANGED <<holds, promised, body, at, next, responses, output, ran>>

\* A connection or a task gets its clone of the router, and its message.
Clone(m) ==
    /\ builder # 0
    /\ at[m] = "unborn"
    /\ holds' = [holds EXCEPT ![m] = builder]
    /\ promised' = [promised EXCEPT ![m] = heap[builder]]
    /\ \E b \in Bodies[m] : body' = [body EXCEPT ![m] = b]
    /\ at' = [at EXCEPT ![m] = "new"]
    /\ UNCHANGED <<heap, builder, registered, next, responses, output, ran>>

\* handle_bytes: what cannot be dispatched is answered at once.
RejectBody(m) ==
    LET b == body[m]
        unusable == b.kind \in {"blank", "not_request"} \/ Oversized(b)
                    \/ (b.kind = "batch" /\ b.elements = <<>>)
    IN  /\ at[m] = "new"
        /\ unusable \/ b.kind = "not_json"
        /\ Return(m, Single(NullId, IF unusable THEN "invalid_request" ELSE "parse_error"))
        /\ UNCHANGED <<body, next, responses, ran>>

\* handle_bytes: the elements are dispatched one after the other.
AcceptBody(m) ==
    /\ at[m] = "new"
    /\ body[m].kind \in {"single", "batch"}
    /\ body[m].elements # <<>>
    /\ ~Oversized(body[m])
    /\ at' = [at EXCEPT ![m] = "element"]
    /\ UNCHANGED <<tables, body, next, responses, output, ran>>

\* handle_element: it is no Request.
RejectElement(m) ==
    /\ at[m] = "element"
    /\ next[m] <= Len(body[m].elements)
    /\ ~Element(m).valid
    /\ Answer(m, <<Response(NullId, "invalid_request")>>)
    /\ UNCHANGED <<tables, body, output, ran>>

\* The early return for an unknown notification forgets to advance.
UnknownMethod_Stuck(m) ==
    /\ at[m] = "element"
    /\ next[m] <= Len(body[m].elements)
    /\ Element(m).valid
    /\ Handler(m) = 0
    /\ IF IsNotification(Element(m)) THEN UNCHANGED <<at, next, responses>>
       ELSE Answer(m, <<Response(Element(m).id, "method_not_found")>>)
    /\ UNCHANGED <<tables, body, output, ran>>

\* handle_request: no such method; a notification is not told.
UnknownMethod(m) ==
    /\ at[m] = "element"
    /\ next[m] <= Len(body[m].elements)
    /\ Element(m).valid
    /\ Handler(m) = 0
    /\ Answer(m, IF IsNotification(Element(m)) THEN <<>>
                 ELSE <<Response(Element(m).id, "method_not_found")>>)
    /\ UNCHANGED <<tables, body, output, ran>>

\* handle_request: the handler's future is awaited.
CallHandler(m) ==
    /\ at[m] = "element"
    /\ next[m] <= Len(body[m].elements)
    /\ Element(m).valid
    /\ Handler(m) # 0
    /\ at' = [at EXCEPT ![m] = "handler"]
    /\ UNCHANGED <<tables, body, next, responses, output, ran>>

\* It returns a value or an error; that of a notification is discarded.
HandlerReturns(m, result) ==
    /\ at[m] = "handler"
    /\ ran' = [ran EXCEPT ![m] = Append(@, <<next[m], Handler(m), result>>)]
    /\ Answer(m, IF IsNotification(Element(m)) THEN <<>>
                 ELSE <<Response(Element(m).id, result)>>)
    /\ UNCHANGED <<tables, body, output>>

\* All elements are done.
ReturnOutput(m) ==
    /\ at[m] = "element"
    /\ next[m] > Len(body[m].elements)
    /\ Return(m, IF responses[m] = <<>> THEN Output("empty", <<>>)
                 ELSE Output(body[m].kind, responses[m]))
    /\ UNCHANGED <<body, next, responses, ran>>

\* The future is dropped while it awaits a handler: the adapter's connection is
\* gone, or the handler panicked.
DropFuture(m) ==
    /\ m \in Droppable
    /\ at[m] = "handler"
    /\ at' = [at EXCEPT ![m] = "dropped"]
    /\ UNCHANGED <<tables, body, next, responses, output, ran>>

Dispatch(m) ==
    \/ RejectBody(m) \/ AcceptBody(m) \/ RejectElement(m) \/ UnknownMethod(m)
    \/ CallHandler(m) \/ ReturnOutput(m)
    \/ \E result \in Results : HandlerReturns(m, result)

\* Every message has been dealt with, or never comes.
Rest ==
    /\ \A m \in Messages : at[m] \in {"done", "dropped"} \/ (at[m] = "unborn" /\ builder = 0)
    /\ UNCHANGED vars

Next ==
    \/ \E name \in Methods : Register(name)
    \/ \E m \in Messages : Clone(m) \/ Dispatch(m) \/ DropFuture(m)
    \/ Rest

Spec == Init /\ [][Next]_vars

\* Futures are polled and handlers return.
FairSpec == Spec /\ \A m \in Messages : WF_vars(Dispatch(m))

-----------------------------------------------------------------------------
\* Every variable is in its range; a message has a table from its clone on,
\* and has pushed and run no more than it has gone through.
TypeOK ==
    /\ heap \in Seq([Methods -> 0..registered])
    /\ builder \in 0..Len(heap) /\ registered \in 0..MaxRegistrations
    /\ at \in [Messages -> {"unborn", "new", "element", "handler", "done", "dropped"}]
    /\ promised \in [Messages -> [Methods -> 0..registered]]
    /\ holds \in [Messages -> 0..Len(heap)]
    /\ DOMAIN body = Messages /\ next \in [Messages -> Nat \ {0}]
    /\ responses \in [Messages -> Seq(Responses)]
    /\ output \in [Messages -> Outputs]
    /\ ran \in [Messages -> Seq(Nat \X Nat \X Results)]
    /\ \A m \in Messages :
         /\ body[m] \in Bodies[m] \cup {NoBody}
         /\ (holds[m] = 0) <=> at[m] = "unborn"
         /\ next[m] <= Len(body[m].elements) + 1
         /\ at[m] = "handler" => next[m] <= Len(body[m].elements)
         /\ Len(responses[m]) < next[m] /\ Len(ran[m]) < next[m]
         /\ (output[m] = Pending) <=> at[m] # "done"

\* What the caller of element i of m is owed, given what its handler did.
Owed(m, i) ==
    LET e == body[m].elements[i]
        results == {r \in Results : <<i, promised[m][e.method], r>> \in Range(ran[m])}
    IN  CASE ~e.valid -> {Response(NullId, "invalid_request")}
          [] e.valid /\ e.id = NoId -> {}
          [] OTHER -> IF promised[m][e.method] # 0
                      THEN {Response(e.id, r) : r \in results}
                      ELSE {Response(e.id, "method_not_found")}

\* It is no notification: it has an id, or is not even a request.
WantsResponse(e) == ~e.valid \/ e.id # NoId

\* handle_bytes dispatches it, element by element.
Accepted(b) == b.kind \in {"single", "batch"} /\ b.elements # <<>> /\ ~Oversized(b)

\* "A batch yields an array (or nothing, if every entry was a notification)":
\* whatever elements fail, and whatever other messages are handled meanwhile,
\* the output of an accepted message answers every element but notifications,
\* once each, in the order of the elements, with its own id and the result of
\* its own handler; and nothing else.
AnswersEveryCall ==
    \A m \in Messages :
        at[m] = "done" /\ Accepted(body[m]) =>
        LET calls == {i \in DOMAIN body[m].elements : WantsResponse(body[m].elements[i])}
            rs == output[m].responses
        IN  /\ \E order \in [DOMAIN rs -> calls] :
                 /\ Enumerates(order, calls)
                 /\ \A k \in DOMAIN rs : {rs[k]} = Owed(m, order[k])
            /\ output[m].kind = IF calls = {} THEN "empty" ELSE body[m].kind

\* "Batch elements are dispatched sequentially, in order", by the handlers that
\* were registered when the router was cloned, whatever is registered, or
\* fails to be, on another clone meanwhile: each once, in the order of the
\* elements, also for notifications, none passed over.  And "a batch with more
\* than max entries is rejected up front with a single Invalid Request
\* response and no handlers run"; "single requests are unaffected".
RunsInOrder ==
    \A m \in Messages :
        LET elements == body[m].elements
            due == {j \in 1..(next[m] - 1) : /\ elements[j].valid
                                            /\ promised[m][elements[j].method] # 0}
        IN  /\ Enumerates([j \in DOMAIN ran[m] |-> ran[m][j][1]], due)
            /\ \A j \in DOMAIN ran[m] :
                 ran[m][j][2] = promised[m][elements[ran[m][j][1]].method]
            /\ Oversized(body[m]) =>
                 /\ ran[m] = <<>> /\ at[m] # "handler"
                 /\ at[m] = "done" => output[m] = Single(NullId, "invalid_request")
            /\ body[m].kind = "single" /\ at[m] = "done" =>
                 output[m] # Single(NullId, "invalid_request")

\* Every message is answered in the end, however many others are handled.
EveryMessageHandled ==
    \A m \in Messages : (at[m] = "new") ~> (at[m] \in {"done", "dropped"})
=============================================================================
