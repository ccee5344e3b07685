--------------------------- MODULE WebSocketServe ---------------------------
(***************************************************************************)
(* serve_with_context_shutdown (integration/websocket.rs): one task that    *)
(* reads a message from a WebSocket, has a Router dispatch it, writes the   *)
(* reply and reads the next one, until the peer closes, the connection      *)
(* fails or the shutdown future has resolved.  Dispatch is module Router.   *)
(* Frames are whole messages (FragmentCollector); the socket holds a        *)
(* bounded number of unread frames each way and takes a frame whole or not  *)
(* at all.  read_frame answers pings and Close frames itself, so that it    *)
(* may be waiting to write.  One poll of the select is one step.            *)
(***************************************************************************)
EXTENDS Naturals, Sequences, Enumeration

CONSTANTS
    Messages, Bodies, Ids, NoId, NullId, Methods, NoLimit, MaxBatchLen, \* Router
    Droppable,
    Registered, \* the methods that have a handler
    Nothing,   \* no message is being served
    Chatty,    \* messages the peer sends again and again
    InboxCap,  \* bound: frames in the socket that the loop has not read
    OutboxCap, \* bound: frames in the socket that the peer has not read
    MaxExtras  \* bound: pings and repeated messages

ASSUME WsAssumption == /\ Nothing \notin Messages
                       /\ {"ping", "close"} \cap Messages = {}
                       /\ Chatty \subseteq Messages
                       /\ {InboxCap, OutboxCap} \subseteq Nat \ {0}
                       /\ MaxExtras \in Nat

VARIABLES
    body, at, next, responses, output, ran, \* Router's futures
    sent,      \* the messages the peer has sent, in order
    extras,    \* how many pings and repeated messages it has sent
    inbox,     \* frames that have arrived: messages, "ping", "close"
    loop,      \* where the serving task is
    serving,   \* the message it is dispatching or answering
    outbox,    \* frames written that the peer has not read
    answered,  \* the messages whose reply has been written, in order
    shutdown,  \* whether the shutdown future has resolved
    owed,      \* the messages that had arrived when it did
    cut,       \* history: the shutdown dropped read_frame while it was writing
    peer,      \* "open", "closing" once it sent Close, "gone"
    result     \* what the function returned, and why

routerVars == <<body, at, next, responses, output, ran>>
loopVars == <<loop, serving, answered, result>>
peerVars == <<sent, extras, peer>>
stopVars == <<shutdown, owed, cut>>
vars == <<routerVars, loopVars, peerVars, stopVars, inbox, outbox>>

HandlerOf(name) == IF name \in Registered THEN 1 ELSE 0

\* The router is borrowed for as long as the connection lasts, so its table
\* does not change.
R == INSTANCE Router WITH
        Bodies <- [m \in Messages |-> Bodies], MaxRegistrations <- 1,
        heap <- [i \in {1} |-> [name \in Methods |-> HandlerOf(name)]],
        builder <- 1, registered <- 1,
        holds <- [m \in Messages |-> 1],
        promised <- [m \in Messages |-> [name \in Methods |-> HandlerOf(name)]]

ASSUME WsRouterAssumption == R!RouterAssumption

Init ==
    /\ body \in [Messages -> Bodies]
    /\ at = [m \in Messages |-> "new"]
    /\ next = [m \in Messages |-> 1]
    /\ responses = [m \in Messages |-> <<>>]
    /\ output = [m \in Messages |-> R!Pending]
    /\ ran = [m \in Messages |-> <<>>]
    /\ sent = <<>> /\ extras = 0 /\ inbox = <<>> /\ peer = "open"
    /\ loop = "reading" /\ serving = Nothing
    /\ outbox = <<>> /\ answered = <<>>
    /\ shutdown = FALSE /\ owed = {} /\ cut = FALSE
    /\ result = "running"

Arrived == {inbox[i] : i \in DOMAIN inbox}
Return(why) == loop' = "returned" /\ result' = why
Room == Len(outbox) < OutboxCap

-----------------------------------------------------------------------------
\* Plausible bugs, each a variant of the definition it is named after.

\* select! without `biased`: either ready branch may be taken.
HonourShutdown_Unbiased ==
    /\ loop \in {"reading", "pong", "echo"}
    /\ shutdown
    /\ loop' = "closing"
    /\ cut' = (loop # "reading")
    /\ UNCHANGED <<routerVars, serving, answered, result, peerVars, shutdown, owed, inbox, outbox>>

\* The shutdown future is consumed by the first select! that polls it.
HonourShutdown_NotRepolled ==
    /\ loop = "reading" /\ inbox = <<>> /\ sent = <<>>
    /\ shutdown
    /\ loop' = "closing"
    /\ UNCHANGED <<routerVars, serving, answered, result, peerVars, stopVars, inbox, outbox>>

\* The reply is dropped when the socket is full.
WriteReply_Drops ==
    /\ loop = "writing"
    /\ peer # "gone"
    /\ outbox' = IF Room THEN Append(outbox, serving) ELSE outbox
    /\ answered' = IF serving \in Chatty \/ ~Room THEN answered
                   ELSE Append(answered, serving)
    /\ loop' = "reading" /\ serving' = Nothing
    /\ UNCHANGED <<routerVars, result, peerVars, stopVars, inbox>>

\* The pong is written with no regard for the socket's room.
WritePong_NoBackpressure ==
    /\ loop = "pong" /\ peer # "gone"
    /\ outbox' = Append(outbox, "pong")
    /\ loop' = "reading"
    /\ UNCHANGED <<routerVars, serving, answered, result, peerVars, stopVars, inbox>>

-----------------------------------------------------------------------------
\* The read branch of the select: a frame is there.  A message is dispatched.
ReadMessage ==
    /\ loop = "reading"
    /\ inbox # <<>> /\ Head(inbox) \in Messages
    /\ inbox' = Tail(inbox)
    /\ serving' = Head(inbox)
    /\ loop' = "dispatch"
    /\ UNCHANGED <<routerVars, answered, result, peerVars, stopVars, outbox>>

\* A ping or a Close frame: read_frame does not return before it has answered it.
ReadPing ==
    /\ loop = "reading"
    /\ inbox # <<>> /\ Head(inbox) = "ping"
    /\ inbox' = Tail(inbox)
    /\ loop' = "pong"
    /\ UNCHANGED <<routerVars, serving, answered, result, peerVars, stopVars, outbox>>

ReadClose ==
    /\ loop = "reading"
    /\ inbox # <<>> /\ Head(inbox) = "close"
    /\ inbox' = Tail(inbox)
    /\ loop' = "echo"
    /\ UNCHANGED <<routerVars, serving, answered, result, peerVars, stopVars, outbox>>

\* The pong has been written; read_frame goes on to the next frame.
WritePong ==
    /\ loop = "pong"
    /\ Room /\ peer # "gone"
    /\ outbox' = Append(outbox, "pong")
    /\ loop' = "reading"
    /\ UNCHANGED <<routerVars, serving, answered, result, peerVars, stopVars, inbox>>

\* The Close frame has been echoed and is returned: the loop ends.
WriteEcho ==
    /\ loop = "echo"
    /\ Room /\ peer # "gone"
    /\ outbox' = Append(outbox, "close")
    /\ Return("peer_closed")
    /\ UNCHANGED <<routerVars, serving, answered, peerVars, stopVars, inbox>>

\* What read_frame is obliged to send cannot be sent: it returns the error.
ObligedWriteFails ==
    /\ loop \in {"pong", "echo"}
    /\ peer = "gone"
    /\ Return("error")
    /\ UNCHANGED <<routerVars, serving, answered, peerVars, stopVars, inbox, outbox>>

\* The connection is gone: ConnectionClosed is a clean end, else an error.
ReadFails ==
    /\ loop = "reading"
    /\ inbox = <<>> /\ peer = "gone"
    /\ \E why \in {"peer_closed", "error"} : Return(why)
    /\ UNCHANGED <<routerVars, serving, answered, peerVars, stopVars, inbox, outbox>>

\* read_frame is Pending: nothing to read, or no room for what it must write.
ReadPending == IF loop = "reading" THEN inbox = <<>> ELSE ~Room

\* The shutdown branch, polled second.  read_frame is dropped where it waits,
\* and with it the pong or the Close frame it was about to write.
HonourShutdown ==
    /\ loop \in {"reading", "pong", "echo"}
    /\ shutdown
    /\ ReadPending
    /\ loop' = "closing"
    /\ cut' = (loop # "reading")
    /\ UNCHANGED <<routerVars, serving, answered, result, peerVars, shutdown, owed, inbox, outbox>>

\* The Close frame of the shutdown; whether it could be written is ignored.
WriteClose ==
    /\ loop = "closing"
    /\ \/ Room /\ peer # "gone" /\ outbox' = Append(outbox, "close")
       \/ peer = "gone" /\ UNCHANGED outbox
    /\ Return("shutdown")
    /\ UNCHANGED <<routerVars, serving, answered, peerVars, stopVars, inbox>>

\* handle_bytes_with_context is awaited; nothing else is polled meanwhile.
Dispatch ==
    /\ loop = "dispatch"
    /\ R!Dispatch(serving)
    /\ UNCHANGED <<loopVars, peerVars, stopVars, inbox, outbox>>

\* It has returned an Output: nothing to send, or a reply to write.
Dispatched ==
    /\ loop = "dispatch"
    /\ at[serving] = "done"
    /\ IF output[serving].kind = "empty"
       THEN loop' = "reading" /\ serving' = Nothing
       ELSE loop' = "writing" /\ UNCHANGED serving
    /\ UNCHANGED <<routerVars, answered, result, peerVars, stopVars, inbox, outbox>>

\* write_frame completes when the socket takes the frame.
WriteReply ==
    /\ loop = "writing"
    /\ Room /\ peer # "gone"
    /\ outbox' = Append(outbox, serving)
    /\ answered' = IF serving \in Chatty THEN answered ELSE Append(answered, serving)
    /\ loop' = "reading" /\ serving' = Nothing
    /\ UNCHANGED <<routerVars, result, peerVars, stopVars, inbox>>

WriteFails ==
    /\ loop = "writing"
    /\ peer = "gone"
    /\ Return("error")
    /\ UNCHANGED <<routerVars, serving, answered, peerVars, stopVars, inbox, outbox>>

\* The loop of serve_with_context, which has no shutdown branch.
ServeFrames == \/ ReadMessage \/ ReadPing \/ ReadClose \/ ReadFails
               \/ WritePong \/ WriteEcho \/ ObligedWriteFails
               \/ Dispatch \/ Dispatched \/ WriteReply \/ WriteFails

\* The loop of serve_with_context_shutdown.
Serve == ServeFrames \/ HonourShutdown \/ WriteClose

-----------------------------------------------------------------------------
\* The peer and the application.
PeerSends(m) ==
    /\ peer = "open" /\ loop # "returned"
    /\ \A i \in DOMAIN sent : sent[i] # m
    /\ Len(inbox) < InboxCap
    /\ inbox' = Append(inbox, m)
    /\ sent' = Append(sent, m)
    /\ UNCHANGED <<routerVars, loopVars, stopVars, extras, peer, outbox>>

OneExtra == extras < MaxExtras /\ extras' = extras + 1

\* A message like one that has been dealt with.
PeerSendsAgain(m) ==
    /\ peer = "open" /\ loop # "returned"
    /\ m \in Chatty /\ m # serving /\ at[m] = "done"
    /\ OneExtra
    /\ Len(inbox) < InboxCap
    /\ inbox' = Append(inbox, m)
    /\ at' = [at EXCEPT ![m] = "new"]
    /\ next' = [next EXCEPT ![m] = 1]
    /\ responses' = [responses EXCEPT ![m] = <<>>]
    /\ output' = [output EXCEPT ![m] = R!Pending]
    /\ ran' = [ran EXCEPT ![m] = <<>>]
    /\ UNCHANGED <<body, loopVars, sent, peer, stopVars, outbox>>

PeerPings ==
    /\ peer = "open" /\ loop # "returned"
    /\ OneExtra
    /\ Len(inbox) < InboxCap
    /\ inbox' = Append(inbox, "ping")
    /\ UNCHANGED <<routerVars, loopVars, sent, peer, stopVars, outbox>>

PeerCloses ==
    /\ peer = "open" /\ Len(inbox) < InboxCap /\ loop # "returned"
    /\ inbox' = Append(inbox, "close")
    /\ peer' = "closing"
    /\ UNCHANGED <<routerVars, loopVars, sent, extras, stopVars, outbox>>

PeerVanishes ==
    /\ peer # "gone" /\ loop # "returned"
    /\ peer' = "gone"
    /\ UNCHANGED <<routerVars, loopVars, sent, extras, stopVars, inbox, outbox>>

PeerReads ==
    /\ peer # "gone" /\ outbox # <<>>
    /\ outbox' = Tail(outbox)
    /\ UNCHANGED <<routerVars, loopVars, peerVars, stopVars, inbox>>

ShutdownResolves ==
    /\ ~shutdown /\ loop # "returned"
    /\ shutdown' = TRUE
    /\ owed' = ((Arrived \cup {serving}) \cap Messages) \ Chatty
    /\ UNCHANGED <<routerVars, loopVars, peerVars, cut, inbox, outbox>>

\* serve_with_context_shutdown has returned.
Rest == loop = "returned" /\ UNCHANGED vars

Next == \/ Serve \/ Rest
        \/ \E m \in Messages : PeerSends(m) \/ PeerSendsAgain(m)
        \/ PeerPings \/ PeerCloses \/ PeerVanishes \/ PeerReads
        \/ ShutdownResolves

Spec == Init /\ [][Next]_vars

\* The serving task is polled, handlers return, and the peer reads what it is
\* sent.  Neither the peer's sending nor the shutdown signal is assumed.
FairSpec == Spec /\ WF_vars(Serve) /\ WF_vars(PeerReads)

-----------------------------------------------------------------------------
TypeOK ==
    /\ R!TypeOK
    /\ sent \in Seq(Messages) /\ answered \in Seq(Messages)
    /\ extras \in 0..MaxExtras
    /\ Len(inbox) <= InboxCap /\ Arrived \subseteq Messages \cup {"ping", "close"}
    /\ loop \in {"reading", "pong", "echo", "dispatch", "writing", "closing", "returned"}
    /\ serving \in Messages \cup {Nothing}
    /\ loop \in {"dispatch", "writing"} => serving \in Messages
    /\ loop \in {"reading", "pong", "echo", "closing"} => serving = Nothing
    /\ (loop = "returned") <=> (result # "running")
    /\ Len(outbox) <= OutboxCap
    /\ {shutdown, cut} \subseteq BOOLEAN /\ owed \subseteq Messages
    /\ peer \in {"open", "closing", "gone"}
    /\ result \in {"running", "peer_closed", "shutdown", "error"}

\* m has been dispatched to its end, and its reply written if it has one.
Done(m) ==
    /\ at[m] = "done"
    /\ output[m].kind = "empty" \/ \E i \in DOMAIN answered : answered[i] = m

\* "A request already on the wire when shutdown fires is still answered": when
\* the function returns on account of the shutdown, it has answered every message
\* that had arrived by the time it resolved.  The one exception the code makes is
\* a message that is still unread, because the shutdown was polled while the pong
\* of an earlier ping waited for room; what has been read is always answered.
TakenIsAnswered ==
    result = "shutdown" => \A m \in owed : Done(m) \/ (cut /\ m \in Arrived)

\* A peer that pipelines its messages can match replies by position: one reply
\* for each message that has one, in the order the messages were sent, whatever
\* pings, shutdowns and failures come between.
RepliesInOrder ==
    LET replied == {i \in DOMAIN sent : /\ sent[i] \notin Chatty \cup {serving}
                                       /\ at[sent[i]] = "done"
                                       /\ output[sent[i]].kind # "empty"}
    IN  \E places \in [DOMAIN answered -> DOMAIN sent] :
            /\ Enumerates(places, replied)
            /\ \A k \in DOMAIN answered : answered[k] = sent[places[k]]

\* "Stops cleanly when shutdown resolves": the function returns.
ShutdownReturns == shutdown ~> loop = "returned"
=============================================================================
