----------------------------- MODULE Multiplex ------------------------------
(***************************************************************************)
(* MultiplexTransport (client/multiplex.rs): concurrent round_trip calls    *)
(* and notifications that share one framed connection.                      *)
(*                                                                          *)
(* A task is one future: a round_trip (Calls) or a send_notification        *)
(* (Notes).  Tasks run on different threads, so what a task does between    *)
(* two accesses to shared state is one step: the load of `connected`, the   *)
(* registration in the pending map, the acquisition of the writer lock,     *)
(* each piece of the frame that write_all hands to the socket, and the      *)
(* return.  The background reader is a process of its own; the socket and   *)
(* the peer behind it are the environment.                                  *)
(***************************************************************************)
EXTENDS Naturals, Sequences, FiniteSets

CONSTANTS
    Calls,        \* futures made by Client::call or round_trip_raw
    Notes,        \* futures made by Client::notify
    NoTask,       \* nobody holds the writer lock
    NoCall,       \* the reader holds no sender; a frame answers no call
    NoId,         \* what parse_id makes of a message without a usable id
    NullId,       \* the id `null`, which parse_id accepts
    RawIds,       \* ids that callers of round_trip_raw choose themselves
    Cancellable,  \* tasks whose future may be dropped before it is ready
    Endings,      \* how a connection may end: "closed", "half", "error"
    FrameParts,   \* write_all needs this many writes for a frame
    WireCap,      \* bound: frame parts between the writers and the peer
    ReplyCap,     \* bound: reply frames between the peer and the reader
    PeerWindow,   \* bound: requests the peer works on at the same time
    MaxStrays     \* bound: duplicate or unattributable replies of the peer

Tasks == Calls \cup Notes

ASSUME TaskAssumption ==
    /\ Calls \cap Notes = {}
    /\ NoTask \notin Tasks
    /\ NoCall \notin Calls
    /\ Cancellable \subseteq Tasks
ASSUME IdAssumption ==
    /\ {NoId, NullId} \cap Nat = {}
    /\ NoId # NullId
    /\ RawIds \subseteq Nat \cup {NoId, NullId}
ASSUME BoundAssumption ==
    /\ FrameParts \in Nat \ {0}
    /\ {WireCap, ReplyCap, PeerWindow, MaxStrays} \subseteq Nat
ASSUME EndingAssumption == Endings \subseteq {"closed", "half", "error"}

VARIABLES
    pc,         \* pc[t]: the await or access at which task t is
    outcome,    \* outcome[t]: what the future of t returned
    idOf,       \* idOf[c]: the id inside the request of c
    nextId,     \* IdGen: the next id to hand out
    connected,  \* the AtomicBool: TRUE while the reader is alive
    pending,    \* the calls whose sender is in the map, under key idOf[c]
    chan,       \* chan[c]: state of the oneshot channel of c
    got,        \* got[c]: the frame that was sent into chan[c]
    writer,     \* the holder of the writer lock
    written,    \* written[t]: parts of the frame of t written so far
    wire,       \* frame parts written and not yet decoded by the peer
    replies,    \* reply frames not yet decoded by the reader
    reader,     \* where reader_loop is
    hand,       \* the frame and the sender reader_loop holds
    peer,       \* the peer's end of the connection
    todo,       \* requests the peer has taken and not yet answered
    execs,      \* execs[c]: how often the peer took the request of c
    strays      \* duplicate or unattributable replies sent so far

taskVars == <<pc, outcome, idOf, nextId>>
mapVars  == <<pending, chan, got>>
sendVars == <<writer, written, wire>>
readVars == <<reader, hand, connected>>
peerVars == <<peer, todo, execs, strays>>
vars == <<taskVars, mapVars, sendVars, readVars, peerVars, replies>>

Ids == Nat \cup {NoId, NullId}
Reply == [id : Ids, for : Calls \cup {NoCall}]   \* for: the call it answers
Part  == [task : Tasks, part : 1..FrameParts]
NoFrame == [id |-> NoId, for |-> NoCall]
ErrorFrame == [id |-> NullId, for |-> NoCall]
AnswerTo(c) == [id |-> idOf[c], for |-> c]

InFlight == {"queued", "writing", "awaiting"}
Outcomes == {"none", "reply", "sent", "closed", "io", "missing_id", "cancelled"}

Init ==
    /\ pc = [t \in Tasks |-> "idle"]
    /\ outcome = [t \in Tasks |-> "none"]
    /\ idOf = [c \in Calls |-> NoId]
    /\ nextId = 1
    /\ connected = TRUE
    /\ pending = {}
    /\ chan = [c \in Calls |-> "none"]
    /\ got = [c \in Calls |-> NoFrame]
    /\ writer = NoTask
    /\ written = [t \in Tasks |-> 0]
    /\ wire = <<>>
    /\ replies = <<>>
    /\ reader = "recv"
    /\ hand = [frame |-> NoFrame, call |-> NoCall]
    /\ peer = "open"
    /\ todo = {}
    /\ execs = [c \in Calls |-> 0]
    /\ strays = 0

\* The entries of the pending map under id i: at most one, see TypeOK.
Under(i) == {d \in pending : idOf[d] = i}

\* The chan after the senders of the calls in D are dropped.
DropSenders(D) == [c \in Calls |-> IF c \in D THEN "dropped" ELSE chan[c]]

Finish(t, result) == /\ pc' = [pc EXCEPT ![t] = "done"]
                     /\ outcome' = [outcome EXCEPT ![t] = result]

-----------------------------------------------------------------------------
(* Tasks.                                                                   *)

\* First poll: the fail-fast check of `connected`, before anything else.
Check(t) ==
    /\ pc[t] = "idle"
    /\ IF connected
       THEN pc' = [pc EXCEPT ![t] = "checked"] /\ UNCHANGED outcome
       ELSE Finish(t, "closed")

\* Client::call: IdGen allocates the id just before round_trip is polled.
StartCall(c) ==
    /\ Check(c)
    /\ idOf' = [idOf EXCEPT ![c] = nextId]
    /\ nextId' = nextId + 1
    /\ UNCHANGED <<mapVars, sendVars, readVars, peerVars, replies>>

\* Client::round_trip_raw: the id is whatever the caller's message has.
StartRaw(c) ==
    /\ Check(c)
    /\ \E i \in RawIds : idOf' = [idOf EXCEPT ![c] = i]
    /\ UNCHANGED <<nextId, mapVars, sendVars, readVars, peerVars, replies>>

StartNote(n) ==
    /\ Check(n)
    /\ UNCHANGED <<idOf, nextId, mapVars, sendVars, readVars, peerVars, replies>>

\* parse_id of the request fails: nothing is registered.
RejectMissingId(c) ==
    /\ pc[c] = "checked"
    /\ idOf[c] = NoId
    /\ Finish(c, "missing_id")
    /\ UNCHANGED <<idOf, nextId, mapVars, sendVars, readVars, peerVars, replies>>

\* Fault: the waiter is not recorded before the frame is written.
Register_Late(c) ==
    /\ pc[c] = "checked"
    /\ idOf[c] # NoId
    /\ pc' = [pc EXCEPT ![c] = "queued"]
    /\ UNCHANGED <<outcome, idOf, nextId, mapVars, sendVars, readVars, peerVars, replies>>

\* Fault: `let _ = PendingGuard::new(..)`, a guard that is dropped at once.
Register_GuardDropped(c) ==
    /\ pc[c] = "checked"
    /\ idOf[c] # NoId
    /\ pending' = pending \ Under(idOf[c])
    /\ chan' = [DropSenders(Under(idOf[c])) EXCEPT ![c] = "dropped"]
    /\ pc' = [pc EXCEPT ![c] = "queued"]
    /\ UNCHANGED <<outcome, idOf, nextId, got, sendVars, readVars, peerVars, replies>>

\* Fault: a registration under an id in use is added beside the old one.
Register_KeepOld(c) ==
    /\ pc[c] = "checked"
    /\ idOf[c] # NoId
    /\ pending' = pending \cup {c}
    /\ chan' = [chan EXCEPT ![c] = "open"]
    /\ pc' = [pc EXCEPT ![c] = "queued"]
    /\ UNCHANGED <<outcome, idOf, nextId, got, sendVars, readVars, peerVars, replies>>

\* pending.insert, which drops the sender it replaces, and PendingGuard::new.
Register(c) ==
    /\ pc[c] = "checked"
    /\ idOf[c] # NoId
    /\ pending' = (pending \ Under(idOf[c])) \cup {c}
    /\ chan' = [DropSenders(Under(idOf[c])) EXCEPT ![c] = "open"]
    /\ pc' = [pc EXCEPT ![c] = "queued"]
    /\ UNCHANGED <<outcome, idOf, nextId, got, sendVars, readVars, peerVars, replies>>

\* A notification registers nothing and goes straight to the writer lock.
SkipRegister(n) ==
    /\ pc[n] = "checked"
    /\ pc' = [pc EXCEPT ![n] = "queued"]
    /\ UNCHANGED <<outcome, idOf, nextId, mapVars, sendVars, readVars, peerVars, replies>>

\* Fault: the frame is written without the writer lock.
Acquire_NoLock(t) ==
    /\ pc[t] = "queued"
    /\ writer' = t
    /\ pc' = [pc EXCEPT ![t] = "writing"]
    /\ UNCHANGED <<outcome, idOf, nextId, mapVars, written, wire, readVars, peerVars, replies>>

\* writer.lock().await
Acquire(t) ==
    /\ pc[t] = "queued"
    /\ writer = NoTask
    /\ writer' = t
    /\ pc' = [pc EXCEPT ![t] = "writing"]
    /\ UNCHANGED <<outcome, idOf, nextId, mapVars, written, wire, readVars, peerVars, replies>>

\* Fault: write_all goes one write too far.
WritePart_OffByOne(t) ==
    /\ pc[t] = "writing"
    /\ written[t] <= FrameParts
    /\ peer # "closed"
    /\ Len(wire) < WireCap
    /\ wire' = Append(wire, [task |-> t, part |-> written[t] + 1])
    /\ written' = [written EXCEPT ![t] = @ + 1]
    /\ UNCHANGED <<taskVars, mapVars, writer, readVars, peerVars, replies>>

\* One write of write_all: it waits while the socket buffer is full.
WritePart(t) ==
    /\ pc[t] = "writing"
    /\ written[t] < FrameParts
    /\ peer # "closed"
    /\ Len(wire) < WireCap
    /\ wire' = Append(wire, [task |-> t, part |-> written[t] + 1])
    /\ written' = [written EXCEPT ![t] = @ + 1]
    /\ UNCHANGED <<taskVars, mapVars, writer, readVars, peerVars, replies>>

\* Fault: a frame is written a second time when in doubt about the first.
Written_Resend(t) ==
    /\ pc[t] = "writing"
    /\ written[t] = FrameParts
    /\ writer' = NoTask
    /\ \/ pc' = [pc EXCEPT ![t] = IF t \in Calls THEN "awaiting" ELSE "done"] /\ UNCHANGED written
       \/ pc' = [pc EXCEPT ![t] = "queued"] /\ written' = [written EXCEPT ![t] = 0]
    /\ UNCHANGED <<outcome, idOf, nextId, mapVars, wire, readVars, peerVars, replies>>

\* write_frame returns Ok and its MutexGuard is dropped.  A notification is
\* done; a call goes on to await its receiver.
Written(t) ==
    /\ pc[t] = "writing"
    /\ written[t] = FrameParts
    /\ writer' = NoTask
    /\ IF t \in Calls
       THEN pc' = [pc EXCEPT ![t] = "awaiting"] /\ UNCHANGED outcome
       ELSE Finish(t, "sent")
    /\ UNCHANGED <<idOf, nextId, mapVars, written, wire, readVars, peerVars, replies>>

\* PendingGuard::drop: remove whatever the map holds under this call's id.
GuardDrop(t) ==
    LET D == IF t \in Calls THEN Under(idOf[t]) ELSE {}
    IN  /\ pending' = pending \ D
        /\ chan' = DropSenders(D)
        /\ UNCHANGED got

\* The socket reports an error: `?` returns it, dropping lock and guard.
WriteFail(t) ==
    /\ pc[t] = "writing"
    /\ written[t] < FrameParts
    /\ peer = "closed"
    /\ writer' = NoTask
    /\ GuardDrop(t)
    /\ Finish(t, "io")
    /\ UNCHANGED <<idOf, nextId, written, wire, readVars, peerVars, replies>>

\* rx.await is ready with the reply; the guard is disarmed.
ReturnReply(c) ==
    /\ pc[c] = "awaiting"
    /\ chan[c] = "sent"
    /\ Finish(c, "reply")
    /\ UNCHANGED <<idOf, nextId, mapVars, sendVars, readVars, peerVars, replies>>

\* rx.await is ready with an error because the sender was dropped.
ReturnClosed(c) ==
    /\ pc[c] = "awaiting"
    /\ chan[c] = "dropped"
    /\ Finish(c, "closed")
    /\ UNCHANGED <<idOf, nextId, mapVars, sendVars, readVars, peerVars, replies>>

\* The future is dropped at an await, by Client's timeout or by its caller.
Cancel(t) ==
    /\ t \in Cancellable
    /\ pc[t] \in InFlight
    /\ writer' = IF writer = t THEN NoTask ELSE writer
    /\ GuardDrop(t)
    /\ Finish(t, "cancelled")
    /\ UNCHANGED <<idOf, nextId, written, wire, readVars, peerVars, replies>>

-----------------------------------------------------------------------------
(* reader_loop.                                                             *)

\* Fault: replies are matched by arrival, not by id.
ReaderTake_AnyWaiter ==
    /\ reader = "recv"
    /\ replies # <<>>
    /\ replies' = Tail(replies)
    /\ \E c \in pending : /\ pending' = pending \ {c}
                          /\ hand' = [frame |-> Head(replies), call |-> c]
    /\ reader' = "deliver"
    /\ UNCHANGED <<taskVars, chan, got, sendVars, connected, peerVars>>

\* Fault: the reader shares a lock with the writers.
ReaderTake_NeedsWriter ==
    /\ reader = "recv"
    /\ replies # <<>>
    /\ writer = NoTask
    /\ replies' = Tail(replies)
    /\ LET f == Head(replies)
           D == IF f.id = NoId THEN {} ELSE Under(f.id)
       IN  /\ pending' = pending \ D
           /\ IF D = {}
              THEN UNCHANGED <<reader, hand>>
              ELSE /\ reader' = "deliver"
                   /\ \E c \in D : hand' = [frame |-> f, call |-> c]
    /\ UNCHANGED <<taskVars, chan, got, sendVars, connected, peerVars>>

\* A frame arrives: look its id up and remove the sender from the map.  A
\* frame without an id, or with one nobody waits for, is dropped.
ReaderTake ==
    /\ reader = "recv"
    /\ replies # <<>>
    /\ replies' = Tail(replies)
    /\ LET f == Head(replies)
           D == IF f.id = NoId THEN {} ELSE Under(f.id)
       IN  /\ pending' = pending \ D
           /\ IF D = {}
              THEN UNCHANGED <<reader, hand>>
              ELSE /\ reader' = "deliver"
                   /\ \E c \in D : hand' = [frame |-> f, call |-> c]
    /\ UNCHANGED <<taskVars, chan, got, sendVars, connected, peerVars>>

\* tx.send(frame), outside the map's lock; the receiver may be gone.
ReaderDeliver ==
    /\ reader = "deliver"
    /\ LET c == hand.call
       IN  IF pc[c] = "done"
           THEN UNCHANGED <<chan, got>>
           ELSE /\ chan' = [chan EXCEPT ![c] = "sent"]
                /\ got' = [got EXCEPT ![c] = hand.frame]
    /\ reader' = "recv"
    /\ hand' = [frame |-> NoFrame, call |-> NoCall]
    /\ UNCHANGED <<taskVars, pending, sendVars, connected, peerVars, replies>>

\* EOF after the last frame, or a framing or I/O error at any moment.
ReaderStop ==
    /\ reader = "recv"
    /\ \/ replies = <<>> /\ peer \in {"half", "closed"}
       \/ "error" \in Endings
    /\ connected' = FALSE
    /\ reader' = "clear"
    /\ UNCHANGED <<taskVars, mapVars, sendVars, hand, peerVars, replies>>

\* pending.clear(), a second critical section, and return.
ReaderClear ==
    /\ reader = "clear"
    /\ chan' = DropSenders(pending)
    /\ pending' = {}
    /\ reader' = "exited"
    /\ UNCHANGED <<taskVars, got, sendVars, hand, connected, peerVars, replies>>

-----------------------------------------------------------------------------
(* The peer: a server that frames its messages like the client does.        *)

WholeFrameArrived ==
    /\ Len(wire) >= FrameParts
    /\ \A k \in 1..FrameParts : wire[k] = [task |-> wire[1].task, part |-> k]

\* The first message ends at part e, the first last part of a frame.
MessageEndsAt(e) ==
    /\ wire[e].part = FrameParts
    /\ \A k \in 1..(e - 1) : wire[k].part # FrameParts

\* The peer decodes one whole frame.  A request waits for its answer, unless
\* the peer can no longer send any.
PeerRead ==
    /\ peer # "closed"
    /\ Cardinality(todo) < PeerWindow
    /\ WholeFrameArrived
    /\ LET t == wire[1].task
       IN  /\ execs' = IF t \in Calls THEN [execs EXCEPT ![t] = @ + 1] ELSE execs
           /\ todo' = IF t \in Calls /\ peer = "open" THEN todo \cup {t} ELSE todo
    /\ wire' = SubSeq(wire, FrameParts + 1, Len(wire))
    /\ UNCHANGED <<taskVars, mapVars, writer, written, readVars, peer, strays, replies>>

\* The peer decodes what a cancelled write and its successor left on the
\* wire: one unparsable message, answered with an error that has a null id.
PeerReject ==
    /\ peer # "closed"
    /\ ~WholeFrameArrived
    /\ Len(replies) < ReplyCap
    /\ \E e \in 1..Len(wire) : /\ MessageEndsAt(e)
                              /\ wire' = SubSeq(wire, e + 1, Len(wire))
    /\ replies' = IF peer = "open" THEN Append(replies, ErrorFrame) ELSE replies
    /\ UNCHANGED <<taskVars, mapVars, writer, written, readVars, peerVars>>

\* The peer answers any request it works on: replies may overtake each other.
PeerReply(c) ==
    /\ peer = "open"
    /\ c \in todo
    /\ Len(replies) < ReplyCap
    /\ replies' = Append(replies, AnswerTo(c))
    /\ todo' = todo \ {c}
    /\ UNCHANGED <<taskVars, mapVars, sendVars, readVars, peer, execs, strays>>

\* A second copy of an answer, or a message that has no id.
PeerStray ==
    /\ peer = "open"
    /\ strays < MaxStrays
    /\ Len(replies) < ReplyCap
    /\ \/ \E f \in {NoFrame, ErrorFrame} : replies' = Append(replies, f)
       \/ \E c \in Calls : /\ execs[c] > 0
                           /\ replies' = Append(replies, AnswerTo(c))
    /\ strays' = strays + 1
    /\ UNCHANGED <<taskVars, mapVars, sendVars, readVars, peer, todo, execs>>

\* The peer shuts down its sending direction, or closes the connection.
PeerEnd ==
    /\ \/ peer = "open" /\ "half" \in Endings /\ peer' = "half"
       \/ peer # "closed" /\ "closed" \in Endings /\ peer' = "closed"
    /\ todo' = {}
    /\ UNCHANGED <<taskVars, mapVars, sendVars, readVars, execs, strays, replies>>

\* Every future has returned and nothing is left to move: the system rests.
Rest == /\ \A t \in Tasks : pc[t] = "done"
        /\ UNCHANGED vars

-----------------------------------------------------------------------------
CallStep(c) == \/ StartCall(c) \/ StartRaw(c) \/ RejectMissingId(c) \/ Register(c)
               \/ ReturnReply(c) \/ ReturnClosed(c)
NoteStep(n) == StartNote(n) \/ SkipRegister(n)
SendStep(t) == Acquire(t) \/ WritePart(t) \/ Written(t) \/ WriteFail(t) \/ Cancel(t)
ReaderStep  == ReaderTake \/ ReaderDeliver \/ ReaderStop \/ ReaderClear
PeerStep    == \/ PeerRead \/ PeerReject \/ PeerStray \/ PeerEnd
               \/ \E c \in Calls : PeerReply(c)

Next == \/ \E c \in Calls : CallStep(c)
        \/ \E n \in Notes : NoteStep(n)
        \/ \E t \in Tasks : SendStep(t)
        \/ ReaderStep
        \/ PeerStep
        \/ Rest

Spec == Init /\ [][Next]_vars

\* The runtime polls a future that can make progress, the reader task among
\* them, and the peer reads and answers.  Nothing obliges a caller to start
\* or to drop a future, nor the peer to send strays or to end the connection.
Progress(t) == \/ Acquire(t) \/ WritePart(t) \/ Written(t) \/ WriteFail(t)
               \/ t \in Calls /\ ( \/ RejectMissingId(t) \/ Register(t)
                                   \/ ReturnReply(t) \/ ReturnClosed(t) )
               \/ t \in Notes /\ SkipRegister(t)
Fairness == /\ \A t \in Tasks : WF_vars(Progress(t))
            /\ WF_vars(ReaderStep)
            /\ WF_vars(PeerRead)
            /\ WF_vars(PeerReject)
            /\ \A c \in Calls : WF_vars(PeerReply(c))
FairSpec == Spec /\ Fairness

-----------------------------------------------------------------------------
(* Properties.                                                              *)

\* Every variable stays in its range.
TypeOK ==
    /\ pc \in [Tasks -> {"idle", "checked", "done"} \cup InFlight]
    /\ outcome \in [Tasks -> Outcomes]
    /\ idOf \in [Calls -> Ids]
    /\ nextId \in Nat
    /\ connected \in BOOLEAN
    /\ pending \subseteq Calls
    /\ chan \in [Calls -> {"none", "open", "sent", "dropped"}]
    /\ got \in [Calls -> Reply]
    /\ writer \in Tasks \cup {NoTask}
    /\ written \in [Tasks -> 0..FrameParts]
    /\ wire \in Seq(Part)
    /\ replies \in Seq(Reply)
    /\ reader \in {"recv", "deliver", "clear", "exited"}
    /\ hand \in [frame : Reply, call : Calls \cup {NoCall}]
    /\ peer \in {"open", "half", "closed"}
    /\ todo \subseteq Calls
    /\ execs \in [Calls -> Nat]
    /\ strays \in Nat

\* A call that returns a reply returns the peer's answer to that call, however
\* replies, duplicates, cancelled calls and their late replies interleave:
\* reader_loop routes by id and IdGen never hands out an id twice.
ReplyIsOwn == \A c \in Calls : outcome[c] = "reply" => got[c].for = c

\* Even if callers pick colliding ids, a call gets a reply with its own id.
ReplyHasOwnId ==
    \A c \in Calls : outcome[c] = "reply" =>
        got[c].id = idOf[c] /\ got[c].id # NoId

\* PendingGuard: the map holds calls in flight only, one under an id, and so
\* stays bounded by their number on every exit path of round_trip.
PendingIsInFlight ==
    \A c \in pending : /\ pc[c] \in InFlight
                       /\ chan[c] = "open"
                       /\ Under(idOf[c]) = {c}

\* "Register the waiter BEFORE writing": from the first part of the frame on,
\* a call still waiting is in the map or in the reader's hand, so that no
\* reply to it is taken for a stray one.
RegisteredBeforeWritten ==
    \A c \in Calls : pc[c] \in InFlight /\ written[c] > 0 =>
        \/ chan[c] \in {"sent", "dropped"}
        \/ chan[c] = "open" /\ (c \in pending \/ hand.call = c)

\* ConnectionClosed is reported only when the reader has seen the connection
\* end, never because of what another call did.
ClosedMeansClosed ==
    \A t \in Tasks : outcome[t] = "closed" => ~connected

\* The writer lock keeps frames whole: on the wire each frame part is followed
\* by the next part of the same frame, and a last part by a first.
WholeFrames ==
    \A k \in 1..(Len(wire) - 1) :
        wire[k + 1] = IF wire[k].part = FrameParts
                      THEN [task |-> wire[k + 1].task, part |-> 1]
                      ELSE [wire[k] EXCEPT !.part = @ + 1]

\* round_trip and send_notification return, whatever the other tasks, the
\* reader and the peer do: "all waiters resolve [...] instead of hanging".
EveryTaskReturns ==
    \A t \in Tasks : (pc[t] # "idle") ~> (pc[t] = "done")

\* The contract of a transport, with ids that no two calls share.
phase == [c \in Calls |-> IF pc[c] = "idle" THEN "idle"
                          ELSE IF pc[c] = "done" THEN "settled" ELSE "issued"]
answer == [c \in Calls |-> IF outcome[c] = "reply" THEN got[c].for ELSE NoCall]
Contract == INSTANCE CallContract

\* Multiplexing implements the contract: the peer executes a call at most
\* once, and its caller gets that execution's answer or an error, once.
ImplementsContract == Contract!ContractSpec
=============================================================================
