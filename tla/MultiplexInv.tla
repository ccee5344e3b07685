---------------------------- MODULE MultiplexInv ----------------------------
(***************************************************************************)
(* The inductive invariants behind the properties of Multiplex.  They say   *)
(* where the sender of a call is while its caller waits (MapInv), that ids  *)
(* and frames name one call (RouteInv), and that no part of a frame is      *)
(* written or decoded twice (OnceInv), nor between the parts of another     *)
(* frame (FrameInv).                                                        *)
(***************************************************************************)
EXTENDS Multiplex

\* Only calls in flight, still waiting, have an entry in the map.
MapEntries == \A c \in pending :
    pc[c] \in InFlight /\ chan[c] = "open" /\ idOf[c] # NoId

\* The map has one entry under a key.
MapKeys == \A c, d \in pending : idOf[c] = idOf[d] => c = d

\* The sender of a waiting call is in the map or in the reader's hand.
SenderHeld == \A c \in Calls : pc[c] \in InFlight =>
    \/ chan[c] \in {"sent", "dropped"}
    \/ chan[c] = "open" /\ (c \in pending \/ hand.call = c)

\* The reader holds the sender of a call it took out of the map, and a frame
\* with the id of that call.
HandHeld ==
    IF reader = "deliver"
    THEN /\ hand.call \in Calls \ pending
         /\ pc[hand.call] \in InFlight \cup {"done"}
         /\ hand.frame.id = idOf[hand.call]
         /\ hand.frame.id # NoId
    ELSE hand.call = NoCall

\* What was sent into a channel has the id of its call.
SentHasId == \A c \in Calls : chan[c] = "sent" =>
    pc[c] # "idle" /\ got[c].id = idOf[c] /\ got[c].id # NoId

\* A reply is returned from a channel it was sent into.
ReplyWasSent == \A c \in Calls :
    outcome[c] = "reply" => pc[c] = "done" /\ chan[c] = "sent"

\* A call has no channel before it registers.
NoChannelYet == \A c \in Calls : pc[c] \in {"idle", "checked"} =>
    chan[c] = "none"

MapInv == /\ MapEntries /\ MapKeys /\ SenderHeld /\ HandHeld
          /\ SentHasId /\ ReplyWasSent /\ NoChannelYet

\* A call that has started has an id that IdGen handed out before,
IdsHandedOut == \A c \in Calls :
    IF pc[c] = "idle" THEN idOf[c] = NoId ELSE idOf[c] \in Nat /\ idOf[c] < nextId

\* and no two calls share one.
IdsDiffer == \A c, d \in Calls : idOf[c] = idOf[d] /\ idOf[c] # NoId => c = d

\* A frame answers a call the peer has executed, under its id, or no call.
Answers(f) == \/ f.for = NoCall /\ f.id \notin Nat
              \/ f.for \in Calls /\ f.id = idOf[f.for] /\ execs[f.for] = 1

\* Every frame on its way to a caller does.
FramesAnswer == /\ \A k \in 1..Len(replies) : Answers(replies[k])
                /\ Answers(hand.frame)
                /\ \A c \in Calls : Answers(got[c])
                /\ \A c \in todo : execs[c] = 1

RouteInv == IdsHandedOut /\ IdsDiffer /\ FramesAnswer

\* A part of a frame is on the wire at most once,
PartsDistinct == \A j, k \in 1..Len(wire) : wire[j] = wire[k] => j = k

\* and only after its task has written it.
PartsWritten == \A k \in 1..Len(wire) : wire[k].part <= written[wire[k].task]

\* The end of a frame that the peer has executed is not on the wire any more.
ExecutedGone == \A k \in 1..Len(wire) :
    wire[k].task \in Calls /\ wire[k].part = FrameParts => execs[wire[k].task] = 0

\* A request is executed once, and only if it has been written to its end.
ExecutedOnce == \A c \in Calls :
    execs[c] = 0 \/ (execs[c] = 1 /\ written[c] = FrameParts)

\* Only a task that was given the writer lock has written.
WritersStarted == \A t \in Tasks :
    written[t] > 0 => pc[t] \in {"writing", "awaiting", "done"}

OnceInv == /\ PartsDistinct /\ PartsWritten /\ ExecutedGone
           /\ ExecutedOnce /\ WritersStarted

\* Only the reader's end drops the sender of a call that has no namesake.
ClosedInv == /\ \A c \in Calls : chan[c] = "dropped" => pc[c] = "done" \/ ~connected
             /\ reader \in {"clear", "exited"} => ~connected
             /\ ClosedMeansClosed

\* No future was dropped in the middle of its frame.
NoneTorn == \A t \in Tasks : outcome[t] = "cancelled" => written[t] \in {0, FrameParts}

\* A task writes only while it holds the writer lock.
LockHeld == \A t \in Tasks : pc[t] = "writing" => writer = t

\* A task that has returned is done, and only a future that may be dropped was.
ReturnIsLast == \A t \in Tasks :
    /\ outcome[t] # "none" => pc[t] = "done"
    /\ outcome[t] = "cancelled" => t \in Cancellable

\* What was written last is the latest part of the writer's frame, if it has
\* begun one, and else the end of a frame.
LastPart == wire # <<>> =>
    IF writer \in Tasks /\ written[writer] > 0
    THEN wire[Len(wire)] = [task |-> writer, part |-> written[writer]]
    ELSE wire[Len(wire)].part = FrameParts

\* Nothing is written once the peer has closed the connection.
FrameInv == /\ LockHeld /\ ReturnIsLast
            /\ NoneTorn => WholeFrames /\ (peer # "closed" => LastPart)

\* What the proofs are by induction on; RouteInv and ClosedInv where no id is
\* chosen by hand.
IndInv == TypeOK /\ MapInv /\ OnceInv /\ FrameInv /\ (RawIds = {} => RouteInv /\ ClosedInv)
=============================================================================
