-------------------------- MODULE MultiplexProofs ---------------------------
(* Theorems about Multiplex, for any number of calls and notifications, any  *)
(* ids of raw callers, any frame length and any capacities.                  *)
EXTENDS MultiplexInv, TLAPS

\* Every frame the peer may send is a reply.
LEMMA FramesAreReplies ==
    /\ NoFrame \in Reply /\ ErrorFrame \in Reply
    /\ TypeOK => \A c \in Calls : AnswerTo(c) \in Reply
BY DEF NoFrame, ErrorFrame, AnswerTo, Reply, Ids, TypeOK

\* The first poll leaves pc and outcome in range.
LEMMA CheckTypes ==
    ASSUME TypeOK, NEW t \in Tasks, Check(t)
    PROVE  /\ pc' \in [Tasks -> {"idle", "checked", "done"} \cup InFlight]
           /\ outcome' \in [Tasks -> Outcomes]
BY DEF TypeOK, Check, Finish, Outcomes, InFlight

\* Releasing the writer lock leaves pc and outcome in range.
LEMMA WrittenTypes ==
    ASSUME TypeOK, NEW t \in Tasks, Written(t)
    PROVE  /\ pc' \in [Tasks -> {"idle", "checked", "done"} \cup InFlight]
           /\ outcome' \in [Tasks -> Outcomes]
BY DEF TypeOK, Written, Finish, Outcomes, InFlight

\* Every reachable state of the transport has the declared types, whatever
\* the tasks, the reader and the peer do.
THEOREM TypeCorrect == Spec => []TypeOK
<1> USE TaskAssumption, IdAssumption, BoundAssumption
<1>1. Init => TypeOK
  BY DEF Init, TypeOK, Reply, Ids, NoFrame, Outcomes, Part
<1>2. TypeOK /\ [Next]_vars => TypeOK'
  <2> SUFFICES ASSUME TypeOK, [Next]_vars PROVE TypeOK'
    OBVIOUS
  <2> USE DEF TypeOK, InFlight, Outcomes, Tasks, taskVars, mapVars, sendVars,
              readVars, peerVars, vars
  <2>1. ASSUME NEW c \in Calls, StartCall(c) PROVE TypeOK'
    <3>1. nextId \in Ids /\ nextId' \in Nat
      BY <2>1 DEF StartCall, Ids
    <3>2. idOf' \in [Calls -> Ids]
      BY <2>1, <3>1 DEF StartCall
    <3>3. QED
      BY <2>1, <3>1, <3>2, CheckTypes DEF StartCall
  <2>2. ASSUME NEW c \in Calls, StartRaw(c) PROVE TypeOK'
    <3>1. idOf' \in [Calls -> Ids]
      BY <2>2 DEF StartRaw, Ids
    <3>2. QED
      BY <2>2, <3>1, CheckTypes DEF StartRaw
  <2>3. ASSUME NEW n \in Notes, StartNote(n) PROVE TypeOK'
    BY <2>3 DEF StartNote, Check, Finish
  <2>4. ASSUME NEW c \in Calls, RejectMissingId(c) PROVE TypeOK'
    BY <2>4 DEF RejectMissingId, Finish
  <2>5. ASSUME NEW c \in Calls, Register(c) PROVE TypeOK'
    BY <2>5 DEF Register, Under, DropSenders
  <2>6. ASSUME NEW n \in Notes, SkipRegister(n) PROVE TypeOK'
    BY <2>6 DEF SkipRegister
  <2>7. ASSUME NEW t \in Tasks, Acquire(t) PROVE TypeOK'
    BY <2>7 DEF Acquire
  <2>8. ASSUME NEW t \in Tasks, WritePart(t) PROVE TypeOK'
    <3>1. [task |-> t, part |-> written[t] + 1] \in Part
      BY <2>8 DEF WritePart, Part
    <3>2. QED
      BY SMTT(30), <2>8, <3>1 DEF WritePart
  <2>9. ASSUME NEW t \in Tasks, Written(t) PROVE TypeOK'
    BY <2>9, WrittenTypes DEF Written
  <2>10. ASSUME NEW t \in Tasks, WriteFail(t) PROVE TypeOK'
    BY <2>10 DEF WriteFail, Finish, GuardDrop, DropSenders, Under
  <2>11. ASSUME NEW c \in Calls, ReturnReply(c) PROVE TypeOK'
    BY <2>11 DEF ReturnReply, Finish
  <2>12. ASSUME NEW c \in Calls, ReturnClosed(c) PROVE TypeOK'
    BY <2>12 DEF ReturnClosed, Finish
  <2>13. ASSUME NEW t \in Tasks, Cancel(t) PROVE TypeOK'
    BY <2>13 DEF Cancel, Finish, GuardDrop, DropSenders, Under
  <2>14. CASE ReaderTake
    <3>1. Head(replies) \in Reply
      BY <2>14 DEF ReaderTake
    <3>2. pending' \subseteq Calls /\ reader' \in {"recv", "deliver", "clear", "exited"}
      BY <2>14 DEF ReaderTake
    <3>3. hand' \in [frame : Reply, call : Calls \cup {NoCall}]
      BY <2>14, <3>1 DEF ReaderTake, Under
    <3>4. QED
      BY <2>14, <3>2, <3>3 DEF ReaderTake
  <2>15. CASE ReaderDeliver
    <3>1. hand.frame \in Reply
      OBVIOUS
    <3>2. got' \in [Calls -> Reply]
      BY <2>15, <3>1 DEF ReaderDeliver
    <3>3. chan' \in [Calls -> {"none", "open", "sent", "dropped"}]
      BY <2>15 DEF ReaderDeliver
    <3>4. hand' \in [frame : Reply, call : Calls \cup {NoCall}]
      BY <2>15, FramesAreReplies DEF ReaderDeliver
    <3>5. QED
      BY <2>15, <3>2, <3>3, <3>4 DEF ReaderDeliver
  <2>16. CASE ReaderStop
    BY <2>16 DEF ReaderStop
  <2>17. CASE ReaderClear
    BY <2>17 DEF ReaderClear, DropSenders
  <2>18. CASE PeerRead
    <3>1. wire[1] \in Part
      BY <2>18 DEF PeerRead, WholeFrameArrived
    <3>2. wire' \in Seq(Part)
      BY <2>18 DEF PeerRead, WholeFrameArrived
    <3>3. wire[1].task \in Tasks
      BY <3>1 DEF Part
    <3>4. execs' \in [Calls -> Nat] /\ todo' \subseteq Calls
      BY SMTT(30), <2>18, <3>3 DEF PeerRead
    <3>5. QED
      BY <2>18, <3>2, <3>4 DEF PeerRead
  <2>19. CASE PeerReject
    <3>1. wire' \in Seq(Part)
      BY <2>19 DEF PeerReject
    <3>2. replies' \in Seq(Reply)
      BY <2>19, FramesAreReplies DEF PeerReject
    <3>3. QED
      BY <2>19, <3>1, <3>2 DEF PeerReject
  <2>20. ASSUME NEW c \in Calls, PeerReply(c) PROVE TypeOK'
    <3>1. replies' \in Seq(Reply)
      BY <2>20, FramesAreReplies DEF PeerReply
    <3>2. QED
      BY <2>20, <3>1 DEF PeerReply
  <2>21. CASE PeerStray
    <3>1. replies' \in Seq(Reply)
      <4>1. ASSUME NEW f \in Reply, replies' = Append(replies, f)
            PROVE replies' \in Seq(Reply)
        BY <4>1
      <4>2. QED
        BY <2>21, <4>1, FramesAreReplies DEF PeerStray
    <3>2. QED
      BY SMTT(30), <2>21, <3>1 DEF PeerStray
  <2>22. CASE PeerEnd
    BY <2>22 DEF PeerEnd
  <2>23. CASE UNCHANGED vars
    BY <2>23
  <2>24. QED
    BY <2>1, <2>2, <2>3, <2>4, <2>5, <2>6, <2>7, <2>8, <2>9, <2>10, <2>11, <2>12,
       <2>13, <2>14, <2>15, <2>16, <2>17, <2>18, <2>19, <2>20, <2>21, <2>22, <2>23
    DEF Next, CallStep, NoteStep, SendStep, ReaderStep, PeerStep, Rest
<1>3. QED
  BY <1>1, <1>2, PTL DEF Spec

-----------------------------------------------------------------------------
(* The pending map.                                                         *)

\* Every step keeps MapInv.
LEMMA MapInvStep ==
    ASSUME TypeOK, MapInv, [Next]_vars
    PROVE  MapInv'
<1> USE TaskAssumption, IdAssumption DEF MapInv, MapEntries, MapKeys, SenderHeld,
        HandHeld, SentHasId, ReplyWasSent, NoChannelYet, TypeOK, InFlight
<1>1. ASSUME NEW c \in Calls, StartCall(c) PROVE MapInv'
  BY <1>1 DEF StartCall, Check, Finish, mapVars, readVars, Tasks
<1>2. ASSUME NEW c \in Calls, StartRaw(c) PROVE MapInv'
  BY <1>2 DEF StartRaw, Check, Finish, mapVars, readVars, Tasks
<1>3. ASSUME NEW n \in Notes, StartNote(n) PROVE MapInv'
  <2>1. \A c \in Calls : pc'[c] = pc[c] /\ outcome'[c] = outcome[c]
    BY <1>3 DEF StartNote, Check, Finish, Tasks
  <2>2. QED
    <3>1. UNCHANGED <<pending, chan, got, idOf, reader, hand>>
      BY <1>3 DEF StartNote, mapVars, readVars
    <3>2. (MapEntries /\ MapKeys)'
      <4>1. \A c \in pending : c \in Calls /\ pc'[c] = pc[c]
        BY <2>1
      <4>2. MapEntries'
        BY <3>1, <4>1
      <4>3. QED
        BY <3>1, <4>2
    <3>3. SenderHeld'
      BY <2>1, <3>1
    <3>4. HandHeld'
      BY <2>1, <3>1
    <3>5. (SentHasId /\ ReplyWasSent /\ NoChannelYet)'
      BY <2>1, <3>1
    <3>6. QED
      BY <3>2, <3>3, <3>4, <3>5
<1>4. ASSUME NEW c \in Calls, RejectMissingId(c) PROVE MapInv'
  BY <1>4 DEF RejectMissingId, Finish, mapVars, readVars, Tasks
<1>5. ASSUME NEW c \in Calls, Register(c) PROVE MapInv'
  BY <1>5 DEF Register, Under, DropSenders, readVars, Tasks
<1>6. ASSUME NEW n \in Notes, SkipRegister(n) PROVE MapInv'
  BY <1>6 DEF SkipRegister, mapVars, readVars, Tasks
<1>7. ASSUME NEW t \in Tasks, Acquire(t) PROVE MapInv'
  BY <1>7 DEF Acquire, mapVars, readVars, Tasks
<1>8. ASSUME NEW t \in Tasks, WritePart(t) PROVE MapInv'
  BY <1>8 DEF WritePart, mapVars, readVars, taskVars
<1>9. ASSUME NEW t \in Tasks, Written(t) PROVE MapInv'
  <2>1. \A c \in Calls : /\ outcome'[c] = outcome[c]
                         /\ pc'[c] = IF c = t THEN "awaiting" ELSE pc[c]
    BY <1>9 DEF Written, Finish, Tasks
  <2>2. \A c \in Calls : c = t => pc[c] = "writing"
    BY <1>9 DEF Written
  <2>3. QED
    <3>1. (MapEntries /\ MapKeys)'
      BY <1>9, <2>1, <2>2 DEF Written, mapVars, readVars
    <3>2. SenderHeld'
      BY <1>9, <2>1, <2>2 DEF Written, mapVars, readVars
    <3>3. HandHeld'
      BY <1>9, <2>1, <2>2 DEF Written, mapVars, readVars
    <3>4. SentHasId'
      BY <1>9, <2>1, <2>2 DEF Written, mapVars, readVars
    <3>5. ReplyWasSent'
      BY <1>9, <2>1, <2>2 DEF Written, mapVars, readVars
    <3>6. NoChannelYet'
      BY <1>9, <2>1, <2>2 DEF Written, mapVars, readVars
    <3>7. QED
      BY <3>1, <3>2, <3>3, <3>4, <3>5, <3>6
<1>10. ASSUME NEW t \in Tasks, WriteFail(t) PROVE MapInv'
  BY <1>10 DEF WriteFail, Finish, GuardDrop, DropSenders, Under, readVars, Tasks
<1>11. ASSUME NEW c \in Calls, ReturnReply(c) PROVE MapInv'
  BY <1>11 DEF ReturnReply, Finish, mapVars, readVars, Tasks
<1>12. ASSUME NEW c \in Calls, ReturnClosed(c) PROVE MapInv'
  BY <1>12 DEF ReturnClosed, Finish, mapVars, readVars, Tasks
<1>13. ASSUME NEW t \in Tasks, Cancel(t) PROVE MapInv'
  BY <1>13 DEF Cancel, Finish, GuardDrop, DropSenders, Under, readVars, Tasks
<1>14. CASE ReaderTake
  <2> DEFINE f == Head(replies)
  <2>1. CASE f.id = NoId \/ Under(f.id) = {}
    BY <1>14, <2>1 DEF ReaderTake, taskVars
  <2>2. CASE f.id # NoId /\ Under(f.id) # {}
    <3>1. PICK c \in Under(f.id) : hand' = [frame |-> f, call |-> c]
      BY <1>14, <2>2 DEF ReaderTake
    <3>2. Under(f.id) = {c} /\ c \in pending /\ idOf[c] = f.id
      BY <3>1 DEF Under
    <3>3. pending' = pending \ {c} /\ reader' = "deliver"
      BY <1>14, <2>2, <3>2 DEF ReaderTake
    <3>4. UNCHANGED <<pc, outcome, idOf, chan, got>>
      BY <1>14 DEF ReaderTake, taskVars
    <3>5. hand'.call = c /\ hand'.frame = f
      BY <3>1
    <3>6. (MapEntries /\ MapKeys)'
      BY <3>3, <3>4
    <3>7. SenderHeld'
      <4>1. reader = "recv"
        BY <1>14 DEF ReaderTake
      <4>2. QED
        BY <3>2, <3>3, <3>4, <3>5, <4>1
    <3>8. HandHeld'
      BY <2>2, <3>2, <3>3, <3>4, <3>5
    <3>9. (SentHasId /\ ReplyWasSent /\ NoChannelYet)'
      BY <3>4
    <3>10. QED
      BY <3>6, <3>7, <3>8, <3>9
  <2>3. QED
    BY <2>1, <2>2
<1>15. CASE ReaderDeliver
  BY SMTT(30), <1>15 DEF ReaderDeliver, taskVars
<1>16. CASE ReaderStop
  BY <1>16 DEF ReaderStop, taskVars, mapVars
<1>17. CASE ReaderClear
  BY <1>17 DEF ReaderClear, DropSenders, taskVars
<1>18. CASE PeerStep
  BY <1>18 DEF PeerStep, PeerRead, PeerReject, PeerReply, PeerStray, PeerEnd,
               taskVars, mapVars, readVars
<1>19. CASE UNCHANGED vars
  BY <1>19 DEF vars, taskVars, mapVars, readVars
<1>20. QED
  BY <1>1, <1>2, <1>3, <1>4, <1>5, <1>6, <1>7, <1>8, <1>9, <1>10, <1>11, <1>12,
     <1>13, <1>14, <1>15, <1>16, <1>17, <1>18, <1>19
  DEF Next, CallStep, NoteStep, SendStep, ReaderStep, Rest

\* It holds in every state.
LEMMA MapInvAlways == Spec => []MapInv
<1>1. Init => MapInv
  BY DEF Init, MapInv, MapEntries, MapKeys, SenderHeld, HandHeld, SentHasId,
         ReplyWasSent, NoChannelYet, InFlight, Tasks
<1>2. TypeOK /\ MapInv /\ [Next]_vars => MapInv'
  BY MapInvStep
<1>3. QED
  BY <1>1, <1>2, TypeCorrect, PTL DEF Spec

\* PendingGuard keeps its word for any ids: on every path out of round_trip,
\* a dropped future included, the map is left with calls in flight only.
THEOREM PendingBounded == Spec => []PendingIsInFlight
<1>1. TypeOK /\ MapInv => PendingIsInFlight
  BY DEF TypeOK, MapInv, MapEntries, MapKeys, PendingIsInFlight, Under
<1>2. QED
  BY <1>1, TypeCorrect, MapInvAlways, PTL

\* "Register the waiter BEFORE writing", for any ids: no part of a frame is on
\* the wire before the sender of its call is where the reader finds it.
THEOREM WaiterIsRegistered == Spec => []RegisteredBeforeWritten
<1>1. MapInv => RegisteredBeforeWritten
  BY DEF MapInv, SenderHeld, RegisteredBeforeWritten
<1>2. QED
  BY <1>1, MapInvAlways, PTL

\* reader_loop routes by id: even where callers choose colliding ids, a call
\* is given no reply but one with its own id.
THEOREM RoutedById == Spec => []ReplyHasOwnId
<1>1. MapInv => ReplyHasOwnId
  BY DEF MapInv, SentHasId, ReplyWasSent, ReplyHasOwnId
<1>2. QED
  BY <1>1, MapInvAlways, PTL

-----------------------------------------------------------------------------
(* The wire.                                                                *)

\* A step that moves no frame keeps OnceInv if no task that has begun to
\* write goes back to an earlier place.
LEMMA OnceInvFrame ==
    ASSUME OnceInv, UNCHANGED <<wire, written, execs>>,
           \A t \in Tasks : pc[t] \in {"writing", "awaiting", "done"}
                               => pc'[t] \in {"writing", "awaiting", "done"}
    PROVE  OnceInv'
BY DEF OnceInv, PartsDistinct, PartsWritten, ExecutedGone, ExecutedOnce, WritersStarted

\* One part of a frame is written.
LEMMA OnceInvWrite ==
    ASSUME TypeOK, OnceInv, NEW t \in Tasks, WritePart(t)
    PROVE  OnceInv'
<1> DEFINE p == [task |-> t, part |-> written[t] + 1]
<1> USE BoundAssumption
<1>1. /\ wire \in Seq(Part) /\ p \in Part /\ written[t] \in Nat
      /\ wire' = Append(wire, p) /\ UNCHANGED <<execs, pc>> /\ pc[t] = "writing"
  BY DEF WritePart, Part, peerVars, taskVars, TypeOK
<1>2. /\ Len(wire') = Len(wire) + 1 /\ Len(wire) \in Nat
      /\ wire'[Len(wire) + 1] = p
      /\ \A k \in 1..Len(wire) : wire'[k] = wire[k] /\ wire[k] \in Part
  BY <1>1
<1>3. /\ \A u \in Tasks : u # t => written'[u] = written[u]
      /\ written'[t] = written[t] + 1
  BY DEF WritePart, TypeOK
<1>4. \A k \in 1..Len(wire') :
         \/ k \in 1..Len(wire) /\ wire'[k] = wire[k]
         \/ k = Len(wire) + 1 /\ wire'[k] = p
  BY <1>2
<1>5. PartsDistinct'
  <2>1. \A k \in 1..Len(wire) : wire[k] # p
    <3> SUFFICES ASSUME NEW k \in 1..Len(wire), wire[k] = p PROVE FALSE
      OBVIOUS
    <3>1. wire[k].part <= written[wire[k].task]
      BY DEF OnceInv, PartsWritten
    <3>2. wire[k].part = written[t] + 1 /\ wire[k].task = t
      OBVIOUS
    <3>3. QED
      BY <1>1, <3>1, <3>2
  <2>2. QED
    BY <1>2, <1>4, <2>1 DEF OnceInv, PartsDistinct
<1>6. PartsWritten'
  <2> SUFFICES ASSUME NEW k \in 1..Len(wire')
               PROVE  wire'[k].part <= written'[wire'[k].task]
    BY DEF PartsWritten
  <2>1. CASE k \in 1..Len(wire) /\ wire'[k] = wire[k]
    <3>1. wire[k].part <= written[wire[k].task] /\ wire[k].task \in Tasks
      BY <1>2, <2>1 DEF OnceInv, PartsWritten, Part
    <3>2. wire[k].part \in Nat /\ written[wire[k].task] \in Nat
      BY SMTT(30), <1>2, <2>1, <3>1 DEF Part, TypeOK
    <3>3. written[wire[k].task] <= written'[wire[k].task]
      BY SMTT(30), <1>1, <1>3, <3>1, <3>2
    <3>4. written'[wire[k].task] \in Nat
      BY SMTT(30), <1>1, <1>3, <3>1, <3>2
    <3>5. QED
      BY <2>1, <3>1, <3>2, <3>3, <3>4
  <2>2. CASE k = Len(wire) + 1 /\ wire'[k] = p
    BY <1>1, <1>3, <2>2
  <2>3. QED
    BY <1>4, <2>1, <2>2
<1>7. t \in Calls => execs[t] = 0
  BY <1>1 DEF WritePart, OnceInv, ExecutedOnce, TypeOK
<1>8. ExecutedGone'
  BY <1>1, <1>4, <1>7 DEF OnceInv, ExecutedGone
<1>9. ExecutedOnce'
  BY <1>1, <1>3, <1>7 DEF OnceInv, ExecutedOnce, Tasks
<1>10. WritersStarted'
  BY <1>1, <1>3 DEF OnceInv, WritersStarted
<1>11. QED
  BY <1>5, <1>6, <1>8, <1>9, <1>10 DEF OnceInv

\* What holds of every part on the wire holds of the parts of a suffix.
LEMMA OnceInvDrop ==
    ASSUME TypeOK, OnceInv, NEW e \in 1..Len(wire),
           wire' = SubSeq(wire, e + 1, Len(wire)), UNCHANGED <<written, pc>>
    PROVE  /\ \A k \in 1..Len(wire') : k + e \in (e + 1)..Len(wire) /\ wire'[k] = wire[k + e]
           /\ PartsDistinct' /\ PartsWritten' /\ WritersStarted'
<1>1. /\ Len(wire) \in Nat /\ Len(wire') = Len(wire) - e
      /\ \A k \in 1..Len(wire') : wire'[k] = wire[k + e]
  BY DEF TypeOK
<1>2. \A k \in 1..Len(wire') : k + e \in (e + 1)..Len(wire) /\ k + e \in 1..Len(wire)
  BY <1>1
<1>3. PartsDistinct'
  <2> SUFFICES ASSUME NEW j \in 1..Len(wire'), NEW k \in 1..Len(wire'),
                      wire'[j] = wire'[k]
               PROVE  j = k
    BY DEF PartsDistinct
  <2>1. wire[j + e] = wire[k + e]
    BY <1>1
  <2>2. j + e = k + e
    BY <1>2, <2>1 DEF OnceInv, PartsDistinct
  <2>3. QED
    BY <1>1, <2>2
<1>4. PartsWritten'
  BY <1>1, <1>2 DEF OnceInv, PartsWritten
<1>5. WritersStarted'
  BY DEF OnceInv, WritersStarted
<1>6. QED
  BY <1>1, <1>2, <1>3, <1>4, <1>5

\* The server reads a frame.
LEMMA OnceInvRead ==
    ASSUME TypeOK, OnceInv, PeerRead
    PROVE  OnceInv'
<1> DEFINE t == wire[1].task
<1> USE BoundAssumption
<1>1. /\ wire \in Seq(Part) /\ Len(wire) \in Nat /\ FrameParts \in 1..Len(wire)
      /\ \A k \in 1..Len(wire) : wire[k] \in Part
  BY DEF PeerRead, WholeFrameArrived, TypeOK
<1>2. wire[FrameParts] = [task |-> t, part |-> FrameParts] /\ t \in Tasks
  <2>1. wire[1] \in Part
    BY <1>1
  <2>2. QED
    BY <1>1, <2>1 DEF PeerRead, WholeFrameArrived, Part
<1>3. UNCHANGED <<written, pc>> /\ wire' = SubSeq(wire, FrameParts + 1, Len(wire))
  BY DEF PeerRead, taskVars
<1>4. \A c \in Calls : execs'[c] = IF c = t THEN execs[c] + 1 ELSE execs[c]
  BY DEF PeerRead, TypeOK
<1>5. t \in Calls => execs[t] = 0 /\ written[t] = FrameParts
  <2>1. t \in Calls => execs[t] = 0
    BY <1>1, <1>2 DEF OnceInv, ExecutedGone
  <2>2. FrameParts <= written[t] /\ written[t] \in 0..FrameParts
    BY <1>1, <1>2 DEF OnceInv, PartsWritten, TypeOK
  <2>3. QED
    BY <2>1, <2>2
<1>6. /\ \A k \in 1..Len(wire') : /\ k + FrameParts \in (FrameParts + 1)..Len(wire)
                                  /\ wire'[k] = wire[k + FrameParts]
      /\ PartsDistinct' /\ PartsWritten' /\ WritersStarted'
  BY <1>1, <1>3, OnceInvDrop
<1>7. ExecutedGone'
  <2> SUFFICES ASSUME NEW k \in 1..Len(wire'), wire'[k].task \in Calls,
                      wire'[k].part = FrameParts
               PROVE  execs'[wire'[k].task] = 0
    BY DEF ExecutedGone
  <2> DEFINE j == k + FrameParts
  <2>1. j \in 1..Len(wire) /\ j # FrameParts /\ wire'[k] = wire[j] /\ wire[j] \in Part
    BY <1>1, <1>6
  <2>2. wire[j] # wire[FrameParts]
    BY <1>1, <2>1 DEF OnceInv, PartsDistinct
  <2>3. wire[j].task # t
    BY <1>2, <2>1, <2>2 DEF Part
  <2>4. execs[wire[j].task] = 0
    BY <2>1 DEF OnceInv, ExecutedGone
  <2>5. QED
    BY <1>4, <2>1, <2>3, <2>4
<1>8. ExecutedOnce'
  BY <1>3, <1>4, <1>5 DEF OnceInv, ExecutedOnce
<1>9. QED
  BY <1>6, <1>7, <1>8 DEF OnceInv

\* Every step keeps OnceInv.
LEMMA OnceInvStep ==
    ASSUME TypeOK, OnceInv, [Next]_vars
    PROVE  OnceInv'
<1> USE OnceInvFrame
<1>1. ASSUME NEW c \in Calls, CallStep(c) PROVE OnceInv'
  <2>1. UNCHANGED <<wire, written, execs>>
    BY <1>1 DEF CallStep, StartCall, StartRaw, RejectMissingId, Register, ReturnReply,
                ReturnClosed, sendVars, peerVars
  <2>2. \A t \in Tasks : pc[t] \in {"writing", "awaiting", "done"}
                            => pc'[t] \in {"writing", "awaiting", "done"}
    BY <1>1 DEF CallStep, StartCall, StartRaw, RejectMissingId, Register, ReturnReply,
                ReturnClosed, Check, Finish, TypeOK
  <2>3. QED
    BY <2>1, <2>2
<1>2. ASSUME NEW n \in Notes, NoteStep(n) PROVE OnceInv'
  <2>1. UNCHANGED <<wire, written, execs>>
    BY <1>2 DEF NoteStep, StartNote, SkipRegister, sendVars, peerVars
  <2>2. \A t \in Tasks : pc[t] \in {"writing", "awaiting", "done"}
                            => pc'[t] \in {"writing", "awaiting", "done"}
    BY <1>2 DEF NoteStep, StartNote, SkipRegister, Check, Finish, TypeOK
  <2>3. QED
    BY <2>1, <2>2
<1>3. ASSUME NEW t \in Tasks, Acquire(t) \/ Written(t) \/ WriteFail(t) \/ Cancel(t)
      PROVE  OnceInv'
  <2>1. UNCHANGED <<wire, written, execs>>
    BY <1>3 DEF Acquire, Written, WriteFail, Cancel, peerVars
  <2>2. \A u \in Tasks : pc[u] \in {"writing", "awaiting", "done"}
                            => pc'[u] \in {"writing", "awaiting", "done"}
    BY <1>3 DEF Acquire, Written, WriteFail, Cancel, Finish, TypeOK
  <2>3. QED
    BY <2>1, <2>2
<1>4. ASSUME NEW t \in Tasks, WritePart(t) PROVE OnceInv'
  BY <1>4, OnceInvWrite
<1>5. CASE ReaderStep
  BY <1>5 DEF ReaderStep, ReaderTake, ReaderDeliver, ReaderStop, ReaderClear,
              sendVars, peerVars, taskVars
<1>6. CASE PeerRead
  BY <1>6, OnceInvRead
<1>7. CASE PeerReject
  <2>1. PICK e \in 1..Len(wire) : wire' = SubSeq(wire, e + 1, Len(wire))
    BY <1>7 DEF PeerReject
  <2>2. UNCHANGED <<written, pc, execs>>
    BY <1>7 DEF PeerReject, taskVars, peerVars
  <2>3. /\ \A k \in 1..Len(wire') : k + e \in (e + 1)..Len(wire) /\ wire'[k] = wire[k + e]
        /\ PartsDistinct' /\ PartsWritten' /\ WritersStarted'
    BY <2>1, <2>2, OnceInvDrop
  <2>4. ExecutedGone'
    BY <2>1, <2>2, <2>3 DEF OnceInv, ExecutedGone
  <2>5. QED
    BY <2>2, <2>3, <2>4 DEF OnceInv, ExecutedOnce
<1>8. CASE PeerStray \/ PeerEnd \/ \E c \in Calls : PeerReply(c)
  BY <1>8 DEF PeerStray, PeerEnd, PeerReply, sendVars, taskVars
<1>9. CASE UNCHANGED vars
  BY <1>9 DEF vars, taskVars, sendVars, peerVars
<1>10. QED
  BY <1>1, <1>2, <1>3, <1>4, <1>5, <1>6, <1>7, <1>8, <1>9
  DEF Next, SendStep, PeerStep, Rest

\* It holds in every state.
LEMMA OnceInvAlways == Spec => []OnceInv
<1>1. Init => OnceInv
  BY DEF Init, OnceInv, PartsDistinct, PartsWritten, ExecutedGone, ExecutedOnce,
         WritersStarted, Tasks
<1>2. TypeOK /\ OnceInv /\ [Next]_vars => OnceInv'
  BY OnceInvStep
<1>3. QED
  BY <1>1, <1>2, TypeCorrect, PTL DEF Spec

-----------------------------------------------------------------------------
(* Routing, with ids from IdGen only.                                       *)

\* A call allocates its id when it starts, and no other step touches ids.
LEMMA IdsStep ==
    ASSUME RawIds = {}, TypeOK, RouteInv, [Next]_vars
    PROVE  IdsHandedOut' /\ IdsDiffer'
<1> USE IdAssumption DEF RouteInv, IdsHandedOut, IdsDiffer
<1>1. ASSUME NEW c \in Calls, StartCall(c) PROVE IdsHandedOut' /\ IdsDiffer'
  <2>1. /\ pc[c] = "idle" /\ nextId \in Nat /\ nextId' = nextId + 1
        /\ \A d \in Calls : idOf'[d] = IF d = c THEN nextId ELSE idOf[d]
        /\ \A d \in Calls : d # c => pc'[d] = pc[d]
        /\ pc'[c] # "idle"
    BY <1>1 DEF StartCall, Check, Finish, TypeOK, Tasks
  <2>2. IdsHandedOut'
    BY <2>1
  <2>3. \A d \in Calls : d # c => idOf[d] # nextId
    BY <2>1
  <2>4. IdsDiffer'
    BY <2>1, <2>3
  <2>5. QED
    BY <2>2, <2>4
<1>2. ASSUME NEW c \in Calls, StartRaw(c) PROVE FALSE
  BY <1>2 DEF StartRaw
<1>3. ASSUME UNCHANGED <<idOf, nextId>>, \A c \in Calls : pc[c] = "idle" <=> pc'[c] = "idle"
      PROVE  IdsHandedOut' /\ IdsDiffer'
  BY <1>3
<1>4. ASSUME NEW c \in Calls,
             RejectMissingId(c) \/ Register(c) \/ ReturnReply(c) \/ ReturnClosed(c)
      PROVE  IdsHandedOut' /\ IdsDiffer'
  BY <1>3, <1>4 DEF RejectMissingId, Register, ReturnReply, ReturnClosed, Finish, TypeOK, Tasks
<1>5. ASSUME NEW n \in Notes, NoteStep(n) PROVE IdsHandedOut' /\ IdsDiffer'
  <2>1. n \notin Calls
    BY TaskAssumption
  <2>2. \A c \in Calls : pc[c] = "idle" <=> pc'[c] = "idle"
    BY <1>5, <2>1 DEF NoteStep, StartNote, SkipRegister, Check, Finish, TypeOK, Tasks
  <2>3. UNCHANGED <<idOf, nextId>>
    BY <1>5 DEF NoteStep, StartNote, SkipRegister
  <2>4. QED
    BY <1>3, <2>2, <2>3
<1>6. ASSUME NEW t \in Tasks, SendStep(t) PROVE IdsHandedOut' /\ IdsDiffer'
  <2>1. UNCHANGED <<idOf, nextId>>
    BY <1>6 DEF SendStep, Acquire, WritePart, Written, WriteFail, Cancel, taskVars
  <2>2. \A c \in Calls : pc[c] = "idle" <=> pc'[c] = "idle"
    BY <1>6 DEF SendStep, Acquire, WritePart, Written, WriteFail, Cancel, Finish,
                taskVars, InFlight, TypeOK, Tasks
  <2>3. QED
    BY <1>3, <2>1, <2>2
<1>7. CASE ReaderStep \/ PeerStep \/ UNCHANGED vars
  BY <1>3, <1>7 DEF ReaderStep, ReaderTake, ReaderDeliver, ReaderStop, ReaderClear,
     PeerStep, PeerRead, PeerReject, PeerReply, PeerStray, PeerEnd, taskVars, vars
<1>8. QED
  BY <1>1, <1>2, <1>4, <1>5, <1>6, <1>7 DEF Next, CallStep, Rest

\* A request that was executed keeps its id, and stays executed.
LEMMA AnswersStep ==
    ASSUME TypeOK, OnceInv, OnceInv', [Next]_vars
    PROVE  \A c \in Calls : execs[c] = 1 => execs'[c] = 1 /\ idOf'[c] = idOf[c]
<1> SUFFICES ASSUME NEW c \in Calls, execs[c] = 1
             PROVE  execs'[c] = 1 /\ idOf'[c] = idOf[c]
  OBVIOUS
<1>1. pc[c] # "idle"
  BY BoundAssumption DEF OnceInv, ExecutedOnce, WritersStarted, Tasks
<1>2. ASSUME NEW d \in Calls, StartCall(d) \/ StartRaw(d)
      PROVE  execs'[c] = 1 /\ idOf'[c] = idOf[c]
  BY <1>1, <1>2 DEF StartCall, StartRaw, Check, peerVars, TypeOK
<1>3. CASE PeerRead
  <2>1. idOf'[c] = idOf[c] /\ (execs'[c] = execs[c] \/ execs'[c] = execs[c] + 1)
    BY <1>3 DEF PeerRead, taskVars, TypeOK
  <2>2. execs'[c] \in {0, 1}
    BY DEF OnceInv, ExecutedOnce
  <2>3. QED
    BY <2>1, <2>2
<1>4. ASSUME UNCHANGED <<idOf, execs>> PROVE execs'[c] = 1 /\ idOf'[c] = idOf[c]
  BY <1>4
<1>5. QED
  BY <1>2, <1>3, <1>4 DEF Next, CallStep, NoteStep, SendStep, ReaderStep, PeerStep, Rest,
     RejectMissingId, Register, ReturnReply, ReturnClosed, StartNote, SkipRegister,
     Acquire, WritePart, Written, WriteFail, Cancel, ReaderTake, ReaderDeliver,
     ReaderStop, ReaderClear, PeerReject, PeerReply, PeerStray, PeerEnd,
     taskVars, peerVars, vars

\* A frame on its way keeps answering its call, and new ones do from the start.
LEMMA FramesStep ==
    ASSUME TypeOK, OnceInv, OnceInv', FramesAnswer, [Next]_vars
    PROVE  FramesAnswer'
<1> DEFINE AnswersNow(f) == \/ f.for = NoCall /\ f.id \notin Nat
                            \/ f.for \in Calls /\ f.id = idOf'[f.for] /\ execs'[f.for] = 1
<1>1. \A f : Answers(f) => AnswersNow(f)
  BY AnswersStep DEF Answers
<1>2. AnswersNow(NoFrame) /\ AnswersNow(ErrorFrame)
  BY IdAssumption DEF NoFrame, ErrorFrame
<1>3. \A c \in Calls : execs[c] > 0 => execs[c] = 1 /\ AnswersNow(AnswerTo(c))
  BY AnswersStep DEF AnswerTo, OnceInv, ExecutedOnce, TypeOK
<1> HIDE DEF AnswersNow
<1>4. /\ \A k \in 1..Len(replies) : AnswersNow(replies[k])
      /\ AnswersNow(hand.frame)
      /\ \A c \in Calls : AnswersNow(got[c])
      /\ \A c \in todo : c \in Calls /\ execs[c] = 1 /\ execs'[c] = 1
  BY <1>1, AnswersStep DEF FramesAnswer, TypeOK
<1>5. \A k \in 1..Len(replies') : AnswersNow(replies'[k])
  <2>1. CASE UNCHANGED replies
    BY <1>4, <2>1
  <2>2. ASSUME NEW f, AnswersNow(f), replies' = Append(replies, f)
        PROVE  \A k \in 1..Len(replies') : AnswersNow(replies'[k])
    BY <1>4, <2>2 DEF TypeOK
  <2>3. CASE ReaderTake
    BY <1>4, <2>3 DEF ReaderTake, TypeOK
  <2>4. CASE PeerReject
    BY <1>2, <2>1, <2>2, <2>4 DEF PeerReject
  <2>5. ASSUME NEW c \in Calls, PeerReply(c)
        PROVE  \A k \in 1..Len(replies') : AnswersNow(replies'[k])
    BY <1>3, <1>4, <2>2, <2>5 DEF PeerReply
  <2>6. CASE PeerStray
    BY <1>2, <1>3, <2>2, <2>6 DEF PeerStray
  <2>7. QED
    BY <2>1, <2>3, <2>4, <2>5, <2>6
    DEF Next, CallStep, NoteStep, SendStep, ReaderStep, PeerStep, Rest, StartCall,
        StartRaw, RejectMissingId, Register, ReturnReply, ReturnClosed, StartNote,
        SkipRegister, Acquire, WritePart, Written, WriteFail, Cancel, ReaderDeliver,
        ReaderStop, ReaderClear, PeerRead, PeerEnd, vars
<1>6. AnswersNow(hand'.frame)
  <2>1. CASE UNCHANGED hand
    BY <1>4, <2>1
  <2>2. CASE ReaderTake
    <3>1. replies # <<>> => AnswersNow(Head(replies))
      BY <1>4 DEF TypeOK
    <3>2. QED
      BY <2>1, <2>2, <3>1 DEF ReaderTake
  <2>3. CASE ReaderDeliver
    BY <1>2, <2>3 DEF ReaderDeliver
  <2>4. QED
    BY <2>1, <2>2, <2>3
    DEF Next, CallStep, NoteStep, SendStep, ReaderStep, PeerStep, Rest, StartCall,
        StartRaw, RejectMissingId, Register, ReturnReply, ReturnClosed, StartNote,
        SkipRegister, Acquire, WritePart, Written, WriteFail, Cancel, ReaderStop,
        ReaderClear, PeerRead, PeerReject, PeerReply, PeerStray, PeerEnd, readVars, vars
<1>7. \A c \in Calls : AnswersNow(got'[c])
  <2>1. CASE UNCHANGED got
    BY <1>4, <2>1
  <2>2. CASE ReaderDeliver
    BY <1>4, <2>2 DEF ReaderDeliver, TypeOK
  <2>3. QED
    BY <2>1, <2>2
    DEF Next, CallStep, NoteStep, SendStep, ReaderStep, PeerStep, Rest, StartCall,
        StartRaw, RejectMissingId, Register, ReturnReply, ReturnClosed, StartNote,
        SkipRegister, Acquire, WritePart, Written, WriteFail, Cancel, GuardDrop,
        ReaderTake, ReaderStop, ReaderClear, PeerRead, PeerReject, PeerReply,
        PeerStray, PeerEnd, mapVars, vars
<1>8. \A c \in todo' : execs'[c] = 1
  <2>1. CASE todo' \subseteq todo
    BY <1>4, <2>1
  <2>2. CASE PeerRead
    <3>1. \A c \in todo' : c \in todo \/ (c \in Calls /\ execs'[c] = execs[c] + 1)
      BY <2>2 DEF PeerRead, TypeOK
    <3>2. \A c \in Calls : execs[c] \in Nat /\ execs'[c] \in {0, 1}
      BY DEF OnceInv, ExecutedOnce, TypeOK
    <3>3. QED
      BY <1>4, <3>1, <3>2
  <2>3. QED
    BY <2>1, <2>2
    DEF Next, CallStep, NoteStep, SendStep, ReaderStep, PeerStep, Rest, StartCall,
        StartRaw, RejectMissingId, Register, ReturnReply, ReturnClosed, StartNote,
        SkipRegister, Acquire, WritePart, Written, WriteFail, Cancel, ReaderTake,
        ReaderDeliver, ReaderStop, ReaderClear, PeerReject, PeerReply, PeerStray,
        PeerEnd, peerVars, vars
<1>9. QED
  BY <1>5, <1>6, <1>7, <1>8 DEF FramesAnswer, Answers, AnswersNow

\* It holds in every state, where ids come from IdGen.
LEMMA RouteInvAlways == ASSUME RawIds = {} PROVE Spec => []RouteInv
<1>1. Init => RouteInv
  BY IdAssumption DEF Init, RouteInv, IdsHandedOut, IdsDiffer, FramesAnswer, Answers,
                      NoFrame, Tasks
<1>2. TypeOK /\ OnceInv /\ OnceInv' /\ RouteInv /\ [Next]_vars => RouteInv'
  BY IdsStep, FramesStep DEF RouteInv
<1>3. QED
  BY <1>1, <1>2, TypeCorrect, OnceInvAlways, PTL DEF Spec

\* Correlation: with ids from IdGen, the reply that round_trip returns is the
\* peer's answer to that call, in every interleaving with other calls, late
\* replies of dropped futures, duplicates and frames without an id.
THEOREM Correlated == ASSUME RawIds = {} PROVE Spec => []ReplyIsOwn
<1>1. TypeOK /\ MapInv /\ RouteInv => ReplyIsOwn
  <2> SUFFICES ASSUME TypeOK, MapInv, RouteInv, NEW c \in Calls, outcome[c] = "reply"
               PROVE  got[c].for = c
    BY DEF ReplyIsOwn
  <2>1. chan[c] = "sent" /\ pc[c] # "idle"
    BY DEF MapInv, ReplyWasSent, SentHasId
  <2>2. got[c].id = idOf[c] /\ idOf[c] \in Nat
    BY <2>1 DEF MapInv, SentHasId, RouteInv, IdsHandedOut
  <2>3. got[c].for \in Calls /\ idOf[got[c].for] = idOf[c]
    BY <2>2 DEF RouteInv, FramesAnswer, Answers
  <2>4. QED
    BY <2>2, <2>3, IdAssumption DEF RouteInv, IdsDiffer
<1>2. QED
  BY <1>1, TypeCorrect, MapInvAlways, RouteInvAlways, PTL

-----------------------------------------------------------------------------
(* ConnectionClosed, with ids from IdGen only.                              *)

\* Every step keeps ClosedInv.
LEMMA ClosedInvStep ==
    ASSUME TypeOK, MapInv, RouteInv, ClosedInv, [Next]_vars
    PROVE  ClosedInv'
<1> USE DEF ClosedInv, ClosedMeansClosed, TypeOK
<1>1. \A c, d \in Calls : d \in Under(idOf[c]) => d = c /\ pc[c] \in InFlight
  BY DEF Under, MapInv, MapEntries, RouteInv, IdsDiffer
<1>2. ASSUME NEW c \in Calls, StartCall(c) \/ StartRaw(c) PROVE ClosedInv'
  BY <1>2 DEF StartCall, StartRaw, Check, Finish, mapVars, readVars, Tasks
<1>3. ASSUME NEW c \in Calls, RejectMissingId(c) PROVE ClosedInv'
  BY <1>3 DEF RejectMissingId, Finish, mapVars, readVars, Tasks
<1>4. ASSUME NEW c \in Calls, Register(c) PROVE ClosedInv'
  <2>1. Under(idOf[c]) = {}
    BY <1>1, <1>4 DEF Register, InFlight, Under
  <2>2. chan' = [chan EXCEPT ![c] = "open"]
    BY <1>4, <2>1 DEF Register, DropSenders
  <2>3. QED
    BY <1>4, <2>2 DEF Register, readVars, Tasks
<1>5. ASSUME NEW c \in Calls, ReturnReply(c) \/ ReturnClosed(c) PROVE ClosedInv'
  BY <1>5 DEF ReturnReply, ReturnClosed, Finish, mapVars, readVars, Tasks
<1>6. ASSUME NEW n \in Notes, NoteStep(n) PROVE ClosedInv'
  BY <1>6, TaskAssumption
  DEF NoteStep, StartNote, SkipRegister, Check, Finish, mapVars, readVars, Tasks
<1>7. ASSUME NEW t \in Tasks, Acquire(t) \/ WritePart(t) PROVE ClosedInv'
  BY <1>7 DEF Acquire, WritePart, taskVars, mapVars, readVars, Tasks
<1>8. ASSUME NEW t \in Tasks, Written(t) PROVE ClosedInv'
  BY <1>8 DEF Written, Finish, mapVars, readVars, Tasks
<1>9. ASSUME NEW t \in Tasks, WriteFail(t) \/ Cancel(t) PROVE ClosedInv'
  <2>1. \A c \in Calls : chan'[c] = chan[c] \/ c = t
    BY <1>1, <1>9 DEF WriteFail, Cancel, GuardDrop, DropSenders
  <2>2. QED
    BY <1>9, <2>1 DEF WriteFail, Cancel, Finish, readVars, Tasks
<1>10. CASE ReaderStep
  BY <1>10 DEF ReaderStep, ReaderTake, ReaderDeliver, ReaderStop, ReaderClear,
               DropSenders, taskVars, mapVars
<1>11. CASE PeerStep
  BY <1>11 DEF PeerStep, PeerRead, PeerReject, PeerReply, PeerStray, PeerEnd,
               taskVars, mapVars, readVars
<1>12. CASE UNCHANGED vars
  BY <1>12 DEF vars, taskVars, mapVars, readVars
<1>13. QED
  BY <1>2, <1>3, <1>4, <1>5, <1>6, <1>7, <1>8, <1>9, <1>10, <1>11, <1>12
  DEF Next, CallStep, SendStep, Rest

\* ConnectionClosed tells the truth: with ids from IdGen, a call or a
\* notification reports it only once the reader has seen the connection end.
THEOREM ClosedIsTrue == ASSUME RawIds = {} PROVE Spec => []ClosedMeansClosed
<1>1. Init => ClosedInv
  BY DEF Init, ClosedInv, ClosedMeansClosed
<1>2. TypeOK /\ MapInv /\ RouteInv /\ ClosedInv /\ [Next]_vars => ClosedInv'
  BY ClosedInvStep
<1>3. ClosedInv => ClosedMeansClosed
  BY DEF ClosedInv
<1>4. QED
  BY <1>1, <1>2, <1>3, TypeCorrect, MapInvAlways, RouteInvAlways, PTL DEF Spec

-----------------------------------------------------------------------------
(* Multiplex implements CallContract.                                       *)

PhaseOf(p) == IF p = "idle" THEN "idle" ELSE IF p = "done" THEN "settled" ELSE "issued"

\* The phase of every call, before and after a step.
LEMMA PhaseIs ==
    /\ phase = [c \in Calls |-> PhaseOf(pc[c])]
    /\ phase' = [c \in Calls |-> PhaseOf(pc'[c])]
BY DEF phase, PhaseOf

\* A step that moves no call across a phase, returns no reply and executes
\* nothing is a stutter of the contract.
LEMMA ContractStutter ==
    ASSUME UNCHANGED execs,
           \A c \in Calls : /\ PhaseOf(pc'[c]) = PhaseOf(pc[c])
                            /\ outcome'[c] = outcome[c]
                            /\ outcome[c] = "reply" => got'[c] = got[c]
    PROVE  UNCHANGED Contract!contractVars
<1>1. phase' = phase
  BY PhaseIs
<1>2. answer' = answer
  BY DEF answer
<1>3. QED
  BY <1>1, <1>2 DEF Contract!contractVars

\* A call that ends without a reply fails in the contract.
LEMMA ContractFail ==
    ASSUME TypeOK, NEW c \in Calls, pc[c] # "done", outcome[c] # "reply",
           NEW r \in Outcomes \ {"reply"}, Finish(c, r), UNCHANGED <<got, execs>>
    PROVE  Contract!Fail(c)
<1>1. pc' = [pc EXCEPT ![c] = "done"] /\ outcome' = [outcome EXCEPT ![c] = r]
  BY DEF Finish
<1>2. phase[c] \in {"idle", "issued"} /\ phase' = [phase EXCEPT ![c] = "settled"]
  BY <1>1, PhaseIs DEF PhaseOf, TypeOK, Tasks
<1>3. answer' = answer
  BY <1>1 DEF answer, TypeOK, Tasks
<1>4. QED
  BY <1>2, <1>3 DEF Contract!Fail

\* Every step is one of the contract's, or a stutter.
LEMMA ContractStep ==
    ASSUME TypeOK, MapInv, OnceInv, OnceInv', RouteInv, ReplyIsOwn, ReplyIsOwn', [Next]_vars
    PROVE  [Contract!Next]_(Contract!contractVars)
<1> DEFINE Goal == [Contract!Next]_(Contract!contractVars)
<1>1. ASSUME NEW c \in Calls, Contract!Issue(c) \/ Contract!Execute(c)
                              \/ Contract!Answer(c) \/ Contract!Fail(c)
      PROVE  Goal
  BY <1>1 DEF Contract!Next
<1>2. \A c \in Calls : outcome[c] = "reply" => pc[c] = "done"
  BY DEF MapInv, ReplyWasSent
<1>3. ASSUME NEW c \in Calls, StartCall(c) \/ StartRaw(c) PROVE Goal
  <2>1. pc[c] = "idle" /\ UNCHANGED <<got, execs>>
    BY <1>3 DEF StartCall, StartRaw, Check, mapVars, peerVars
  <2>2. CASE connected
    <3>1. pc' = [pc EXCEPT ![c] = "checked"] /\ outcome' = outcome
      BY <1>3, <2>2 DEF StartCall, StartRaw, Check
    <3>2. phase[c] = "idle" /\ phase' = [phase EXCEPT ![c] = "issued"]
      BY <2>1, <3>1, PhaseIs DEF PhaseOf, TypeOK, Tasks
    <3>3. answer' = answer
      BY <2>1, <3>1 DEF answer
    <3>4. Contract!Issue(c)
      BY <2>1, <3>2, <3>3 DEF Contract!Issue
    <3>5. QED
      BY <1>1, <3>4
  <2>3. CASE ~connected
    <3>1. Finish(c, "closed")
      BY <1>3, <2>3 DEF StartCall, StartRaw, Check
    <3>2. Contract!Fail(c)
      BY <1>2, <2>1, <3>1, ContractFail DEF Outcomes
    <3>3. QED
      BY <1>1, <3>2
  <2>4. QED
    BY <2>2, <2>3
<1>4. ASSUME NEW c \in Calls, RejectMissingId(c) \/ ReturnClosed(c) PROVE Goal
  <2>1. pc[c] # "done" /\ UNCHANGED <<got, execs>>
        /\ \E r \in Outcomes \ {"reply"} : Finish(c, r)
    BY <1>4 DEF RejectMissingId, ReturnClosed, mapVars, peerVars, Outcomes
  <2>2. Contract!Fail(c)
    BY <1>2, <2>1, ContractFail
  <2>3. QED
    BY <1>1, <2>2
<1>5. ASSUME NEW c \in Calls, ReturnReply(c) PROVE Goal
  <2>1. /\ pc[c] = "awaiting" /\ pc' = [pc EXCEPT ![c] = "done"]
        /\ outcome' = [outcome EXCEPT ![c] = "reply"] /\ UNCHANGED <<got, execs>>
    BY <1>5 DEF ReturnReply, Finish, mapVars, peerVars
  <2>2. got[c].for = c
    BY <2>1 DEF ReplyIsOwn, TypeOK, Tasks
  <2>3. execs[c] = 1
    BY <2>2, TaskAssumption DEF RouteInv, FramesAnswer, Answers
  <2>4. phase[c] = "issued" /\ phase' = [phase EXCEPT ![c] = "settled"]
    BY <2>1, PhaseIs DEF PhaseOf, TypeOK, Tasks
  <2>5. answer' = [answer EXCEPT ![c] = c]
    BY <2>1, <2>2 DEF answer, TypeOK, Tasks
  <2>6. Contract!Answer(c)
    BY <2>1, <2>3, <2>4, <2>5 DEF Contract!Answer
  <2>7. QED
    BY <1>1, <2>6
<1>6. ASSUME NEW c \in Calls, Register(c) PROVE Goal
  BY <1>6, ContractStutter DEF Register, peerVars, PhaseOf, TypeOK, Tasks
<1>7. ASSUME NEW n \in Notes, NoteStep(n) PROVE Goal
  BY <1>7, ContractStutter, TaskAssumption
  DEF NoteStep, StartNote, SkipRegister, Check, Finish, mapVars, peerVars, TypeOK, Tasks
<1>8. ASSUME NEW t \in Tasks, Acquire(t) \/ WritePart(t) PROVE Goal
  BY <1>8, ContractStutter
  DEF Acquire, WritePart, taskVars, mapVars, peerVars, PhaseOf, TypeOK, Tasks
<1>9. ASSUME NEW t \in Tasks, Written(t) PROVE Goal
  BY <1>9, ContractStutter
  DEF Written, Finish, mapVars, peerVars, PhaseOf, TypeOK, Tasks
<1>10. ASSUME NEW t \in Tasks, WriteFail(t) \/ Cancel(t) PROVE Goal
  <2>1. /\ pc[t] # "done" /\ UNCHANGED <<got, execs>>
        /\ \E r \in Outcomes \ {"reply"} : Finish(t, r)
    BY <1>10 DEF WriteFail, Cancel, GuardDrop, InFlight, peerVars, Outcomes
  <2>2. CASE t \in Calls
    <3>1. Contract!Fail(t)
      BY <1>2, <2>1, <2>2, ContractFail
    <3>2. QED
      BY <1>1, <2>2, <3>1
  <2>3. CASE t \notin Calls
    BY <2>1, <2>3, ContractStutter DEF Finish, TypeOK, Tasks
  <2>4. QED
    BY <2>2, <2>3
<1>11. CASE ReaderDeliver
  BY <1>2, <1>11, ContractStutter DEF ReaderDeliver, taskVars, peerVars, TypeOK
<1>12. CASE ReaderTake \/ ReaderStop \/ ReaderClear
  BY <1>12, ContractStutter DEF ReaderTake, ReaderStop, ReaderClear, taskVars, mapVars, peerVars
<1>13. CASE PeerRead
  <2> DEFINE t == wire[1].task
  <2>1. UNCHANGED <<pc, outcome, got>>
    BY <1>13 DEF PeerRead, taskVars, mapVars
  <2>2. CASE t \in Calls
    <3>1. execs' = [execs EXCEPT ![t] = @ + 1]
      BY <1>13, <2>2 DEF PeerRead
    <3>2. execs[t] = 0 /\ execs' = [execs EXCEPT ![t] = 1]
      <4>1. execs[t] \in Nat /\ execs'[t] = execs[t] + 1
        BY <2>2, <3>1 DEF TypeOK
      <4>2. execs'[t] \in {0, 1}
        BY <2>2 DEF OnceInv, ExecutedOnce
      <4>3. execs[t] = 0
        BY <4>1, <4>2
      <4>4. QED
        BY <2>2, <3>1, <4>3
    <3>3. pc'[t] # "idle"
      <4>1. execs'[t] = 1
        BY <2>2, <3>2 DEF TypeOK
      <4>2. written'[t] = FrameParts
        BY <2>2, <4>1 DEF OnceInv, ExecutedOnce
      <4>3. QED
        BY <2>2, <4>2, BoundAssumption DEF OnceInv, WritersStarted, Tasks
    <3>4. phase[t] # "idle"
      BY <2>1, <2>2, <3>3, PhaseIs DEF PhaseOf
    <3>5. UNCHANGED <<phase, answer>>
      BY <2>1 DEF phase, answer
    <3>6. Contract!Execute(t)
      BY <3>2, <3>4, <3>5 DEF Contract!Execute
    <3>7. QED
      BY <1>1, <2>2, <3>6
  <2>3. CASE t \notin Calls
    BY <1>13, <2>1, <2>3, ContractStutter DEF PeerRead
  <2>4. QED
    BY <2>2, <2>3
<1>14. CASE PeerReject \/ PeerStray \/ PeerEnd \/ \E c \in Calls : PeerReply(c)
  BY <1>14, ContractStutter
  DEF PeerReject, PeerStray, PeerEnd, PeerReply, taskVars, mapVars, peerVars
<1>15. CASE UNCHANGED vars
  BY <1>15, ContractStutter DEF vars, taskVars, mapVars, peerVars
<1>16. QED
  BY <1>3, <1>4, <1>5, <1>6, <1>7, <1>8, <1>9, <1>10, <1>11, <1>12, <1>13, <1>14, <1>15
  DEF Next, CallStep, SendStep, ReaderStep, PeerStep, Rest

\* With ids from IdGen, multiplexing over one connection keeps the contract of
\* a transport: each call is executed at most once and settled at most once,
\* by the answer of its own execution or by an error.
THEOREM Implements == ASSUME RawIds = {} PROVE Spec => ImplementsContract
<1>1. Init => Contract!Init
  BY DEF Init, Contract!Init, phase, answer, Tasks
<1>2. TypeOK /\ MapInv /\ OnceInv /\ OnceInv' /\ RouteInv /\ ReplyIsOwn /\ ReplyIsOwn'
        /\ [Next]_vars => [Contract!Next]_(Contract!contractVars)
  BY ContractStep
<1>3. QED
  BY <1>1, <1>2, TypeCorrect, MapInvAlways, OnceInvAlways, RouteInvAlways, Correlated, PTL
  DEF Spec, ImplementsContract, Contract!ContractSpec

-----------------------------------------------------------------------------
(* The writer lock.                                                         *)

\* The lock has one holder, and what has returned stays as it is.
LEMMA LockStep ==
    ASSUME TypeOK, LockHeld, ReturnIsLast, [Next]_vars
    PROVE  /\ LockHeld' /\ ReturnIsLast'
           /\ NoneTorn' => NoneTorn
<1> USE TaskAssumption DEF TypeOK, LockHeld, ReturnIsLast, NoneTorn
<1> DEFINE Goal == LockHeld' /\ ReturnIsLast' /\ (NoneTorn' => NoneTorn)
<1>1. ASSUME NEW c \in Calls, CallStep(c) PROVE Goal
  <2>1. UNCHANGED <<written, writer>> /\ c \in Tasks
    BY <1>1 DEF CallStep, StartCall, StartRaw, RejectMissingId, Register, ReturnReply,
                ReturnClosed, sendVars, Tasks
  <2>2. /\ \A t \in Tasks \ {c} : pc'[t] = pc[t] /\ outcome'[t] = outcome[t]
        /\ pc[c] # "done" /\ pc'[c] # "writing"
        /\ outcome'[c] = outcome[c] \/ (pc'[c] = "done" /\ outcome'[c] # "cancelled")
    <3>1. CASE StartCall(c) \/ StartRaw(c)
      BY <2>1, <3>1 DEF StartCall, StartRaw, Check, Finish
    <3>2. CASE RejectMissingId(c) \/ ReturnReply(c) \/ ReturnClosed(c)
      BY <2>1, <3>2 DEF RejectMissingId, ReturnReply, ReturnClosed, Finish
    <3>3. CASE Register(c)
      BY <2>1, <3>3 DEF Register
    <3>4. QED
      BY <1>1, <3>1, <3>2, <3>3 DEF CallStep
  <2>3. QED
    BY <2>1, <2>2
<1>2. ASSUME NEW n \in Notes, NoteStep(n) PROVE Goal
  <2>1. UNCHANGED <<written, writer>> /\ n \in Tasks
    BY <1>2 DEF NoteStep, StartNote, SkipRegister, sendVars, Tasks
  <2>2. /\ \A t \in Tasks \ {n} : pc'[t] = pc[t] /\ outcome'[t] = outcome[t]
        /\ pc[n] # "done" /\ pc'[n] # "writing"
        /\ outcome'[n] = outcome[n] \/ (pc'[n] = "done" /\ outcome'[n] # "cancelled")
    BY <1>2, <2>1 DEF NoteStep, StartNote, SkipRegister, Check, Finish
  <2>3. QED
    BY <2>1, <2>2
<1>3. ASSUME NEW t \in Tasks, Acquire(t) PROVE Goal
  BY <1>3 DEF Acquire
<1>4. ASSUME NEW t \in Tasks, WritePart(t) PROVE Goal
  BY <1>4 DEF WritePart, taskVars
<1>5. ASSUME NEW t \in Tasks, Written(t) PROVE Goal
  <2>1. /\ writer = t /\ pc[t] = "writing" /\ writer' = NoTask /\ written' = written
        /\ \A u \in Tasks \ {t} : pc'[u] = pc[u] /\ outcome'[u] = outcome[u]
        /\ \/ pc'[t] = "awaiting" /\ outcome'[t] = outcome[t]
           \/ pc'[t] = "done" /\ outcome'[t] = "sent"
    BY <1>5 DEF Written, Finish
  <2>2. QED
    BY <2>1
<1>6. ASSUME NEW t \in Tasks, WriteFail(t) PROVE Goal
  BY <1>6 DEF WriteFail, Finish
<1>7. ASSUME NEW t \in Tasks, Cancel(t) PROVE Goal
  BY <1>7 DEF Cancel, Finish, InFlight
<1>8. CASE UNCHANGED <<pc, outcome, written, writer>>
  BY <1>8
<1>9. CASE ReaderStep \/ PeerStep \/ Rest \/ UNCHANGED vars
  BY <1>8, <1>9 DEF ReaderStep, ReaderTake, ReaderDeliver, ReaderStop, ReaderClear, PeerStep,
       PeerRead, PeerReject, PeerStray, PeerEnd, PeerReply, Rest, vars, taskVars, sendVars
<1>10. QED
  BY <1>1, <1>2, <1>3, <1>4, <1>5, <1>6, <1>7, <1>9 DEF Next, SendStep

\* The peer takes parts from the front of the wire.
LEMMA FramesWhenTaken ==
    ASSUME wire \in Seq(Part), NEW e \in 1..Len(wire), wire' = SubSeq(wire, e + 1, Len(wire)),
           UNCHANGED <<writer, written>>, WholeFrames, LastPart
    PROVE  WholeFrames' /\ LastPart'
<1> DEFINE n == Len(wire)
           m == Len(wire')
<1>1. n \in Nat /\ m \in Nat /\ m = n - e /\ e \in Nat /\ \A k \in 1..m : wire'[k] = wire[k + e]
  OBVIOUS
<1>2. WholeFrames'
  <2> HIDE DEF n, m
  <2> SUFFICES ASSUME NEW k \in 1..(m - 1)
               PROVE  wire'[k + 1] = IF wire'[k].part = FrameParts
                                     THEN [task |-> wire'[k + 1].task, part |-> 1]
                                     ELSE [wire'[k] EXCEPT !.part = @ + 1]
    BY DEF WholeFrames, m
  <2>1. k \in 1..m /\ k + 1 \in 1..m /\ k + e \in 1..(n - 1) /\ (k + 1) + e = (k + e) + 1
    BY <1>1
  <2>2. wire'[k] = wire[k + e] /\ wire'[k + 1] = wire[(k + e) + 1]
    BY <1>1, <2>1
  <2>3. QED
    BY <2>1, <2>2 DEF WholeFrames, n
<1>3. LastPart'
  <2>1. ASSUME wire' # <<>> PROVE wire'[m] = wire[n] /\ wire # <<>>
    <3>1. m \in 1..m /\ wire # <<>>
      BY <2>1
    <3>2. m + e = n
      BY <1>1
    <3>3. wire'[m] = wire[m + e]
      BY <1>1, <3>1
    <3>4. wire'[m] = wire[n]
      BY <3>2, <3>3
    <3>5. QED
      BY <3>1, <3>4
  <2>2. QED
    BY <2>1 DEF LastPart
<1>4. QED
  BY <1>2, <1>3

\* The writer adds the next part of its frame.
LEMMA FramesWhenWritten ==
    ASSUME TypeOK, NEW t \in Tasks, writer = t, WritePart(t), WholeFrames, LastPart
    PROVE  WholeFrames' /\ LastPart'
<1> USE BoundAssumption
<1> DEFINE n == Len(wire)
           p == [task |-> t, part |-> written[t] + 1]
<1>1. /\ written[t] \in Nat /\ written[t] < FrameParts /\ wire \in Seq(Part) /\ n \in Nat
      /\ wire' = Append(wire, p) /\ written'[t] = written[t] + 1 /\ writer' = t
  BY DEF TypeOK, WritePart
<1>2. /\ Len(wire') = n + 1 /\ wire'[n + 1] = p
      /\ \A k \in 1..n : wire'[k] = wire[k]
  BY <1>1
<1> HIDE DEF n
<1>3. LastPart'
  BY <1>1, <1>2 DEF LastPart
<1>4. ASSUME n \in 1..n
      PROVE  p = IF wire[n].part = FrameParts THEN [task |-> p.task, part |-> 1]
                 ELSE [wire[n] EXCEPT !.part = @ + 1]
  <2>1. wire # <<>> /\ n = Len(wire)
    BY <1>4 DEF n
  <2>2. CASE written[t] > 0
    <3>1. wire[n] = [task |-> t, part |-> written[t]]
      BY <2>1, <2>2 DEF LastPart
    <3>2. QED
      BY <1>1, <3>1
  <2>3. CASE written[t] = 0
    BY <1>1, <2>1, <2>3 DEF LastPart
  <2>4. QED
    BY <1>1, <2>2, <2>3
<1>5. WholeFrames'
  <2> SUFFICES ASSUME NEW k \in 1..n
               PROVE  wire'[k + 1] = IF wire'[k].part = FrameParts
                                     THEN [task |-> wire'[k + 1].task, part |-> 1]
                                     ELSE [wire'[k] EXCEPT !.part = @ + 1]
    <3>1. Len(wire') - 1 = n
      BY <1>1, <1>2
    <3>2. QED
      BY <3>1 DEF WholeFrames
  <2>1. CASE k = n
    <3>1. wire'[k + 1] = p /\ wire'[k] = wire[n]
      BY <1>2, <2>1
    <3>2. QED
      BY <1>4, <2>1, <3>1
  <2>2. CASE k # n
    <3>1. k \in 1..(n - 1) /\ k + 1 \in 1..n
      BY <1>1, <2>2
    <3>2. wire'[k + 1] = wire[k + 1] /\ wire'[k] = wire[k]
      BY <1>2, <3>1
    <3>3. QED
      BY <3>1, <3>2 DEF WholeFrames, n
  <2>3. QED
    BY <2>1, <2>2
<1>6. QED
  BY <1>3, <1>5

\* Every step keeps the frames whole, unless it tears one.
LEMMA FrameInvStep ==
    ASSUME TypeOK, OnceInv, FrameInv, [Next]_vars
    PROVE  FrameInv'
<1>1. LockHeld' /\ ReturnIsLast' /\ (NoneTorn' => NoneTorn)
  BY LockStep DEF FrameInv
<1>2. SUFFICES ASSUME NoneTorn, NoneTorn', WholeFrames, peer # "closed" => LastPart
               PROVE  WholeFrames' /\ (peer' # "closed" => LastPart')
  BY <1>1 DEF FrameInv
<1>3. LockHeld /\ ReturnIsLast
  BY DEF FrameInv
<1>4. ASSUME UNCHANGED <<wire, writer, written>>, peer' = peer \/ peer' = "closed"
      PROVE  WholeFrames' /\ (peer' # "closed" => LastPart')
  BY <1>2, <1>4 DEF WholeFrames, LastPart
<1>5. ASSUME NEW c \in Calls, CallStep(c)
      PROVE  WholeFrames' /\ (peer' # "closed" => LastPart')
  BY <1>4, <1>5 DEF CallStep, StartCall, StartRaw, RejectMissingId, Register, ReturnReply,
       ReturnClosed, sendVars, peerVars
<1>6. ASSUME NEW n \in Notes, NoteStep(n)
      PROVE  WholeFrames' /\ (peer' # "closed" => LastPart')
  BY <1>4, <1>6 DEF NoteStep, StartNote, SkipRegister, sendVars, peerVars
<1>7. ASSUME NEW t \in Tasks, Acquire(t)
      PROVE  WholeFrames' /\ (peer' # "closed" => LastPart')
  <2>1. /\ UNCHANGED <<wire, written, peer>> /\ writer = NoTask /\ writer' = t
        /\ pc[t] = "queued"
    BY <1>7 DEF Acquire, peerVars
  <2>2. written[t] = 0
    <3>1. written[t] \in 0..FrameParts /\ 0..FrameParts \subseteq Nat
      BY BoundAssumption DEF TypeOK
    <3>2. ~(written[t] > 0)
      BY <2>1 DEF OnceInv, WritersStarted
    <3>3. QED
      BY <3>1, <3>2
  <2>3. QED
    BY <1>2, <2>1, <2>2, TaskAssumption DEF WholeFrames, LastPart
<1>8. ASSUME NEW t \in Tasks, WritePart(t)
      PROVE  WholeFrames' /\ (peer' # "closed" => LastPart')
  <2>1. writer = t /\ peer # "closed"
    BY <1>3, <1>8 DEF LockHeld, WritePart
  <2>2. QED
    BY <1>2, <1>8, <2>1, FramesWhenWritten
<1>9. ASSUME NEW t \in Tasks, Written(t)
      PROVE  WholeFrames' /\ (peer' # "closed" => LastPart')
  <2>1. /\ UNCHANGED <<wire, written, peer>> /\ writer = t /\ writer' = NoTask
        /\ written[t] = FrameParts
    BY <1>3, <1>9 DEF Written, LockHeld, peerVars
  <2>2. QED
    BY <1>2, <2>1, TaskAssumption, BoundAssumption DEF WholeFrames, LastPart
<1>10. ASSUME NEW t \in Tasks, WriteFail(t)
       PROVE  WholeFrames' /\ (peer' # "closed" => LastPart')
  BY <1>2, <1>10 DEF WriteFail, WholeFrames, peerVars
<1>11. ASSUME NEW t \in Tasks, Cancel(t)
       PROVE  WholeFrames' /\ (peer' # "closed" => LastPart')
  <2>1. /\ UNCHANGED <<wire, written, peer>> /\ outcome'[t] = "cancelled"
        /\ writer' = IF writer = t THEN NoTask ELSE writer
    BY <1>11 DEF Cancel, Finish, TypeOK, peerVars
  <2>2. written[t] \in {0, FrameParts}
    BY <1>2, <2>1 DEF NoneTorn
  <2>3. CASE writer = t
    BY SMTT(30), <1>2, <2>1, <2>2, <2>3, TaskAssumption, BoundAssumption DEF WholeFrames, LastPart
  <2>4. CASE writer # t
    BY <1>4, <2>1, <2>4
  <2>5. QED
    BY <2>3, <2>4
<1>12. CASE PeerRead
  <2>1. /\ wire' = SubSeq(wire, FrameParts + 1, Len(wire)) /\ UNCHANGED <<writer, written, peer>>
        /\ peer # "closed" /\ Len(wire) >= FrameParts
    BY <1>12 DEF PeerRead, WholeFrameArrived
  <2>2. wire \in Seq(Part) /\ FrameParts \in 1..Len(wire)
    BY <2>1, BoundAssumption DEF TypeOK
  <2>3. QED
    BY <1>2, <2>1, <2>2, FramesWhenTaken
<1>13. CASE PeerReject
  <2>1. /\ \E e \in 1..Len(wire) : wire' = SubSeq(wire, e + 1, Len(wire))
        /\ UNCHANGED <<writer, written, peer>> /\ peer # "closed"
    BY <1>13 DEF PeerReject, peerVars
  <2>2. wire \in Seq(Part)
    BY DEF TypeOK
  <2>3. QED
    BY <1>2, <2>1, <2>2, FramesWhenTaken
<1>14. CASE PeerStray \/ PeerEnd \/ (\E c \in Calls : PeerReply(c)) \/ ReaderStep
  <2>1. UNCHANGED <<wire, writer, written>>
    BY <1>14 DEF PeerStray, PeerEnd, PeerReply, ReaderStep, ReaderTake, ReaderDeliver,
         ReaderStop, ReaderClear, sendVars
  <2>2. peer' = peer \/ peer # "closed"
    BY <1>14 DEF PeerStray, PeerEnd, PeerReply, ReaderStep, ReaderTake, ReaderDeliver,
         ReaderStop, ReaderClear, peerVars
  <2>3. QED
    BY <1>2, <2>1, <2>2 DEF WholeFrames, LastPart
<1>15. CASE Rest \/ UNCHANGED vars
  BY <1>4, <1>15 DEF Rest, vars, sendVars, peerVars
<1>16. QED
  BY <1>5, <1>6, <1>7, <1>8, <1>9, <1>10, <1>11, <1>12, <1>13, <1>14, <1>15
  DEF Next, SendStep, PeerStep

\* FrameInv holds in every reachable state.
LEMMA FrameInvAlways == Spec => []FrameInv
<1>1. Init => FrameInv
  BY DEF Init, FrameInv, LockHeld, ReturnIsLast, NoneTorn, WholeFrames, LastPart, Tasks
<1>2. TypeOK /\ OnceInv /\ FrameInv /\ [Next]_vars => FrameInv'
  BY FrameInvStep
<1>3. QED
  BY <1>1, <1>2, TypeCorrect, OnceInvAlways, PTL DEF Spec

\* The frames on the wire are whole, whatever the tasks, the reader and the peer
\* do, as long as no future was dropped in the middle of its write_all.
THEOREM WholeUnlessTorn == Spec => [](NoneTorn => WholeFrames)
<1>1. FrameInv => (NoneTorn => WholeFrames)
  BY DEF FrameInv
<1>2. QED
  BY <1>1, FrameInvAlways, PTL

\* The writer lock keeps frames whole if futures are not dropped.
THEOREM FramesStayWhole == ASSUME Cancellable = {} PROVE Spec => []WholeFrames
<1>1. FrameInv => WholeFrames
  BY DEF FrameInv, ReturnIsLast, NoneTorn
<1>2. QED
  BY <1>1, FrameInvAlways, PTL
=============================================================================
