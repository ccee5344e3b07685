----------------------------- MODULE UdsServer -----------------------------
(***************************************************************************)
(* The server of examples/uds_demo.rs, the pattern that the documentation  *)
(* of transport::io gives for raw sockets: an accept loop that selects on  *)
(* a shutdown signal, one serve_conn task per connection in a JoinSet, and *)
(* a drain that joins them all.  serve_conn reads a frame, dispatches it,  *)
(* writes the reply and reads on; a read that waits longer than            *)
(* read_timeout ends it, a write may wait for ever.                        *)
(*                                                                         *)
(* Frames are whole here (FramedRead has their bytes) and a dispatch is    *)
(* one await (Router has its handlers).  What a peer does is free: it      *)
(* dials, also while the server drains, sends, stays silent, stops         *)
(* reading, half-closes, or vanishes.                                      *)
(***************************************************************************)
EXTENDS Naturals, Sequences, Enumeration

CONSTANTS
    Peers,
    MaxSends,   \* bound on the frames of one peer
    Room        \* replies the socket holds before a write waits for the peer

ASSUME UdsServerAssumption == MaxSends \in Nat /\ Room \in Nat \ {0}

VARIABLES
    acceptor,   \* the accept task: "accepting", "draining" or "ended"
    stop,       \* shutdown_rx has resolved: a message, or the sender dropped
    peer,       \* the far end: "away", "open", "shut" (half-closed), "gone"
    sent,       \* what it has sent: calls, notes (notifications), bad frames
    task,       \* the peer's serve_conn: "none" until it is accepted
    taken,      \* how many frames recv has returned to the task
    out,        \* the frames whose replies the task has written
    read        \* how many of those the peer has read

vars == <<acceptor, stop, peer, sent, task, taken, out, read>>

server == <<acceptor, stop>>
conn == <<task, taken, out>>
far == <<peer, sent, read>>

FrameKinds == {"call", "note", "bad"}
Running == {"reading", "handling", "sending"}

Init ==
    /\ acceptor = "accepting"
    /\ stop = FALSE
    /\ peer = [p \in Peers |-> "away"]
    /\ sent = [p \in Peers |-> <<>>]
    /\ task = [p \in Peers |-> "none"]
    /\ taken = [p \in Peers |-> 0]
    /\ out = [p \in Peers |-> <<>>]
    /\ read = [p \in Peers |-> 0]

(***************************************************************************)
(* The peers.                                                              *)
(***************************************************************************)

\* connect succeeds as long as the listener lives: it belongs to the accept
\* task and goes away with it, after the drain.
Dial(p) ==
    /\ peer[p] = "away"
    /\ acceptor # "ended"
    /\ peer' = [peer EXCEPT ![p] = "open"]
    /\ UNCHANGED <<server, conn, sent, read>>

\* A write to a socket the server has closed fails.
PeerSend(p, kind) ==
    /\ peer[p] = "open"
    /\ task[p] # "returned"
    /\ Len(sent[p]) < MaxSends
    /\ sent' = [sent EXCEPT ![p] = Append(@, kind)]
    /\ UNCHANGED <<server, conn, peer, read>>

PeerReads(p) ==
    /\ peer[p] \in {"open", "shut"}
    /\ read[p] < Len(out[p])
    /\ read' = [read EXCEPT ![p] = @ + 1]
    /\ UNCHANGED <<server, conn, peer, sent>>

PeerLeaves(p, how) ==
    /\ peer[p] = "open" \/ (peer[p] = "shut" /\ how = "gone")
    /\ peer' = [peer EXCEPT ![p] = how]
    /\ UNCHANGED <<server, conn, sent, read>>

(***************************************************************************)
(* The accept loop.                                                        *)
(***************************************************************************)

\* `shutdown_tx.send(())`.
Shutdown ==
    /\ ~stop
    /\ stop' = TRUE
    /\ UNCHANGED <<acceptor, conn, far>>

\* `accepted = listener.accept()`: select! may take it after the signal too.
Accept(p) ==
    /\ acceptor = "accepting"
    /\ task[p] = "none"
    /\ peer[p] # "away"
    /\ task' = [task EXCEPT ![p] = "reading"]
    /\ UNCHANGED <<server, far, taken, out>>

\* `_ = &mut shutdown_rx => break`.
StopAccepting ==
    /\ acceptor = "accepting"
    /\ stop
    /\ acceptor' = "draining"
    /\ UNCHANGED <<stop, conn, far>>

\* Not the code: no drain, so that dropping the JoinSet aborts its tasks.
DrainDone_Aborts ==
    /\ acceptor = "draining"
    /\ acceptor' = "ended"
    /\ task' = [p \in Peers |-> IF task[p] \in Running THEN "returned" ELSE task[p]]
    /\ UNCHANGED <<stop, taken, out, far>>

\* `while conns.join_next().await.is_some() {}`.
DrainDone ==
    /\ acceptor = "draining"
    /\ \A p \in Peers : task[p] \notin Running
    /\ acceptor' = "ended"
    /\ UNCHANGED <<stop, conn, far>>

(***************************************************************************)
(* serve_conn.                                                             *)
(***************************************************************************)

FrameWaits(p) == taken[p] < Len(sent[p])

\* recv returns a frame, or the error that ends the loop.
Recv(p) ==
    /\ task[p] = "reading"
    /\ FrameWaits(p)
    /\ taken' = [taken EXCEPT ![p] = @ + 1]
    /\ task' = [task EXCEPT ![p] =
           IF sent[p][taken'[p]] = "bad" THEN "returned" ELSE "handling"]
    /\ UNCHANGED <<server, far, out>>

\* Ok(None).
RecvEof(p) ==
    /\ task[p] = "reading"
    /\ ~FrameWaits(p)
    /\ peer[p] \in {"shut", "gone"}
    /\ task' = [task EXCEPT ![p] = "returned"]
    /\ UNCHANGED <<server, far, taken, out>>

\* Not the code: FramedConn::new without with_read_timeout.
ReadTimeout_None(p) == FALSE /\ UNCHANGED vars

\* Thirty seconds without a byte.
ReadTimeout(p) ==
    /\ task[p] = "reading"
    /\ ~FrameWaits(p)
    /\ peer[p] = "open"
    /\ task' = [task EXCEPT ![p] = "returned"]
    /\ UNCHANGED <<server, far, taken, out>>

\* handle_bytes returns; only a call has bytes to send.
Handled(p) ==
    /\ task[p] = "handling"
    /\ task' = [task EXCEPT ![p] =
           IF sent[p][taken[p]] = "call" THEN "sending" ELSE "reading"]
    /\ UNCHANGED <<server, far, taken, out>>

Full(p) == peer[p] # "gone" /\ Len(out[p]) - read[p] = Room

\* Not the code: write_all that does not wait for room.
SendReply_Buffers(p) ==
    /\ task[p] = "sending"
    /\ peer[p] # "gone"
    /\ out' = [out EXCEPT ![p] = Append(@, taken[p])]
    /\ task' = [task EXCEPT ![p] = "reading"]
    /\ UNCHANGED <<server, far, taken>>

SendReply(p) ==
    /\ task[p] = "sending"
    /\ peer[p] # "gone"
    /\ ~Full(p)
    /\ out' = [out EXCEPT ![p] = Append(@, taken[p])]
    /\ task' = [task EXCEPT ![p] = "reading"]
    /\ UNCHANGED <<server, far, taken>>

\* `if conn.send(&bytes).await.is_err() { return; }`.
SendFails(p) ==
    /\ task[p] = "sending"
    /\ peer[p] = "gone"
    /\ task' = [task EXCEPT ![p] = "returned"]
    /\ UNCHANGED <<server, far, taken, out>>

ServeConn(p) ==
    Recv(p) \/ RecvEof(p) \/ ReadTimeout(p) \/ Handled(p) \/ SendReply(p) \/ SendFails(p)

Peer(p) ==
    \/ Dial(p)
    \/ \E kind \in FrameKinds : PeerSend(p, kind)
    \/ PeerReads(p)
    \/ \E how \in {"shut", "gone"} : PeerLeaves(p, how)

Finished == acceptor = "ended" /\ UNCHANGED vars

Next ==
    \/ Shutdown
    \/ StopAccepting
    \/ DrainDone
    \/ \E p \in Peers : Peer(p) \/ Accept(p) \/ ServeConn(p)
    \/ Finished

(***************************************************************************)
(* The runtime polls a ready task in the end and a timer fires.  select!   *)
(* polls its branches in random order, so neither starves the other.       *)
(* Nothing is assumed of the peers or of the signal.                       *)
(***************************************************************************)
Fairness ==
    /\ WF_vars(StopAccepting)
    /\ WF_vars(DrainDone)
    /\ \A p \in Peers : WF_vars(Accept(p)) /\ WF_vars(ServeConn(p))

Spec == Init /\ [][Next]_vars /\ Fairness

-----------------------------------------------------------------------------
(***************************************************************************)
(* Properties.                                                             *)
(***************************************************************************)

\* The variables stay in their ranges: a peer reads no more than was
\* written, and the socket never holds more than Room replies.
TypeOK ==
    /\ acceptor \in {"accepting", "draining", "ended"}
    /\ stop \in BOOLEAN
    /\ peer \in [Peers -> {"away", "open", "shut", "gone"}]
    /\ task \in [Peers -> {"none", "returned"} \cup Running]
    /\ sent \in [Peers -> Seq(FrameKinds)]
    /\ taken \in [Peers -> Nat]
    /\ out \in [Peers -> Seq(1..MaxSends)]
    /\ read \in [Peers -> Nat]
    /\ \A p \in Peers :
        /\ Len(sent[p]) <= MaxSends
        /\ taken[p] <= Len(sent[p])
        /\ read[p] <= Len(out[p])
        /\ Len(out[p]) - read[p] <= Room

CallsTaken(p) == {i \in 1..taken[p] : sent[p][i] = "call"}

\* Replies carry no position, so a client that does not multiplex relies on
\* their order: serve_conn answers the calls it has read, all of them, in the
\* order it read them.  Only the last may be open, because the task is still
\* at it or the peer has vanished: the shutdown drains "instead of aborting
\* mid-request", and a task that has ended owes nothing to a peer that reads.
AnsweredInOrder ==
    \A p \in Peers :
        \/ Enumerates(out[p], CallsTaken(p))
        \/ /\ task[p] \in {"handling", "sending"} \/ peer[p] = "gone"
           /\ Enumerates(out[p], CallsTaken(p) \ {taken[p]})

\* No peer stops reading for good while its socket is full.  serve_conn has
\* no write timeout, so such a peer may hold its task, and the drain.
PeersRead == \A p \in Peers : []<>~Full(p)

\* Once the signal is sent the drain comes to an end although idle peers keep
\* their connections open: it is the read timeout that lets it.
DrainEnds == PeersRead => (stop ~> (acceptor = "ended"))
=============================================================================
