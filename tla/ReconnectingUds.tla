-------------------------- MODULE ReconnectingUds ---------------------------
(***************************************************************************)
(* ReconnectingUds (client/uds.rs): calls over a multiplexed connection to  *)
(* a Unix socket that is dialed again, under a RetryPolicy, by the next     *)
(* call after it has died.                                                  *)
(*                                                                          *)
(* A connection is a number, 1 for the first.  What MultiplexTransport does *)
(* on it is taken from module Multiplex at the grain of its contract: the   *)
(* fail-fast check, the write, the reply, and ConnectionClosed once the     *)
(* reader has noticed the end.  The server crashes and restarts.            *)
(***************************************************************************)
EXTENDS Naturals, FiniteSets

CONSTANTS
    Calls,        \* round_trip and send_notification futures over one
                  \* transport and its clones
    Notes,        \* those that are send_notification
    NoCall,       \* nobody holds the reconnect gate; no answer
    Cancellable,  \* calls whose future may be dropped before it is ready
    MaxAttempts,  \* RetryPolicy
    BaseBackoff,
    MaxBackoff,
    MaxCrashes    \* bound: how often the server goes down

ASSUME CallAssumption ==
    NoCall \notin Calls /\ Cancellable \subseteq Calls /\ Notes \subseteq Calls
ASSUME PolicyAssumption ==
    {MaxAttempts, BaseBackoff, MaxBackoff, MaxCrashes} \subseteq Nat

VARIABLES
    pc,        \* pc[c]: where the future of c is
    outcome,   \* outcome[c]: what it returned
    mine,      \* mine[c]: the connection whose handle c has cloned
    attempt,   \* attempt[c]: dials c has made in reconnect
    backoff,   \* backoff[c]: the delay before its next dial
    gate,      \* the holder of reconnect_gate
    current,   \* the connection installed in `current`
    connected, \* the flags of the connections: those that read TRUE
    open,      \* the connections whose socket is open at both ends
    server,    \* whether the server listens: "up" or "down"
    crashes,   \* times it went down
    wire,      \* calls whose request is written and not yet read
    working,   \* calls the server is executing, or has, without replying yet
    replies,   \* calls whose reply is written and not yet read
    execs      \* execs[c]: how often the server executed c

callVars == <<pc, outcome, mine>>
dialVars == <<attempt, backoff, gate>>
connVars == <<current, connected, open>>
peerVars == <<server, crashes, wire, working, replies, execs>>
vars == <<callVars, dialVars, connVars, peerVars>>

Min2(a, b) == IF a <= b THEN a ELSE b
Attempts == IF MaxAttempts >= 1 THEN MaxAttempts ELSE 1

\* connect: dialed once, before any call.
Init ==
    /\ pc = [c \in Calls |-> "idle"]
    /\ outcome = [c \in Calls |-> "none"]
    /\ mine = [c \in Calls |-> 1]
    /\ attempt = [c \in Calls |-> 0]
    /\ backoff = [c \in Calls |-> BaseBackoff]
    /\ gate = NoCall
    /\ current = 1 /\ connected = {1} /\ open = {1}
    /\ server = "up" /\ crashes = 0
    /\ wire = {} /\ working = {} /\ replies = {}
    /\ execs = [c \in Calls |-> 0]

Finish(c, result) == /\ pc' = [pc EXCEPT ![c] = "done"]
                     /\ outcome' = [outcome EXCEPT ![c] = result]
Goto(c, place) == pc' = [pc EXCEPT ![c] = place] /\ UNCHANGED outcome

-----------------------------------------------------------------------------
\* Plausible bugs, each a variant of the definition it is named after.

\* The waiter does not look again at the connection once it has the gate.
EnterGate_NoRecheck(c) ==
    /\ pc[c] = "gate"
    /\ gate = NoCall
    /\ gate' = c
    /\ Goto(c, "dial")
    /\ UNCHANGED <<mine, attempt, backoff, connVars, peerVars>>

\* The delay grows without its bound.
SleepDone_NoCap(c) ==
    /\ pc[c] = "sleep"
    /\ backoff' = [backoff EXCEPT ![c] = 2 * @]
    /\ Goto(c, "dial")
    /\ UNCHANGED <<mine, attempt, gate, connVars, peerVars>>

\* A call whose connection died tries again instead of failing.
ReturnClosed_Replays(c) ==
    /\ pc[c] = "sent"
    /\ mine[c] \notin connected
    /\ Goto(c, "gate")
    /\ UNCHANGED <<mine, dialVars, connVars, peerVars>>

\* When the attempts have run out it dials on, without end.
DialGiveUp_Forever(c) ==
    /\ pc[c] = "dial"
    /\ server = "down"
    /\ attempt[c] + 1 >= Attempts
    /\ UNCHANGED vars

\* The aliveness check is left out: the stale handle is always used.
CheckAlive_Skipped(c) ==
    /\ pc[c] = "snapshot"
    /\ Goto(c, "ready")
    /\ UNCHANGED <<mine, dialVars, connVars, peerVars>>

-----------------------------------------------------------------------------
\* ensure_connected: clone the current handle.
Snapshot(c) ==
    /\ pc[c] = "idle"
    /\ Goto(c, "snapshot")
    /\ mine' = [mine EXCEPT ![c] = current]
    /\ UNCHANGED <<dialVars, connVars, peerVars>>

\* ensure_connected: use it if it is alive, else go to reconnect.
CheckAlive(c) ==
    /\ pc[c] = "snapshot"
    /\ Goto(c, IF mine[c] \in connected THEN "ready" ELSE "gate")
    /\ UNCHANGED <<mine, dialVars, connVars, peerVars>>

\* reconnect: the gate is ours, but another task has reconnected meanwhile.
ReuseConnection(c) ==
    /\ pc[c] = "gate"
    /\ gate = NoCall
    /\ current \in connected
    /\ mine' = [mine EXCEPT ![c] = current]
    /\ Goto(c, "ready")
    /\ UNCHANGED <<dialVars, connVars, peerVars>>

\* reconnect: the gate is ours and the connection still dead.
EnterGate(c) ==
    /\ pc[c] = "gate"
    /\ gate = NoCall
    /\ current \notin connected
    /\ gate' = c
    /\ Goto(c, "dial")
    /\ UNCHANGED <<mine, attempt, backoff, connVars, peerVars>>

\* UnixStream::connect succeeds: install the fresh connection.
DialOk(c) ==
    /\ pc[c] = "dial"
    /\ server = "up"
    /\ current' = current + 1
    /\ connected' = connected \cup {current'}
    /\ open' = open \cup {current'}
    /\ mine' = [mine EXCEPT ![c] = current']
    /\ gate' = NoCall
    /\ Goto(c, "ready")
    /\ UNCHANGED <<attempt, backoff, peerVars>>

\* It fails with attempts left: sleep.
DialRetry(c) ==
    /\ pc[c] = "dial"
    /\ server = "down"
    /\ attempt[c] + 1 < Attempts
    /\ attempt' = [attempt EXCEPT ![c] = @ + 1]
    /\ Goto(c, "sleep")
    /\ UNCHANGED <<mine, backoff, gate, connVars, peerVars>>

\* The last attempt fails: the error is this call's own, and the gate opens.
DialGiveUp(c) ==
    /\ pc[c] = "dial"
    /\ server = "down"
    /\ attempt[c] + 1 >= Attempts
    /\ gate' = NoCall
    /\ Finish(c, "dial_error")
    /\ UNCHANGED <<mine, attempt, backoff, connVars, peerVars>>

\* tokio::time::sleep(backoff) is over: the next delay is twice as long.
SleepDone(c) ==
    /\ pc[c] = "sleep"
    /\ backoff' = [backoff EXCEPT ![c] = Min2(2 * @, MaxBackoff)]
    /\ Goto(c, "dial")
    /\ UNCHANGED <<mine, attempt, gate, connVars, peerVars>>

\* MultiplexTransport::round_trip fails fast on a handle that died since.
FailFast(c) ==
    /\ pc[c] = "ready"
    /\ mine[c] \notin connected
    /\ Finish(c, "closed")
    /\ UNCHANGED <<mine, dialVars, connVars, peerVars>>

\* It passes the check and writes the request to the socket; send_notification
\* is done then.
Write(c) ==
    /\ pc[c] = "ready"
    /\ mine[c] \in connected
    /\ IF mine[c] \in open
       THEN /\ IF c \in Notes THEN Finish(c, "written") ELSE Goto(c, "sent")
            /\ wire' = wire \cup {c}
       ELSE Finish(c, "io") /\ UNCHANGED wire
    /\ UNCHANGED <<mine, dialVars, connVars, server, crashes, working, replies, execs>>

\* The reader delivers the reply.
ReturnReply(c) ==
    /\ pc[c] = "sent"
    /\ c \in replies
    /\ mine[c] \in connected
    /\ replies' = replies \ {c}
    /\ Finish(c, "reply")
    /\ UNCHANGED <<mine, dialVars, connVars, server, crashes, wire, working, execs>>

\* The reader has dropped the sender; the request is not sent again.
ReturnClosed(c) ==
    /\ pc[c] = "sent"
    /\ mine[c] \notin connected
    /\ Finish(c, "closed")
    /\ UNCHANGED <<mine, dialVars, connVars, peerVars>>

\* The future is dropped at an await, and with it the gate if it holds it.
Cancel(c) ==
    /\ c \in Cancellable
    /\ pc[c] \in {"gate", "dial", "sleep", "ready", "sent"}
    /\ gate' = IF gate = c THEN NoCall ELSE gate
    /\ Finish(c, "cancelled")
    /\ UNCHANGED <<mine, attempt, backoff, connVars, peerVars>>

-----------------------------------------------------------------------------
\* The reader task of connection k sees the end of its socket, after the
\* replies the socket still held.
ReaderNotices(k) ==
    /\ k \in connected \ open
    /\ \A c \in replies : mine[c] = k => pc[c] # "sent"
    /\ connected' = connected \ {k}
    /\ UNCHANGED <<callVars, dialVars, current, open, peerVars>>

\* The server reads a request and executes it.
Execute(c) ==
    /\ c \in wire
    /\ wire' = wire \ {c}
    /\ working' = working \cup ({c} \ Notes)
    /\ execs' = [execs EXCEPT ![c] = @ + 1]
    /\ UNCHANGED <<callVars, dialVars, connVars, server, crashes, replies>>

\* The server writes the reply.
SendReply(c) ==
    /\ c \in working
    /\ working' = working \ {c}
    /\ replies' = replies \cup {c}
    /\ UNCHANGED <<callVars, dialVars, connVars, server, crashes, wire, execs>>

\* The server goes down with its connections, the requests it did not read and
\* those it did not answer.
Crash ==
    /\ server = "up"
    /\ crashes < MaxCrashes
    /\ server' = "down"
    /\ crashes' = crashes + 1
    /\ open' = {}
    /\ wire' = {} /\ working' = {}
    /\ UNCHANGED <<callVars, dialVars, current, connected, replies, execs>>

Restart ==
    /\ server = "down"
    /\ server' = "up"
    /\ UNCHANGED <<callVars, dialVars, connVars, crashes, wire, working, replies, execs>>

\* Every future has returned.
Rest == (\A c \in Calls : pc[c] = "done") /\ UNCHANGED vars

Step(c) == \/ CheckAlive(c) \/ ReuseConnection(c) \/ EnterGate(c) \/ DialOk(c)
           \/ DialRetry(c) \/ DialGiveUp(c) \/ SleepDone(c) \/ FailFast(c)
           \/ Write(c) \/ ReturnReply(c) \/ ReturnClosed(c)

Next == \/ \E c \in Calls : Snapshot(c) \/ Step(c) \/ Cancel(c) \/ Execute(c) \/ SendReply(c)
        \/ \E k \in connected : ReaderNotices(k)
        \/ Crash \/ Restart \/ Rest

Spec == Init /\ [][Next]_vars

\* Futures are polled, readers notice, the server executes what it has read.
\* A server that is down need not come back.
FairSpec == /\ Spec
            /\ \A c \in Calls : WF_vars(Step(c)) /\ WF_vars(Execute(c) \/ SendReply(c))
            /\ \A k \in 1..(MaxCrashes + 1) : WF_vars(ReaderNotices(k))

-----------------------------------------------------------------------------
Outcomes == {"none", "reply", "written", "closed", "io", "dial_error", "cancelled"}
Connections == 1..(MaxCrashes + 1)

\* The delay before dial n + 1: base_backoff, then twice the one before it, cut
\* at max_backoff.
Delay[n \in Nat] ==
    IF n <= 1 THEN BaseBackoff ELSE Min2(2 * Delay[n - 1], MaxBackoff)

\* Every variable is in its range.  A call dials at most max_attempts times, and
\* before dial n + 1 it sleeps for Delay[n].
TypeOK ==
    /\ pc \in [Calls -> {"idle", "snapshot", "gate", "dial", "sleep", "ready",
                         "sent", "done"}]
    /\ outcome \in [Calls -> Outcomes]
    /\ mine \in [Calls -> Connections]
    /\ attempt \in [Calls -> 0..(Attempts - 1)]
    /\ backoff \in [Calls -> Nat]
    /\ \A c \in Calls : pc[c] = "sleep" => backoff[c] = Delay[attempt[c]]
    /\ gate \in Calls \cup {NoCall}
    /\ current \in Connections
    /\ connected \subseteq Connections /\ open \subseteq connected
    /\ server \in {"up", "down"} /\ crashes \in 0..MaxCrashes
    /\ wire \subseteq Calls /\ working \subseteq Calls /\ replies \subseteq Calls
    /\ execs \in [Calls -> Nat]

\* "A burst of failing calls triggers a single re-dial rather than a
\* thundering herd" (uds.rs, reconnect_gate): however many calls see the
\* connection dead, and whichever of them is cancelled while it dials, a new
\* connection is installed once for every time the server went away.
OneDialPerDeath == current <= crashes + 1

\* The connection a call dials is the one later calls find: a live connection
\* is never displaced by another, which would strand the calls that wait on it.
LiveIsCurrent == open \subseteq {current}

\* The connections of one transport: one for each death, and one that lives.
OneConnection == OneDialPerDeath /\ LiveIsCurrent

\* What a caller of the transport is promised, across any number of server
\* restarts: a request is never silently replayed, and a reply is the call's
\* own.  The contract is the one a single connection implements.
Contract == INSTANCE CallContract WITH
    phase <- [c \in Calls |-> CASE pc[c] = "idle" -> "idle"
                                [] pc[c] = "done" -> "settled"
                                [] OTHER -> "issued"],
    answer <- [c \in Calls |-> IF outcome[c] = "reply" THEN c ELSE NoCall]
ImplementsContract == Contract!ContractSpec

\* Every call returns, whether or not the server ever comes back, although the
\* calls behind a failing reconnect wait for it and then try themselves.
EveryCallReturns == \A c \in Calls : pc[c] = "snapshot" ~> pc[c] = "done"

\* "The next call observes the dead connection, re-dials, and is sent over the
\* fresh connection": a call that starts when the server is back for good and
\* the last connection is known to be dead gets its reply, or is written.
NextCallRecovers ==
    \A c \in Calls \ Cancellable :
        ( /\ pc[c] = "snapshot" /\ {mine[c], current} \cap connected = {}
          /\ server = "up" /\ crashes = MaxCrashes )
            ~> outcome[c] \in {"reply", "written"}
=============================================================================
