-------------------------- MODULE WebSocketProofs --------------------------
(***************************************************************************)
(* Theorems about WebSocketServe, for any messages, bodies and room in the  *)
(* socket.  What the router does with a message is taken from RouterProofs: *)
(* the dispatch of one message is a step of its specification.              *)
(***************************************************************************)
EXTENDS WebSocketServe, TLAPS

RP == INSTANCE RouterProofs WITH
        Bodies <- [m \in Messages |-> Bodies], MaxRegistrations <- 1,
        heap <- [i \in {1} |-> [name \in Methods |-> HandlerOf(name)]],
        builder <- 1, registered <- 1,
        holds <- [m \in Messages |-> 1],
        promised <- [m \in Messages |-> [name \in Methods |-> HandlerOf(name)]]

Frames == Messages \cup {"ping", "close"}

\* The messages that are sent once: those the properties speak of.
Plain == Messages \ Chatty

\* The variables are in their ranges; of the router's, more is known.
Types ==
    /\ RP!RouterInv
    /\ sent \in Seq(Messages) /\ answered \in Seq(Messages)
    /\ inbox \in Seq(Frames) /\ outbox \in Seq(Messages \cup {"pong", "close"})
    /\ extras \in 0..MaxExtras
    /\ Len(inbox) <= InboxCap /\ Len(outbox) <= OutboxCap
    /\ loop \in {"reading", "pong", "echo", "dispatch", "writing", "closing", "returned"}
    /\ serving \in Messages \cup {Nothing}
    /\ loop \in {"dispatch", "writing"} => serving \in Messages
    /\ loop \in {"reading", "pong", "echo", "closing"} => serving = Nothing
    /\ (loop = "returned") <=> (result # "running")
    /\ {shutdown, cut} \subseteq BOOLEAN /\ owed \subseteq Messages
    /\ peer \in {"open", "closing", "gone"}
    /\ result \in {"running", "peer_closed", "shutdown", "error"}

\* Of the messages s that have been sent, those in the queue q are there once,
\* in the order in which they were sent ...
Queued(s, q) ==
    \A p, r \in DOMAIN q : \A i, j \in DOMAIN s :
        p < r /\ q[p] \in Plain /\ q[r] \in Plain /\ s[i] = q[p] /\ s[j] = q[r] => i < j

\* ... and none has been taken from it before one sent earlier; x is the last taken.
NoneOvertaken(s, q, x) ==
    \A i, j \in DOMAIN s :
        i < j /\ s[i] \in Plain /\ s[j] \in Plain /\ s[i] \in Range(q) \cup {x}
          => s[j] \in Range(q)

Order ==
    /\ \A i, j \in DOMAIN sent : sent[i] = sent[j] => i = j
    /\ Queued(sent, inbox)
    /\ NoneOvertaken(sent, inbox, serving)

\* A plain message that has been sent waits, is being served or is done with.
Place(m) ==
    /\ m \in Range(inbox) => at[m] = "new" /\ m \in Range(sent)
    /\ m \notin Range(sent) => at[m] = "new"
    /\ m \in Range(sent) /\ m \notin Range(inbox) /\ m # serving => at[m] = "done"
    /\ m = serving => m \in Range(sent) /\ m \notin Range(inbox)

\* The one a reply is written for has one; and once the shutdown branch is taken,
\* what it leaves behind is unread, behind a write of read_frame that it cut.
Ends ==
    /\ loop = "writing" => at[serving] = "done" /\ output[serving].kind # "empty"
    /\ owed \subseteq Range(sent) \ Chatty
    /\ loop = "closing" \/ result = "shutdown" =>
         shutdown /\ serving = Nothing /\ (cut \/ owed \cap Range(inbox) = {})

\* The places in sent of the messages whose reply is due: the replies written
\* are theirs.
Replied == {i \in DOMAIN sent : /\ sent[i] \notin Chatty \cup {serving}
                               /\ at[sent[i]] = "done"
                               /\ output[sent[i]].kind # "empty"}

Lists(places, s, replies, S) ==
    /\ Len(places) = Len(replies)
    /\ Enumerates(places, S)
    /\ \A k \in DOMAIN replies : replies[k] = s[places[k]]

Listed == \E places \in Seq(Nat) : Lists(places, sent, answered, Replied)

WsInv == Types /\ Order /\ (\A m \in Plain : Place(m)) /\ Ends /\ Listed

-----------------------------------------------------------------------------
(* Sequences and what they enumerate.                                        *)

\* What is in a sequence after one more member.
LEMMA RangeOfAppend ==
    ASSUME NEW T, NEW s \in Seq(T), NEW x \in T
    PROVE  Range(Append(s, x)) = Range(s) \cup {x}
<1> DEFINE n == Len(s)
           t == Append(s, x)
<1>1. /\ n \in Nat /\ DOMAIN s = 1..n /\ DOMAIN t = 1..(n + 1)
      /\ t[n + 1] = x /\ \A k \in 1..n : t[k] = s[k]
  OBVIOUS
<1> HIDE DEF n, t
<1>2. n + 1 \in 1..(n + 1) /\ 1..n \subseteq 1..(n + 1)
      /\ \A k \in 1..(n + 1) : k = n + 1 \/ k \in 1..n
  BY <1>1
<1>3. Range(t) = {t[k] : k \in 1..(n + 1)} /\ Range(s) = {s[k] : k \in 1..n}
  BY <1>1 DEF Range
<1>4. x \in Range(t)
  BY <1>1, <1>2, <1>3
<1>5. ASSUME NEW y \in Range(s) PROVE y \in Range(t)
  <2>1. PICK k \in 1..n : y = s[k]
    BY <1>3
  <2>2. QED
    BY <1>1, <1>2, <1>3, <2>1
<1>6. \A k \in 1..(n + 1) : t[k] \in Range(s) \cup {x}
  BY <1>1, <1>2, <1>3
<1>7. Range(t) \subseteq Range(s) \cup {x}
  BY <1>3, <1>6
<1>8. QED
  BY <1>4, <1>5, <1>7 DEF t

\* Nothing is enumerated by the empty sequence.
LEMMA EnumeratesNothing == Enumerates(<<>>, {})
BY DEF Enumerates, Range

\* One more number, larger than those enumerated so far.
LEMMA EnumeratesOneMore ==
    ASSUME NEW s \in Seq(Nat), NEW S, Enumerates(s, S), NEW x \in Nat, \A y \in S : y < x
    PROVE  Append(s, x) \in Seq(Nat) /\ Enumerates(Append(s, x), S \cup {x})
<1> DEFINE n == Len(s)
           t == Append(s, x)
<1>1. /\ n \in Nat /\ DOMAIN s = 1..n /\ DOMAIN t = 1..(n + 1) /\ t \in Seq(Nat)
      /\ t[n + 1] = x /\ \A k \in 1..n : t[k] = s[k] /\ s[k] \in Nat
  OBVIOUS
<1> HIDE DEF n, t
<1>2. n + 1 \in 1..(n + 1) /\ 1..n \subseteq 1..(n + 1)
      /\ \A k \in 1..(n + 1) : k = n + 1 \/ k \in 1..n
  BY <1>1
<1>3. \A k \in 1..n : s[k] \in S
  BY <1>1 DEF Enumerates, Range
<1>4. Range(t) = S \cup {x}
  BY RangeOfAppend DEF Enumerates, t
<1>5. ASSUME NEW j \in 1..(n + 1), NEW k \in 1..(n + 1), j < k PROVE t[j] < t[k]
  <2>1. j \in 1..n
    BY <1>1, <1>5
  <2>2. CASE k = n + 1
    BY <1>1, <1>3, <2>1, <2>2
  <2>3. CASE k \in 1..n
    BY <1>1, <1>5, <2>1, <2>3 DEF Enumerates
  <2>4. QED
    BY <1>2, <2>2, <2>3
<1>6. QED
  BY <1>1, <1>4, <1>5 DEF Enumerates, t

-----------------------------------------------------------------------------
\* A frame is put at the end of a queue, and taken from its front.
LEMMA QueueAppend ==
    ASSUME NEW T, NEW q \in Seq(T), NEW x \in T
    PROVE  /\ Append(q, x) \in Seq(T) /\ Len(Append(q, x)) = Len(q) + 1
           /\ DOMAIN q = 1..Len(q) /\ DOMAIN Append(q, x) = 1..(Len(q) + 1) /\ Len(q) \in Nat
           /\ Append(q, x)[Len(q) + 1] = x
           /\ \A p \in 1..Len(q) : Append(q, x)[p] = q[p]
           /\ Range(Append(q, x)) = Range(q) \cup {x}
BY RangeOfAppend

\* A queue without its first frame.
LEMMA QueueTail ==
    ASSUME NEW T, NEW q \in Seq(T), q # <<>>
    PROVE  /\ Tail(q) \in Seq(T) /\ Len(Tail(q)) = Len(q) - 1
           /\ Len(q) \in Nat \ {0}
           /\ DOMAIN q = 1..Len(q) /\ DOMAIN Tail(q) = 1..(Len(q) - 1)
           /\ Head(q) = q[1] /\ q[1] \in T
           /\ \A p \in 1..(Len(q) - 1) : Tail(q)[p] = q[p + 1] /\ p + 1 \in 1..Len(q)
           /\ Range(q) = Range(Tail(q)) \cup {Head(q)}
<1> DEFINE n == Len(q)
           t == Tail(q)
<1>1. /\ t \in Seq(T) /\ Len(t) = n - 1 /\ n \in Nat \ {0}
      /\ DOMAIN q = 1..n /\ DOMAIN t = 1..(n - 1)
      /\ Head(q) = q[1] /\ q[1] \in T
      /\ \A p \in 1..(n - 1) : t[p] = q[p + 1]
  OBVIOUS
<1> HIDE DEF n, t
<1>2. \A p \in 1..(n - 1) : p + 1 \in 1..n
  BY <1>1
<1>3. \A p \in 1..n : p = 1 \/ (p - 1 \in 1..(n - 1) /\ (p - 1) + 1 = p)
  BY <1>1
<1>4. 1 \in 1..n
  BY <1>1
<1>5. Range(t) = {t[p] : p \in 1..(n - 1)} /\ Range(q) = {q[p] : p \in 1..n}
  BY <1>1 DEF Range
<1>6. Range(t) \cup {q[1]} \subseteq Range(q)
  BY <1>1, <1>2, <1>4, <1>5
<1>7. \A p \in 1..n : q[p] \in Range(t) \cup {q[1]}
  BY <1>1, <1>3, <1>5
<1>8. QED
  BY <1>1, <1>2, <1>5, <1>6, <1>7 DEF n, t

\* A plain message is sent for the first time.
LEMMA OrderWhenSent ==
    ASSUME NEW s \in Seq(Messages), NEW q \in Seq(Frames), NEW x, NEW m \in Messages,
           \A i \in DOMAIN s : s[i] # m,
           Queued(s, q), NoneOvertaken(s, q, x), \A p \in DOMAIN q : q[p] \in Plain => q[p] \in Range(s)
    PROVE  Queued(Append(s, m), Append(q, m)) /\ NoneOvertaken(Append(s, m), Append(q, m), x)
<1> DEFINE n == Len(s)
           k == Len(q)
           s2 == Append(s, m)
           q2 == Append(q, m)
<1>1. /\ n \in Nat /\ DOMAIN s = 1..n /\ DOMAIN s2 = 1..(n + 1)
      /\ s2[n + 1] = m /\ \A i \in 1..n : s2[i] = s[i]
  BY QueueAppend
<1>2. m \in Frames
  BY DEF Frames
<1>3. /\ k \in Nat /\ DOMAIN q = 1..k /\ DOMAIN q2 = 1..(k + 1)
      /\ q2[k + 1] = m /\ \A p \in 1..k : q2[p] = q[p]
      /\ Range(q2) = Range(q) \cup {m}
  BY <1>2, QueueAppend
<1> HIDE DEF n, k, s2, q2
<1>4. /\ \A i \in 1..(n + 1) : i = n + 1 \/ i \in 1..n
      /\ \A p \in 1..(k + 1) : p = k + 1 \/ p \in 1..k
      /\ \A i \in 1..n : i < n + 1 /\ ~(n + 1 < i)
      /\ \A p \in 1..k : p < k + 1 /\ ~(k + 1 < p)
      /\ ~(n + 1 < n + 1) /\ ~(k + 1 < k + 1)
  BY <1>1, <1>3
<1>5. ASSUME NEW p \in 1..(k + 1), NEW r \in 1..(k + 1), NEW i \in 1..(n + 1), NEW j \in 1..(n + 1),
             p < r, q2[p] \in Plain, q2[r] \in Plain, s2[i] = q2[p], s2[j] = q2[r]
      PROVE  i < j
  <2>1. p \in 1..k
    BY <1>4, <1>5
  <2>2. q[p] # m
    BY <1>1, <1>3, <1>5, <2>1 DEF Range
  <2>3. i \in 1..n
    BY <1>1, <1>3, <1>4, <1>5, <2>1, <2>2
  <2>4. CASE j = n + 1
    BY <1>4, <2>3, <2>4
  <2>5. CASE j \in 1..n
    <3>1. r \in 1..k
      BY <1>1, <1>3, <1>4, <1>5, <2>5
    <3>2. QED
      BY <1>1, <1>3, <1>5, <2>1, <2>3, <2>5, <3>1 DEF Queued
  <2>6. QED
    BY <1>4, <2>4, <2>5
<1>6. ASSUME NEW i \in 1..(n + 1), NEW j \in 1..(n + 1),
             i < j, s2[i] \in Plain, s2[j] \in Plain, s2[i] \in Range(q2) \cup {x}
      PROVE  s2[j] \in Range(q2)
  <2>1. i \in 1..n
    BY <1>4, <1>6
  <2>2. s2[i] = s[i] /\ s[i] \in Range(q) \cup {x}
    BY <1>1, <1>3, <1>6, <2>1
  <2>3. CASE j = n + 1
    BY <1>1, <1>3, <2>3
  <2>4. CASE j \in 1..n
    BY <1>1, <1>3, <1>6, <2>1, <2>2, <2>4 DEF NoneOvertaken
  <2>5. QED
    BY <1>4, <2>3, <2>4
<1>7. QED
  BY <1>1, <1>3, <1>5, <1>6 DEF Queued, NoneOvertaken, s2, q2

\* Any other frame arrives.
LEMMA OrderWhenOther ==
    ASSUME NEW s, NEW q \in Seq(Frames), NEW x, NEW f \in Frames \ Plain,
           Queued(s, q), NoneOvertaken(s, q, x)
    PROVE  Queued(s, Append(q, f)) /\ NoneOvertaken(s, Append(q, f), x)
<1> DEFINE k == Len(q)
           q2 == Append(q, f)
<1>1. /\ k \in Nat /\ DOMAIN q = 1..k /\ DOMAIN q2 = 1..(k + 1)
      /\ q2[k + 1] = f /\ \A p \in 1..k : q2[p] = q[p]
      /\ Range(q2) = Range(q) \cup {f}
  BY QueueAppend
<1> HIDE DEF k, q2
<1>2. \A p \in 1..(k + 1) : p = k + 1 \/ p \in 1..k
  BY <1>1
<1>3. \A p \in DOMAIN q2 : q2[p] \in Plain => p \in DOMAIN q /\ q2[p] = q[p]
  BY <1>1, <1>2
<1>4. Queued(s, q2)
  BY <1>3 DEF Queued
<1>5. NoneOvertaken(s, q2, x)
  BY <1>1 DEF NoneOvertaken
<1>6. QED
  BY <1>4, <1>5 DEF q2

\* The frame at the front is taken; if it is a message it is in the loop's hands.
LEMMA OrderWhenTaken ==
    ASSUME NEW s, NEW q \in Seq(Frames), NEW x, q # <<>>,
           \A i, j \in DOMAIN s : s[i] = s[j] => i = j,
           DOMAIN s \subseteq Nat,
           Queued(s, q), NoneOvertaken(s, q, x)
    PROVE  Queued(s, Tail(q)) /\ NoneOvertaken(s, Tail(q), Head(q))
           /\ (Head(q) \in Plain /\ Head(q) \in Range(s) => Head(q) \notin Range(Tail(q)))
<1> DEFINE k == Len(q)
           t == Tail(q)
           h == Head(q)
<1>1. /\ k \in Nat \ {0} /\ DOMAIN q = 1..k /\ DOMAIN t = 1..(k - 1) /\ h = q[1]
      /\ \A p \in 1..(k - 1) : t[p] = q[p + 1] /\ p + 1 \in 1..k
      /\ Range(q) = Range(t) \cup {h}
  BY QueueTail
<1> HIDE DEF k, t, h
<1>2. /\ \A p, r \in 1..(k - 1) : p < r => p + 1 < r + 1
      /\ \A p \in 1..(k - 1) : 1 < p + 1
      /\ 1 \in 1..k
  BY <1>1
<1>3. ASSUME NEW p \in 1..(k - 1), NEW r \in 1..(k - 1), NEW i \in DOMAIN s, NEW j \in DOMAIN s,
             p < r, t[p] \in Plain, t[r] \in Plain, s[i] = t[p], s[j] = t[r]
      PROVE  i < j
  <2>1. /\ p + 1 \in 1..k /\ r + 1 \in 1..k /\ p + 1 < r + 1
        /\ t[p] = q[p + 1] /\ t[r] = q[r + 1]
    BY <1>1, <1>2, <1>3
  <2>2. \A a, b \in 1..k : a < b /\ q[a] \in Plain /\ q[b] \in Plain /\ s[i] = q[a] /\ s[j] = q[b]
                            => i < j
    BY <1>1 DEF Queued
  <2>3. q[p + 1] \in Plain /\ q[r + 1] \in Plain /\ s[i] = q[p + 1] /\ s[j] = q[r + 1]
    BY <1>3, <2>1
  <2>4. QED
    BY <2>1, <2>2, <2>3
<1>4. ASSUME NEW p \in 1..(k - 1), NEW i \in DOMAIN s, NEW j \in DOMAIN s,
             h \in Plain, t[p] \in Plain, s[i] = h, s[j] = t[p]
      PROVE  i < j
  BY <1>1, <1>2, <1>4 DEF Queued
<1>5. ASSUME NEW i \in DOMAIN s, NEW j \in DOMAIN s,
             i < j, s[i] \in Plain, s[j] \in Plain, s[i] \in Range(t) \cup {h}
      PROVE  s[j] \in Range(t)
  <2>1. s[j] \in Range(t) \cup {h}
    BY <1>1, <1>5 DEF NoneOvertaken
  <2>2. ASSUME s[j] = h PROVE FALSE
    <3>1. s[i] # h
      BY <1>5, <2>2
    <3>2. PICK p \in 1..(k - 1) : s[i] = t[p]
      BY <1>1, <1>5, <3>1 DEF Range
    <3>3. j < i
      BY <1>4, <1>5, <2>2, <3>2
    <3>4. QED
      BY <1>5, <3>3
  <2>3. QED
    BY <2>1, <2>2
<1>6. ASSUME h \in Plain, h \in Range(s), h \in Range(t) PROVE FALSE
  <2>1. PICK i \in DOMAIN s : s[i] = h
    BY <1>6 DEF Range
  <2>2. PICK p \in 1..(k - 1) : t[p] = h
    BY <1>1, <1>6 DEF Range
  <2>3. i < i
    BY <1>4, <1>6, <2>1, <2>2
  <2>4. QED
    BY <2>3
<1>7. QED
  BY <1>1, <1>3, <1>5, <1>6 DEF Queued, NoneOvertaken, t, h

-----------------------------------------------------------------------------
\* R and RP are the same router.
LEMMA RouterAssumed == RP!RouterAssumption
BY WsRouterAssumption DEF R!RouterAssumption, R!Elements, RP!RouterAssumption, RP!Elements

\* The router's types are the same by either instance.
LEMMA SameTypes == R!TypeOK <=> RP!TypeOK
BY DEF R!TypeOK, R!Results, R!Responses, R!Outputs, R!NoBody, R!Pending, R!Output,
       RP!TypeOK, RP!Results, RP!Responses, RP!Outputs, RP!NoBody, RP!Pending, RP!Output

\* So is its dispatch.
LEMMA SameDispatch ==
    ASSUME NEW m \in Messages
    PROVE  R!Dispatch(m) <=> RP!Dispatch(m)
BY DEF R!Dispatch, R!RejectBody, R!AcceptBody, R!RejectElement, R!UnknownMethod, R!CallHandler,
       R!HandlerReturns, R!ReturnOutput, R!Return, R!Answer, R!Element, R!Handler,
       R!IsNotification, R!Oversized, R!Output, R!Single, R!Response, R!Results, R!tables,
       RP!Dispatch, RP!RejectBody, RP!AcceptBody, RP!RejectElement, RP!UnknownMethod,
       RP!CallHandler, RP!HandlerReturns, RP!ReturnOutput, RP!Return, RP!Answer, RP!Element,
       RP!Handler, RP!IsNotification, RP!Oversized, RP!Output, RP!Single, RP!Response,
       RP!Results, RP!tables

\* The dispatch of a message does for it what Router says, and nothing for others.
LEMMA DispatchStep ==
    ASSUME RP!RouterInv, NEW m \in Messages, R!Dispatch(m)
    PROVE  /\ RP!RouterInv'
           /\ \A q \in Messages \ {m} : at'[q] = at[q] /\ output'[q] = output[q]
<1>1. RP!Dispatch(m)
  BY SameDispatch
<1>2. RP!RouterInv'
  BY <1>1, RouterAssumed, RP!RouterStep DEF RP!Next, RP!RouterAssumption
<1>3. at \in [Messages -> {"unborn", "new", "element", "handler", "done", "dropped"}]
      /\ DOMAIN output = Messages
  BY DEF RP!RouterInv, RP!TypeOK
<1>4. \A q \in Messages \ {m} : at'[q] = at[q] /\ output'[q] = output[q]
  BY <1>1, <1>3 DEF RP!Dispatch, RP!RejectBody, RP!AcceptBody, RP!RejectElement,
       RP!UnknownMethod, RP!CallHandler, RP!HandlerReturns, RP!ReturnOutput, RP!Return, RP!Answer
<1>5. QED
  BY <1>2, <1>4

\* A step that dispatches nothing.
LEMMA NoDispatch ==
    ASSUME RP!RouterInv, UNCHANGED routerVars
    PROVE  RP!RouterInv'
<1>1. UNCHANGED RP!vars
  BY DEF routerVars, RP!vars, RP!tables
<1>2. QED
  BY <1>1, RouterAssumed, RP!RouterStep DEF RP!RouterAssumption

\* The router's table.
LEMMA Table ==
    /\ [i \in {1} |-> [name \in Methods |-> HandlerOf(name)]] \in Seq([Methods -> 0..1])
    /\ Len([i \in {1} |-> [name \in Methods |-> HandlerOf(name)]]) = 1
<1> DEFINE table == [name \in Methods |-> HandlerOf(name)]
           S == [Methods -> 0..1]
<1>1. table \in S
  BY DEF HandlerOf
<1> HIDE DEF table, S
<1>2. [i \in {1} |-> table] = <<table>>
  OBVIOUS
<1>3. <<table>> \in Seq(S) /\ Len(<<table>>) = 1
  BY <1>1
<1>4. QED
  BY <1>2, <1>3 DEF table, S

\* At the start the router has every message before it.
LEMMA RouterStart == Init => RP!RouterInv
<1> SUFFICES ASSUME Init PROVE RP!RouterInv
  OBVIOUS
<1>1. ASSUME NEW m \in Messages PROVE RP!Progress(m)
  <2>1. at[m] = "new" /\ next[m] = 1 /\ responses[m] = <<>> /\ ran[m] = <<>>
    BY DEF Init
  <2>2. RP!Ran(m) /\ RP!Answered(m)
    BY <2>1, RouterAssumed, RP!NothingYet DEF RP!Ran, RP!Answered, RP!RouterAssumption
  <2>3. QED
    BY <2>1, <2>2 DEF RP!Progress, RP!TableKept, RP!OnlyAccepted, RP!AtHandler, RP!Returned
<1>2. RP!TypeOK
  <2>1. /\ R!Pending \in R!Outputs /\ <<>> \in Seq(R!Responses)
        /\ <<>> \in Seq(Nat \X Nat \X R!Results)
    BY DEF R!Pending, R!Output, R!Outputs
  <2>2. \A m \in Messages : /\ body[m] \in Bodies /\ Len(body[m].elements) \in Nat
                            /\ next[m] = 1 /\ responses[m] = <<>> /\ ran[m] = <<>>
                            /\ output[m] = R!Pending /\ at[m] = "new"
    BY WsRouterAssumption DEF Init, R!RouterAssumption
  <2>3. \A m \in Messages : 1 <= Len(body[m].elements) + 1 /\ Len(<<>>) < 1
    BY <2>2
  <2>4. [name \in Methods |-> HandlerOf(name)] \in [Methods -> 0..1]
    BY DEF HandlerOf
  <2>5. /\ at \in [Messages -> {"unborn", "new", "element", "handler", "done", "dropped"}]
        /\ DOMAIN body = Messages /\ next \in [Messages -> Nat \ {0}]
        /\ responses \in [Messages -> Seq(R!Responses)]
        /\ output \in [Messages -> R!Outputs]
        /\ ran \in [Messages -> Seq(Nat \X Nat \X R!Results)]
    BY <2>1 DEF Init
  <2>6. /\ 1 \in 0..Len([i \in {1} |-> [name \in Methods |-> HandlerOf(name)]]) /\ 1 \in 0..1
        /\ [m \in Messages |-> [name \in Methods |-> HandlerOf(name)]]
             \in [Messages -> [Methods -> 0..1]]
        /\ [m \in Messages |-> 1]
             \in [Messages -> 0..Len([i \in {1} |-> [name \in Methods |-> HandlerOf(name)]])]
    BY <2>4, Table
  <2>7. ASSUME NEW m \in Messages
        PROVE  /\ body[m] \in [x \in Messages |-> Bodies][m] \cup {R!NoBody}
               /\ ([x \in Messages |-> 1][m] = 0) <=> at[m] = "unborn"
               /\ next[m] <= Len(body[m].elements) + 1
               /\ at[m] = "handler" => next[m] <= Len(body[m].elements)
               /\ Len(responses[m]) < next[m] /\ Len(ran[m]) < next[m]
               /\ (output[m] = R!Pending) <=> at[m] # "done"
    BY <2>2, <2>3
  <2>8. R!TypeOK
    BY <2>5, <2>6, <2>7, Table DEF R!TypeOK
  <2>9. QED
    BY <2>8, SameTypes
<1>3. QED
  BY <1>1, <1>2 DEF RP!RouterInv

\* The peer sends a message again that has been dealt with.
LEMMA SentAgain ==
    ASSUME RP!RouterInv, NEW m \in Messages, PeerSendsAgain(m)
    PROVE  /\ RP!RouterInv'
           /\ \A q \in Messages \ {m} : at'[q] = at[q] /\ output'[q] = output[q]
<1>1. RP!TypeOK /\ \A q \in Messages : RP!Progress(q)
  BY DEF RP!RouterInv
<1>2. /\ \A q \in Messages \ {m} : /\ at'[q] = at[q] /\ output'[q] = output[q]
                                   /\ next'[q] = next[q] /\ responses'[q] = responses[q]
                                   /\ ran'[q] = ran[q]
      /\ at'[m] = "new" /\ next'[m] = 1 /\ responses'[m] = <<>> /\ ran'[m] = <<>>
      /\ output'[m] = R!Pending
      /\ body' = body
  BY <1>1 DEF PeerSendsAgain, RP!TypeOK
<1>3. ASSUME NEW q \in Messages PROVE RP!Progress(q)'
  <2>1. CASE q = m
    <3>1. RP!Ran(q)' /\ RP!Answered(q)'
      BY <1>2, <2>1, RouterAssumed, RP!NothingYet DEF RP!Ran, RP!Answered, RP!RouterAssumption
    <3>2. QED
      BY <1>2, <2>1, <3>1 DEF RP!Progress, RP!TableKept, RP!OnlyAccepted, RP!AtHandler, RP!Returned
  <2>2. CASE q # m
    BY <1>1, <1>2, <2>2, RouterAssumed, RP!Untouched DEF RP!RouterAssumption
  <2>3. QED
    BY <2>1, <2>2
<1>4. RP!TypeOK'
  <2>1. R!TypeOK
    BY <1>1, SameTypes
  <2>2. R!Pending \in R!Outputs
    BY DEF R!Pending, R!Output, R!Outputs
  <2>3. /\ at' \in [Messages -> {"unborn", "new", "element", "handler", "done", "dropped"}]
        /\ DOMAIN body' = Messages /\ next' \in [Messages -> Nat \ {0}]
        /\ responses' \in [Messages -> Seq(R!Responses)]
        /\ output' \in [Messages -> R!Outputs]
        /\ ran' \in [Messages -> Seq(Nat \X Nat \X R!Results)]
    BY <2>1, <2>2 DEF PeerSendsAgain, R!TypeOK
  <2>4. ASSUME NEW q \in Messages
        PROVE  /\ body'[q] \in [x \in Messages |-> Bodies][q] \cup {R!NoBody}
               /\ (1 = 0) <=> at'[q] = "unborn"
               /\ next'[q] <= Len(body'[q].elements) + 1
               /\ at'[q] = "handler" => next'[q] <= Len(body'[q].elements)
               /\ Len(responses'[q]) < next'[q] /\ Len(ran'[q]) < next'[q]
               /\ (output'[q] = R!Pending) <=> at'[q] # "done"
    <3>1. CASE q # m
      BY <1>2, <2>1, <3>1 DEF R!TypeOK
    <3>2. CASE q = m
      <4>1. Len(body[m].elements) \in Nat
        BY <1>1, RouterAssumed, RP!BodyShape DEF RP!RouterAssumption
      <4>2. QED
        BY <1>2, <2>1, <3>2, <4>1 DEF R!TypeOK
    <3>3. QED
      BY <3>1, <3>2
  <2>5. R!TypeOK'
    BY <2>1, <2>3, <2>4 DEF R!TypeOK
  <2>6. QED
    BY <2>5, SameTypes DEF R!TypeOK, RP!TypeOK, R!Results, R!Responses, R!Outputs, R!NoBody, R!Pending, R!Output,
       RP!Results, RP!Responses, RP!Outputs, RP!NoBody, RP!Pending, RP!Output
<1>5. QED
  BY <1>2, <1>3, <1>4 DEF RP!RouterInv

\* What is in the loop's hands is no plain message, or no longer one.
LEMMA OrderWhenHandsEmpty ==
    ASSUME NEW s, NEW q, NEW x, NEW y, y \notin Plain, NoneOvertaken(s, q, x)
    PROVE  NoneOvertaken(s, q, y)
BY DEF NoneOvertaken

-----------------------------------------------------------------------------
\* At the start nothing has been sent.
LEMMA WsStart == Init => WsInv
<1> SUFFICES ASSUME Init PROVE WsInv
  OBVIOUS
<1>1. Types
  <2>1. RP!RouterInv
    BY RouterStart
  <2>2. /\ <<>> \in Seq(Messages) /\ <<>> \in Seq(Frames)
        /\ <<>> \in Seq(Messages \cup {"pong", "close"}) /\ Len(<<>>) = 0
        /\ 0 <= InboxCap /\ 0 <= OutboxCap /\ 0 \in 0..MaxExtras
    BY WsAssumption
  <2>3. QED
    BY <2>1, <2>2 DEF Init, Types
<1>2. Range(<<>>) = {} /\ Range(sent) = {} /\ Range(inbox) = {}
  BY DEF Init, Range
<1>3. Order
  BY DEF Init, Order, Queued, NoneOvertaken
<1>4. (\A m \in Plain : Place(m)) /\ Ends
  BY <1>2, WsAssumption DEF Init, Place, Ends, Plain
<1>5. Listed
  <2>1. Replied = {}
    BY DEF Init, Replied
  <2>2. Lists(<<>>, sent, answered, {})
    BY EnumeratesNothing DEF Init, Lists
  <2>3. <<>> \in Seq(Nat)
    OBVIOUS
  <2>4. QED
    BY <2>1, <2>2, <2>3 DEF Listed
<1>6. QED
  BY <1>1, <1>3, <1>4, <1>5 DEF WsInv

\* Every step but the router's leaves the router's variables alone.
LEMMA RouterKept ==
    ASSUME RP!RouterInv, serving \in Messages \/ loop # "dispatch", [Next]_vars
    PROVE  RP!RouterInv'
<1>1. CASE Dispatch
  BY <1>1, DispatchStep DEF Dispatch
<1>2. ASSUME NEW m \in Messages, PeerSendsAgain(m) PROVE RP!RouterInv'
  BY <1>2, SentAgain
<1>3. CASE UNCHANGED routerVars
  BY <1>3, NoDispatch
<1>4. QED
  BY <1>1, <1>2, <1>3
     DEF Next, Serve, ServeFrames, ReadMessage, ReadPing, ReadClose, ReadFails, HonourShutdown,
         WritePong, WriteEcho, ObligedWriteFails, WriteClose,
         Dispatched, WriteReply, WriteFails, PeerSends, PeerPings, PeerCloses, PeerVanishes,
         PeerReads, ShutdownResolves, Rest, vars

\* The variables keep their types at every step.
LEMMA TypesKept ==
    ASSUME Types, [Next]_vars
    PROVE  Types'
<1>1. RP!RouterInv'
  BY RouterKept DEF Types
<1>2. ASSUME NEW f \in Messages \cup {"pong", "close"}, Room
      PROVE  /\ Append(outbox, f) \in Seq(Messages \cup {"pong", "close"})
             /\ Len(Append(outbox, f)) <= OutboxCap
  BY <1>2, QueueAppend, WsAssumption DEF Types, Room
<1> USE <1>1, WsAssumption DEF Types, Frames, loopVars, peerVars, stopVars, Return, OneExtra
<1>3. CASE ReadMessage
  BY <1>3, QueueTail DEF ReadMessage
<1>4. CASE ReadPing
  BY <1>4, QueueTail DEF ReadPing
<1>5. CASE ReadClose
  BY <1>5, QueueTail DEF ReadClose
<1>6. CASE ReadFails \/ ObligedWriteFails \/ WriteFails \/ Dispatched \/ Dispatch
  BY <1>6 DEF ReadFails, ObligedWriteFails, WriteFails, Dispatched, Dispatch
<1>7. CASE WritePong
  BY <1>2, <1>7 DEF WritePong
<1>8. CASE WriteEcho
  BY <1>2, <1>8 DEF WriteEcho
<1>9. CASE HonourShutdown
  BY <1>9 DEF HonourShutdown
<1>10. CASE WriteClose
  <2>1. outbox' \in Seq(Messages \cup {"pong", "close"}) /\ Len(outbox') <= OutboxCap
    <3>1. CASE outbox' = Append(outbox, "close") /\ Room
      BY <1>2, <3>1
    <3>2. CASE outbox' = outbox
      BY <3>2
    <3>3. QED
      BY <1>10, <3>1, <3>2 DEF WriteClose
  <2>2. QED
    BY <1>10, <2>1 DEF WriteClose
<1>11. CASE WriteReply
  BY <1>2, <1>11 DEF WriteReply
<1>12. ASSUME NEW m \in Messages, PeerSends(m) PROVE Types'
  BY <1>12 DEF PeerSends
<1>13. ASSUME NEW m \in Messages, PeerSendsAgain(m) PROVE Types'
  BY <1>13 DEF PeerSendsAgain
<1>14. CASE PeerPings
  BY <1>14 DEF PeerPings
<1>15. CASE PeerCloses
  <2>1. inbox' \in Seq(Frames) /\ Len(inbox') <= InboxCap
    BY <1>15 DEF PeerCloses
  <2>2. QED
    BY <1>15, <2>1 DEF PeerCloses
<1>16. CASE PeerVanishes
  BY <1>16 DEF PeerVanishes
<1>17. CASE PeerReads
  BY <1>17, QueueTail DEF PeerReads
<1>18. CASE ShutdownResolves \/ Rest \/ UNCHANGED vars
  BY <1>18 DEF ShutdownResolves, Rest, vars
<1>19. QED
  BY <1>3, <1>4, <1>5, <1>6, <1>7, <1>8, <1>9, <1>10, <1>11, <1>12, <1>13, <1>14, <1>15,
     <1>16, <1>17, <1>18 DEF Next, Serve, ServeFrames

\* The order in which messages are sent is that in which they are read.
LEMMA OrderKept ==
    ASSUME Types, Order, \A m \in Plain : Place(m), [Next]_vars
    PROVE  Order'
<1>1. /\ sent \in Seq(Messages) /\ inbox \in Seq(Frames) /\ Nothing \notin Plain
      /\ DOMAIN sent \subseteq Nat
      /\ "ping" \in Frames \ Plain /\ "close" \in Frames \ Plain
      /\ Messages \subseteq Frames
  BY WsAssumption DEF Types, Plain, Frames
<1>2. /\ \A i, j \in DOMAIN sent : sent[i] = sent[j] => i = j
      /\ Queued(sent, inbox) /\ NoneOvertaken(sent, inbox, serving)
  BY DEF Order
<1>3. ASSUME inbox # <<>>, inbox' = Tail(inbox), sent' = sent,
             \/ serving' = Head(inbox)
             \/ Head(inbox) \notin Plain /\ serving' = serving /\ serving = Nothing
      PROVE  Order'
  <2>1. Queued(sent, Tail(inbox)) /\ NoneOvertaken(sent, Tail(inbox), Head(inbox))
    BY <1>1, <1>2, <1>3, OrderWhenTaken
  <2>2. NoneOvertaken(sent, Tail(inbox), serving')
    BY <1>1, <1>3, <2>1, OrderWhenHandsEmpty
  <2>3. QED
    BY <1>2, <1>3, <2>1, <2>2 DEF Order
<1>4. ASSUME NEW f \in Frames \ Plain, inbox' = Append(inbox, f), UNCHANGED <<sent, serving>>
      PROVE  Order'
  BY <1>1, <1>2, <1>4, OrderWhenOther DEF Order
<1>5. ASSUME UNCHANGED <<sent, inbox>>, serving' = serving \/ serving' = Nothing
      PROVE  Order'
  BY <1>1, <1>2, <1>5, OrderWhenHandsEmpty DEF Order
<1>6. ASSUME NEW m \in Messages, PeerSends(m) PROVE Order'
  <2>1. /\ sent' = Append(sent, m) /\ inbox' = Append(inbox, m) /\ serving' = serving
        /\ \A i \in DOMAIN sent : sent[i] # m
    BY <1>6 DEF PeerSends, loopVars
  <2>2. \A p \in DOMAIN inbox : inbox[p] \in Plain => inbox[p] \in Range(sent)
    BY DEF Place, Range
  <2>3. Queued(sent', inbox') /\ NoneOvertaken(sent', inbox', serving')
    BY <1>1, <1>2, <2>1, <2>2, OrderWhenSent
  <2>4. /\ DOMAIN sent' = 1..(Len(sent) + 1) /\ DOMAIN sent = 1..Len(sent) /\ Len(sent) \in Nat
        /\ sent'[Len(sent) + 1] = m /\ \A i \in DOMAIN sent : sent'[i] = sent[i]
    BY <1>1, <2>1, QueueAppend
  <2>5. \A i \in DOMAIN sent' : i = Len(sent) + 1 \/ i \in DOMAIN sent
    BY <2>4
  <2>6. \A i, j \in DOMAIN sent' : sent'[i] = sent'[j] => i = j
    BY <1>2, <2>1, <2>4, <2>5
  <2>7. QED
    BY <2>3, <2>6 DEF Order
<1>7. ASSUME NEW m \in Messages, PeerSendsAgain(m) PROVE Order'
  BY <1>1, <1>4, <1>7 DEF PeerSendsAgain, loopVars, Plain
<1>8. CASE PeerPings \/ PeerCloses
  BY <1>1, <1>4, <1>8 DEF PeerPings, PeerCloses, loopVars
<1>9. CASE ReadMessage
  BY <1>3, <1>9 DEF ReadMessage, peerVars
<1>10. CASE ReadPing \/ ReadClose
  <2>1. serving = Nothing
    BY <1>10 DEF Types, ReadPing, ReadClose
  <2>2. QED
    BY <1>1, <1>3, <1>10, <2>1 DEF ReadPing, ReadClose, loopVars, peerVars
<1>11. CASE \/ ReadFails \/ Dispatch \/ Dispatched \/ WriteReply \/ WriteFails
            \/ PeerVanishes \/ PeerReads \/ ShutdownResolves \/ Rest \/ UNCHANGED vars
  BY <1>5, <1>11 DEF ReadFails, Dispatch, Dispatched, WriteReply, WriteFails,
       PeerVanishes, PeerReads, ShutdownResolves, Rest, vars, loopVars, peerVars
<1>12. CASE WritePong \/ WriteEcho \/ ObligedWriteFails \/ HonourShutdown \/ WriteClose
  BY <1>5, <1>12 DEF WritePong, WriteEcho, ObligedWriteFails, HonourShutdown, WriteClose, peerVars
<1>13. QED
  BY <1>6, <1>7, <1>8, <1>9, <1>10, <1>11, <1>12 DEF Next, Serve, ServeFrames

\* A plain message goes from the peer's hands to the socket, to the loop, to its end.
LEMMA PlaceKept ==
    ASSUME Types, Order, Ends, NEW m \in Plain, Place(m), [Next]_vars
    PROVE  Place(m)'
<1>1. /\ sent \in Seq(Messages) /\ inbox \in Seq(Frames) /\ m \in Messages
      /\ m # Nothing /\ m # "ping" /\ m # "close" /\ DOMAIN sent \subseteq Nat
      /\ "ping" \in Frames /\ "close" \in Frames /\ Messages \subseteq Frames
  BY WsAssumption DEF Types, Plain, Frames
<1>2. ASSUME UNCHANGED <<sent, inbox, serving>>, at'[m] = at[m] PROVE Place(m)'
  BY <1>2 DEF Place
<1>3. ASSUME NEW f \in Frames, f # m, inbox' = Append(inbox, f), UNCHANGED <<sent, serving>>,
             at'[m] = at[m]
      PROVE  Place(m)'
  <2>1. Range(inbox') = Range(inbox) \cup {f}
    BY <1>1, <1>3, QueueAppend
  <2>2. QED
    BY <1>3, <2>1 DEF Place
<1>4. ASSUME NEW q \in Messages, PeerSends(q) PROVE Place(m)'
  <2>1. /\ sent' = Append(sent, q) /\ inbox' = Append(inbox, q) /\ serving' = serving /\ at' = at
        /\ q \notin Range(sent)
    BY <1>4 DEF PeerSends, loopVars, routerVars, Range
  <2>2. Range(inbox') = Range(inbox) \cup {q} /\ Range(sent') = Range(sent) \cup {q}
    BY <1>1, <2>1, QueueAppend
  <2>3. QED
    BY <2>1, <2>2 DEF Place
<1>5. ASSUME NEW q \in Messages, PeerSendsAgain(q) PROVE Place(m)'
  <2>1. q # m /\ inbox' = Append(inbox, q) /\ UNCHANGED <<sent, serving>>
    BY <1>5 DEF PeerSendsAgain, loopVars, Plain
  <2>2. at'[m] = at[m]
    BY <1>1, <1>5, <2>1, SentAgain DEF Types
  <2>3. QED
    BY <1>1, <1>3, <2>1, <2>2
<1>6. CASE PeerPings \/ PeerCloses
  BY <1>1, <1>3, <1>6 DEF PeerPings, PeerCloses, loopVars, routerVars
<1>7. CASE ReadMessage
  <2>1. /\ inbox # <<>> /\ inbox' = Tail(inbox) /\ serving' = Head(inbox)
        /\ UNCHANGED <<sent, at>> /\ serving = Nothing
    BY <1>7 DEF ReadMessage, peerVars, routerVars, Types
  <2>2. Range(inbox) = Range(inbox') \cup {Head(inbox)}
    BY <1>1, <2>1, QueueTail
  <2>3. Head(inbox) = m => m \in Range(sent)
    BY <2>2 DEF Place
  <2>4. Head(inbox) = m => m \notin Range(inbox')
    BY <1>1, <2>1, <2>3, OrderWhenTaken DEF Order
  <2>5. QED
    BY <1>1, <2>1, <2>2, <2>3, <2>4 DEF Place
<1>8. CASE ReadPing \/ ReadClose
  <2>1. /\ inbox # <<>> /\ inbox' = Tail(inbox) /\ Head(inbox) # m
        /\ UNCHANGED <<sent, at, serving>>
    BY <1>1, <1>8 DEF ReadPing, ReadClose, peerVars, loopVars, routerVars
  <2>2. Range(inbox) = Range(inbox') \cup {Head(inbox)}
    BY <1>1, <2>1, QueueTail
  <2>3. QED
    BY <2>1, <2>2 DEF Place
<1>9. CASE Dispatch
  <2>1. serving \in Messages /\ R!Dispatch(serving) /\ UNCHANGED <<sent, inbox, serving>>
    BY <1>9 DEF Dispatch, Types, loopVars, peerVars
  <2>2. CASE serving = m
    BY <2>1, <2>2 DEF Place
  <2>3. CASE serving # m
    BY <1>1, <1>2, <2>1, <2>3, DispatchStep DEF Types
  <2>4. QED
    BY <2>2, <2>3
<1>10. CASE Dispatched \/ WriteReply
  <2>1. /\ UNCHANGED <<sent, inbox, at>> /\ serving' \in {serving, Nothing}
        /\ at[serving] = "done"
    BY <1>10 DEF Dispatched, WriteReply, peerVars, routerVars, Ends
  <2>2. QED
    BY <1>1, <2>1 DEF Place
<1>11. CASE \/ ReadFails \/ WriteFails
            \/ PeerVanishes \/ PeerReads \/ ShutdownResolves \/ Rest \/ UNCHANGED vars
  BY <1>2, <1>11 DEF ReadFails, WriteFails,
       PeerVanishes, PeerReads, ShutdownResolves, Rest, vars, loopVars, peerVars, routerVars
<1>12. CASE WritePong \/ WriteEcho \/ ObligedWriteFails \/ HonourShutdown \/ WriteClose
  BY <1>2, <1>12 DEF WritePong, WriteEcho, ObligedWriteFails, HonourShutdown, WriteClose,
       peerVars, routerVars
<1>13. QED
  BY <1>4, <1>5, <1>6, <1>7, <1>8, <1>9, <1>10, <1>11, <1>12 DEF Next, Serve, ServeFrames

\* A reply is written for what has one, what a shutdown is owed has been sent,
\* and what is left behind is unread.
LEMMA EndsKept ==
    ASSUME Types, Ends, \A m \in Plain : Place(m), [Next]_vars
    PROVE  Ends'
<1>1. /\ sent \in Seq(Messages) /\ inbox \in Seq(Frames)
      /\ serving \in Messages \cup {Nothing}
      /\ loop \in {"dispatch", "writing"} => serving \in Messages
      /\ loop \in {"reading", "pong", "echo", "closing"} => serving = Nothing
      /\ (loop = "returned") <=> (result # "running")
      /\ RP!RouterInv
      /\ {"ping", "close"} \cap Messages = {} /\ Messages \cup {"ping", "close"} = Frames
  BY WsAssumption DEF Types, Frames
<1>2. /\ loop = "writing" => at[serving] = "done" /\ output[serving].kind # "empty"
      /\ owed \subseteq Range(sent) \ Chatty
      /\ loop = "closing" \/ result = "shutdown" =>
           shutdown /\ serving = Nothing /\ (cut \/ owed \cap Range(inbox) = {})
      /\ owed \subseteq Messages
  BY DEF Types, Ends
<1>3. ASSUME NEW q \in Messages, PeerSends(q) PROVE Ends'
  <2>1. /\ sent' = Append(sent, q) /\ inbox' = Append(inbox, q) /\ q \notin Range(sent)
        /\ UNCHANGED <<serving, at, output, loop, shutdown, owed, cut, result>>
    BY <1>3 DEF PeerSends, loopVars, routerVars, stopVars, Range
  <2>2. Range(sent') = Range(sent) \cup {q} /\ Range(inbox') = Range(inbox) \cup {q}
    BY <1>1, <2>1, QueueAppend
  <2>3. owed \cap Range(inbox) = {} => owed \cap Range(inbox') = {}
    BY <1>2, <2>1, <2>2
  <2>4. QED
    BY <1>2, <2>1, <2>2, <2>3 DEF Ends
<1>4. ASSUME NEW f \in Frames \ Plain, inbox' = Append(inbox, f),
             UNCHANGED <<sent, serving, loop, stopVars, result>>,
             loop = "writing" => at'[serving] = at[serving] /\ output'[serving] = output[serving]
      PROVE  Ends'
  <2>1. Range(inbox') = Range(inbox) \cup {f}
    BY <1>1, <1>4, QueueAppend
  <2>2. owed \cap Range(inbox) = {} => owed \cap Range(inbox') = {}
    BY <1>2, <1>4, <2>1 DEF Plain
  <2>3. QED
    BY <1>2, <1>4, <2>2 DEF Ends, stopVars
<1>5. ASSUME NEW q \in Messages, PeerSendsAgain(q) PROVE Ends'
  <2>1. /\ q # serving /\ q \in Chatty /\ inbox' = Append(inbox, q)
        /\ UNCHANGED <<sent, serving, loop, stopVars, result>>
    BY <1>5 DEF PeerSendsAgain, loopVars
  <2>2. loop = "writing" => at'[serving] = at[serving] /\ output'[serving] = output[serving]
    BY <1>1, <1>5, <2>1, SentAgain
  <2>3. q \in Frames \ Plain
    BY <1>1, <2>1 DEF Plain
  <2>4. QED
    BY <1>4, <2>1, <2>2, <2>3
<1>6. CASE PeerPings \/ PeerCloses
  <2>1. PICK f \in {"ping", "close"} : inbox' = Append(inbox, f)
    BY <1>6 DEF PeerPings, PeerCloses
  <2>2. f \in Frames \ Plain
    BY <1>1 DEF Plain
  <2>3. UNCHANGED <<sent, serving, loop, stopVars, result, at, output>>
    BY <1>6 DEF PeerPings, PeerCloses, loopVars, routerVars
  <2>4. QED
    BY <1>4, <2>1, <2>2, <2>3
<1>7. CASE ReadMessage \/ ReadPing \/ ReadClose
  BY <1>1, <1>2, <1>7 DEF ReadMessage, ReadPing, ReadClose, peerVars, stopVars, Ends
<1>8. CASE ReadFails \/ WritePong \/ WriteEcho \/ ObligedWriteFails \/ WriteFails
  BY <1>1, <1>2, <1>8 DEF ReadFails, WritePong, WriteEcho, ObligedWriteFails, WriteFails, Return,
       peerVars, stopVars, routerVars, Ends
<1>9. CASE WriteReply \/ Dispatched
  BY <1>1, <1>2, <1>9 DEF WriteReply, Dispatched, peerVars, stopVars, routerVars, Ends
<1>10. CASE HonourShutdown
  <2>1. cut' \/ inbox = <<>>
    BY <1>10 DEF HonourShutdown, ReadPending
  <2>2. inbox = <<>> => Range(inbox) = {}
    BY DEF Range
  <2>3. /\ serving' = Nothing /\ shutdown' /\ loop' = "closing"
        /\ UNCHANGED <<sent, inbox, owed>>
    BY <1>1, <1>10 DEF HonourShutdown, peerVars
  <2>4. QED
    BY <1>2, <2>1, <2>2, <2>3 DEF Ends
<1>11. CASE WriteClose
  BY <1>1, <1>2, <1>11 DEF WriteClose, Return, peerVars, stopVars, Ends
<1>12. CASE Dispatch \/ PeerVanishes \/ PeerReads \/ Rest \/ UNCHANGED vars
  BY <1>1, <1>2, <1>12 DEF Dispatch, PeerVanishes, PeerReads, Rest, vars,
       loopVars, peerVars, stopVars, routerVars, Ends
<1>13. CASE ShutdownResolves
  <2>1. owed' \subseteq Plain /\ owed' \subseteq Range(inbox) \cup {serving}
    BY <1>13 DEF ShutdownResolves, Arrived, Plain, Range
  <2>2. owed' \subseteq Range(sent) \ Chatty
    BY <2>1 DEF Place, Plain
  <2>3. QED
    BY <1>1, <1>2, <1>13, <2>2 DEF ShutdownResolves, loopVars, peerVars, routerVars, Ends
<1>14. QED
  BY <1>3, <1>5, <1>6, <1>7, <1>8, <1>9, <1>10, <1>11, <1>12, <1>13 DEF Next, Serve, ServeFrames

\* The replies remain in order when no more is due than before.
LEMMA ListedAsBefore ==
    ASSUME Listed, answered' = answered, Replied' = Replied,
           \A i \in Replied : sent'[i] = sent[i]
    PROVE  Listed'
<1>1. PICK places \in Seq(Nat) : Lists(places, sent, answered, Replied)
  BY DEF Listed
<1>2. \A k \in DOMAIN places : places[k] \in Replied
  BY <1>1 DEF Lists, Enumerates, Range
<1>3. Lists(places, sent', answered', Replied')
  <2>1. DOMAIN answered = DOMAIN places => \A k \in DOMAIN answered : answered[k] = sent'[places[k]]
    BY <1>1, <1>2 DEF Lists
  <2>2. QED
    BY <1>1, <2>1 DEF Lists
<1>4. QED
  BY <1>3 DEF Listed

\* Replies are written in the order of the messages.
LEMMA ListedKept ==
    ASSUME WsInv, [Next]_vars
    PROVE  Listed'
<1>1. /\ sent \in Seq(Messages) /\ answered \in Seq(Messages)
      /\ DOMAIN sent = 1..Len(sent) /\ Len(sent) \in Nat
      /\ serving \in Messages \cup {Nothing}
      /\ loop = "reading" => serving = Nothing
      /\ \A m \in Plain : Place(m)
      /\ RP!RouterInv /\ Listed /\ Ends
  BY DEF WsInv, Types
<1>2. \A i \in DOMAIN sent : sent[i] \in Messages /\ sent[i] # Nothing
  BY <1>1, WsAssumption
<1>3. ASSUME UNCHANGED <<sent, answered>>,
             \A i \in DOMAIN sent : i \in Replied' <=> i \in Replied
      PROVE  Listed'
  <2>1. Replied' = Replied
    BY <1>3 DEF Replied
  <2>2. QED
    BY <1>1, <1>3, <2>1, ListedAsBefore
<1>4. ASSUME NEW q \in Messages, PeerSends(q) PROVE Listed'
  <2>1. /\ sent' = Append(sent, q) /\ q \notin Range(sent)
        /\ UNCHANGED <<serving, answered, at, output>>
    BY <1>4 DEF PeerSends, loopVars, routerVars, Range
  <2>2. q \in Chatty \/ at[q] = "new"
    BY <1>1, <2>1 DEF Place, Plain
  <2>3. /\ DOMAIN sent' = 1..(Len(sent) + 1) /\ sent'[Len(sent) + 1] = q
        /\ \A i \in DOMAIN sent : sent'[i] = sent[i]
    BY <1>1, <2>1, QueueAppend
  <2>4. \A i \in DOMAIN sent' : i \in DOMAIN sent \/ i = Len(sent) + 1
    BY <1>1, <2>3
  <2>5. DOMAIN sent \subseteq DOMAIN sent'
    BY <1>1, <2>3
  <2>6. Replied' = Replied
    BY <2>1, <2>2, <2>3, <2>4, <2>5 DEF Replied
  <2>7. QED
    BY <1>1, <2>1, <2>3, <2>6, ListedAsBefore DEF Replied
<1>5. ASSUME NEW q \in Messages, PeerSendsAgain(q) PROVE Listed'
  <2>1. q \in Chatty /\ UNCHANGED <<sent, serving, answered>>
    BY <1>5 DEF PeerSendsAgain, loopVars
  <2>2. \A i \in DOMAIN sent : sent[i] \notin Chatty =>
            at'[sent[i]] = at[sent[i]] /\ output'[sent[i]] = output[sent[i]]
    BY <1>1, <1>2, <1>5, <2>1, SentAgain
  <2>3. QED
    BY <1>3, <2>1, <2>2 DEF Replied
<1>6. CASE ReadMessage
  <2>1. /\ inbox # <<>> /\ serving' = Head(inbox) /\ serving = Nothing
        /\ UNCHANGED <<sent, answered, at, output>>
    BY <1>1, <1>6 DEF ReadMessage, peerVars, routerVars
  <2>2. Head(inbox) \in Range(inbox)
    <3>1. inbox \in Seq(Frames)
      BY DEF WsInv, Types
    <3>2. QED
      BY <2>1, <3>1, QueueTail
  <2>3. Head(inbox) \in Plain => at[Head(inbox)] = "new"
    BY <1>1, <2>2 DEF Place
  <2>4. \A i \in DOMAIN sent : i \in Replied' <=> i \in Replied
    BY <1>2, <2>1, <2>3 DEF Replied, Plain
  <2>5. QED
    BY <1>3, <2>1, <2>4
<1>7. CASE Dispatch
  <2>1. /\ serving \in Messages /\ R!Dispatch(serving) /\ UNCHANGED <<sent, answered, serving>>
    BY <1>7 DEF Dispatch, WsInv, Types, loopVars, peerVars
  <2>2. \A i \in DOMAIN sent : sent[i] # serving =>
            at'[sent[i]] = at[sent[i]] /\ output'[sent[i]] = output[sent[i]]
    BY <1>1, <1>2, <2>1, DispatchStep
  <2>3. QED
    BY <1>3, <2>1, <2>2 DEF Replied
<1>8. CASE Dispatched
  <2>1. /\ UNCHANGED <<sent, answered, at, output>>
        /\ \/ serving' = serving
           \/ serving' = Nothing /\ output[serving].kind = "empty"
    BY <1>8 DEF Dispatched, peerVars, routerVars
  <2>2. QED
    BY <1>2, <1>3, <2>1 DEF Replied
<1>9. CASE WriteReply
  <2>1. /\ UNCHANGED <<sent, at, output>> /\ serving' = Nothing
        /\ serving \in Messages /\ at[serving] = "done" /\ output[serving].kind # "empty"
        /\ answered' = IF serving \in Chatty THEN answered ELSE Append(answered, serving)
    BY <1>1, <1>9 DEF WriteReply, WsInv, Types, Ends, peerVars, routerVars
  <2>2. CASE serving \in Chatty
    BY <1>2, <1>3, <2>1, <2>2 DEF Replied
  <2>3. CASE serving \notin Chatty
    <3>1. PICK x \in DOMAIN sent : sent[x] = serving
      BY <1>1, <2>1, <2>3 DEF Place, Plain, Range
    <3>2. Replied' = Replied \cup {x}
      <4>1. \A i \in DOMAIN sent : sent[i] = serving => i = x
        BY <3>1 DEF WsInv, Order
      <4>2. QED
        BY <1>2, <2>1, <2>3, <3>1, <4>1 DEF Replied
    <3>3. ASSUME NEW i \in Replied PROVE i < x
      <4>1. i \in Nat /\ x \in Nat /\ i # x
        BY <1>1, <3>1 DEF Replied
      <4>2. ASSUME x < i PROVE FALSE
        <5>1. sent[i] \in Range(inbox)
          BY <1>2, <2>1, <2>3, <3>1, <4>2 DEF WsInv, Order, NoneOvertaken, Replied, Plain
        <5>2. at[sent[i]] = "new"
          BY <1>1, <1>2, <5>1 DEF Place, Replied, Plain
        <5>3. QED
          BY <5>2 DEF Replied
      <4>3. QED
        BY <4>1, <4>2
    <3>4. PICK places \in Seq(Nat) : Lists(places, sent, answered, Replied)
      BY <1>1 DEF Listed
    <3>5. /\ Append(places, x) \in Seq(Nat)
          /\ Enumerates(Append(places, x), Replied \cup {x})
      BY <1>1, <3>1, <3>3, <3>4, EnumeratesOneMore DEF Lists
    <3>6. /\ Len(Append(places, x)) = Len(Append(answered, serving))
          /\ \A k \in DOMAIN Append(answered, serving) :
               Append(answered, serving)[k] = sent[Append(places, x)[k]]
      <4>1. /\ Len(answered) = Len(places) /\ Len(places) \in Nat
            /\ \A k \in 1..Len(places) : answered[k] = sent[places[k]]
        BY <1>1, <3>4 DEF Lists
      <4>2. /\ Len(Append(answered, serving)) = Len(places) + 1
            /\ DOMAIN Append(answered, serving) = 1..(Len(places) + 1)
            /\ Append(answered, serving)[Len(places) + 1] = serving
            /\ \A k \in 1..Len(places) : Append(answered, serving)[k] = answered[k]
        BY <1>1, <2>1, <4>1, QueueAppend
      <4>3. /\ Len(Append(places, x)) = Len(places) + 1
            /\ Append(places, x)[Len(places) + 1] = x
            /\ \A k \in 1..Len(places) : Append(places, x)[k] = places[k]
        BY <1>1, <3>1, QueueAppend
      <4>4. \A k \in 1..(Len(places) + 1) : k = Len(places) + 1 \/ k \in 1..Len(places)
        BY <4>1
      <4>5. QED
        BY <3>1, <4>1, <4>2, <4>3, <4>4
    <3>7. Lists(Append(places, x), sent', answered', Replied')
      BY <2>1, <2>3, <3>2, <3>5, <3>6 DEF Lists
    <3>8. QED
      BY <3>5, <3>7 DEF Listed
  <2>4. QED
    BY <2>2, <2>3
<1>10. CASE PeerPings \/ PeerCloses \/ PeerVanishes \/ PeerReads \/ ReadPing \/ ReadClose
  BY <1>3, <1>10 DEF PeerPings, PeerCloses, PeerVanishes, PeerReads, ReadPing, ReadClose,
       loopVars, peerVars, routerVars, Replied
<1>11. CASE ReadFails \/ WriteFails \/ ShutdownResolves \/ Rest \/ UNCHANGED vars
  BY <1>3, <1>11 DEF ReadFails, WriteFails, ShutdownResolves, Rest, vars,
       loopVars, peerVars, routerVars, Replied
<1>12. CASE WritePong \/ WriteEcho \/ ObligedWriteFails \/ HonourShutdown \/ WriteClose
  BY <1>3, <1>12 DEF WritePong, WriteEcho, ObligedWriteFails, HonourShutdown, WriteClose,
       peerVars, routerVars, Replied
<1>13. QED
  BY <1>4, <1>5, <1>6, <1>7, <1>8, <1>9, <1>10, <1>11, <1>12 DEF Next, Serve, ServeFrames

-----------------------------------------------------------------------------
\* Every step keeps all of it.
LEMMA WsStep == WsInv /\ [Next]_vars => WsInv'
<1> SUFFICES ASSUME WsInv, [Next]_vars PROVE WsInv'
  OBVIOUS
<1>1. Types /\ Order /\ Ends /\ \A m \in Plain : Place(m)
  BY DEF WsInv
<1>2. Types' /\ Order' /\ Ends' /\ Listed'
  BY <1>1, TypesKept, OrderKept, EndsKept, ListedKept
<1>3. ASSUME NEW m \in Plain PROVE Place(m)'
  BY <1>1, PlaceKept
<1>4. QED
  BY <1>2, <1>3 DEF WsInv

-----------------------------------------------------------------------------
(* Theorems.                                                                *)

\* WsInv holds in every reachable state.
THEOREM WebSocketInvariant == Spec => []WsInv
BY WsStart, WsStep, PTL DEF Spec

\* The variables keep their types; in particular nothing is written that the
\* socket has no room for.
THEOREM WebSocketTypes == Spec => []TypeOK
<1>1. WsInv => TypeOK
  <2> SUFFICES ASSUME WsInv PROVE TypeOK
    OBVIOUS
  <2>1. Types /\ R!TypeOK
    BY SameTypes DEF WsInv, Types, RP!RouterInv
  <2>2. Arrived \subseteq Messages \cup {"ping", "close"}
    BY <2>1 DEF Types, Arrived, Frames
  <2>3. QED
    BY <2>1, <2>2 DEF Types, TypeOK
<1>2. QED
  BY <1>1, WebSocketInvariant, PTL

\* A message that had arrived when the shutdown resolved is dispatched to its
\* end, and its reply written, before the function returns on account of it; or
\* it has not been read, and the shutdown cut short a write of read_frame.
THEOREM ShutdownAnswersWhatWasTaken == Spec => []TakenIsAnswered
<1>1. WsInv => TakenIsAnswered
  <2> SUFFICES ASSUME WsInv, result = "shutdown", NEW m \in owed, ~(cut /\ m \in Arrived)
               PROVE  Done(m)
    BY DEF TakenIsAnswered
  <2>1. /\ m \in Plain /\ m \in Range(sent) /\ serving = Nothing
        /\ cut \/ owed \cap Range(inbox) = {}
        /\ Place(m) /\ m # Nothing
    BY WsAssumption DEF WsInv, Ends, Types, Plain
  <2>2. m \notin Range(inbox)
    BY <2>1 DEF Range, Arrived
  <2>3. at[m] = "done"
    BY <2>1, <2>2 DEF Place
  <2>4. ASSUME output[m].kind # "empty"
        PROVE  \E i \in DOMAIN answered : answered[i] = m
    <3>1. PICK x \in DOMAIN sent : sent[x] = m
      BY <2>1 DEF Range
    <3>2. x \in Replied
      BY <2>1, <2>3, <2>4, <3>1 DEF Replied, Plain
    <3>3. PICK places \in Seq(Nat) : Lists(places, sent, answered, Replied)
      BY DEF WsInv, Listed
    <3>4. PICK k \in DOMAIN places : places[k] = x
      BY <3>2, <3>3 DEF Lists, Enumerates, Range
    <3>5. k \in DOMAIN answered
      BY <3>3 DEF Lists, WsInv, Types
    <3>6. QED
      BY <3>1, <3>3, <3>4, <3>5 DEF Lists
  <2>5. QED
    BY <2>3, <2>4 DEF Done
<1>2. QED
  BY <1>1, WebSocketInvariant, PTL

\* The replies to the messages of one connection are written in the order in
\* which the messages were sent, one each.
THEOREM RepliesWrittenInOrder == Spec => []RepliesInOrder
<1>1. WsInv => RepliesInOrder
  <2> SUFFICES ASSUME WsInv
               PROVE  \E places \in [DOMAIN answered -> DOMAIN sent] :
                        /\ Enumerates(places, Replied)
                        /\ \A k \in DOMAIN answered : answered[k] = sent[places[k]]
    BY DEF RepliesInOrder, Replied
  <2>1. PICK places \in Seq(Nat) : Lists(places, sent, answered, Replied)
    BY DEF WsInv, Listed
  <2>2. DOMAIN places = DOMAIN answered /\ places = [k \in DOMAIN places |-> places[k]]
    BY <2>1 DEF Lists, WsInv, Types
  <2>3. \A k \in DOMAIN places : places[k] \in DOMAIN sent
    BY <2>1 DEF Lists, Enumerates, Range, Replied
  <2>4. QED
    BY <2>1, <2>2, <2>3 DEF Lists
<1>2. QED
  BY <1>1, WebSocketInvariant, PTL

\* What module Router promises of a message holds of those that come over a
\* WebSocket: handle_bytes_with_context answers every call of a message, by the
\* handlers that are registered, in the order of its elements.
THEOREM WebSocketRoutes == Spec => [](R!AnswersEveryCall /\ R!RunsInOrder)
<1>1. WsInv => R!AnswersEveryCall /\ R!RunsInOrder
  <2> SUFFICES ASSUME RP!RouterInv PROVE R!AnswersEveryCall /\ R!RunsInOrder
    BY DEF WsInv, Types
  <2>1. RP!AnswersEveryCall /\ RP!RunsInOrder
    BY RouterAssumed, RP!AnswersFollow, RP!RunsFollow DEF RP!RouterAssumption
  <2>2. R!AnswersEveryCall
    BY <2>1 DEF R!AnswersEveryCall, R!Accepted, R!Oversized, R!WantsResponse, R!Owed, R!Results,
         R!Response, R!Enumerates, R!Range, RP!Enumerates, RP!Range, RP!AnswersEveryCall, RP!Accepted, RP!Oversized, RP!WantsResponse, RP!Owed,
         RP!Results, RP!Response
  <2>3. R!RunsInOrder
    BY <2>1 DEF R!RunsInOrder, R!Oversized, R!Single, R!Output, R!Response,
         R!Enumerates, R!Range, RP!Enumerates, RP!Range,
         RP!RunsInOrder, RP!Oversized, RP!Single, RP!Output, RP!Response
  <2>4. QED
    BY <2>2, <2>3
<1>2. QED
  BY <1>1, WebSocketInvariant, PTL
=============================================================================
