-------------------------- MODULE UdsServerProofs --------------------------
(***************************************************************************)
(* Theorems about UdsServer, for any peers, any number of frames and any    *)
(* room in the sockets.                                                     *)
(***************************************************************************)
EXTENDS UdsServer, TLAPS

\* What the task of p has answered when it is at each of its places: all that
\* it has taken, but for the frame in its hands or the one a peer that vanished
\* was not told of.
Progress(p) ==
    /\ task[p] \in {"none", "reading"} => Enumerates(out[p], CallsTaken(p))
    /\ task[p] \in {"handling", "sending"} =>
        /\ taken[p] # 0
        /\ Enumerates(out[p], CallsTaken(p) \ {taken[p]})
    /\ task[p] = "sending" => sent[p][taken[p]] = "call"
    /\ task[p] = "returned" =>
        \/ Enumerates(out[p], CallsTaken(p))
        \/ peer[p] = "gone" /\ Enumerates(out[p], CallsTaken(p) \ {taken[p]})

ServerInv == TypeOK /\ \A p \in Peers : Progress(p)

-----------------------------------------------------------------------------
(* Sequences and what they enumerate.                                        *)

\* Sequences over a set are sequences over every larger set.
LEMMA SeqOfMore == \A S, T : S \subseteq T => Seq(S) \subseteq Seq(T)
OBVIOUS

\* What is in a sequence after one more member.
LEMMA RangeOfAppend ==
    ASSUME NEW T, NEW s \in Seq(T), NEW x \in T
    PROVE  Range(Append(s, x)) = Range(s) \cup {x}
<1> DEFINE n == Len(s)
           t == Append(s, x)
<1>1. /\ n \in Nat /\ DOMAIN s = 1..n /\ DOMAIN t = 1..(n + 1)
      /\ t[n + 1] = x /\ \A k \in 1..n : t[k] = s[k]
  OBVIOUS
<1> HIDE DEF n, t
<1>2. n + 1 \in 1..(n + 1) /\ 1..n \subseteq 1..(n + 1)
      /\ \A k \in 1..(n + 1) : k = n + 1 \/ k \in 1..n
  BY <1>1
<1>3. Range(t) = {t[k] : k \in 1..(n + 1)} /\ Range(s) = {s[k] : k \in 1..n}
  BY <1>1 DEF Range
<1>4. x \in Range(t)
  BY <1>1, <1>2, <1>3
<1>5. ASSUME NEW y \in Range(s) PROVE y \in Range(t)
  <2>1. PICK k \in 1..n : y = s[k]
    BY <1>3
  <2>2. QED
    BY <1>1, <1>2, <1>3, <2>1
<1>6. \A k \in 1..(n + 1) : t[k] \in Range(s) \cup {x}
  BY <1>1, <1>2, <1>3
<1>7. Range(t) \subseteq Range(s) \cup {x}
  BY <1>3, <1>6
<1>8. QED
  BY <1>4, <1>5, <1>7 DEF t

\* Nothing is enumerated by the empty sequence.
LEMMA EnumeratesNothing == Enumerates(<<>>, {})
BY DEF Enumerates, Range

\* One more number, larger than those enumerated so far.
LEMMA EnumeratesOneMore ==
    ASSUME NEW s \in Seq(Nat), NEW S, Enumerates(s, S), NEW x \in Nat, \A y \in S : y < x
    PROVE  Append(s, x) \in Seq(Nat) /\ Enumerates(Append(s, x), S \cup {x})
<1> DEFINE n == Len(s)
           t == Append(s, x)
<1>1. /\ n \in Nat /\ DOMAIN s = 1..n /\ DOMAIN t = 1..(n + 1) /\ t \in Seq(Nat)
      /\ t[n + 1] = x /\ \A k \in 1..n : t[k] = s[k] /\ s[k] \in Nat
  OBVIOUS
<1> HIDE DEF n, t
<1>2. n + 1 \in 1..(n + 1) /\ 1..n \subseteq 1..(n + 1)
      /\ \A k \in 1..(n + 1) : k = n + 1 \/ k \in 1..n
  BY <1>1
<1>3. \A k \in 1..n : s[k] \in S
  BY <1>1 DEF Enumerates, Range
<1>4. Range(t) = S \cup {x}
  BY RangeOfAppend DEF Enumerates, t
<1>5. ASSUME NEW j \in 1..(n + 1), NEW k \in 1..(n + 1), j < k PROVE t[j] < t[k]
  <2>1. j \in 1..n
    BY <1>1, <1>5
  <2>2. CASE k = n + 1
    BY <1>1, <1>3, <2>1, <2>2
  <2>3. CASE k \in 1..n
    BY <1>1, <1>5, <2>1, <2>3 DEF Enumerates
  <2>4. QED
    BY <1>2, <2>2, <2>3
<1>6. QED
  BY <1>1, <1>4, <1>5 DEF Enumerates, t

-----------------------------------------------------------------------------
\* At the start nobody is connected.
LEMMA ServerInit == Init => ServerInv
<1> SUFFICES ASSUME Init PROVE ServerInv
  OBVIOUS
<1>1. TypeOK
  <2>1. \A p \in Peers : <<>> \in Seq(FrameKinds) /\ <<>> \in Seq(1..MaxSends) /\ Len(<<>>) = 0
    OBVIOUS
  <2>2. \A p \in Peers : sent[p] = <<>> /\ out[p] = <<>> /\ taken[p] = 0 /\ read[p] = 0
    BY DEF Init
  <2>3. 0 <= MaxSends /\ 0 <= Room /\ 0 - 0 = 0
    BY UdsServerAssumption
  <2>4. \A p \in Peers : /\ Len(sent[p]) <= MaxSends /\ taken[p] <= Len(sent[p])
                         /\ read[p] <= Len(out[p]) /\ Len(out[p]) - read[p] <= Room
    BY <2>1, <2>2, <2>3
  <2>5. QED
    BY <2>1, <2>4 DEF Init, TypeOK, Running
<1>2. ASSUME NEW p \in Peers PROVE Progress(p)
  <2>1. CallsTaken(p) = {} /\ out[p] = <<>> /\ task[p] = "none"
    BY DEF Init, CallsTaken
  <2>2. QED
    BY <2>1, EnumeratesNothing DEF Progress
<1>3. QED
  BY <1>1, <1>2 DEF ServerInv

\* A step that takes no frame and only appends to what has been sent leaves
\* what has been taken as it is.
LEMMA TakenKept ==
    ASSUME TypeOK, NEW p \in Peers, taken'[p] = taken[p],
           \A i \in 1..taken[p] : sent'[p][i] = sent[p][i]
    PROVE  CallsTaken(p)' = CallsTaken(p)
BY DEF TypeOK, CallsTaken

-----------------------------------------------------------------------------
\* The variables keep their types at every step.
LEMMA ServerTypes ==
    ASSUME ServerInv, [Next]_vars
    PROVE  TypeOK'
<1> USE UdsServerAssumption DEF ServerInv, TypeOK, Running, FrameKinds, server, conn, far
<1>1. ASSUME NEW p \in Peers, Dial(p) PROVE TypeOK'
  BY <1>1 DEF Dial
<1>2. ASSUME NEW p \in Peers, NEW kind \in FrameKinds, PeerSend(p, kind) PROVE TypeOK'
  BY <1>2 DEF PeerSend
<1>3. ASSUME NEW p \in Peers, PeerReads(p) PROVE TypeOK'
  BY SMTT(30), <1>3 DEF PeerReads
<1>4. ASSUME NEW p \in Peers, NEW how \in {"shut", "gone"}, PeerLeaves(p, how) PROVE TypeOK'
  BY <1>4 DEF PeerLeaves
<1>5. ASSUME NEW p \in Peers, Accept(p) PROVE TypeOK'
  BY <1>5 DEF Accept
<1>6. ASSUME NEW p \in Peers, Recv(p) PROVE TypeOK'
  BY <1>6 DEF Recv, FrameWaits
<1>7. ASSUME NEW p \in Peers, RecvEof(p) \/ ReadTimeout(p) \/ Handled(p) \/ SendFails(p) PROVE TypeOK'
  BY <1>7 DEF RecvEof, ReadTimeout, Handled, SendFails
<1>8. ASSUME NEW p \in Peers, SendReply(p) PROVE TypeOK'
  <2>1. /\ taken[p] \in 1..MaxSends /\ out[p] \in Seq(1..MaxSends) /\ read[p] \in Nat
        /\ out' = [out EXCEPT ![p] = Append(out[p], taken[p])] /\ read' = read
    <3>1. taken[p] # 0 /\ taken[p] <= Len(sent[p]) /\ Len(sent[p]) <= MaxSends /\ Len(sent[p]) \in Nat
      <4>1. taken[p] # 0
        BY <1>8 DEF SendReply, Progress
      <4>2. sent[p] \in Seq(FrameKinds) /\ taken[p] <= Len(sent[p]) /\ Len(sent[p]) <= MaxSends
        OBVIOUS
      <4>3. QED
        BY <4>1, <4>2
    <3>2. taken[p] \in 1..MaxSends
      BY <3>1
    <3>3. QED
      BY <1>8, <3>2 DEF SendReply
  <2>2. /\ out'[p] \in Seq(1..MaxSends) /\ Len(out[p]) \in Nat
        /\ Len(out'[p]) = Len(out[p]) + 1
    BY <2>1
  <2>3. Len(out[p]) - read[p] # Room /\ Len(out[p]) - read[p] <= Room /\ read[p] <= Len(out[p])
    BY <1>8 DEF SendReply, Full
  <2>4. Len(out'[p]) - read[p] <= Room /\ read[p] <= Len(out'[p])
    <3>1. PICK n \in Nat, r \in Nat : n = Len(out[p]) /\ r = read[p]
      BY <2>1, <2>2
    <3>2. n - r # Room /\ n - r <= Room /\ r <= n
      BY <2>3, <3>1
    <3>3. (n + 1) - r <= Room /\ r <= n + 1
      BY <3>2
    <3>4. QED
      BY <2>2, <3>1, <3>3
  <2>5. out' \in [Peers -> Seq(1..MaxSends)]
    BY <2>1, <2>2
  <2>6. QED
    BY <1>8, <2>1, <2>4, <2>5 DEF SendReply
<1>9. CASE Shutdown \/ StopAccepting \/ DrainDone \/ UNCHANGED vars
  BY <1>9 DEF Shutdown, StopAccepting, DrainDone, vars
<1>10. QED
  BY <1>1, <1>2, <1>3, <1>4, <1>5, <1>6, <1>7, <1>8, <1>9 DEF Next, Peer, ServeConn, Finished

\* Every step keeps ServerInv.
LEMMA ServerStep ==
    ASSUME ServerInv, [Next]_vars
    PROVE  ServerInv'
<1>1. TypeOK /\ TypeOK' /\ \A p \in Peers : Progress(p)
  BY ServerTypes DEF ServerInv
<1>2. ASSUME NEW q \in Peers PROVE Progress(q)'
  <2> USE <1>1 DEF server, conn, far
  <2>1. ASSUME taken'[q] = taken[q], out'[q] = out[q], \A i \in 1..taken[q] : sent'[q][i] = sent[q][i],
               task'[q] = task[q] \/ (task[q] = "none" /\ task'[q] = "reading")
                 \/ (task[q] = "reading" /\ task'[q] = "returned"),
               peer[q] = "gone" => peer'[q] = "gone"
        PROVE  Progress(q)'
    <3>1. CallsTaken(q)' = CallsTaken(q)
      BY <2>1, TakenKept
    <3>2. sent[q][taken[q]] = sent'[q][taken[q]] \/ taken[q] = 0
      BY <2>1 DEF TypeOK
    <3>3. QED
      BY <2>1, <3>1, <3>2 DEF Progress
  <2>2. ASSUME NEW p \in Peers, Dial(p) \/ PeerReads(p) \/ Accept(p) PROVE Progress(q)'
    BY <2>1, <2>2 DEF Dial, PeerReads, Accept, TypeOK
  <2>3. ASSUME NEW p \in Peers, NEW kind \in FrameKinds, PeerSend(p, kind) PROVE Progress(q)'
    BY <2>1, <2>3 DEF PeerSend, TypeOK
  <2>4. ASSUME NEW p \in Peers, NEW how \in {"shut", "gone"}, PeerLeaves(p, how) PROVE Progress(q)'
    BY <2>1, <2>4 DEF PeerLeaves, TypeOK
  <2>5. ASSUME NEW p \in Peers, RecvEof(p) \/ ReadTimeout(p) PROVE Progress(q)'
    BY <2>1, <2>5 DEF RecvEof, ReadTimeout, TypeOK
  <2>6. ASSUME NEW p \in Peers, Recv(p) PROVE Progress(q)'
    <3>1. CASE q # p
      BY <2>1, <2>6, <3>1 DEF Recv, TypeOK
    <3>2. CASE q = p
      <4>1. /\ taken'[p] = taken[p] + 1 /\ out' = out /\ sent' = sent
            /\ task[p] = "reading"
            /\ task'[p] = IF sent[p][taken'[p]] = "bad" THEN "returned" ELSE "handling"
        BY <2>6 DEF Recv, TypeOK
      <4>2. CallsTaken(p)' \ {taken'[p]} = CallsTaken(p)
        BY SMTT(30), <4>1 DEF CallsTaken, TypeOK
      <4>3. sent[p][taken'[p]] = "bad" => CallsTaken(p)' = CallsTaken(p)
        BY <4>1, <4>2 DEF CallsTaken
      <4>4. taken'[p] # 0
        BY <4>1 DEF TypeOK
      <4>5. Enumerates(out[p], CallsTaken(p))
        BY <4>1 DEF Progress
      <4>6. QED
        BY <3>2, <4>1, <4>2, <4>3, <4>4, <4>5 DEF Progress
    <3>3. QED
      BY <3>1, <3>2
  <2>7. ASSUME NEW p \in Peers, Handled(p) PROVE Progress(q)'
    <3>1. CASE q # p
      BY <2>1, <2>7, <3>1 DEF Handled, TypeOK
    <3>2. CASE q = p
      <4>1. /\ UNCHANGED <<taken, out, sent, peer>> /\ task[p] = "handling"
            /\ task'[p] = IF sent[p][taken[p]] = "call" THEN "sending" ELSE "reading"
        BY <2>7 DEF Handled, TypeOK
      <4>2. sent[p][taken[p]] # "call" => CallsTaken(p) \ {taken[p]} = CallsTaken(p)
        BY DEF CallsTaken
      <4>3. CallsTaken(p)' = CallsTaken(p)
        BY <4>1, TakenKept
      <4>4. QED
        BY <3>2, <4>1, <4>2, <4>3 DEF Progress
    <3>3. QED
      BY <3>1, <3>2
  <2>8. ASSUME NEW p \in Peers, SendReply(p) PROVE Progress(q)'
    <3>1. CASE q # p
      <4>1. /\ taken'[q] = taken[q] /\ out'[q] = out[q] /\ sent' = sent
            /\ task'[q] = task[q] /\ peer' = peer
        BY <2>8, <3>1 DEF SendReply, TypeOK
      <4>2. CallsTaken(q)' = CallsTaken(q)
        BY <4>1, TakenKept
      <4>3. QED
        BY <4>1, <4>2 DEF Progress
    <3>2. CASE q = p
      <4>1. /\ UNCHANGED <<taken, sent, peer>> /\ task[p] = "sending"
            /\ task'[p] = "reading" /\ out'[p] = Append(out[p], taken[p])
        BY <2>8 DEF SendReply, TypeOK
      <4>2. taken[p] # 0 /\ Enumerates(out[p], CallsTaken(p) \ {taken[p]})
            /\ sent[p][taken[p]] = "call"
        BY <4>1 DEF Progress
      <4>3. /\ CallsTaken(p)' = CallsTaken(p) /\ taken[p] \in CallsTaken(p)
            /\ CallsTaken(p) \ {taken[p]} \in SUBSET (1..(taken[p] - 1))
        BY SMTT(30), <4>1, <4>2 DEF CallsTaken, TypeOK
      <4>4. (CallsTaken(p) \ {taken[p]}) \cup {taken[p]} = CallsTaken(p)
        BY <4>3
      <4>5. Enumerates(Append(out[p], taken[p]), CallsTaken(p))
        <5>1. out[p] \in Seq(Nat) /\ taken[p] \in Nat
              /\ \A y \in CallsTaken(p) \ {taken[p]} : y < taken[p]
          <6>1. out[p] \in Seq(1..MaxSends) /\ 1..MaxSends \subseteq Nat
            BY UdsServerAssumption DEF TypeOK
          <6>2. out[p] \in Seq(Nat)
            BY <6>1, SeqOfMore
          <6>3. taken[p] \in Nat /\ taken[p] # 0
            BY <4>2 DEF TypeOK
          <6>4. \A y \in 1..(taken[p] - 1) : y < taken[p]
            BY <6>3
          <6>5. QED
            BY <4>3, <6>2, <6>3, <6>4
        <5>2. QED
          BY <4>2, <4>4, <5>1, EnumeratesOneMore
      <4>6. QED
        BY <3>2, <4>1, <4>3, <4>5 DEF Progress
    <3>3. QED
      BY <3>1, <3>2
  <2>9. ASSUME NEW p \in Peers, SendFails(p) PROVE Progress(q)'
    <3>1. CASE q # p
      BY <2>1, <2>9, <3>1 DEF SendFails, TypeOK
    <3>2. CASE q = p
      <4>1. /\ UNCHANGED <<taken, out, sent, peer>> /\ task[p] = "sending"
            /\ task'[p] = "returned" /\ peer[p] = "gone"
        BY <2>9 DEF SendFails, TypeOK
      <4>2. CallsTaken(p)' = CallsTaken(p)
        BY <4>1, TakenKept
      <4>3. QED
        BY <3>2, <4>1, <4>2 DEF Progress
    <3>3. QED
      BY <3>1, <3>2
  <2>10. CASE Shutdown \/ StopAccepting \/ DrainDone \/ UNCHANGED vars
    BY <2>1, <2>10 DEF Shutdown, StopAccepting, DrainDone, vars
  <2>11. QED
    BY <2>2, <2>3, <2>4, <2>5, <2>6, <2>7, <2>8, <2>9, <2>10 DEF Next, Peer, ServeConn, Finished
<1>3. QED
  BY <1>1, <1>2 DEF ServerInv

-----------------------------------------------------------------------------
\* ServerInv holds in every reachable state.
THEOREM ServerInvariant == Spec => []ServerInv
BY ServerInit, ServerStep, PTL DEF Spec

\* The variables keep their types; in particular a reply is written only when
\* the socket has room for it, and no peer reads one that was not written.
THEOREM ServerTypeCorrect == Spec => []TypeOK
<1>1. ServerInv => TypeOK
  BY DEF ServerInv
<1>2. QED
  BY <1>1, ServerInvariant, PTL

\* serve_conn answers every call it has read, in order, and neither a shutdown
\* nor the drain after it takes an answer away from a peer that is there.
THEOREM AnsweredInOrderAlways == Spec => []AnsweredInOrder
<1>1. ServerInv => AnsweredInOrder
  BY DEF ServerInv, TypeOK, Running, Progress, AnsweredInOrder
<1>2. QED
  BY <1>1, ServerInvariant, PTL
=============================================================================
