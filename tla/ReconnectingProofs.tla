------------------------- MODULE ReconnectingProofs -------------------------
(* Theorems about ReconnectingUds, for any calls, notifications and          *)
(* cancellations, any retry policy and any number of crashes.                *)
EXTENDS ReconnectingUds, TLAPS, WellFoundedInduction

\* Only the holder of the gate dials, and the gate is held while the connection
\* to be replaced is known to be dead.
GateHeld ==
    /\ \A c \in Calls : pc[c] \in {"dial", "sleep"} <=> gate = c
    /\ gate # NoCall => current \notin connected

\* A connection that the server has closed was closed by a crash.
DeadByCrash ==
    /\ current <= crashes + (IF current \in open THEN 1 ELSE 0)
    /\ open \subseteq connected \cap {current}
    /\ connected \subseteq 1..current
    /\ \A c \in Calls : mine[c] \in 1..current

\* Where a call has got to in its retry policy.
Backoff(c) ==
    CASE pc[c] \in {"idle", "snapshot", "gate"} -> attempt[c] = 0 /\ backoff[c] = BaseBackoff
      [] pc[c] = "dial"  -> backoff[c] = Delay[attempt[c] + 1]
      [] pc[c] = "sleep" -> attempt[c] # 0 /\ backoff[c] = Delay[attempt[c]]
      [] OTHER -> TRUE

ConnectionInv == TypeOK /\ GateHeld /\ DeadByCrash /\ \A c \in Calls : Backoff(c)

-----------------------------------------------------------------------------
(* Induction on the natural numbers.  The library's induction theorems take  *)
(* a predicate as parameter, which the provers cannot instantiate; here the  *)
(* predicate is a subset of Nat, and the principle comes from the           *)
(* well-foundedness of < by WFMin.                                           *)

\* A set of numbers that is not empty has a least one.
LEMMA LeastNumber ==
    ASSUME NEW T \in SUBSET Nat, T # {}
    PROVE  \E x \in T : \A y \in T : x <= y
<1>1. \E R : IsWellFoundedOn(R, Nat) /\ \A x, y \in Nat : <<y, x>> \in R <=> y < x
  <2> DEFINE R == {p \in Nat \X Nat : p[1] < p[2]}
  <2>1. IsWellFoundedOn(R, Nat)
    BY NatLessThanWellFounded DEF OpToRel
  <2>2. \A x, y \in Nat : <<y, x>> \in R <=> y < x
    OBVIOUS
  <2> HIDE DEF R
  <2>3. QED
    BY <2>1, <2>2
<1>2. PICK R : IsWellFoundedOn(R, Nat) /\ \A x, y \in Nat : <<y, x>> \in R <=> y < x
  BY <1>1
<1>3. PICK x \in T : \A y \in T : ~(<<y, x>> \in R)
  BY <1>2, WFMin
<1>4. ASSUME NEW y \in T PROVE x <= y
  <2>1. x \in Nat /\ y \in Nat
    OBVIOUS
  <2>2. ~(<<y, x>> \in R)
    BY <1>3
  <2>3. ~(y < x)
    BY <1>2, <2>1, <2>2
  <2>4. QED
    BY <2>1, <2>3
<1>5. QED
  BY <1>4

\* Induction: a set that has 0 and the successor of each member is all of Nat.
LEMMA Induction ==
    ASSUME NEW T \in SUBSET Nat, 0 \in T, \A n \in T : n + 1 \in T
    PROVE  T = Nat
<1>1. SUFFICES ASSUME Nat \ T # {} PROVE FALSE
  OBVIOUS
<1>2. PICK m \in Nat \ T : \A y \in Nat \ T : m <= y
  BY <1>1, LeastNumber
<1>3. m - 1 \in T
  BY <1>2
<1>4. QED
  BY <1>2, <1>3

\* Recursion: a function can be iterated from a start value any number of times,
\* so that a recursive function over Nat is defined by its equation.
LEMMA Iterate ==
    \A S : \A a \in S, g \in [S -> S] :
        \E f \in [Nat -> S] : f[0] = a /\ \A n \in Nat : f[n + 1] = g[f[n]]
<1> TAKE S
<1> TAKE a \in S, g \in [S -> S]
<1> DEFINE Up(n, h) == h \in [0..n -> S] /\ h[0] = a /\ \A i \in 0..(n - 1) : h[i + 1] = g[h[i]]
<1> DEFINE T == {n \in Nat : \E h : Up(n, h)}
<1>1. 0 \in T
  <2>1. Up(0, [i \in 0..0 |-> a])
    OBVIOUS
  <2>2. QED
    BY <2>1
<1>2. ASSUME NEW n \in T PROVE n + 1 \in T
  <2>1. PICK h : Up(n, h)
    BY <1>2
  <2> DEFINE k == [i \in 0..(n + 1) |-> IF i = n + 1 THEN g[h[n]] ELSE h[i]]
  <2>2. n \in Nat /\ Up(n + 1, k)
    BY <2>1
  <2> HIDE DEF Up, k
  <2>3. QED
    BY <2>2
<1>3. T = Nat
  <2> HIDE DEF T
  <2>1. T \in SUBSET Nat
    BY DEF T
  <2>2. QED
   BY <1>1, <1>2, <2>1, Induction
<1>4. ASSUME NEW n \in Nat, NEW m \in Nat, NEW h, NEW k, Up(n, h), Up(m, k), n <= m
      PROVE  \A i \in 0..n : h[i] = k[i]
  <2> DEFINE E == {i \in Nat : i <= n => h[i] = k[i]}
  <2>1. 0 \in E
    BY <1>4
  <2>2. ASSUME NEW i \in E PROVE i + 1 \in E
    <3>1. i + 1 <= n => i \in 0..(n - 1) /\ i \in 0..(m - 1) /\ h[i] = k[i]
      BY <1>4
    <3>2. QED
      BY <1>4, <3>1
  <2> HIDE DEF E
  <2>3. E \in SUBSET Nat
    BY DEF E
  <2>4. E = Nat
    BY <2>1, <2>2, <2>3, Induction
  <2>5. QED
    BY <2>4 DEF E
<1>5. \E H : \A n \in Nat : Up(n, H[n])
  <2> HIDE DEF Up
  <2> DEFINE H == [n \in Nat |-> CHOOSE h : Up(n, h)]
  <2>1. \A n \in Nat : Up(n, H[n])
    BY <1>3
  <2> HIDE DEF H
  <2>2. QED
    BY <2>1
<1> HIDE DEF T
<1>6. PICK H : \A n \in Nat : Up(n, H[n])
  BY <1>5
<1> DEFINE f == [n \in Nat |-> H[n][n]]
<1>7. f \in [Nat -> S] /\ f[0] = a
  BY <1>6
<1>8. ASSUME NEW n \in Nat PROVE f[n + 1] = g[f[n]]
  <2>1. Up(n, H[n]) /\ Up(n + 1, H[n + 1])
    BY <1>6
  <2>2. H[n][n] = H[n + 1][n]
    <3> HIDE DEF Up
    <3>1. n + 1 \in Nat /\ n <= n + 1 /\ n \in 0..n
      OBVIOUS
    <3>2. QED
      BY <1>4, <2>1, <3>1
  <2>3. H[n + 1][n + 1] = g[H[n + 1][n]]
    <3>1. n \in 0..((n + 1) - 1)
      OBVIOUS
    <3>2. \A i \in 0..((n + 1) - 1) : H[n + 1][i + 1] = g[H[n + 1][i]]
      BY <2>1
    <3> HIDE DEF Up
    <3>3. QED
      BY <3>1, <3>2
  <2>4. QED
    BY <2>2, <2>3
<1>9. QED
  BY <1>7, <1>8

-----------------------------------------------------------------------------
\* The recursion that defines Delay has a solution: the delays of the policy.
LEMMA DelayDef ==
    /\ Delay \in [Nat -> Nat]
    /\ \A n \in Nat : Delay[n] = IF n <= 1 THEN BaseBackoff
                                 ELSE Min2(2 * Delay[n - 1], MaxBackoff)
<1> DEFINE g == [d \in Nat |-> Min2(2 * d, MaxBackoff)]
<1>1. BaseBackoff \in Nat /\ g \in [Nat -> Nat]
  BY PolicyAssumption DEF Min2
<1>2. PICK f \in [Nat -> Nat] : f[0] = BaseBackoff /\ \A n \in Nat : f[n + 1] = g[f[n]]
  <2> HIDE DEF g
  <2> DEFINE S == Nat
  <2> HIDE DEF S
  <2>1. \A a \in S, h \in [S -> S] :
          \E f \in [Nat -> S] : f[0] = a /\ \A n \in Nat : f[n + 1] = h[f[n]]
    BY Iterate
  <2>2. \A a \in Nat, h \in [Nat -> Nat] :
          \E f \in [Nat -> Nat] : f[0] = a /\ \A n \in Nat : f[n + 1] = h[f[n]]
    BY <2>1 DEF S
  <2>3. QED
    BY <1>1, <2>2
<1> DEFINE D == [n \in Nat |-> IF n <= 1 THEN BaseBackoff ELSE f[n - 1]]
           F(d) == [n \in Nat |-> IF n <= 1 THEN BaseBackoff ELSE Min2(2 * d[n - 1], MaxBackoff)]
<1>3. D = F(D)
  <2>1. ASSUME NEW n \in Nat, n > 1 PROVE D[n] = Min2(2 * D[n - 1], MaxBackoff)
    <3>1. n - 2 \in Nat /\ n - 1 = (n - 2) + 1
      BY <2>1
    <3>2. f[n - 1] = Min2(2 * f[n - 2], MaxBackoff)
      BY <1>2, <3>1
    <3>3. f[n - 2] = D[n - 1]
      BY <1>2, <2>1
    <3>4. QED
      BY <2>1, <3>2, <3>3
  <2>2. ASSUME NEW n \in Nat PROVE D[n] = F(D)[n]
    <3>1. CASE n <= 1
      BY <3>1
    <3>2. CASE n > 1
      <4>1. F(D)[n] = Min2(2 * D[n - 1], MaxBackoff)
        BY <3>2
      <4>2. QED
        BY <2>1, <3>2, <4>1
    <3>3. QED
      BY <3>1, <3>2
  <2>3. QED
    BY <2>2
<1>4. Delay = F(Delay)
  <2>1. \E d : d = F(d)
    BY <1>3
  <2>2. Delay = CHOOSE d : d = F(d)
    BY DEF Delay
  <2> HIDE DEF F
  <2>3. QED
    BY <2>1, <2>2
<1>5. ASSUME NEW n \in Nat PROVE Delay[n] \in Nat
  <2> DEFINE T == {k \in Nat : Delay[k] \in Nat}
  <2>1. 0 \in T
    BY <1>1, <1>4
  <2>2. ASSUME NEW k \in T PROVE k + 1 \in T
    <3>1. Delay[k + 1] = IF k + 1 <= 1 THEN BaseBackoff ELSE Min2(2 * Delay[(k + 1) - 1], MaxBackoff)
      BY <1>4
    <3>2. (k + 1) - 1 = k /\ Delay[k] \in Nat
      OBVIOUS
    <3>3. QED
      BY <3>1, <3>2, PolicyAssumption DEF Min2
  <2> HIDE DEF T
  <2>3. T \in SUBSET Nat
    BY DEF T
  <2>4. T = Nat
    BY <2>1, <2>2, <2>3, Induction
  <2>5. QED
    BY <2>4 DEF T
<1>6. QED
  BY <1>4, <1>5

\* At the start nothing is connected and every policy is at its first delay.
LEMMA ConnectionInit == Init => ConnectionInv
<1>1. SUFFICES ASSUME Init PROVE ConnectionInv
  OBVIOUS
<1> USE CallAssumption, PolicyAssumption
<1>2. Attempts \in Nat \ {0}
  BY DEF Attempts
<1>3. TypeOK
  BY <1>1, <1>2 DEF Init, TypeOK, Outcomes, Connections
<1>4. GateHeld /\ DeadByCrash /\ \A c \in Calls : Backoff(c)
  BY <1>1 DEF Init, GateHeld, DeadByCrash, Backoff
<1>5. QED
  BY <1>3, <1>4 DEF ConnectionInv

\* Every step keeps ConnectionInv.
LEMMA ConnectionStep ==
    ASSUME ConnectionInv, [Next]_vars
    PROVE  ConnectionInv'
<1> USE CallAssumption, PolicyAssumption, DelayDef
    DEF ConnectionInv, TypeOK, GateHeld, DeadByCrash, Backoff, Goto, Finish, Outcomes,
        Connections, callVars, dialVars, connVars, peerVars
<1>0. Attempts \in Nat \ {0}
  BY DEF Attempts
<1>1. ASSUME NEW c \in Calls, Snapshot(c) PROVE ConnectionInv'
  BY <1>0, <1>1 DEF Snapshot
<1>2. ASSUME NEW c \in Calls, CheckAlive(c) PROVE ConnectionInv'
  BY <1>0, <1>2 DEF CheckAlive
<1>3. ASSUME NEW c \in Calls, ReuseConnection(c) PROVE ConnectionInv'
  BY <1>0, <1>3 DEF ReuseConnection
<1>4. ASSUME NEW c \in Calls, EnterGate(c) PROVE ConnectionInv'
  BY <1>0, <1>4 DEF EnterGate
<1>5. ASSUME NEW c \in Calls, DialOk(c) PROVE ConnectionInv'
  BY <1>0, <1>5 DEF DialOk
<1>6. ASSUME NEW c \in Calls, DialRetry(c) PROVE ConnectionInv'
  BY <1>0, <1>6 DEF DialRetry
<1>7. ASSUME NEW c \in Calls, DialGiveUp(c) PROVE ConnectionInv'
  BY <1>0, <1>7 DEF DialGiveUp
<1>8. ASSUME NEW c \in Calls, SleepDone(c) PROVE ConnectionInv'
  <2>1. /\ attempt[c] \in Nat \ {0} /\ backoff[c] = Delay[attempt[c]]
        /\ backoff'[c] = Min2(2 * backoff[c], MaxBackoff)
    BY <1>0, <1>8 DEF SleepDone
  <2>2. backoff'[c] = Delay[attempt[c] + 1] /\ backoff'[c] \in Nat
    <3>1. attempt[c] + 1 \in Nat /\ attempt[c] + 1 > 1 /\ (attempt[c] + 1) - 1 = attempt[c]
      BY <2>1
    <3>2. Delay[attempt[c] + 1] = Min2(2 * Delay[attempt[c]], MaxBackoff)
      BY <3>1
    <3>3. QED
      BY <2>1, <3>1, <3>2
  <2>3. TypeOK'
    BY <1>0, <1>8, <2>2 DEF SleepDone
  <2>4. QED
    BY <1>8, <2>2, <2>3 DEF SleepDone
<1>9. ASSUME NEW c \in Calls, FailFast(c) PROVE ConnectionInv'
  BY <1>0, <1>9 DEF FailFast
<1>10. ASSUME NEW c \in Calls, Write(c) PROVE ConnectionInv'
  BY <1>0, <1>10 DEF Write
<1>11. ASSUME NEW c \in Calls, ReturnReply(c) PROVE ConnectionInv'
  BY <1>0, <1>11 DEF ReturnReply
<1>12. ASSUME NEW c \in Calls, ReturnClosed(c) PROVE ConnectionInv'
  BY <1>0, <1>12 DEF ReturnClosed
<1>13. ASSUME NEW c \in Calls, Cancel(c) PROVE ConnectionInv'
  BY <1>0, <1>13 DEF Cancel
<1>14. ASSUME NEW k \in connected, ReaderNotices(k) PROVE ConnectionInv'
  BY <1>0, <1>14 DEF ReaderNotices
<1>15. ASSUME NEW c \in Calls, Execute(c) PROVE ConnectionInv'
  BY <1>0, <1>15 DEF Execute
<1>16. ASSUME NEW c \in Calls, SendReply(c) PROVE ConnectionInv'
  BY <1>0, <1>16 DEF SendReply
<1>17. CASE Crash
  BY <1>0, <1>17 DEF Crash
<1>18. CASE Restart
  BY <1>0, <1>18 DEF Restart
<1>19. CASE UNCHANGED vars
  BY <1>19 DEF vars
<1>20. QED
  BY <1>1, <1>2, <1>3, <1>4, <1>5, <1>6, <1>7, <1>8, <1>9, <1>10, <1>11, <1>12, <1>13,
     <1>14, <1>15, <1>16, <1>17, <1>18, <1>19 DEF Next, Step, Rest

-----------------------------------------------------------------------------
(* Requests.                                                                *)

\* Where the request of a call is: it is written once, in one of the three
\* places between caller and server, and not executed before that.
RequestInv == \A c \in Calls :
    /\ pc[c] \notin {"sent", "done"} =>
         c \notin wire \cup working \cup replies /\ execs[c] = 0
    /\ c \in wire => execs[c] = 0
    /\ c \in working \cup replies => execs[c] = 1
    /\ execs[c] \in {0, 1}
    /\ outcome[c] = "none" <=> pc[c] # "done"

\* At the start no request exists.
LEMMA RequestInit == Init => RequestInv
BY DEF Init, RequestInv

\* Every step keeps RequestInv.
LEMMA RequestStep ==
    ASSUME TypeOK, RequestInv, [Next]_vars
    PROVE  RequestInv'
<1> USE DEF TypeOK, RequestInv, Goto, Finish, callVars, dialVars, connVars, peerVars
<1>1. ASSUME NEW c \in Calls, Snapshot(c) PROVE RequestInv'
  BY <1>1 DEF Snapshot
<1>2. ASSUME NEW c \in Calls, CheckAlive(c) PROVE RequestInv'
  BY <1>2 DEF CheckAlive
<1>3. ASSUME NEW c \in Calls, ReuseConnection(c) PROVE RequestInv'
  BY <1>3 DEF ReuseConnection
<1>4. ASSUME NEW c \in Calls, EnterGate(c) PROVE RequestInv'
  BY <1>4 DEF EnterGate
<1>5. ASSUME NEW c \in Calls, DialOk(c) PROVE RequestInv'
  BY <1>5 DEF DialOk
<1>6. ASSUME NEW c \in Calls, DialRetry(c) PROVE RequestInv'
  BY <1>6 DEF DialRetry
<1>7. ASSUME NEW c \in Calls, DialGiveUp(c) PROVE RequestInv'
  BY <1>7 DEF DialGiveUp
<1>8. ASSUME NEW c \in Calls, SleepDone(c) PROVE RequestInv'
  BY <1>8 DEF SleepDone
<1>9. ASSUME NEW c \in Calls, FailFast(c) PROVE RequestInv'
  BY <1>9 DEF FailFast
<1>10. ASSUME NEW c \in Calls, Write(c) PROVE RequestInv'
  BY <1>10 DEF Write
<1>11. ASSUME NEW c \in Calls, ReturnReply(c) PROVE RequestInv'
  BY <1>11 DEF ReturnReply
<1>12. ASSUME NEW c \in Calls, ReturnClosed(c) PROVE RequestInv'
  BY <1>12 DEF ReturnClosed
<1>13. ASSUME NEW c \in Calls, Cancel(c) PROVE RequestInv'
  BY <1>13 DEF Cancel
<1>14. ASSUME NEW k \in connected, ReaderNotices(k) PROVE RequestInv'
  BY <1>14 DEF ReaderNotices
<1>15. ASSUME NEW c \in Calls, Execute(c) PROVE RequestInv'
  BY <1>15 DEF Execute
<1>16. ASSUME NEW c \in Calls, SendReply(c) PROVE RequestInv'
  BY <1>16 DEF SendReply
<1>17. CASE Crash
  BY <1>17 DEF Crash
<1>18. CASE Restart
  BY <1>18 DEF Restart
<1>19. CASE UNCHANGED vars
  BY <1>19 DEF vars
<1>20. QED
  BY <1>1, <1>2, <1>3, <1>4, <1>5, <1>6, <1>7, <1>8, <1>9, <1>10, <1>11, <1>12, <1>13,
     <1>14, <1>15, <1>16, <1>17, <1>18, <1>19 DEF Next, Step, Rest

-----------------------------------------------------------------------------
(* Theorems.                                                                *)

\* ConnectionInv and RequestInv hold in every reachable state.
THEOREM ReconnectingInvariant == Spec => [](ConnectionInv /\ RequestInv)
<1>1. Init => ConnectionInv /\ RequestInv
  BY ConnectionInit, RequestInit
<1>2. (ConnectionInv /\ RequestInv) /\ [Next]_vars => (ConnectionInv /\ RequestInv)'
  BY ConnectionStep, RequestStep DEF ConnectionInv
<1>3. QED
  BY <1>1, <1>2, PTL DEF Spec

\* The variables keep their types; in particular a call dials at most
\* max_attempts times, and sleeps for the delays of the policy.
THEOREM ReconnectingTypes == Spec => []TypeOK
<1>1. ConnectionInv => TypeOK
  BY DEF ConnectionInv
<1>2. QED
  BY <1>1, ReconnectingInvariant, PTL

\* reconnect under reconnect_gate: one new connection for every death of the
\* old one, and a live connection is never displaced.
THEOREM OneConnectionAtATime == Spec => []OneConnection
<1>1. ConnectionInv => OneConnection
  BY DEF ConnectionInv, TypeOK, DeadByCrash, OneConnection, OneDialPerDeath,
         LiveIsCurrent, Connections
<1>2. QED
  BY <1>1, ReconnectingInvariant, PTL

\* The transport keeps the contract across restarts of its server: a request is
\* executed at most once, never replayed, and a reply is the call's own.
THEOREM ReconnectingImplements == Spec => ImplementsContract
<1> DEFINE Inv == ConnectionInv /\ RequestInv
           phaseOf == [c \in Calls |-> CASE pc[c] = "idle" -> "idle"
                                         [] pc[c] = "done" -> "settled"
                                         [] OTHER -> "issued"]
           answerOf == [c \in Calls |-> IF outcome[c] = "reply" THEN c ELSE NoCall]
<1>1. Init => Contract!Init
  BY DEF Init, Contract!Init
<1>2. ASSUME Inv, Inv', [Next]_vars PROVE [Contract!Next]_(Contract!contractVars)
  <2> USE <1>2 DEF Inv, ConnectionInv, TypeOK, RequestInv, Goto, Finish
  <2>1. ASSUME NEW c \in Calls, Snapshot(c) PROVE Contract!Issue(c)
    BY ZenonT(30), <2>1 DEF Snapshot, Contract!Issue, peerVars
  <2>2. ASSUME UNCHANGED execs,
               \A c \in Calls : /\ pc'[c] = "idle" <=> pc[c] = "idle"
                                /\ pc'[c] = "done" <=> pc[c] = "done"
                                /\ outcome'[c] = outcome[c]
        PROVE  UNCHANGED Contract!contractVars
    BY <2>2 DEF Contract!contractVars
  <2>3. ASSUME NEW c \in Calls, pc[c] \notin {"idle", "done"}, UNCHANGED execs,
               NEW r \in Outcomes \ {"reply"}, Finish(c, r)
        PROVE  Contract!Fail(c)
    <3>1. phaseOf[c] = "issued" /\ phaseOf' = [phaseOf EXCEPT ![c] = "settled"]
      <4>1. pc' = [pc EXCEPT ![c] = "done"]
        BY <2>3
      <4>2. phaseOf[c] = "issued" /\ phaseOf'[c] = "settled"
        BY <2>3, <4>1
      <4>3. \A d \in Calls \ {c} : phaseOf'[d] = phaseOf[d]
        BY <4>1
      <4>4. phaseOf \in [Calls -> {"idle", "issued", "settled"}] /\ phaseOf' = [d \in Calls |-> phaseOf'[d]]
        OBVIOUS
      <4> HIDE DEF phaseOf
      <4>5. QED
        BY <4>2, <4>3, <4>4
    <3>2. answerOf' = answerOf
      BY <2>3
    <3>3. QED
      BY <2>3, <3>1, <3>2 DEF Contract!Fail
  <2>4. ASSUME NEW c \in Calls, ReturnReply(c) PROVE Contract!Answer(c)
    BY ZenonT(30), <2>4 DEF ReturnReply, Contract!Answer
  <2>5. ASSUME NEW c \in Calls, Execute(c) PROVE Contract!Execute(c)
    <3>1. phaseOf[c] # "idle" /\ phaseOf' = phaseOf /\ answerOf' = answerOf
      BY <2>5 DEF Execute, callVars
    <3>2. execs[c] = 0 /\ execs[c] + 1 = 1
      BY <2>5 DEF Execute
    <3>3. execs' = [execs EXCEPT ![c] = 1]
      BY <2>5, <3>2 DEF Execute
    <3>4. QED
      BY <3>1, <3>2, <3>3 DEF Contract!Execute
  <2>6. ASSUME NEW c \in Calls, Step(c) \/ Cancel(c), ~ReturnReply(c)
        PROVE  Contract!Fail(c) \/ UNCHANGED Contract!contractVars
    <3>1. CASE CheckAlive(c) \/ ReuseConnection(c) \/ EnterGate(c) \/ DialOk(c) \/ DialRetry(c) \/ SleepDone(c)
      BY <2>2, <3>1 DEF CheckAlive, ReuseConnection, EnterGate, DialOk, DialRetry, SleepDone, peerVars
    <3>2. CASE DialGiveUp(c) \/ FailFast(c) \/ ReturnClosed(c) \/ Cancel(c)
      BY <2>3, <3>2 DEF DialGiveUp, FailFast, ReturnClosed, Cancel, peerVars, Outcomes
    <3>3. CASE Write(c)
      <4>1. CASE Goto(c, "sent")
        BY <2>2, <3>3, <4>1 DEF Write
      <4>2. CASE Finish(c, "written") \/ Finish(c, "io")
        BY <2>3, <3>3, <4>2 DEF Write, Outcomes
      <4>3. QED
        BY <3>3, <4>1, <4>2 DEF Write
    <3>4. QED
      BY <2>6, <3>1, <3>2, <3>3 DEF Step
  <2>7. ASSUME NEW c \in Calls, SendReply(c) PROVE UNCHANGED Contract!contractVars
    BY <2>2, <2>7 DEF SendReply, callVars
  <2>8. ASSUME NEW k \in connected, ReaderNotices(k) PROVE UNCHANGED Contract!contractVars
    BY <2>2, <2>8 DEF ReaderNotices, callVars, peerVars
  <2>9. CASE Crash \/ Restart \/ UNCHANGED vars
    BY <2>2, <2>9 DEF Crash, Restart, vars, callVars, peerVars
  <2>10. QED
    BY <2>1, <2>4, <2>5, <2>6, <2>7, <2>8, <2>9 DEF Next, Rest, Contract!Next
<1>3. QED
  BY <1>1, <1>2, ReconnectingInvariant, PTL DEF Spec, ImplementsContract, Contract!ContractSpec
=============================================================================
