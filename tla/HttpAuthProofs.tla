--------------------------- MODULE HttpAuthProofs ---------------------------
(* Theorems about HttpAuth, for any calls, any cancellations and any number  *)
(* of tokens spoilt and requests failed.                                     *)
EXTENDS HttpAuth, FiniteSetTheorems, TLAPS

\* While the lock is held there is no valid token in the cache.
RefreshNeeded == refresh # NoCall => ~Valid

\* A fetched token is newer than all the others until it is stored.
FetchedIsNewest ==
    \A c \in Calls : pc[c] = "store" =>
        /\ token[c] = minted
        /\ \A d \in Calls : rejected[d] < minted /\ (d # c => token[d] < minted)

\* A call that was refused for a token finds only newer ones.
CacheIsFresh ==
    \A c \in Calls : pc[c] \in {"idle", "authorize", "lock", "fetch"} /\ rejected[c] # 0 /\ Valid =>
        cache > rejected[c]

TokenInv == TypeOK /\ RefreshNeeded /\ FetchedIsNewest /\ CacheIsFresh /\ TokensMoveForward

\* At the start there is no token.
LEMMA TokenInit == Init => TokenInv
<1> SUFFICES ASSUME Init PROVE TokenInv
  OBVIOUS
<1>1. TypeOK
  <2>1. 0 \in 0..minted /\ minted \in Nat /\ spoilt \in 0..MaxSpoilt /\ failures \in 0..MaxFailures
    BY HttpAssumption DEF Init
  <2>2. \A c \in Calls : pc[c] = "idle" /\ refresh # c
    BY HttpAssumption DEF Init
  <2>3. QED
    BY <2>1, <2>2 DEF Init, TypeOK, Places, Outcomes
<1>2. RefreshNeeded /\ FetchedIsNewest /\ CacheIsFresh /\ TokensMoveForward
  BY DEF Init, RefreshNeeded, FetchedIsNewest, CacheIsFresh, TokensMoveForward,
     RetryIsFresh, CacheIsNewest, Valid
<1>3. QED
  BY <1>1, <1>2 DEF TokenInv

\* Every step keeps TokenInv.
LEMMA TokenStep ==
    ASSUME TokenInv, [Next]_vars
    PROVE  TokenInv'
<1> USE HttpAssumption
    DEF TokenInv, TypeOK, RefreshNeeded, FetchedIsNewest, CacheIsFresh,
        TokensMoveForward, RetryIsFresh, CacheIsNewest, Valid, Places, Outcomes,
        Goto, Finish, Authorized, callVars, authVars, serverVars
<1>1. ASSUME NEW c \in Calls, Start(c) PROVE TokenInv'
  BY <1>1 DEF Start
<1>2. ASSUME NEW c \in Calls, UseCached(c) PROVE TokenInv'
  BY <1>2 DEF UseCached
<1>3. ASSUME NEW c \in Calls, WantRefresh(c) PROVE TokenInv'
  BY <1>3 DEF WantRefresh
<1>4. ASSUME NEW c \in Calls, UseRefreshed(c) PROVE TokenInv'
  BY <1>4 DEF UseRefreshed
<1>5. ASSUME NEW c \in Calls, BeginFetch(c) PROVE TokenInv'
  BY <1>5 DEF BeginFetch
<1>6. ASSUME NEW c \in Calls, FetchOk(c) PROVE TokenInv'
  BY <1>6 DEF FetchOk
<1>7. ASSUME NEW c \in Calls, FetchFails(c) PROVE TokenInv'
  BY <1>7 DEF FetchFails
<1>8. ASSUME NEW c \in Calls, Store(c) PROVE TokenInv'
  <2>1. TypeOK'
    BY <1>8 DEF Store
  <2>2. RefreshNeeded' /\ FetchedIsNewest'
    BY <1>8 DEF Store
  <2>3. CacheIsFresh'
    BY <1>8 DEF Store
  <2>4. TokensMoveForward'
    BY <1>8 DEF Store
  <2>5. QED
    BY <2>1, <2>2, <2>3, <2>4
<1>9. ASSUME NEW c \in Calls, Accepted(c) PROVE TokenInv'
  BY <1>9 DEF Accepted
<1>10. ASSUME NEW c \in Calls, Unauthorized(c) PROVE TokenInv'
  BY <1>10 DEF Unauthorized
<1>11. ASSUME NEW c \in Calls, OnUnauthorized(c) PROVE TokenInv'
  <2>1. TypeOK'
    <3>1. cache' \in 0..minted' /\ due' \in BOOLEAN
      <4>1. 0 \in 0..minted /\ minted' = minted /\ cache' = 0 /\ due' = FALSE
        BY <1>11 DEF OnUnauthorized
      <4>2. QED
        BY <4>1
    <3>4. pc' \in [Calls -> Places]
      BY <1>11 DEF OnUnauthorized
    <3>2. \A d \in Calls : pc'[d] \in {"fetch", "store"} <=> refresh' = d
      BY <1>11 DEF OnUnauthorized
    <3>3. QED
      BY <1>11, <3>1, <3>2, <3>4 DEF OnUnauthorized
  <2>2. RefreshNeeded' /\ FetchedIsNewest'
    BY <1>11 DEF OnUnauthorized
  <2>3. CacheIsFresh'
    BY <1>11 DEF OnUnauthorized
  <2>4. TokensMoveForward'
    BY <1>11 DEF OnUnauthorized
  <2>5. QED
    BY <2>1, <2>2, <2>3, <2>4
<1>12. ASSUME NEW c \in Calls, ReadBody(c) PROVE TokenInv'
  BY <1>12 DEF ReadBody
<1>13. ASSUME NEW c \in Calls, ConnectFails(c) PROVE TokenInv'
  BY <1>13 DEF ConnectFails
<1>14. ASSUME NEW c \in Calls, Cancel(c) PROVE TokenInv'
  BY <1>14 DEF Cancel
<1>15. CASE ComesDue
  BY <1>15 DEF ComesDue
<1>16. ASSUME NEW t \in 1..minted, Revoke(t) PROVE TokenInv'
  BY <1>16 DEF Revoke
<1>17. CASE UNCHANGED vars
  BY <1>17 DEF vars
<1>18. QED
  BY <1>1, <1>2, <1>3, <1>4, <1>5, <1>6, <1>7, <1>8, <1>9, <1>10, <1>11, <1>12, <1>13,
     <1>14, <1>15, <1>16, <1>17 DEF Next, Step, Rest

-----------------------------------------------------------------------------
(* Refreshes.                                                               *)

\* The calls whose fetch may have been for nothing.
LostCalls == {c \in Calls : outcome[c] \in {"cancelled", "auth_error"}}

\* There is a token in use, or one about to be stored.
Stocked == Valid \/ \E c \in Calls : pc[c] = "store"

\* Every token minted without a 401 came due, was lost, or is in stock.
Accounted ==
    /\ \A c \in Calls : rejected[c] = 0 /\ pc[c] # "rejected"
    /\ minted <= spoilt + Lost + (IF Stocked THEN 1 ELSE 0)

FetchInv ==
    /\ \A c \in Calls : outcome[c] = "none" <=> pc[c] # "done"
    /\ IsFiniteSet(LostCalls)
    /\ revoked = {} => Accounted

\* The number of lost calls follows the outcomes.
LEMMA LostCount ==
    ASSUME TypeOK, FetchInv
    PROVE  /\ Lost \in Nat
           /\ outcome' = outcome => LostCalls' = LostCalls /\ Lost' = Lost
           /\ \A c \in Calls, r \in Outcomes : pc[c] # "done" /\ Finish(c, r) =>
                IF r \in {"cancelled", "auth_error"}
                THEN IsFiniteSet(LostCalls') /\ Lost' = Lost + 1
                ELSE LostCalls' = LostCalls /\ Lost' = Lost
<1>1. Lost = Cardinality(LostCalls) /\ Lost' = Cardinality(LostCalls')
  BY DEF Lost, LostCalls
<1>2. Lost \in Nat
  BY <1>1, FS_CardinalityType DEF FetchInv
<1>3. ASSUME outcome' = outcome PROVE LostCalls' = LostCalls /\ Lost' = Lost
  BY <1>1, <1>3 DEF LostCalls
<1>4. ASSUME NEW c \in Calls, NEW r \in Outcomes, pc[c] # "done", Finish(c, r)
      PROVE  IF r \in {"cancelled", "auth_error"}
             THEN IsFiniteSet(LostCalls') /\ Lost' = Lost + 1
             ELSE LostCalls' = LostCalls /\ Lost' = Lost
  <2>1. c \notin LostCalls
    BY <1>4 DEF FetchInv, LostCalls
  <2>2. LostCalls' = IF r \in {"cancelled", "auth_error"} THEN LostCalls \cup {c} ELSE LostCalls
    <3>1. outcome' = [outcome EXCEPT ![c] = r] /\ outcome \in [Calls -> Outcomes]
      BY <1>4 DEF Finish, TypeOK
    <3>2. QED
      BY <2>1, <3>1 DEF LostCalls
  <2>3. QED
    BY <1>1, <2>1, <2>2, FS_AddElement DEF FetchInv
<1>5. QED
  BY <1>2, <1>3, <1>4

\* A mint too many is balanced by a lost call.
LEMMA Balance ==
    ASSUME NEW m \in Nat, NEW s \in Nat, NEW l \in Nat, NEW k \in Nat,
           NEW m2 \in Nat, NEW l2 \in Nat, NEW k2 \in Nat,
           m <= s + l + k, l <= l2,
           (m2 <= m /\ k <= k2) \/ (m2 <= m + k2 - k + 1 /\ l2 = l + 1)
    PROVE  m2 <= s + l2 + k2
OBVIOUS

\* At the start no token has been minted, and no call has returned.
LEMMA FetchInit == Init => FetchInv
<1> SUFFICES ASSUME Init PROVE FetchInv
  OBVIOUS
<1>1. LostCalls = {}
  BY DEF Init, LostCalls
<1>2. IsFiniteSet(LostCalls) /\ Lost = 0
  BY <1>1, FS_EmptySet DEF Lost, LostCalls
<1>3. QED
  BY <1>2 DEF Init, FetchInv, Accounted, Stocked

\* Every step keeps FetchInv.
LEMMA FetchStep ==
    ASSUME TokenInv, FetchInv, [Next]_vars
    PROVE  FetchInv'
<1> USE DEF TokenInv, TypeOK, FetchInv
<1>0. Lost \in Nat /\ minted \in Nat /\ spoilt \in Nat
  BY LostCount, HttpAssumption
<1>1. ASSUME outcome' = outcome, UNCHANGED <<minted, spoilt, revoked>>,
             \A c \in Calls : (pc'[c] = "done") <=> (pc[c] = "done"),
             revoked = {} => /\ \A c \in Calls : rejected'[c] = 0 /\ pc'[c] # "rejected"
                             /\ Stocked => Stocked'
      PROVE  FetchInv'
  <2>1. LostCalls' = LostCalls /\ Lost' = Lost
    BY <1>1, LostCount
  <2>2. QED
    BY <1>0, <1>1, <2>1 DEF Accounted
<1>2. ASSUME NEW c \in Calls, NEW r \in Outcomes \ {"none"}, pc[c] # "done", Finish(c, r),
             UNCHANGED <<rejected, cache, due, spoilt, revoked>>,
             minted' \in Nat,
             \/ minted' <= minted /\ (Stocked => Stocked')
             \/ minted' <= minted + 1 /\ ~Stocked /\ r = "auth_error"
             \/ minted' <= minted /\ r = "cancelled"
      PROVE  FetchInv'
  <2>1. Lost' \in {Lost, Lost + 1} /\ (r \in {"cancelled", "auth_error"} => Lost' = Lost + 1)
        /\ IsFiniteSet(LostCalls')
    BY <1>2, LostCount
  <2>2. pc' = [pc EXCEPT ![c] = "done"] /\ outcome' = [outcome EXCEPT ![c] = r]
    BY <1>2 DEF Finish
  <2>3. revoked = {} => Accounted'
    <3> DEFINE stock == IF Stocked THEN 1 ELSE 0
    <3>1. stock \in {0, 1} /\ stock' \in {0, 1} /\ spoilt' = spoilt
      BY <1>2
    <3>2. revoked = {} => minted <= spoilt + Lost + stock
      BY DEF Accounted
    <3>3. \/ minted' <= minted /\ stock <= stock'
          \/ minted' <= minted + stock' - stock + 1 /\ Lost' = Lost + 1
      BY <1>0, <1>2, <2>1
    <3> HIDE DEF stock
    <3>4. ASSUME revoked = {} PROVE minted' <= spoilt' + Lost' + stock'
      <4>1. minted <= spoilt + Lost + stock /\ minted' \in Nat /\ Lost' \in Nat /\ Lost <= Lost'
        BY <1>0, <1>2, <2>1, <3>2, <3>4
      <4> HIDE DEF TokenInv, TypeOK, FetchInv
      <4>2. stock \in Nat /\ stock' \in Nat /\ spoilt' \in Nat
        BY <1>0, <3>1
      <4>3. PICK m2 \in Nat, l2 \in Nat, k2 \in Nat : m2 = minted' /\ l2 = Lost' /\ k2 = stock'
        BY <4>1, <4>2
      <4>4. PICK l \in Nat, k \in Nat : l = Lost /\ k = stock
        BY <1>0, <4>2
      <4>5. m2 <= spoilt + l2 + k2
        BY <1>0, <3>3, <4>1, <4>3, <4>4, Balance
      <4>6. QED
        BY <3>1, <4>3, <4>5
    <3>5. QED
      BY <1>2, <2>2, <3>4 DEF Accounted, stock
  <2>4. QED
    BY <1>2, <2>1, <2>2, <2>3
<1> USE DEF Goto, Authorized, Places
<1>3. ASSUME NEW c \in Calls,
             Start(c) \/ UseCached(c) \/ WantRefresh(c) \/ UseRefreshed(c) \/ BeginFetch(c) \/ Accepted(c)
      PROVE  FetchInv'
  BY <1>1, <1>3 DEF Start, UseCached, WantRefresh, UseRefreshed, BeginFetch, Accepted,
     authVars, serverVars, Stocked, Valid, Accounted
<1>4. ASSUME NEW c \in Calls, FetchOk(c) PROVE FetchInv'
  <2>1. ~Stocked /\ Stocked'
    <3>1. refresh = c /\ ~Valid /\ pc[c] # "store"
      BY <1>4, HttpAssumption DEF FetchOk, RefreshNeeded
    <3>2. pc'[c] = "store"
      BY <1>4 DEF FetchOk
    <3>3. QED
      BY <3>1, <3>2 DEF Stocked
  <2>2. LostCalls' = LostCalls /\ Lost' = Lost
    BY <1>4, LostCount DEF FetchOk
  <2>3. QED
    BY <1>0, <1>4, <2>1, <2>2 DEF FetchOk, Accounted
<1>5. ASSUME NEW c \in Calls, FetchFails(c) PROVE FetchInv'
  <2>1. ~Stocked
    <3>1. refresh = c /\ ~Valid /\ pc[c] # "store"
      BY <1>5, HttpAssumption DEF FetchFails, RefreshNeeded
    <3>2. QED
      BY <3>1 DEF Stocked
  <2>2. QED
    BY <1>0, <1>2, <1>5, <2>1 DEF FetchFails, Outcomes
<1>6. ASSUME NEW c \in Calls, Store(c) PROVE FetchInv'
  <2>1. Stocked'
    BY <1>0, <1>6 DEF Store, Stocked, Valid, FetchedIsNewest
  <2>2. QED
    BY <1>1, <1>6, <2>1 DEF Store, serverVars, Accounted
<1>7. ASSUME NEW c \in Calls, Unauthorized(c) PROVE FetchInv'
  <2>1. revoked # {} /\ revoked' = revoked
    BY <1>7 DEF Unauthorized, serverVars
  <2>2. CASE Goto(c, "rejected")
    BY <1>1, <1>7, <2>1, <2>2 DEF Unauthorized, serverVars
  <2>3. CASE Finish(c, "status")
    <3>1. pc'[c] = "done" /\ outcome'[c] = "status" /\ pc[c] # "done"
      BY <1>7, <2>3 DEF Finish, Unauthorized
    <3>2. LostCalls' = LostCalls
      BY <2>3, <3>1, LostCount DEF Outcomes
    <3>3. QED
      BY <2>1, <2>3, <3>1, <3>2 DEF Finish
  <2>4. QED
    BY <1>7, <2>2, <2>3 DEF Unauthorized
<1>8. ASSUME NEW c \in Calls, OnUnauthorized(c) PROVE FetchInv'
  BY <1>1, <1>8 DEF OnUnauthorized, serverVars, Accounted
<1>9. ASSUME NEW c \in Calls, ReadBody(c) \/ ConnectFails(c) PROVE FetchInv'
  <2>1. PICK r \in Outcomes \ {"none", "cancelled", "auth_error"} : Finish(c, r)
    BY <1>9 DEF ReadBody, ConnectFails, Outcomes
  <2>2. Stocked => Stocked'
    BY <1>9, <2>1 DEF ReadBody, ConnectFails, Finish, Stocked, Valid, authVars
  <2>3. QED
    BY <1>0, <1>2, <1>9, <2>1, <2>2 DEF ReadBody, ConnectFails, authVars
<1>10. ASSUME NEW c \in Calls, Cancel(c) PROVE FetchInv'
  BY <1>0, <1>2, <1>10 DEF Cancel, serverVars, Outcomes
<1>11. CASE ComesDue
  <2>1. LostCalls' = LostCalls /\ Lost' = Lost
    BY <1>11, LostCount DEF ComesDue, callVars
  <2>2. spoilt' = spoilt + 1
    BY <1>11 DEF ComesDue
  <2>3. QED
    BY <1>0, <1>11, <2>1, <2>2 DEF ComesDue, callVars, Accounted
<1>12. ASSUME NEW t \in 1..minted, Revoke(t) PROVE FetchInv'
  <2>1. LostCalls' = LostCalls /\ revoked' # {}
    BY <1>12, LostCount DEF Revoke, callVars
  <2>2. QED
    BY <1>12, <2>1 DEF Revoke, callVars
<1>13. CASE UNCHANGED vars
  BY <1>1, <1>13 DEF vars, callVars, authVars, serverVars, Stocked, Valid, Accounted
<1>14. QED
  BY <1>3, <1>4, <1>5, <1>6, <1>7, <1>8, <1>9, <1>10, <1>11, <1>12, <1>13 DEF Next, Step, Rest

-----------------------------------------------------------------------------
(* Executions.                                                              *)

\* A request is executed when the call leaves "send" for "body", and no path
\* leads back.
ExecutedOnce == \A c \in Calls :
    /\ execs[c] = IF pc[c] = "body" THEN 1 ELSE IF pc[c] = "done" THEN execs[c] ELSE 0
    /\ execs[c] \in {0, 1}

\* Every step keeps ExecutedOnce.
LEMMA ExecutedStep ==
    ASSUME TypeOK, ExecutedOnce, [Next]_vars
    PROVE  ExecutedOnce'
<1> USE DEF TypeOK, ExecutedOnce, Goto, Finish, Authorized, callVars, authVars, serverVars
<1>1. ASSUME NEW c \in Calls, Accepted(c) PROVE ExecutedOnce'
  <2>1. execs[c] = 0 /\ execs[c] + 1 = 1
    BY <1>1 DEF Accepted
  <2>2. execs' = [execs EXCEPT ![c] = 1] /\ pc' = [pc EXCEPT ![c] = "body"]
    BY <1>1, <2>1 DEF Accepted
  <2>3. QED
    BY <2>2
<1>2. ASSUME NEW c \in Calls, NEW p \in Places \ {"body"}, UNCHANGED execs,
             pc' = [pc EXCEPT ![c] = p], pc[c] # "done", pc[c] # "body" \/ p = "done"
      PROVE  ExecutedOnce'
  BY <1>2
<1>3. ASSUME NEW c \in Calls,
             Start(c) \/ UseCached(c) \/ WantRefresh(c) \/ UseRefreshed(c) \/ BeginFetch(c)
             \/ FetchOk(c) \/ FetchFails(c) \/ Store(c)
      PROVE  ExecutedOnce'
  BY <1>2, <1>3 DEF Places, Start, UseCached, WantRefresh, UseRefreshed, BeginFetch, FetchOk, FetchFails, Store
<1>4. ASSUME NEW c \in Calls,
             Unauthorized(c) \/ OnUnauthorized(c) \/ ReadBody(c) \/ ConnectFails(c) \/ Cancel(c)
      PROVE  ExecutedOnce'
  BY <1>2, <1>4 DEF Places, Unauthorized, OnUnauthorized, ReadBody, ConnectFails, Cancel
<1>5. CASE UNCHANGED <<pc, execs>>
  BY <1>5
<1>6. QED
  BY <1>1, <1>3, <1>4, <1>5 DEF Next, Step, Rest, ComesDue, Revoke, vars

-----------------------------------------------------------------------------
(* Theorems.                                                                *)

\* TokenInv, FetchInv and ExecutedOnce hold in every reachable state.
THEOREM HttpAuthInvariant == Spec => [](TokenInv /\ FetchInv /\ ExecutedOnce)
<1>1. Init => TokenInv /\ FetchInv /\ ExecutedOnce
  BY TokenInit, FetchInit DEF Init, ExecutedOnce
<1>2. (TokenInv /\ FetchInv /\ ExecutedOnce) /\ [Next]_vars
        => (TokenInv /\ FetchInv /\ ExecutedOnce)'
  BY TokenStep, FetchStep, ExecutedStep DEF TokenInv
<1>3. QED
  BY <1>1, <1>2, PTL DEF Spec

\* The variables keep their types; in particular refresh_lock is held by the
\* call that fetches or stores, and by no other.
THEOREM HttpAuthTypes == Spec => []TypeOK
<1>1. TokenInv => TypeOK
  BY DEF TokenInv
<1>2. QED
  BY <1>1, HttpAuthInvariant, PTL

\* authorize and on_unauthorized: a retry carries a newer token than the one
\* that was refused, and no refresh puts an older token over a newer.
THEOREM TokensOnlyGetNewer == Spec => []TokensMoveForward
<1>1. TokenInv => TokensMoveForward
  BY DEF TokenInv
<1>2. QED
  BY <1>1, HttpAuthInvariant, PTL

\* Refreshes are shared: as long as no token is revoked, one fetch for every
\* expiry and for every call lost, whatever the number of calls.
THEOREM RefreshesAreShared == Spec => []OneFetchPerExpiry
<1>1. TokenInv /\ FetchInv => OneFetchPerExpiry
  <2> SUFFICES ASSUME TokenInv, FetchInv, revoked = {} PROVE minted <= 1 + spoilt + Lost
    BY DEF OneFetchPerExpiry
  <2>1. Lost \in Nat /\ minted \in Nat /\ spoilt \in Nat
    BY LostCount, HttpAssumption DEF TokenInv, TypeOK
  <2>2. CASE Stocked
    BY <2>1, <2>2 DEF FetchInv, Accounted
  <2>3. CASE ~Stocked
    BY <2>1, <2>3 DEF FetchInv, Accounted
  <2>4. QED
    BY <2>2, <2>3
<1>2. QED
  BY <1>1, HttpAuthInvariant, PTL

\* round_trip with its authorizer keeps the contract of a transport: the retry
\* after a 401 never executes a request twice, and a reply is the call's own.
THEOREM HttpAuthImplements == Spec => ImplementsContract
<1> DEFINE Inv == TokenInv /\ FetchInv /\ ExecutedOnce
<1>1. Init => Contract!Init
  BY DEF Init, Contract!Init, phase, answer
<1>2. ASSUME Inv, [Next]_vars PROVE [Contract!Next]_(Contract!contractVars)
  <2> USE DEF Inv, TokenInv, FetchInv, TypeOK, ExecutedOnce, Goto, Authorized
  <2>1. ASSUME NEW c \in Calls, Start(c) PROVE Contract!Issue(c)
    <3>1. pc' = [pc EXCEPT ![c] = "authorize"] /\ pc[c] = "idle" /\ UNCHANGED <<outcome, execs>>
      BY <2>1 DEF Start, serverVars
    <3>2. phase' = [phase EXCEPT ![c] = "issued"]
      BY <1>2, <3>1 DEF phase
    <3>3. QED
      BY <1>2, <3>1, <3>2 DEF Contract!Issue, phase, answer
  <2>2. ASSUME UNCHANGED <<outcome, execs>>,
               \A c \in Calls : /\ pc'[c] = "idle" <=> pc[c] = "idle"
                                /\ pc'[c] = "done" <=> pc[c] = "done"
        PROVE  UNCHANGED Contract!contractVars
    BY <2>2 DEF Contract!contractVars, phase, answer
  <2>3. ASSUME NEW c \in Calls, NEW r \in Outcomes, pc[c] \notin {"idle", "done"},
               Finish(c, r), UNCHANGED execs
        PROVE  IF r = "reply" THEN pc[c] = "body" => Contract!Answer(c) ELSE Contract!Fail(c)
    <3>1. pc' = [pc EXCEPT ![c] = "done"] /\ outcome' = [outcome EXCEPT ![c] = r]
      BY <2>3 DEF Finish
    <3>2. phase[c] = "issued" /\ phase' = [phase EXCEPT ![c] = "settled"]
      BY <1>2, <2>3, <3>1 DEF phase
    <3>3. answer' = IF r = "reply" THEN [answer EXCEPT ![c] = c] ELSE answer
      BY <1>2, <2>3, <3>1 DEF answer
    <3>4. QED
      BY <1>2, <2>3, <3>2, <3>3 DEF Contract!Fail, Contract!Answer
  <2>4. ASSUME NEW c \in Calls, Accepted(c) PROVE Contract!Execute(c)
    <3>1. phase[c] # "idle" /\ phase' = phase /\ answer' = answer
      BY <1>2, <2>4 DEF Accepted, phase, answer
    <3>2. execs[c] = 0 /\ execs[c] + 1 = 1
      BY <1>2, <2>4 DEF Accepted
    <3>3. execs' = [execs EXCEPT ![c] = 1]
      BY <2>4, <3>2 DEF Accepted
    <3>4. QED
      BY <3>1, <3>2, <3>3 DEF Contract!Execute
  <2>5. ASSUME NEW c \in Calls,
               UseCached(c) \/ WantRefresh(c) \/ UseRefreshed(c) \/ BeginFetch(c)
               \/ FetchOk(c) \/ Store(c) \/ OnUnauthorized(c)
        PROVE  UNCHANGED Contract!contractVars
    BY <1>2, <2>2, <2>5 DEF UseCached, WantRefresh, UseRefreshed, BeginFetch, FetchOk, Store,
       OnUnauthorized, serverVars
  <2>6. ASSUME NEW c \in Calls, FetchFails(c) \/ ConnectFails(c) \/ Cancel(c)
        PROVE  Contract!Fail(c)
    BY <1>2, <2>3, <2>6 DEF FetchFails, ConnectFails, Cancel, serverVars, Outcomes
  <2>7. ASSUME NEW c \in Calls, Unauthorized(c)
        PROVE  Contract!Fail(c) \/ UNCHANGED Contract!contractVars
    BY <1>2, <2>2, <2>3, <2>7 DEF Unauthorized, serverVars, Outcomes
  <2>8. ASSUME NEW c \in Calls, ReadBody(c)
        PROVE  Contract!Answer(c) \/ Contract!Fail(c)
    BY <2>3, <2>8 DEF ReadBody, Outcomes
  <2>9. CASE ComesDue \/ (\E t \in 1..minted : Revoke(t)) \/ UNCHANGED vars
    BY <2>2, <2>9 DEF ComesDue, Revoke, vars, callVars, serverVars
  <2>10. QED
    BY <1>2, <2>1, <2>4, <2>5, <2>6, <2>7, <2>8, <2>9 DEF Next, Step, Rest, Contract!Next
<1>3. QED
  BY <1>1, <1>2, HttpAuthInvariant, PTL DEF Spec, ImplementsContract, Contract!ContractSpec
=============================================================================
