------------------------------ MODULE HttpAuth ------------------------------
(***************************************************************************)
(* HttpTransport::round_trip (client/http.rs) with the Authorizer of        *)
(* examples/oauth_client_credentials.rs: concurrent calls share one cached  *)
(* bearer token, which expires, is revoked by the server, and is fetched    *)
(* again under a refresh lock; a 401 drops it and is retried once.          *)
(*                                                                          *)
(* Tokens are numbered in the order the authorization server mints them.    *)
(***************************************************************************)
EXTENDS Naturals, FiniteSets

CONSTANTS
    Calls,       \* round_trip futures over clones of one transport
    NoCall,      \* nobody holds refresh_lock; no answer
    Cancellable, \* calls whose future may be dropped before it is ready
    MaxSpoilt,   \* bound: tokens that expire early or are revoked
    MaxFailures  \* bound: requests that fail on the way

ASSUME HttpAssumption == /\ NoCall \notin Calls
                         /\ Cancellable \subseteq Calls
                         /\ {MaxSpoilt, MaxFailures} \subseteq Nat

VARIABLES
    pc,       \* pc[c]: where the future of c is
    outcome,  \* outcome[c]: what it returned
    token,    \* token[c]: the token it authorizes with, 0 for none yet
    rejected, \* rejected[c]: the token that got a 401, 0 for none
    cache,    \* the cached token, 0 for None
    due,      \* whether the cached token is due for refresh
    refresh,  \* the holder of refresh_lock
    minted,   \* tokens minted so far
    revoked,  \* tokens the resource server does not accept any more
    spoilt,   \* tokens that were revoked or came due
    failures, \* requests that failed on the way
    execs     \* execs[c]: how often the server executed c

callVars == <<pc, outcome, token, rejected>>
authVars == <<cache, due, refresh>>
serverVars == <<minted, revoked, spoilt, failures, execs>>
vars == <<callVars, authVars, serverVars>>

Init ==
    /\ pc = [c \in Calls |-> "idle"]
    /\ outcome = [c \in Calls |-> "none"]
    /\ token = [c \in Calls |-> 0]
    /\ rejected = [c \in Calls |-> 0]
    /\ cache = 0 /\ due = FALSE /\ refresh = NoCall
    /\ minted = 0 /\ revoked = {} /\ spoilt = 0 /\ failures = 0
    /\ execs = [c \in Calls |-> 0]

\* cached_valid
Valid == cache # 0 /\ ~due

Goto(c, place) == pc' = [pc EXCEPT ![c] = place] /\ UNCHANGED outcome
Finish(c, result) == /\ pc' = [pc EXCEPT ![c] = "done"]
                     /\ outcome' = [outcome EXCEPT ![c] = result]

\* Leave authorize with token t.
Authorized(c, t) == Goto(c, "send") /\ token' = [token EXCEPT ![c] = t]

-----------------------------------------------------------------------------
Start(c) ==
    /\ pc[c] = "idle"
    /\ Goto(c, "authorize")
    /\ UNCHANGED <<token, rejected, authVars, serverVars>>

\* authorize, fast path: a cached token that is not due for refresh.
UseCached(c) ==
    /\ pc[c] = "authorize"
    /\ Valid
    /\ Authorized(c, cache)
    /\ UNCHANGED <<rejected, authVars, serverVars>>

\* authorize, slow path: queue for the refresh lock.
WantRefresh(c) ==
    /\ pc[c] = "authorize"
    /\ ~Valid
    /\ Goto(c, "lock")
    /\ UNCHANGED <<token, rejected, authVars, serverVars>>

\* The lock is ours, and another task has refreshed meanwhile.
UseRefreshed(c) ==
    /\ pc[c] = "lock"
    /\ refresh = NoCall
    /\ Valid
    /\ Authorized(c, cache)
    /\ UNCHANGED <<rejected, authVars, serverVars>>

\* Plausible bug: no second look at the cache under the lock.
BeginFetch_NoRecheck(c) ==
    /\ pc[c] = "lock"
    /\ refresh = NoCall
    /\ refresh' = c
    /\ Goto(c, "fetch")
    /\ UNCHANGED <<token, rejected, cache, due, serverVars>>

\* The lock is ours and there is still no token.
BeginFetch(c) ==
    /\ pc[c] = "lock"
    /\ refresh = NoCall
    /\ ~Valid
    /\ refresh' = c
    /\ Goto(c, "fetch")
    /\ UNCHANGED <<token, rejected, cache, due, serverVars>>

\* fetch_token: the authorization server mints a token.
FetchOk(c) ==
    /\ pc[c] = "fetch"
    /\ minted' = minted + 1
    /\ token' = [token EXCEPT ![c] = minted']
    /\ Goto(c, "store")
    /\ UNCHANGED <<rejected, authVars, revoked, spoilt, failures, execs>>

\* Plausible bug: the lock is kept by a fetch that fails.
FetchFails_KeepsLock(c) ==
    /\ pc[c] = "fetch"
    /\ failures < MaxFailures
    /\ failures' = failures + 1
    /\ Finish(c, "auth_error")
    /\ UNCHANGED <<token, rejected, authVars, minted, revoked, spoilt, execs>>

\* fetch_token fails, perhaps with a token minted: the call fails, and the
\* lock is free.
FetchFails(c) ==
    /\ pc[c] = "fetch"
    /\ failures < MaxFailures
    /\ failures' = failures + 1
    /\ minted' \in {minted, minted + 1}
    /\ refresh' = NoCall
    /\ Finish(c, "auth_error")
    /\ UNCHANGED <<token, rejected, cache, due, revoked, spoilt, execs>>

\* The token is put into the cache, whatever is there, and used.
Store(c) ==
    /\ pc[c] = "store"
    /\ cache' = token[c] /\ due' = FALSE
    /\ refresh' = NoCall
    /\ Goto(c, "send")
    /\ UNCHANGED <<token, rejected, serverVars>>

\* The resource server accepts the token and executes the request.
Accepted(c) ==
    /\ pc[c] = "send"
    /\ token[c] \notin revoked
    /\ execs' = [execs EXCEPT ![c] = @ + 1]
    /\ Goto(c, "body")
    /\ UNCHANGED <<token, rejected, authVars, minted, revoked, spoilt, failures>>

\* Plausible bug: 401 is retried as long as it is answered, with the token
\* still in the cache.
Unauthorized_Loop(c) ==
    /\ pc[c] = "send"
    /\ token[c] \in revoked
    /\ Goto(c, "authorize")
    /\ UNCHANGED <<token, rejected, authVars, serverVars>>

\* 401: the first one goes to on_unauthorized, the second is the result.
Unauthorized(c) ==
    /\ pc[c] = "send"
    /\ token[c] \in revoked
    /\ IF rejected[c] = 0
       THEN Goto(c, "rejected") /\ rejected' = [rejected EXCEPT ![c] = token[c]]
       ELSE Finish(c, "status") /\ UNCHANGED rejected
    /\ UNCHANGED <<token, authVars, serverVars>>

\* Plausible bug: a retry without dropping the token.
OnUnauthorized_KeepsToken(c) ==
    /\ pc[c] = "rejected"
    /\ Goto(c, "authorize")
    /\ UNCHANGED <<token, rejected, authVars, serverVars>>

\* on_unauthorized: drop the cached token, whichever it is, and retry.
OnUnauthorized(c) ==
    /\ pc[c] = "rejected"
    /\ cache' = 0 /\ due' = FALSE
    /\ Goto(c, "authorize")
    /\ UNCHANGED <<token, rejected, refresh, serverVars>>

\* Plausible bug: a body that could not be read is asked for again.
ReadBody_Resends(c) ==
    /\ pc[c] = "body"
    /\ \/ Finish(c, "reply") /\ UNCHANGED failures
       \/ /\ failures < MaxFailures
          /\ failures' = failures + 1
          /\ Goto(c, "send")
    /\ UNCHANGED <<token, rejected, authVars, minted, revoked, spoilt, execs>>

\* The status is success and read_body succeeds, or one of the two is not so.
ReadBody(c) ==
    /\ pc[c] = "body"
    /\ \/ Finish(c, "reply") /\ UNCHANGED failures
       \/ /\ failures < MaxFailures
          /\ failures' = failures + 1
          /\ \E e \in {"status", "body", "too_large"} : Finish(c, e)
    /\ UNCHANGED <<token, rejected, authVars, minted, revoked, spoilt, execs>>

\* The request fails before the server has it, or its response is lost.
ConnectFails(c) ==
    /\ pc[c] \in {"send", "body"}
    /\ failures < MaxFailures
    /\ failures' = failures + 1
    /\ Finish(c, "connect")
    /\ UNCHANGED <<token, rejected, authVars, minted, revoked, spoilt, execs>>

\* The future is dropped at an await, and with it the lock if it holds it.
Cancel(c) ==
    /\ c \in Cancellable
    /\ pc[c] \notin {"idle", "done"}
    /\ refresh' = IF refresh = c THEN NoCall ELSE refresh
    /\ Finish(c, "cancelled")
    /\ UNCHANGED <<token, rejected, cache, due, serverVars>>

-----------------------------------------------------------------------------
\* The clock: the cached token is due for refresh.
ComesDue ==
    /\ Valid
    /\ spoilt < MaxSpoilt
    /\ due' = TRUE
    /\ spoilt' = spoilt + 1
    /\ UNCHANGED <<callVars, cache, refresh, minted, revoked, failures, execs>>

\* The resource server stops accepting a token before it is due.
Revoke(t) ==
    /\ t \notin revoked
    /\ spoilt < MaxSpoilt
    /\ revoked' = revoked \cup {t}
    /\ spoilt' = spoilt + 1
    /\ UNCHANGED <<callVars, authVars, minted, failures, execs>>

\* Every future has returned.
Rest == (\A c \in Calls : pc[c] = "done") /\ UNCHANGED vars

Step(c) == \/ UseCached(c) \/ WantRefresh(c) \/ UseRefreshed(c) \/ BeginFetch(c)
           \/ FetchOk(c) \/ FetchFails(c) \/ Store(c) \/ Accepted(c)
           \/ Unauthorized(c) \/ OnUnauthorized(c) \/ ReadBody(c) \/ ConnectFails(c)

Next == \/ \E c \in Calls : Start(c) \/ Step(c) \/ Cancel(c)
        \/ ComesDue \/ (\E t \in 1..minted : Revoke(t)) \/ Rest

Spec == Init /\ [][Next]_vars

\* Futures are polled and both servers answer.
FairSpec == Spec /\ \A c \in Calls : WF_vars(Step(c))

-----------------------------------------------------------------------------
Places == {"idle", "authorize", "lock", "fetch", "store", "send", "rejected",
           "body", "done"}
Outcomes == {"none", "reply", "auth_error", "status", "body", "too_large",
             "connect", "cancelled"}

TypeOK ==
    /\ pc \in [Calls -> Places]
    /\ outcome \in [Calls -> Outcomes]
    /\ token \in [Calls -> 0..minted] /\ rejected \in [Calls -> 0..minted]
    /\ cache \in 0..minted /\ due \in BOOLEAN
    /\ refresh \in Calls \cup {NoCall}
    /\ \A c \in Calls : pc[c] \in {"fetch", "store"} <=> refresh = c
    /\ minted \in Nat /\ revoked \subseteq 1..minted
    /\ spoilt \in 0..MaxSpoilt /\ failures \in 0..MaxFailures
    /\ execs \in [Calls -> Nat]

\* "Drop it so the retry mints a fresh one" (on_unauthorized): the second
\* attempt of a call never carries the token that its first was refused for,
\* however the refreshes and the 401s of other calls interleave with it.
RetryIsFresh ==
    \A c \in Calls : pc[c] = "send" /\ rejected[c] # 0 => token[c] > rejected[c]

\* Stale-token callers agree on one token: a cached token that is handed out is
\* as new as any token a call has been authorized with, so a slow refresh never
\* puts an older token over a newer one.
CacheIsNewest == Valid => \A c \in Calls : token[c] <= cache

\* Tokens only ever get newer, in a call and in the cache (both of the above).
TokensMoveForward == RetryIsFresh /\ CacheIsNewest

\* Fetches whose token nobody may ever see: the call was cancelled or failed.
Lost == Cardinality({c \in Calls : outcome[c] \in {"cancelled", "auth_error"}})

\* "Refreshing internally if the cached one is expired": refreshes by expiry
\* are shared.  Without a 401 there is one fetch for every token that came due
\* and for every fetch that was lost, however many calls want the token.
OneFetchPerExpiry == revoked = {} => minted <= 1 + spoilt + Lost

\* "Retry the request exactly once": a request is executed at most once,
\* whatever is retried, and its reply returned only if it was.
phase == [c \in Calls |-> CASE pc[c] = "idle" -> "idle"
                             [] pc[c] = "done" -> "settled"
                             [] OTHER -> "issued"]
answer == [c \in Calls |-> IF outcome[c] = "reply" THEN c ELSE NoCall]
Contract == INSTANCE CallContract
ImplementsContract == Contract!ContractSpec

\* Every call returns, although refreshes fail and tokens are refused.
EveryCallReturns == \A c \in Calls : pc[c] = "authorize" ~> pc[c] = "done"
=============================================================================
