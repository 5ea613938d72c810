------------------------------- MODULE Sessions -------------------------------
(***************************************************************************)
(* Browser sessions of VortexFlow: the tabs of one browser, which share    *)
(* the access token in localStorage and the refresh cookie, each with its  *)
(* own refresh-on-401 queue (frontend/src/lib/api.ts, lib/auth.tsx); and   *)
(* the login, refresh and logout handlers of api/v1/auth.py, whose steps   *)
(* are separate Redis calls (services/session.py, redis_client.py).        *)
(*                                                                         *)
(* A token pair is a number; an access token and the refresh token minted  *)
(* with it have the same one, and 0 is no token.  One user.  A call goes   *)
(* through every stage from being sent to its promise being settled, the   *)
(* refresh it may lead included.                                           *)
(***************************************************************************)
EXTENDS Integers, FiniteSets

CONSTANTS
    Tabs,          \* tabs of the browser
    Calls,         \* requests a page can have in flight
    TabOf,         \* TabOf[c]: the tab that makes call c
    MaxPairs,      \* bound: token pairs minted
    MaxSessions,   \* bound: logins
    MaxFaults      \* bound: what ends a session or goes wrong (see Fault)

Pairs == 1 .. MaxPairs
Sids == 1 .. MaxSessions

ASSUME ConstantsAssumption ==
    /\ TabOf \in [Calls -> Tabs]
    /\ MaxPairs \in Nat /\ MaxSessions \in Nat
    /\ MaxFaults \in Nat

VARIABLES
    \* the browser
    token,       \* access_token in localStorage
    cookie,      \* the httpOnly refresh cookie
    page,        \* page[t]: "loading" until loadUser is done, then "app" or "login"
    refreshing,  \* refreshing[t]: _refreshing of the tab's api module
    call,        \* call[c]: the request, its handler and its answer
    \* the server
    minted,      \* pairs minted so far
    sidOf,       \* sidOf[n]: the sid claim of pair n
    from,        \* from[n]: the refresh token pair n was minted from
    opened,      \* sessions opened so far
    rt,          \* the rt:{jti} keys
    live,        \* the session:{sid} keys
    revoked,     \* the revoked:{jti} keys
    expired,     \* access tokens up to this one are past their exp
    aged,        \* sessions past session_absolute_hours
    active,      \* User.is_active
    redis,       \* Redis answers
    faults,      \* what went wrong so far, counted for the bound
    \* history
    over,        \* sessions that were logged out or idled out
    excused,     \* sessions one refresh had validated before that, or without Redis
    spentBy,     \* spentBy[n]: tabs whose refresh got past the single-use check with n
    unguarded,   \* refresh tokens let through while Redis was down
    forgone,     \* tokens the browser may still send although they are used or not stored
    refused      \* <<t, n>>: tab t was refused because token n is not stored

browserVars == <<token, cookie, page, refreshing>>
redisVars == <<rt, live, revoked>>
pairVars == <<minted, sidOf, from, opened>>
worldVars == <<expired, aged, active, redis, faults>>
historyVars == <<over, excused, spentBy, unguarded, forgone, refused>>
vars == <<browserVars, call, redisVars, pairVars, worldVars, historyVars>>

Kinds == {"api", "me", "login", "logout", "gone"}
\* The stages in which a refresh is under way, on the server or in an answer.
RefreshStages == {"refresh", "consumed", "issue", "store", "renewed", "denied"}
Stages == {"idle", "sent", "ok", "bad", "lost", "queued", "drop", "end"} \cup RefreshStages
Call == [st : Stages, kind : Kinds, tok : {0} \cup Pairs, rt : {0} \cup Pairs,
         sid : {0} \cup Sids, new : {0} \cup Pairs, tries : {0, 1}]

Fresh(st, kind, tok, cook, tries) ==
    [st |-> st, kind |-> kind, tok |-> tok, rt |-> cook, sid |-> 0, new |-> 0, tries |-> tries]
Idle == Fresh("idle", "api", 0, 0, 0)
\* The request interceptor attaches what localStorage holds.
Sent(kind, tok, tries) == Fresh("sent", kind, tok, 0, tries)
At(c, st) == call[c].st = st
\* A handler is at stage st, holding a cookie, a session and a new pair.
Holds(c, st, cook, sid, new) ==
    [st |-> st, kind |-> call[c].kind, tok |-> call[c].tok, rt |-> cook, sid |-> sid,
     new |-> new, tries |-> call[c].tries]
Becomes(c, r) == call' = [call EXCEPT ![c] = r]
To(c, st) == Becomes(c, [call[c] EXCEPT !.st = st])
\* The call is answered: what it carried no longer matters.
Answered(c, st) == Becomes(c, Fresh(st, call[c].kind, 0, 0, call[c].tries))
Mine(t) == {c \in Calls : TabOf[c] = t /\ call[c].kind # "gone"}
Leads(c) == call[c].kind \in {"api", "me"} /\ call[c].st \in RefreshStages
Token(n) == {n} \ {0}

\* Room for every pair the calls under way may still mint.
Room(n) ==
    minted + n + Cardinality({c \in Calls : ~At(c, "idle")})
           + Cardinality({c \in Calls : call[c].kind = "login"}) <= MaxPairs

\* Something that ends a session early or goes wrong.
Fault == faults < MaxFaults /\ faults' = faults + 1

Init ==
    /\ token = 0 /\ cookie = 0
    /\ page = [t \in Tabs |-> "login"]
    /\ refreshing = [t \in Tabs |-> FALSE]
    /\ call = [c \in Calls |-> Idle]
    /\ minted = 0 /\ opened = 0 /\ expired = 0
    /\ sidOf = [n \in Pairs |-> 0]
    /\ from = [n \in Pairs |-> 0]
    /\ rt = {} /\ live = {} /\ revoked = {} /\ aged = {}
    /\ active = TRUE /\ redis = TRUE
    /\ faults = 0
    /\ over = {} /\ excused = {} /\ unguarded = {} /\ forgone = {} /\ refused = {}
    /\ spentBy = [n \in Pairs |-> {}]

-----------------------------------------------------------------------------
(* The pages. *)

\* A page is left: what its calls would have done in it is lost, what the
\* server is doing for them goes on.
OnServer(c) == \/ call[c].st \in {"refresh", "consumed", "issue", "store", "drop", "end"}
               \/ At(c, "sent") /\ call[c].kind \in {"logout", "gone"}
Left(c) == IF OnServer(c) THEN [call[c] EXCEPT !.kind = "gone"] ELSE Idle
\* The refresh tokens whose successor such a page will never store.
Unheard(C) == UNION {Token(call[c].rt) : c \in {d \in C : Leads(d)}}

\* An api call of a page.
Ask(c) ==
    /\ page[TabOf[c]] = "app" /\ At(c, "idle") /\ Room(1)
    /\ Becomes(c, Sent("api", token, 0))
    /\ UNCHANGED <<browserVars, redisVars, pairVars, worldVars, historyVars>>

\* A page is opened or reloaded: loadUser asks who the token belongs to.
Open(t) ==
    /\ refreshing' = [refreshing EXCEPT ![t] = FALSE]
    /\ forgone' = forgone \cup Unheard(Mine(t))
    /\ IF \E c \in Mine(t) : ~At(c, "idle") THEN Fault ELSE UNCHANGED faults
    /\ \/ /\ token = 0
          /\ page' = [page EXCEPT ![t] = "login"]
          /\ call' = [c \in Calls |-> IF c \in Mine(t) THEN Left(c) ELSE call[c]]
       \/ /\ token # 0
          /\ page' = [page EXCEPT ![t] = "loading"]
          /\ \E c \in Calls :
                /\ TabOf[c] = t /\ Left(c) = Idle /\ Room(1)
                /\ call' = [d \in Calls |-> IF d = c THEN Sent("me", token, 0)
                                            ELSE IF d \in Mine(t) THEN Left(d) ELSE call[d]]
    /\ UNCHANGED <<token, cookie, redisVars, pairVars, expired, aged, active, redis,
                   over, excused, spentBy, unguarded, refused>>

Login(c) ==
    /\ page[TabOf[c]] = "login" /\ At(c, "idle") /\ Room(2)
    /\ opened + Cardinality({d \in Calls : call[d].kind = "login"}) < MaxSessions
    /\ Becomes(c, Sent("login", token, 0))
    /\ UNCHANGED <<browserVars, redisVars, pairVars, worldVars, historyVars>>

Logout(c) ==
    /\ page[TabOf[c]] = "app" /\ At(c, "idle")
    /\ Becomes(c, Fresh("sent", "logout", token, cookie, 0))
    /\ UNCHANGED <<browserVars, redisVars, pairVars, worldVars, historyVars>>

\* A call is answered 2xx.  me() ends loadUser or login; logout clears the
\* cookie with its answer and the token in its finally.
Succeed(c) ==
    /\ At(c, "ok")
    /\ Becomes(c, Idle)
    /\ LET t == TabOf[c]
           out == call[c].kind = "logout"
       IN /\ token' = IF out THEN 0 ELSE token
          /\ cookie' = IF out THEN 0 ELSE cookie
          /\ page' = CASE out -> [page EXCEPT ![t] = "login"]
                       [] call[c].kind = "me" -> [page EXCEPT ![t] = "app"]
                       [] OTHER -> page
    /\ UNCHANGED <<refreshing, redisVars, pairVars, worldVars, historyVars>>

\* The promise of a call is rejected: loadUser drops the token, logout drops
\* it too, a login form or a page shows the error.
Dropped(c) == \/ call[c].kind = "logout"
              \/ call[c].kind = "me" /\ page[TabOf[c]] = "loading"
Reject(c) ==
    /\ Becomes(c, Idle)
    /\ token' = IF Dropped(c) THEN 0 ELSE token
    /\ page' = IF Dropped(c) THEN [page EXCEPT ![TabOf[c]] = "login"] ELSE page

\* The response interceptor on a 401: queue behind the refresh of this tab,
\* or start one with the cookie of the moment.
MayRefresh(c) == At(c, "bad") /\ call[c].tries = 0 /\ call[c].kind \in {"api", "me"}
Queue(c) ==
    /\ MayRefresh(c) /\ refreshing[TabOf[c]]
    /\ Becomes(c, Fresh("queued", call[c].kind, 0, 0, 1))
    /\ UNCHANGED <<browserVars, redisVars, pairVars, worldVars, historyVars>>
\* Mutant: the refresh is started without setting _refreshing.
LeadUnmarked(c) ==
    /\ MayRefresh(c) /\ ~refreshing[TabOf[c]]
    /\ Becomes(c, Fresh("refresh", call[c].kind, 0, cookie, 1))
    /\ UNCHANGED <<browserVars, redisVars, pairVars, worldVars, historyVars>>
Lead(c) ==
    /\ MayRefresh(c) /\ ~refreshing[TabOf[c]]
    /\ Becomes(c, Fresh("refresh", call[c].kind, 0, cookie, 1))
    /\ refreshing' = [refreshing EXCEPT ![TabOf[c]] = TRUE]
    /\ UNCHANGED <<token, cookie, page, redisVars, pairVars, worldVars, historyVars>>
\* Any other error is the caller's.
Fail(c) ==
    /\ \/ At(c, "lost")
       \/ At(c, "bad") /\ ~MayRefresh(c)
    /\ Reject(c)
    /\ UNCHANGED <<cookie, refreshing, redisVars, pairVars, worldVars, historyVars>>

\* The calls of c's tab that wait for c's refresh.
Waiting(c) == {d \in Mine(TabOf[c]) : At(d, "queued")}
\* The refresh, or the login, is answered with a new pair.
\* Mutant: only the call that led the refresh is sent again.
ResentAlone(c) == {c}
Resent(c) == Waiting(c) \cup {c}
\* Mutant: a refresh answer does not set the cookie.
CookieKept(c) == IF call[c].kind = "login" THEN call[c].new ELSE cookie
NewCookie(c) == call[c].new
Renew(c) ==
    /\ At(c, "renewed") /\ call[c].kind # "gone"
    /\ token' = call[c].new
    /\ cookie' = NewCookie(c)
    /\ IF call[c].kind = "login"
       THEN /\ Becomes(c, Sent("me", call[c].new, 0))
            /\ UNCHANGED refreshing
       ELSE /\ call' = [d \in Calls |-> IF d \in Resent(c)
                                        THEN Sent(call[d].kind, call[c].new, 1)
                                        ELSE call[d]]
            /\ refreshing' = [refreshing EXCEPT ![TabOf[c]] = FALSE]
    /\ UNCHANGED <<page, redisVars, pairVars, worldVars, historyVars>>

\* The refresh failed: every queued call is rejected, the token is removed
\* and the page goes to /login, which ends every other call of the tab.
Deny(c) ==
    /\ At(c, "denied") /\ call[c].kind # "gone"
    /\ token' = 0
    /\ page' = [page EXCEPT ![TabOf[c]] = "login"]
    /\ refreshing' = [refreshing EXCEPT ![TabOf[c]] = FALSE]
    /\ call' = [d \in Calls |-> IF d \in Mine(TabOf[c]) THEN Left(d) ELSE call[d]]
    /\ UNCHANGED <<cookie, redisVars, pairVars, worldVars, historyVars>>

\* An answer to a page that is gone.
Drain(c) ==
    /\ call[c].kind = "gone" /\ ~OnServer(c)
    /\ Becomes(c, Idle)
    /\ UNCHANGED <<browserVars, redisVars, pairVars, worldVars, historyVars>>

-----------------------------------------------------------------------------
(* The server.  When Redis is down every check of it passes and every write *)
(* of it is lost.                                                           *)

\* Mutant: only the absolute cap is checked.
NotAged(s) == s \notin aged
Alive(s) == s \notin aged /\ (redis => s \in live)
Accepts(n) == /\ n > expired /\ active
              /\ Alive(sidOf[n]) /\ (redis => n \notin revoked)

\* get_current_user
Answer(c) ==
    /\ At(c, "sent") /\ call[c].kind \in {"api", "me"}
    /\ Answered(c, IF Accepts(call[c].tok) THEN "ok" ELSE "bad")
    /\ UNCHANGED <<browserVars, redisVars, pairVars, worldVars, historyVars>>

\* login: the password is right and the account is active, or not.
Authenticate(c) ==
    /\ At(c, "sent") /\ call[c].kind = "login"
    /\ \/ /\ active /\ opened < MaxSessions
          /\ opened' = opened + 1
          /\ Becomes(c, Holds(c, "issue", 0, opened + 1, 0))
       \/ /\ Answered(c, "bad")
          /\ UNCHANGED opened
    /\ UNCHANGED <<browserVars, redisVars, minted, sidOf, from, worldVars, historyVars>>

\* Mutants: the key is only read; a request without a cookie is not refused.
Peeked(n) == rt
StoredOrMissing(n) == redis => n \in rt
\* consume_refresh_token (GETDEL), and the single-use check of refresh.
Without(n) == IF redis THEN rt \ {n} ELSE rt
Stored(n) == n # 0 /\ (redis => n \in rt)
Consume(c) ==
    /\ At(c, "refresh")
    /\ LET n == call[c].rt IN
       IF Stored(n)
       THEN /\ To(c, "consumed")
            /\ rt' = Without(n)
            /\ spentBy' = [spentBy EXCEPT ![n] = @ \cup {TabOf[c]}]
            /\ unguarded' = IF redis THEN unguarded ELSE unguarded \cup {n}
            /\ UNCHANGED refused
       ELSE /\ Answered(c, "denied")
            /\ refused' = IF n = 0 \/ call[c].kind = "gone" THEN refused
                          ELSE refused \cup {<<TabOf[c], n>>}
            /\ UNCHANGED <<rt, spentBy, unguarded>>
    /\ UNCHANGED <<browserVars, live, revoked, pairVars, worldVars, over, excused, forgone>>

\* refresh: the user's row, then session.validate.
Validate(c) ==
    /\ At(c, "consumed")
    /\ LET s == sidOf[call[c].rt] IN
       IF active /\ Alive(s)
       THEN /\ Becomes(c, Holds(c, "issue", call[c].rt, s, 0))
            /\ excused' = IF redis THEN excused ELSE excused \cup {s}
            /\ UNCHANGED forgone
       ELSE /\ Answered(c, "denied")
            /\ forgone' = forgone \cup Token(call[c].rt)
            /\ UNCHANGED excused
    /\ UNCHANGED <<browserVars, redisVars, pairVars, worldVars,
                   over, spentBy, unguarded, refused>>

\* session.issue: the tokens are signed and the session's window re-armed,
\* then the refresh token is stored.
Start(c) ==
    /\ At(c, "issue") /\ minted < MaxPairs
    /\ minted' = minted + 1
    /\ sidOf' = [sidOf EXCEPT ![minted + 1] = call[c].sid]
    /\ from' = [from EXCEPT ![minted + 1] = call[c].rt]
    /\ live' = IF redis THEN live \cup {call[c].sid} ELSE live
    /\ Becomes(c, Holds(c, "store", call[c].rt, 0, minted + 1))
    /\ UNCHANGED <<browserVars, rt, revoked, opened, worldVars, historyVars>>
Store(c) ==
    /\ At(c, "store")
    /\ rt' = IF redis THEN rt \cup {call[c].new} ELSE rt
    /\ forgone' = IF redis THEN forgone ELSE forgone \cup {call[c].new}
    /\ To(c, "renewed")
    /\ UNCHANGED <<browserVars, live, revoked, pairVars, worldVars,
                   over, excused, spentBy, unguarded, refused>>

\* logout: revoke the access token, consume the refresh token, end the
\* session either of them names.
Readable(n) == n > expired
Revoke(c) ==
    /\ At(c, "sent") /\ call[c].kind \in {"logout", "gone"}
    /\ LET n == call[c].tok IN
       /\ revoked' = IF Readable(n) /\ redis THEN revoked \cup {n} ELSE revoked
       /\ Becomes(c, Holds(c, "drop", call[c].rt,
                             IF Readable(n) THEN sidOf[n] ELSE 0, 0))
    /\ UNCHANGED <<browserVars, rt, live, pairVars, worldVars, historyVars>>
Drop(c) ==
    /\ At(c, "drop")
    /\ LET n == call[c].rt
           s == call[c].sid
       IN /\ rt' = Without(n)
          /\ forgone' = forgone \cup Token(n)
          /\ Becomes(c, Holds(c, "end", 0, IF s = 0 /\ n # 0 THEN sidOf[n] ELSE s, 0))
    /\ UNCHANGED <<browserVars, live, revoked, pairVars, worldVars,
                   over, excused, spentBy, unguarded, refused>>
\* A handler is past the check of session s and will re-arm it.
Validated(s) == \E c \in Calls : At(c, "issue") /\ call[c].sid = s
End(c) ==
    /\ At(c, "end")
    /\ LET s == call[c].sid IN
       IF s # 0 /\ redis
       THEN /\ live' = live \ {s}
            /\ over' = over \cup {s}
            /\ excused' = IF Validated(s) THEN excused \cup {s} ELSE excused
       ELSE UNCHANGED <<live, over, excused>>
    /\ Answered(c, "ok")
    /\ UNCHANGED <<browserVars, rt, revoked, pairVars, worldVars,
                   spentBy, unguarded, forgone, refused>>

-----------------------------------------------------------------------------
(* What happens around them. *)

\* Access tokens have one lifetime, so they expire in the order they are minted.
ExpireToken ==
    /\ expired < minted
    /\ expired' = expired + 1
    /\ UNCHANGED <<browserVars, call, redisVars, pairVars, historyVars,
                   aged, active, redis, faults>>

\* The key's TTL runs out; a check that found it has just re-armed it.
IdleOut(s) ==
    /\ s \in live /\ ~Validated(s) /\ Fault
    /\ live' = live \ {s}
    /\ over' = over \cup {s}
    /\ UNCHANGED <<browserVars, call, rt, revoked, pairVars, expired, aged, active,
                   redis, excused, spentBy, unguarded, forgone, refused>>

AgeOut(s) ==
    /\ s <= opened /\ s \notin aged /\ Fault
    /\ aged' = aged \cup {s}
    /\ UNCHANGED <<browserVars, call, redisVars, pairVars, historyVars,
                   expired, active, redis>>

Deactivate ==
    /\ active /\ Fault
    /\ active' = FALSE
    /\ UNCHANGED <<browserVars, call, redisVars, pairVars, historyVars,
                   expired, aged, redis>>

RedisDown ==
    /\ redis /\ Fault
    /\ redis' = FALSE
    /\ UNCHANGED <<browserVars, call, redisVars, pairVars, historyVars,
                   expired, aged, active>>
RedisUp ==
    /\ ~redis
    /\ redis' = TRUE
    /\ UNCHANGED <<browserVars, call, redisVars, pairVars, historyVars,
                   expired, aged, active, faults>>

\* A handler stops with its process or answers 5xx, or its answer is lost.
Break(c) ==
    /\ call[c].st \notin {"idle", "queued", "lost", "denied"} /\ Fault
    /\ Answered(c, IF Leads(c) THEN "denied" ELSE "lost")
    /\ forgone' = forgone \cup Unheard({c})
    /\ UNCHANGED <<browserVars, redisVars, pairVars, expired, aged, active, redis,
                   over, excused, spentBy, unguarded, refused>>

-----------------------------------------------------------------------------
Handle(c) == \/ Answer(c) \/ Authenticate(c) \/ Consume(c) \/ Validate(c)
             \/ Start(c) \/ Store(c) \/ Revoke(c) \/ Drop(c) \/ End(c)
Settle(c) == \/ Succeed(c) \/ Queue(c) \/ Lead(c) \/ Fail(c) \/ Renew(c) \/ Deny(c)
             \/ Drain(c)
Ambient == \/ ExpireToken
           \/ \E s \in Sids : IdleOut(s) \/ AgeOut(s)
           \/ Deactivate \/ RedisDown \/ RedisUp

Next == \/ \E t \in Tabs : Open(t)
        \/ \E c \in Calls : \/ Ask(c) \/ Login(c) \/ Logout(c)
                            \/ Handle(c) \/ Settle(c) \/ Break(c)
        \/ Ambient

\* Handlers run to their end, answers arrive and callbacks are run.
Fairness == \A c \in Calls : WF_vars(Handle(c) \/ Settle(c))
Spec == Init /\ [][Next]_vars
FairSpec == Spec /\ Fairness

-----------------------------------------------------------------------------
TypeOK ==
    /\ token \in {0} \cup Pairs /\ cookie \in {0} \cup Pairs
    /\ page \in [Tabs -> {"loading", "app", "login"}]
    /\ refreshing \in [Tabs -> BOOLEAN]
    /\ call \in [Calls -> Call]
    /\ minted \in 0 .. MaxPairs /\ opened \in 0 .. MaxSessions
    /\ sidOf \in [Pairs -> {0} \cup Sids]
    /\ from \in [Pairs -> {0} \cup Pairs]
    /\ rt \subseteq Pairs /\ live \subseteq Sids /\ revoked \subseteq Pairs
    /\ expired \in 0 .. MaxPairs /\ aged \subseteq Sids
    /\ active \in BOOLEAN /\ redis \in BOOLEAN
    /\ faults \in 0 .. MaxFaults
    /\ over \subseteq Sids /\ excused \subseteq Sids
    /\ spentBy \in [Pairs -> SUBSET Tabs]
    /\ unguarded \subseteq Pairs /\ forgone \subseteq Pairs
    /\ refused \subseteq Tabs \X Pairs

\* A tab has one refresh at a time, and a call is parked in the refresh
\* queue only while that refresh is under way: nothing else takes it out
\* (api.ts, _refreshing and _refreshQueue).
QueuedHaveLeader ==
    \A t \in Tabs :
        /\ \A c, d \in Mine(t) : Leads(c) /\ Leads(d) => c = d
        /\ \A c \in Mine(t) : Leads(c) => refreshing[t]
        /\ refreshing[t] => \E c \in Mine(t) : Leads(c)
        /\ \A c \in Mine(t) : At(c, "queued") => refreshing[t]

\* A session that was logged out or idled out stays over (auth.py: a refresh
\* "must not be able to resurrect a session"), unless a refresh had already
\* passed session.validate by then, or passed it while Redis was down.
OverStaysOver == \A s \in over : s \in live => s \in excused

\* A refresh token mints one pair at most, whichever tabs race for it and
\* whatever crashes, unless it was let through while Redis was down.
OneHeir ==
    \A m, n \in Pairs :
        from[m] # 0 /\ from[m] = from[n] => m = n \/ from[m] \in unguarded

\* A tab is sent to /login for a used refresh token only when another tab
\* used it, or an answer with its successor never came: the refreshes of one
\* tab never spend the cookie under each other.
RefusedForACause ==
    \A r \in refused : \/ r[2] \in forgone
                       \/ \E t \in spentBy[r[2]] : t # r[1]

\* No call hangs: whatever happens to the refresh it waits for, its promise
\* is resolved or rejected.
EveryCallSettles == \A c \in Calls : ~At(c, "idle") ~> At(c, "idle")
===============================================================================
