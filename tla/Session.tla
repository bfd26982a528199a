------------------------------- MODULE Session -------------------------------
(***************************************************************************)
(* The session of one browser. The server sets a refresh token as a cookie *)
(* at login, renews access tokens with it and, at logout, deletes the      *)
(* cookie and puts the token on a blocklist in Redis (api/routes/auth.py). *)
(* The page keeps the access token in memory, answers a 401 with one       *)
(* refresh and one repetition of the call (lib/api.ts), and knows the user *)
(* from /auth/me or from the login form (contexts/AuthContext.tsx).        *)
(* Time is counted in ticks; an access token is known by when it expires.  *)
(***************************************************************************)
EXTENDS Integers, FiniteSets

CONSTANTS
    Calls,        \* API calls of the page that overlap
    Me,           \* one of them: /auth/me, which the page sends when it is loaded
    AccessLife,   \* JWT_ACCESS_TOKEN_EXPIRE_MINUTES, in ticks
    RefreshLife,  \* 7 days
    MaxTime,      \* bound: ticks
    MaxLoads,     \* bound: times the page is loaded again
    MaxFaults     \* bound: Redis calls that fail

ASSUME CallsAssumption == Me \in Calls
ASSUME LivesAssumption == AccessLife \in Nat \ {0} /\ RefreshLife \in Nat \ {0}
ASSUME BoundsAssumption == MaxTime \in Nat \ {0} /\ MaxLoads \in Nat /\ MaxFaults \in Nat

VARIABLES
    now,
    cookie,     \* the refresh token in the browser, 0 without one
    expiry,     \* the expiry of each refresh token, 0 if it was not issued
    blocklist,  \* the expiry of each token's entry, 0 without one
    access,     \* the expiry of the access token in memory, 0 without one
    user,       \* the page shows a user
    call,       \* the calls: step, the token they carry, _retry, the refresh token read
    revoked,    \* history: tokens whose logout the server confirmed
    loads, faults

server == <<expiry, blocklist, revoked>>
page == <<access, user>>
bounds == <<loads, faults>>
sessionVars == <<now, cookie, server, page, call, bounds>>

Idle == [step |-> "idle", token |-> 0, retry |-> FALSE, read |-> 0]
Live(exp) == exp > now
RefreshTokens == 1 .. MaxTime  \* known by the second of their login

SessionInit ==
    /\ now = 1 /\ cookie = 0
    /\ expiry = [t \in RefreshTokens |-> 0] /\ blocklist = [t \in RefreshTokens |-> 0]
    /\ access = 0 /\ user = FALSE
    /\ call = [c \in Calls |-> Idle]
    /\ revoked = {} /\ loads = 0 /\ faults = 0

Fault == faults < MaxFaults /\ faults' = faults + 1
Put(c, r) == call' = [call EXCEPT ![c] = r]

-----------------------------------------------------------------------------
(* Login and logout                                                        *)

AccessExpiry == now + AccessLife

\* The form posts the password, asks /auth/me and calls login(). Two logins within one
\* second get the same token, one that was revoked in between included.
Enter == access' = AccessExpiry /\ user' = TRUE

PageLogIn ==
    /\ ~user
    /\ expiry' = [expiry EXCEPT ![now] = now + RefreshLife]
    /\ cookie' = now
    /\ Enter
    /\ UNCHANGED <<now, blocklist, revoked, call, bounds>>

BlockShort == now + RefreshLife - 1  \* mutant: an entry that goes before the token
BlockUntil == now + RefreshLife

\* logout() clears the page whatever the server answers. The server does without a
\* cookie; a Redis error keeps it from deleting one, whether or
\* not Redis has stored the entry.
PageLogOut ==
    /\ user
    /\ access' = 0 /\ user' = FALSE
    /\ \/ /\ cookie # 0
          /\ blocklist' = [blocklist EXCEPT ![cookie] = BlockUntil]
          /\ revoked' = revoked \cup {cookie}
          /\ cookie' = 0
          /\ UNCHANGED faults
       \/ cookie = 0 /\ UNCHANGED <<blocklist, revoked, cookie, faults>>
       \/ /\ cookie # 0 /\ Fault
          /\ blocklist' \in {blocklist, [blocklist EXCEPT ![cookie] = BlockUntil]}
          /\ UNCHANGED <<revoked, cookie>>
    /\ UNCHANGED <<now, expiry, call, loads>>

\* A new page: its memory is empty, and it asks who the user is.
Load ==
    /\ loads < MaxLoads /\ loads' = loads + 1
    /\ access' = 0 /\ user' = FALSE
    /\ call' = [c \in Calls |-> IF c = Me THEN [Idle EXCEPT !.step = "sent"] ELSE Idle]
    /\ UNCHANGED <<now, cookie, server, faults>>

-----------------------------------------------------------------------------
(* A call through the interceptors of api.ts                               *)

Send(c) ==
    /\ c # Me /\ user /\ call[c] = Idle
    /\ Put(c, [Idle EXCEPT !.step = "sent", !.token = access])
    /\ UNCHANGED <<now, cookie, server, page, bounds>>

\* get_current_user: an answer, or a 401.
Answer(c) ==
    /\ call[c].step = "sent"
    /\ \/ /\ Live(call[c].token)
          /\ user' = (user \/ c = Me)
          /\ Put(c, Idle)
       \/ /\ ~Live(call[c].token) /\ ~call[c].retry
          /\ Put(c, [call[c] EXCEPT !.step = "refresh", !.retry = TRUE])
          /\ UNCHANGED user
       \/ /\ ~Live(call[c].token) /\ call[c].retry
          /\ user' = (user /\ c # Me)
          /\ Put(c, Idle)
    /\ UNCHANGED <<now, cookie, server, access, bounds>>

\* The refresh fails: auth-expired. The refresh is not sent through api, so its own
\* 401 is not answered with a refresh.
RefreshesAgain(c) == [call[c] EXCEPT !.step = "refresh"]  \* mutant: api.post for axios.post
GivesUp(c) == Idle

Expired(c) ==
    /\ access' = 0 /\ user' = FALSE
    /\ Put(c, GivesUp(c))

\* POST /auth/refresh decodes the cookie ...
RefreshDecodes(c) ==
    /\ call[c].step = "refresh"
    /\ IF cookie # 0 /\ Live(expiry[cookie])
       THEN Put(c, [call[c] EXCEPT !.step = "decoded", !.read = cookie]) /\ UNCHANGED page
       ELSE Expired(c)
    /\ UNCHANGED <<now, cookie, server, bounds>>

\* ... and asks the blocklist. The delete_cookie before an HTTPException is lost: the
\* exception has a response of its own.
Blocked(t) == Live(blocklist[t])

RefreshChecks(c) ==
    /\ call[c].step = "decoded"
    /\ \/ /\ ~Blocked(call[c].read)
          /\ Put(c, [call[c] EXCEPT !.step = "renewed", !.token = AccessExpiry])
          /\ UNCHANGED <<page, faults>>
       \/ Blocked(call[c].read) /\ Expired(c) /\ UNCHANGED faults
       \/ Fault /\ Expired(c)
    /\ UNCHANGED <<now, cookie, server, loads>>

\* The new access token arrives; the call is sent again.
Repeat(c) ==
    /\ call[c].step = "renewed"
    /\ access' = call[c].token
    /\ Put(c, [call[c] EXCEPT !.step = "sent"])
    /\ UNCHANGED <<now, cookie, server, user, bounds>>

Tick ==
    /\ now < MaxTime
    /\ now' = now + 1
    /\ UNCHANGED <<cookie, server, page, call, bounds>>

-----------------------------------------------------------------------------

Progress(c) == Answer(c) \/ RefreshDecodes(c) \/ RefreshChecks(c) \/ Repeat(c)

SessionNext == PageLogIn \/ PageLogOut \/ Load \/ Tick \/ \E c \in Calls : Send(c) \/ Progress(c)

SessionSpec == SessionInit /\ [][SessionNext]_sessionVars

\* HTTP calls end. Nobody need log in, log out or wait.
FairSessionSpec == SessionSpec /\ \A c \in Calls : WF_sessionVars(Progress(c))

-----------------------------------------------------------------------------
(* Properties                                                              *)

\* Every variable stays in its type.
SessionTypeOK ==
    LET Cookies == RefreshTokens \cup {0}
        AccessTokens == 0 .. MaxTime + AccessLife
        Expiries == [RefreshTokens -> 0 .. MaxTime + RefreshLife]
    IN  /\ now \in 1 .. MaxTime
        /\ cookie \in Cookies /\ expiry \in Expiries /\ blocklist \in Expiries
        /\ access \in AccessTokens /\ user \in BOOLEAN
        /\ call \in [Calls -> [step : {"idle", "sent", "refresh", "decoded", "renewed"},
                               token : AccessTokens, retry : BOOLEAN, read : Cookies]]
        /\ revoked \subseteq RefreshTokens
        /\ loads \in 0 .. MaxLoads /\ faults \in 0 .. MaxFaults

\* auth.py: a token is blocked "until it naturally expires": as long as /auth/refresh would
\* decode a token that was logged out, its entry is there, however late the logout was.
\* (deps.py asks no blocklist: it is only renewals that a logout ends.)
RevokedStaysBlocked == \A t \in revoked : Live(expiry[t]) => Blocked(t)

\* A call is repeated at most once and a failed refresh is not repeated, so every call
\* ends, whatever expires, is revoked or fails meanwhile.
CallsEnd == \A c \in Calls : (call[c].step # "idle") ~> (call[c].step = "idle")

===============================================================================
