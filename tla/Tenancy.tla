------------------------------- MODULE Tenancy -------------------------------
(***************************************************************************)
(* What registered people do with their accounts, and that tenants stay    *)
(* apart. A browser keeps the refresh token of the last login as a cookie,  *)
(* which its tabs share (api/routes/auth.py); each tab keeps an access     *)
(* token in memory, replaced by whatever refresh is answered (lib/api.ts), *)
(* and a user it shows (contexts/AuthContext.tsx). A request resolves its  *)
(* user from the access token (api/deps.py), and the handlers look up agent*)
(* configurations (agent_config.py), runs, stream tickets (evaluation.py)  *)
(* and figures (operations.py) under that user's tenant.                   *)
(*                                                                         *)
(* Registration goes on meanwhile, and lets two accounts of one email      *)
(* through when their requests overlap. What handlers write in a run they  *)
(* have found is RunLifecycle's and GoldenBaseline's, expiry and revocation*)
(* of tokens are Session's: any call may find its token expired. A request *)
(* that is answered is one step, since nothing it looks up by changes.     *)
(***************************************************************************)
EXTENDS Registration

CONSTANTS
    PasswordOf,  \* the password a registration request chose
    Browsers,
    Tabs, BrowserOf,
    Agents,      \* identities of agent configurations
    Runs,        \* identities of evaluation runs
    Nobody, NoRow

People == [email : Emails, tenant : Slugs, by : Requests]

ASSUME TabsAssumption == BrowserOf \in [Tabs -> Browsers]
ASSUME NobodyAssumption == Nobody \notin Runs /\ Nobody \notin People

VARIABLES
    cookies,  \* cookies[b]: the user its refresh token names, or Nobody
    tab,      \* tab[t]: the page of the tab
    agent,    \* agent[a]: the tenant of the row, or NoRow
    run,      \* run[x]: the tenant and the agent of the row, or NoRow
    deleted   \* identities of deleted runs

rows == <<agent, run, deleted>>
allVars == <<vars, cookies, tab, rows>>

RunRows == [tenant : Slugs, agent : Agents]

ASSUME NoRowAssumption == NoRow \notin Slugs /\ NoRow \notin RunRows

\* user is the one it shows. access, form and refreshing are users that tokens name: the
\* one in memory, the one the login form was answered with, and those of the cookies
\* that refreshes in flight were sent with. asking: checkAuth waits for /auth/me. seen
\* and mixed are history: the tenants of the rows the page was answered with, and that
\* somebody logged in while it had something of somebody else's.
Blank ==
    [user |-> Nobody, access |-> Nobody, form |-> Nobody, refreshing |-> {}, asking |-> FALSE,
     ticket |-> Nobody, seen |-> {}, mixed |-> FALSE]

TenancyInit ==
    /\ Init
    /\ cookies = [b \in Browsers |-> Nobody]
    /\ tab = [t \in Tabs |-> Blank]
    /\ agent = [a \in Agents |-> NoRow]
    /\ run = [x \in Runs |-> NoRow] /\ deleted = {}

-----------------------------------------------------------------------------
(* The page                                                                *)

CookieOf(t) == cookies[BrowserOf[t]]
Becomes(t, page) == tab' = [tab EXCEPT ![t] = page]

\* A new page: its memory is empty, and it asks who its user is.
LoadPage(t) ==
    /\ Becomes(t, [Blank EXCEPT !.asking = TRUE])
    /\ UNCHANGED <<vars, cookies, rows>>

\* The answer of /auth/me, or its error, for which no user is shown.
WhoAmI(t) ==
    /\ tab[t].asking
    /\ \E u \in {tab[t].access, Nobody} : Becomes(t, [tab[t] EXCEPT !.user = u, !.asking = FALSE])
    /\ UNCHANGED <<vars, cookies, rows>>

\* The users a page has something of.
Holds(page) == ({page.user, page.access, page.form} \cup page.refreshing) \ {Nobody}

\* POST /auth/login: first() of the rows with that email, in whatever order they come.
\* A wrong password, or no row, changes nothing. The cookie is every tab's.
LogIn(t, r) ==
    /\ tab[t].form = Nobody
    /\ \E u \in users :
          /\ u.email = EmailOf[r]
          /\ PasswordOf[u.by] = PasswordOf[r]
          /\ cookies' = [cookies EXCEPT ![BrowserOf[t]] = u]
          /\ tab' = [o \in Tabs |->
                       [tab[o] EXCEPT
                          !.form = IF o = t THEN u ELSE @,
                          !.mixed = @ \/ (BrowserOf[o] = BrowserOf[t] /\ ~(Holds(tab[o]) \subseteq {u}))]]
    /\ UNCHANGED <<vars, rows>>

\* The form asks /auth/me with the token it was answered with, which the interceptor of
\* requests replaces by the one in memory, and calls login(). Or the call fails.
FormEnters(t) ==
    /\ tab[t].form # Nobody
    /\ \/ Becomes(t, [tab[t] EXCEPT !.user = IF tab[t].access # Nobody THEN tab[t].access ELSE tab[t].form,
                                    !.access = tab[t].form, !.form = Nobody])
       \/ Becomes(t, [tab[t] EXCEPT !.form = Nobody])
    /\ UNCHANGED <<vars, cookies, rows>>

\* setAccessToken(null), setUser(null) and queryClient.clear(); the viewer is unmounted.
KeepsData(page) == [page EXCEPT !.user = Nobody, !.access = Nobody, !.ticket = Nobody]  \* mutant: no queryClient.clear
Cleared(page) == [page EXCEPT !.user = Nobody, !.access = Nobody, !.ticket = Nobody, !.seen = {}]

\* The server deletes the cookie unless Redis fails. Refreshes in flight stay in flight.
LogOut(t) ==
    /\ tab[t].user # Nobody
    /\ cookies' \in {cookies, [cookies EXCEPT ![BrowserOf[t]] = Nobody]}
    /\ Becomes(t, Cleared(tab[t]))
    /\ UNCHANGED <<vars, rows>>

\* A call, perhaps one sent before a logout, is answered 401.
RefreshStarts(t) ==
    /\ CookieOf(t) # Nobody
    /\ Becomes(t, [tab[t] EXCEPT !.refreshing = @ \cup {CookieOf(t)}])
    /\ UNCHANGED <<vars, cookies, rows>>

\* The access token it brings is kept, whoever the page belongs to by now. Other
\* refreshes of that user may be in flight.
RefreshAnswered(t) ==
    /\ \E u \in tab[t].refreshing : \E left \in {tab[t].refreshing, tab[t].refreshing \ {u}} :
          Becomes(t, [tab[t] EXCEPT !.access = u, !.refreshing = left])
    /\ UNCHANGED <<vars, cookies, rows>>

\* A refresh fails, for want of a cookie or for Redis, or its token is expired or
\* revoked: auth-expired. It may have been that of /auth/me.
RefreshFails(t) ==
    /\ \E left \in {tab[t].refreshing} \cup {tab[t].refreshing \ {u} : u \in tab[t].refreshing} :
       \E asks \in {tab[t].asking, FALSE} :
          Becomes(t, [Cleared(tab[t]) EXCEPT !.refreshing = left, !.asking = asks])
    /\ UNCHANGED <<vars, cookies, rows>>

-----------------------------------------------------------------------------
(* Its requests                                                            *)

\* A page that shows a user, and get_current_user. get_current_admin asks for no more:
\* every account is its tenant's admin, and no code creates another or deactivates one.
LoggedIn(t) == tab[t].user # Nobody /\ tab[t].access # Nobody
TenantOf(t) == tab[t].access.tenant

\* The request is answered with rows of these tenants.
Answered(t, owners) == Becomes(t, [tab[t] EXCEPT !.seen = @ \cup owners])

CreateAgent(t, a) ==
    /\ LoggedIn(t) /\ agent[a] = NoRow
    /\ agent' = [agent EXCEPT ![a] = TenantOf(t)]
    /\ Answered(t, {TenantOf(t)})
    /\ UNCHANGED <<vars, cookies, run, deleted>>

\* WHERE tenant_id = the user's. Nothing ever writes deleted_at.
AgentFound(t, a) == agent[a] # NoRow /\ agent[a] = TenantOf(t)

\* The list, or one of them.
ReadAgents(t) ==
    /\ LoggedIn(t)
    /\ \E A \in SUBSET {a \in Agents : AgentFound(t, a)} : Answered(t, {agent[a] : a \in A})
    /\ UNCHANGED <<vars, cookies, rows>>

NewRun(t, a) == [tenant |-> TenantOf(t), agent |-> a]

CreateRun(t, x, a) ==
    /\ LoggedIn(t) /\ run[x] = NoRow /\ x \notin deleted
    /\ AgentFound(t, a)
    /\ run' = [run EXCEPT ![x] = NewRun(t, a)]
    /\ Answered(t, {TenantOf(t)})
    /\ UNCHANGED <<vars, cookies, agent, deleted>>

\* WHERE id AND tenant_id, the first statement of every other handler: 404 without it.
RunFound(t, x) == run[x] # NoRow /\ run[x].tenant = TenantOf(t)

\* WHERE tenant_id alone: the list, and the figures of the operations dashboard, which are
\* made of some of these runs.
OwnRuns(t) == {x \in Runs : RunFound(t, x)}

\* One of them may also be read, cancelled or pinned.
ReadRuns(t) ==
    /\ LoggedIn(t)
    /\ \E X \in SUBSET OwnRuns(t) : Answered(t, {run[x].tenant : x \in X})
    /\ UNCHANGED <<vars, cookies, rows>>

DeleteRun(t, x) ==
    /\ LoggedIn(t) /\ RunFound(t, x)
    /\ run' = [run EXCEPT ![x] = NoRow]
    /\ deleted' = deleted \cup {x}
    /\ UNCHANGED <<vars, cookies, tab, agent>>

GetTicket(t, x) ==
    /\ LoggedIn(t) /\ RunFound(t, x)
    /\ Becomes(t, [tab[t] EXCEPT !.ticket = x])
    /\ UNCHANGED <<vars, cookies, rows>>

\* The stream asks for no user: the ticket names the run, and is consumed. The run may
\* have been deleted since, and its channel is silent then.
OpenStream(t) ==
    /\ tab[t].ticket # Nobody
    /\ Becomes(t, [tab[t] EXCEPT !.seen = @ \cup {run[x].tenant : x \in {tab[t].ticket} \ deleted},
                                 !.ticket = Nobody])
    /\ UNCHANGED <<vars, cookies, rows>>

-----------------------------------------------------------------------------

Page(t) ==
    \/ LoadPage(t) \/ WhoAmI(t) \/ FormEnters(t) \/ LogOut(t) \/ \E r \in Requests : LogIn(t, r)
    \/ RefreshStarts(t) \/ RefreshAnswered(t) \/ RefreshFails(t)

Request(t) ==
    \/ ReadAgents(t) \/ ReadRuns(t) \/ OpenStream(t)
    \/ \E a \in Agents : CreateAgent(t, a) \/ \E x \in Runs : CreateRun(t, x, a)
    \/ \E x \in Runs : DeleteRun(t, x) \/ GetTicket(t, x)

TenancyNext ==
    \/ Next /\ UNCHANGED <<cookies, tab, rows>>
    \/ \E t \in Tabs : Page(t) \/ Request(t)

TenancySpec == TenancyInit /\ [][TenancyNext]_allVars

\* The server goes on with a registration; nobody need log in.
TenancyFairSpec ==
    TenancySpec /\ \A r \in Requests : WF_allVars(Register(r) /\ UNCHANGED <<cookies, tab, rows>>)

-----------------------------------------------------------------------------
(* Properties                                                              *)

Pages ==
    [user : users \cup {Nobody}, access : users \cup {Nobody}, form : users \cup {Nobody},
     refreshing : SUBSET users, asking : BOOLEAN, ticket : Runs \cup {Nobody},
     seen : SUBSET Slugs, mixed : BOOLEAN]

\* Every variable stays in its type.
TenancyTypeOK ==
    /\ cookies \in [Browsers -> users \cup {Nobody}]
    /\ tab \in [Tabs -> Pages]
    /\ agent \in [Agents -> Slugs \cup {NoRow}]
    /\ run \in [Runs -> RunRows \cup {NoRow}] /\ deleted \subseteq Runs

\* A page shows rows of the tenant of the user it shows, over logins, logouts, reloads,
\* refreshes answered late and tickets of several people and tabs that share a cookie,
\* also for two accounts of one email, unless somebody logged in in this browser while
\* the page held a token or waited for a refresh of somebody else's: then it may show one
\* user and be answered as the other, until it is loaded again (api.ts). Whatever token a
\* request carries, a run evaluates an agent of its own tenant, whose prompts its worker
\* reads without asking for a tenant again (tasks.py).
TenantsApart ==
    /\ \A t \in Tabs : tab[t].user # Nobody /\ ~tab[t].mixed => tab[t].seen \subseteq {tab[t].user.tenant}
    /\ \A x \in Runs : run[x] # NoRow => run[x].tenant = agent[run[x].agent]

===============================================================================
