---------------------------- MODULE AccountsProofs ----------------------------
(***************************************************************************)
(* Accounts and their sessions. Every tenant has its user and no free slug *)
(* is passed over, for any number of concurrent registrations, of whatever *)
(* companies and emails; tenants stay apart, for any number of people,     *)
(* browsers, tabs, agents and runs; a refresh token that was logged out    *)
(* stays blocked, for any lifetimes, overlapping calls, logins, logouts and*)
(* Redis faults.                                                           *)
(***************************************************************************)
EXTENDS Tenancy, Session, FiniteSetTheorems, TLAPS

-----------------------------------------------------------------------------
(* Registration                                                            *)

RegistrationTyped ==
  /\ pc \in [Requests -> Steps]
  /\ counter \in [Requests -> Nat]

\* Who has inserted a tenant has a slug nobody else has, committed or not.
SlugHeld ==
  \A r \in Requests : pc[r] = "hashing" =>
    /\ Slug(r) \notin tenants
    /\ \A q \in Requests : pc[q] = "hashing" /\ Slug(q) = Slug(r) => q = r

\* Users belong to committed tenants, each to one of its own.
OneUserEach ==
  /\ \A u \in users : u.tenant \in tenants
  /\ \A t \in tenants : \E u \in users : {v \in users : v.tenant = t} = {u}

\* A request has found the slugs before its own taken.
TriedInOrder ==
  \A r \in Requests : \A n \in Nat : n < counter[r] => Numbered(CompanyOf[r], n) \in tenants

\* A user's tenant has the slug its request came to.
OwnSlug == \A u \in users : u.by \in Requests /\ pc[u.by] = "registered" /\ u.tenant = Slug(u.by)

RInv == RegistrationTyped /\ SlugHeld /\ OneUserEach /\ TriedInOrder /\ OwnSlug

\* The slugs of one base differ, although those of different bases need not.
LEMMA NumberedApart ==
  ASSUME NEW base \in Slugs, NEW n \in Nat, NEW m \in Nat, Numbered(base, n) = Numbered(base, m)
  PROVE  n = m
  <1> USE DEF Slugs, Numbered
  <1> DEFINE S == Words \cup Nat
  <1>1. base \in Seq(S) /\ n \in S /\ m \in S
    OBVIOUS
  <1>2. \A k \in S : Len(Append(base, k)) = Len(base) + 1 /\ Append(base, k)[Len(base) + 1] = k
    <2> HIDE DEF S
    <2> QED BY <1>1
  <1>3. Append(base, n) # base /\ Append(base, m) # base
    <2> HIDE DEF S
    <2>1. Len(base) \in Nat
      BY <1>1
    <2> QED BY <1>1, <1>2, <2>1
  <1>4. Append(base, n) = Append(base, m) => n = m
    <2> HIDE DEF S
    <2> QED BY <1>1, <1>2, Zenon
  <1> QED
    BY <1>3, <1>4

LEMMA SlugTyped ==
  ASSUME NEW r \in Requests, counter[r] \in Nat PROVE Slug(r) \in Slugs
  BY RequestsAssumption DEF Slug, Numbered, Slugs

LEMMA InitRInv == Init => RInv
  BY DEF Init, RInv, RegistrationTyped, Steps, SlugHeld, OneUserEach, TriedInOrder, OwnSlug

\* Steps that commit nothing.
LEMMA QuietStep ==
  ASSUME RInv, NEW r \in Requests, UNCHANGED <<tenants, users>>,
         CheckEmail(r) \/ InsertTenant(r) \/ Abort(r)
  PROVE  RInv'
  <1> USE DEF RInv, RegistrationTyped, GoTo, Steps
  <1>1. RegistrationTyped'
    BY DEF CheckEmail, InsertTenant, Abort
  <1>2. counter' = counter
    BY DEF CheckEmail, InsertTenant, Abort
  <1>3. \A q \in Requests : Slug(q)' = Slug(q)
    BY <1>2 DEF Slug
  <1>4. SlugHeld'
    BY <1>3 DEF CheckEmail, InsertTenant, Abort, SlugHeld, SlugHolders
  <1>5. OneUserEach'
    BY DEF OneUserEach
  <1>6. TriedInOrder'
    BY <1>2 DEF TriedInOrder
  <1>7. OwnSlug'
    BY <1>3 DEF CheckEmail, InsertTenant, Abort, OwnSlug
  <1> QED
    BY <1>1, <1>4, <1>5, <1>6, <1>7

LEMMA TryStep == ASSUME RInv, NEW r \in Requests, TrySlug(r) PROVE RInv'
  <1> USE DEF RInv, RegistrationTyped, GoTo, Steps, TrySlug
  <1>1. RegistrationTyped'
    OBVIOUS
  <1>2. \A q \in Requests \ {r} : Slug(q)' = Slug(q)
    BY DEF Slug
  <1>3. SlugHeld'
    BY <1>2 DEF SlugHeld
  <1>4. OneUserEach'
    BY DEF OneUserEach
  <1>5. TriedInOrder'
    <2> SUFFICES ASSUME NEW q \in Requests, NEW n \in Nat, n < counter'[q]
                 PROVE  Numbered(CompanyOf[q], n) \in tenants
      BY DEF TriedInOrder
    <2>1. CASE n < counter[q]
      BY <2>1 DEF TriedInOrder
    <2>2. CASE ~ (n < counter[q])
      <3>1. q = r /\ n = counter[r] /\ Slug(r) \in tenants
        BY <2>2
      <3> QED
        BY <3>1 DEF Slug
    <2> QED
      BY <2>1, <2>2
  <1>6. OwnSlug'
    BY <1>2 DEF OwnSlug
  <1> QED
    BY <1>1, <1>3, <1>4, <1>5, <1>6

LEMMA CommitStep == ASSUME RInv, NEW r \in Requests, InsertUser(r) PROVE RInv'
  <1> USE DEF RInv, RegistrationTyped, GoTo, Steps, InsertUser
  <1>1. RegistrationTyped'
    OBVIOUS
  <1>2. Slug(r) \notin tenants /\ tenants' = tenants \cup {Slug(r)}
    BY DEF SlugHeld
  <1>3. \A q \in Requests : Slug(q)' = Slug(q)
    BY DEF Slug
  <1>4. SlugHeld'
    BY <1>2, <1>3 DEF SlugHeld
  <1>5. NewUser(r).tenant = Slug(r) /\ NewUser(r).by = r /\ users' = users \cup {NewUser(r)}
    BY DEF NewUser
  <1>6. OneUserEach'
    <2>1. \A u \in users' : u.tenant \in tenants'
      BY <1>2, <1>5 DEF OneUserEach
    <2>2. ASSUME NEW t \in tenants PROVE \E u \in users' : {v \in users' : v.tenant = t} = {u}
      <3>1. PICK u \in users : {v \in users : v.tenant = t} = {u}
        BY DEF OneUserEach
      <3>2. {v \in users' : v.tenant = t} = {u}
        BY <1>2, <1>5, <3>1
      <3> QED
        BY <1>5, <3>2
    <2>3. {v \in users' : v.tenant = Slug(r)} = {NewUser(r)}
      BY <1>2, <1>5 DEF OneUserEach
    <2> QED
      BY <1>2, <1>5, <2>1, <2>2, <2>3 DEF OneUserEach
  <1>7. TriedInOrder'
    BY <1>2 DEF TriedInOrder
  <1>8. OwnSlug'
    BY <1>3, <1>5 DEF OwnSlug
  <1> QED
    BY <1>1, <1>4, <1>6, <1>7, <1>8

LEMMA RStep == RInv /\ [Next]_vars => RInv'
  <1> SUFFICES ASSUME RInv, [Next]_vars PROVE RInv'
    OBVIOUS
  <1>1. ASSUME NEW r \in Requests, CheckEmail(r) \/ InsertTenant(r) \/ Abort(r) PROVE RInv'
    <2>1. UNCHANGED <<tenants, users>>
      BY <1>1 DEF CheckEmail, InsertTenant, Abort, VisibleAfterFlush
    <2> QED
      BY <1>1, <2>1, QuietStep
  <1>2. CASE UNCHANGED vars
    BY <1>2 DEF vars, RInv, RegistrationTyped, SlugHeld, Slug, OneUserEach, TriedInOrder, OwnSlug
  <1> QED
    BY <1>1, <1>2, TryStep, CommitStep DEF Next, Register

LEMMA Invariance == Spec => []RInv
  BY InitRInv, RStep, PTL DEF Spec

\* Whatever fails in between, a tenant is committed with its user (register's flush
\* and commit).
THEOREM TenantsComplete == Spec => []TenantsHaveOneUser
  <1>1. RInv => TenantsHaveOneUser
    BY FS_Singleton DEF RInv, OneUserEach, TenantsHaveOneUser
  <1> QED
    BY Invariance, <1>1, PTL

\* The loop over slugs of register passes over none that is free, whatever companies
\* are called and however their registrations interleave and fail.
THEOREM SlugsTakenInOrder == Spec => []NoSlugSkipped
  <1>1. RInv => NoSlugSkipped
    <2> SUFFICES ASSUME RInv, NEW u \in users, NEW n \in 0 .. Cardinality(Requests),
                        u.tenant = Numbered(CompanyOf[u.by], n), NEW m \in 0 .. n
                 PROVE  Numbered(CompanyOf[u.by], m) \in tenants
      BY DEF NoSlugSkipped
    <2>1. u.by \in Requests /\ u.tenant = Numbered(CompanyOf[u.by], counter[u.by]) /\ u.tenant \in tenants
      BY DEF RInv, OwnSlug, OneUserEach, Slug
    <2>2. CompanyOf[u.by] \in Slugs /\ counter[u.by] \in Nat
      BY <2>1, RequestsAssumption DEF RInv, RegistrationTyped
    <2>3. n \in Nat /\ m \in Nat /\ m =< n
      BY RequestsAssumption, FS_CardinalityType
    <2>4. n = counter[u.by]
      BY <2>1, <2>2, <2>3, NumberedApart
    <2>5. CASE m = n
      BY <2>1, <2>4, <2>5
    <2>6. CASE m # n
      BY <2>1, <2>3, <2>4, <2>6 DEF RInv, TriedInOrder
    <2> QED
      BY <2>5, <2>6
  <1> QED
    BY Invariance, <1>1, PTL

-----------------------------------------------------------------------------
(* Tenancy                                                                 *)

\* What the accounts of Registration are made of.
AccountsTyped == counter \in [Requests -> Nat] /\ users \subseteq People

\* All that an unmixed page has is of one user, and the cookie is that user's, if any.
OneHolder(pg, c) ==
  ~pg.mixed => \A u \in Holds(pg) : Holds(pg) \subseteq {u} /\ c \in {u, Nobody}

\* Rows are seen and tickets held under an access token: an unmixed page's only one.
SeenOwn(pg) ==
  /\ pg.seen # {} \/ pg.ticket # Nobody => pg.access # Nobody
  /\ ~pg.mixed => pg.seen \subseteq {pg.access.tenant}

\* The ticket is for a run of that tenant, which may be deleted by now.
TicketOwn(pg) ==
  pg.ticket # Nobody /\ pg.ticket \notin deleted =>
    /\ run[pg.ticket] # NoRow
    /\ ~pg.mixed => run[pg.ticket].tenant = pg.access.tenant

PageOK(pg, c) == OneHolder(pg, c) /\ SeenOwn(pg) /\ TicketOwn(pg)

RowsTyped ==
  agent \in [Agents -> Slugs \cup {NoRow}] /\ run \in [Runs -> RunRows \cup {NoRow}] /\ deleted \subseteq Runs

\* Identities of deleted runs are not used again.
RowsOK ==
  /\ \A x \in deleted : run[x] = NoRow
  /\ \A x \in Runs : run[x] # NoRow => run[x].tenant = agent[run[x].agent]

TInv == AccountsTyped /\ TenancyTypeOK /\ RowsOK /\ \A t \in Tabs : PageOK(tab[t], CookieOf(t))

LEMMA InitTInv == TenancyInit => TInv
  BY TabsAssumption
  DEF TenancyInit, Init, TInv, AccountsTyped, TenancyTypeOK, RowsOK, PageOK, OneHolder, SeenOwn, TicketOwn,
      Pages, Blank, Holds, CookieOf

\* A registration adds to the accounts and takes none away.
LEMMA RegistrationStep ==
  ASSUME AccountsTyped, Next PROVE AccountsTyped' /\ users \subseteq users'
  <1> USE RequestsAssumption DEF AccountsTyped
  <1>1. PICK r \in Requests : Register(r) \/ Abort(r)
    BY DEF Next
  <1>2. CASE CheckEmail(r)
    BY <1>2 DEF CheckEmail
  <1>3. CASE TrySlug(r)
    BY <1>3 DEF TrySlug
  <1>4. CASE InsertTenant(r)
    BY <1>4 DEF InsertTenant
  <1>5. CASE InsertUser(r)
    BY <1>5, SlugTyped DEF InsertUser, NewUser, People
  <1>6. CASE Abort(r)
    BY <1>6 DEF Abort
  <1> QED
    BY <1>1, <1>2, <1>3, <1>4, <1>5, <1>6 DEF Register

\* Rows are added under new identities and deleted, and keep what pages know of them.
RowsGrow ==
  /\ deleted \subseteq deleted'
  /\ \A x \in Runs : run[x] # NoRow => run'[x] = run[x] \/ x \in deleted'

\* A step of one page, or of none, over rows that may grow.
LEMMA PageStep ==
  ASSUME TInv, NEW t \in Tabs, NEW new \in Pages, Becomes(t, new),
         UNCHANGED <<vars, cookies>>, RowsTyped', RowsOK', RowsGrow, PageOK(new, CookieOf(t))
  PROVE  TInv'
  <1> USE DEF vars, rows
  <1>1. tab' = [tab EXCEPT ![t] = new] /\ tab \in [Tabs -> Pages]
    BY DEF Becomes, TInv, TenancyTypeOK
  <1>2. AccountsTyped'
    BY DEF TInv, AccountsTyped
  <1>3. TenancyTypeOK'
    <2>1. Pages' = Pages
      BY DEF Pages
    <2>2. tab' \in [Tabs -> Pages]
      BY <1>1
    <2> QED
      BY <2>1, <2>2 DEF TInv, TenancyTypeOK, RowsTyped
  <1>4. ASSUME NEW o \in Tabs PROVE PageOK(tab[o], CookieOf(o))'
    <2>1. CookieOf(o)' = CookieOf(o)
      BY DEF CookieOf
    <2>2. PageOK(tab'[o], CookieOf(o))
      BY <1>1 DEF TInv
    <2>3. tab'[o] \in Pages
      BY <1>1
    <2>4. TicketOwn(tab[o])'
      <3> DEFINE pg == tab'[o]
      <3> SUFFICES ASSUME pg.ticket # Nobody, pg.ticket \notin deleted'
                   PROVE  run'[pg.ticket] # NoRow /\ (~pg.mixed => run'[pg.ticket].tenant = pg.access.tenant)
        BY DEF TicketOwn
      <3>1. pg.ticket \in Runs
        BY <2>3 DEF Pages
      <3>2. run[pg.ticket] # NoRow /\ (~pg.mixed => run[pg.ticket].tenant = pg.access.tenant)
        BY <2>2 DEF PageOK, TicketOwn, RowsGrow
      <3>3. run'[pg.ticket] = run[pg.ticket]
        BY <3>1, <3>2 DEF RowsGrow
      <3> QED
        BY <3>2, <3>3
    <2> QED
      BY <2>1, <2>2, <2>4 DEF PageOK, OneHolder, SeenOwn
  <1> QED
    BY <1>2, <1>3, <1>4 DEF TInv

\* It is enough to look at the new page, if the rows stay.
LEMMA QuietPage ==
  ASSUME TInv, NEW t \in Tabs, NEW new \in Pages, Becomes(t, new), UNCHANGED <<vars, cookies, rows>>,
         PageOK(new, CookieOf(t))
  PROVE  TInv'
  <1>1. RowsTyped' /\ RowsOK' /\ RowsGrow
    BY DEF TInv, TenancyTypeOK, RowsTyped, RowsOK, RowsGrow, rows
  <1> QED
    BY <1>1, PageStep

\* Loading a page, asking who its user is, and the login form.
LEMMA EntryStep ==
  ASSUME TInv, NEW t \in Tabs, LoadPage(t) \/ WhoAmI(t) \/ FormEnters(t) PROVE TInv'
  <1> DEFINE pg == tab[t]
  <1>0. pg \in Pages /\ PageOK(pg, CookieOf(t))
    BY DEF TInv, TenancyTypeOK
  <1>1. CASE LoadPage(t)
    <2> DEFINE new == [Blank EXCEPT !.asking = TRUE]
    <2>1. new \in Pages
      BY DEF Blank, Pages
    <2>2. PageOK(new, CookieOf(t))
      BY DEF Blank, PageOK, OneHolder, SeenOwn, TicketOwn, Holds
    <2>3. Becomes(t, new) /\ UNCHANGED <<vars, cookies, rows>>
      BY <1>1 DEF LoadPage
    <2> HIDE DEF new
    <2> QED
      BY <2>1, <2>2, <2>3, QuietPage
  <1>2. CASE WhoAmI(t)
    <2>1. PICK u \in {pg.access, Nobody} : Becomes(t, [pg EXCEPT !.user = u, !.asking = FALSE])
      BY <1>2 DEF WhoAmI
    <2> DEFINE new == [pg EXCEPT !.user = u, !.asking = FALSE]
    <2>2. new \in Pages
      BY <1>0 DEF Pages
    <2>3. Holds(new) \subseteq Holds(pg)
      BY <1>0, <2>1 DEF Holds, Pages
    <2>4. /\ new.mixed = pg.mixed /\ new.seen = pg.seen
          /\ new.ticket = pg.ticket /\ new.access = pg.access
      BY <1>0 DEF Pages
    <2>5. PageOK(new, CookieOf(t))
      <3> HIDE DEF new, pg
      <3> QED BY <1>0, <2>3, <2>4 DEF PageOK, OneHolder, SeenOwn, TicketOwn
    <2> HIDE DEF new
    <2>6. Becomes(t, new) /\ UNCHANGED <<vars, cookies, rows>>
      BY <1>2, <2>1 DEF WhoAmI, new
    <2> QED
      BY <2>2, <2>5, <2>6, QuietPage
  <1>3. CASE FormEnters(t)
    <2>1. PICK new : /\ Becomes(t, new)
                     /\ \/ new = [pg EXCEPT !.user = IF pg.access # Nobody THEN pg.access ELSE pg.form,
                                              !.access = pg.form, !.form = Nobody]
                        \/ new = [pg EXCEPT !.form = Nobody]
      BY <1>3 DEF FormEnters
    <2>2. new \in Pages
      BY <1>0, <2>1 DEF Pages
    <2>3. Holds(new) \subseteq Holds(pg)
      BY <1>0, <2>1 DEF Holds, Pages
    <2>4. /\ new.mixed = pg.mixed /\ new.seen = pg.seen /\ new.ticket = pg.ticket
          /\ new.access \in {pg.access, pg.form} /\ pg.form # Nobody
      BY <1>0, <1>3, <2>1 DEF Pages, FormEnters
    <2>5. ~pg.mixed /\ pg.access # Nobody => pg.form = pg.access
      BY <1>0, <2>4 DEF PageOK, OneHolder, Holds
    <2>6. PageOK(new, CookieOf(t))
      <3> HIDE DEF pg
      <3>1. OneHolder(new, CookieOf(t))
        BY <1>0, <2>3, <2>4 DEF PageOK, OneHolder
      <3>2. SeenOwn(new)
        BY <1>0, <2>4, <2>5 DEF PageOK, SeenOwn
      <3>3. TicketOwn(new)
        BY <1>0, <2>4, <2>5 DEF PageOK, SeenOwn, TicketOwn
      <3> QED
        BY <3>1, <3>2, <3>3 DEF PageOK
    <2> QED
      BY <1>3, <2>1, <2>2, <2>6, QuietPage DEF FormEnters
  <1> QED
    BY <1>1, <1>2, <1>3

\* What is left of a page whose user is gone.
LEMMA ClearedOK ==
  ASSUME NEW pg \in Pages, NEW left, left \subseteq pg.refreshing, NEW asks \in BOOLEAN, NEW c, NEW d,
         OneHolder(pg, c), d \in {c, Nobody}
  PROVE  LET new == [Cleared(pg) EXCEPT !.refreshing = left, !.asking = asks]
         IN  new \in Pages /\ PageOK(new, d)
  <1> DEFINE new == [Cleared(pg) EXCEPT !.refreshing = left, !.asking = asks]
  <1>1. new \in Pages
    BY DEF Cleared, Pages
  <1>2. /\ new.mixed = pg.mixed /\ new.seen = {} /\ new.ticket = Nobody
        /\ Holds(new) \subseteq Holds(pg)
    BY DEF Cleared, Pages, Holds
  <1>3. PageOK(new, d)
    <2> HIDE DEF new
    <2> QED BY <1>2 DEF PageOK, OneHolder, SeenOwn, TicketOwn
  <1> QED
    BY <1>1, <1>3

\* Refreshes.
LEMMA RefreshStep ==
  ASSUME TInv, NEW t \in Tabs, RefreshStarts(t) \/ RefreshAnswered(t) \/ RefreshFails(t) PROVE TInv'
  <1> DEFINE pg == tab[t]
  <1>0. pg \in Pages /\ PageOK(pg, CookieOf(t))
    BY DEF TInv, TenancyTypeOK
  <1>1. CASE RefreshStarts(t)
    <2> DEFINE new == [pg EXCEPT !.refreshing = pg.refreshing \cup {CookieOf(t)}]
    <2>1. CookieOf(t) \in users /\ CookieOf(t) # Nobody
      BY <1>1, TabsAssumption DEF RefreshStarts, TInv, TenancyTypeOK, CookieOf
    <2>2. new \in Pages
      BY <1>0, <2>1 DEF Pages
    <2>3. Holds(new) = Holds(pg) \cup {CookieOf(t)}
      BY <1>0, <2>1 DEF Holds, Pages
    <2>4. /\ new.mixed = pg.mixed /\ new.seen = pg.seen
          /\ new.ticket = pg.ticket /\ new.access = pg.access
      BY <1>0 DEF Pages
    <2>5. PageOK(new, CookieOf(t))
      <3> HIDE DEF new, pg
      <3> QED BY <1>0, <2>1, <2>3, <2>4 DEF PageOK, OneHolder, SeenOwn, TicketOwn
    <2>6. Becomes(t, new) /\ UNCHANGED <<vars, cookies, rows>>
      BY <1>1 DEF RefreshStarts, Becomes
    <2> HIDE DEF new
    <2> QED
      BY <2>2, <2>5, <2>6, QuietPage
  <1>2. CASE RefreshAnswered(t)
    <2>1. PICK u \in pg.refreshing, left \in SUBSET pg.refreshing :
              Becomes(t, [pg EXCEPT !.access = u, !.refreshing = left])
      BY <1>2 DEF RefreshAnswered
    <2> DEFINE new == [pg EXCEPT !.access = u, !.refreshing = left]
    <2>2. u \in users /\ u # Nobody
      BY <1>0, NobodyAssumption DEF Pages, TInv, AccountsTyped
    <2>3. new \in Pages
      BY <1>0, <2>1, <2>2 DEF Pages
    <2>4. Holds(new) \subseteq Holds(pg) /\ u \in Holds(pg)
      BY <1>0, <2>1, <2>2 DEF Holds, Pages
    <2>5. /\ new.mixed = pg.mixed /\ new.seen = pg.seen
          /\ new.ticket = pg.ticket /\ new.access = u
      BY <1>0 DEF Pages
    <2>6. ~pg.mixed /\ pg.access # Nobody => u = pg.access
      BY <1>0, <2>4 DEF PageOK, OneHolder, Holds
    <2>7. PageOK(new, CookieOf(t))
      <3> HIDE DEF new, pg
      <3> QED BY <1>0, <2>2, <2>4, <2>5, <2>6 DEF PageOK, OneHolder, SeenOwn, TicketOwn
    <2>8. Becomes(t, new) /\ UNCHANGED <<vars, cookies, rows>>
      BY <1>2, <2>1 DEF RefreshAnswered
    <2> HIDE DEF new
    <2> QED
      BY <2>3, <2>7, <2>8, QuietPage
  <1>3. CASE RefreshFails(t)
    <2>1. PICK left \in SUBSET pg.refreshing, asks \in BOOLEAN :
              Becomes(t, [Cleared(pg) EXCEPT !.refreshing = left, !.asking = asks])
      BY <1>0, <1>3 DEF RefreshFails, Pages
    <2> DEFINE new == [Cleared(pg) EXCEPT !.refreshing = left, !.asking = asks]
    <2>2. new \in Pages /\ PageOK(new, CookieOf(t))
      BY <1>0, <2>1, ClearedOK DEF PageOK
    <2>3. Becomes(t, new) /\ UNCHANGED <<vars, cookies, rows>>
      BY <1>3, <2>1 DEF RefreshFails
    <2> HIDE DEF new
    <2> QED
      BY <2>2, <2>3, QuietPage
  <1> QED
    BY <1>1, <1>2, <1>3

\* Logging in, which is seen by the tabs of the browser.
LEMMA LogInStep == ASSUME TInv, NEW t \in Tabs, NEW r \in Requests, LogIn(t, r) PROVE TInv'
  <1>1. PICK u \in users :
          /\ cookies' = [cookies EXCEPT ![BrowserOf[t]] = u]
          /\ tab' = [o \in Tabs |->
                       [tab[o] EXCEPT
                          !.form = IF o = t THEN u ELSE tab[o].form,
                          !.mixed = tab[o].mixed \/ (BrowserOf[o] = BrowserOf[t] /\ ~(Holds(tab[o]) \subseteq {u}))]]
    BY DEF LogIn
  <1>2. tab[t].form = Nobody /\ UNCHANGED <<vars, rows>>
    BY DEF LogIn
  <1>3. u # Nobody
    BY NobodyAssumption DEF TInv, AccountsTyped
  <1>4. ASSUME NEW o \in Tabs
        PROVE  tab'[o] \in Pages /\ PageOK(tab'[o], CookieOf(o)')
    <2> DEFINE pg == tab[o]
               form == IF o = t THEN u ELSE pg.form
               mixed == pg.mixed \/ (BrowserOf[o] = BrowserOf[t] /\ ~(Holds(pg) \subseteq {u}))
               new == [pg EXCEPT !.form = form, !.mixed = mixed]
    <2>1. pg \in Pages /\ PageOK(pg, CookieOf(o))
      BY DEF TInv, TenancyTypeOK
    <2>2. tab'[o] = new
      BY <1>1, Zenon
    <2>3. new \in Pages
      <3>1. mixed \in BOOLEAN /\ form \in users \cup {Nobody}
        BY <2>1 DEF Pages
      <3> HIDE DEF mixed, form, pg
      <3> QED BY <2>1, <3>1 DEF Pages
    <2>4. /\ new.mixed = mixed /\ new.seen = pg.seen
          /\ new.ticket = pg.ticket /\ new.access = pg.access
      <3> HIDE DEF mixed, form, pg
      <3> QED BY <2>1 DEF Pages
    <2>5. Holds(new) = Holds(pg) \cup (IF o = t THEN {u} ELSE {})
      <3>1. /\ new.user = pg.user /\ new.form = form /\ new.access = pg.access
            /\ new.refreshing = pg.refreshing
        <4> HIDE DEF mixed, form, pg
        <4> QED BY <2>1 DEF Pages
      <3>2. o = t => pg.form = Nobody
        BY <1>2
      <3> HIDE DEF mixed, pg, new
      <3> QED BY <1>3, <3>1, <3>2 DEF Holds
    <2>6. OneHolder(new, CookieOf(o)')
      <3>1. SUFFICES ASSUME ~new.mixed, NEW v \in Holds(new)
                     PROVE  Holds(new) \subseteq {v} /\ CookieOf(o)' \in {v, Nobody}
        BY DEF OneHolder
      <3>2. ~pg.mixed /\ (BrowserOf[o] = BrowserOf[t] => Holds(pg) \subseteq {u})
        <4> HIDE DEF pg, new
        <4> QED BY <2>4, <3>1
      <3>3. CASE BrowserOf[o] = BrowserOf[t]
        <4>1. CookieOf(o)' = u
          BY <1>1, <3>3, TabsAssumption DEF CookieOf, TInv, TenancyTypeOK
        <4>2. Holds(new) \subseteq {u}
          <5> HIDE DEF pg, new
          <5> QED BY <2>5, <3>2, <3>3
        <4> HIDE DEF new
        <4> QED BY <3>1, <4>1, <4>2
      <3>4. CASE BrowserOf[o] # BrowserOf[t]
        <4>1. CookieOf(o)' = CookieOf(o)
          BY <1>1, <3>4, TabsAssumption DEF CookieOf, TInv, TenancyTypeOK
        <4>2. Holds(new) = Holds(pg)
          <5> HIDE DEF pg, new
          <5> QED BY <2>5, <3>4
        <4> HIDE DEF pg, new
        <4> QED BY <2>1, <3>1, <3>2, <4>1, <4>2 DEF PageOK, OneHolder
      <3> QED
        BY <3>3, <3>4
    <2>7. SeenOwn(new) /\ TicketOwn(new)
      <3>1. new.mixed \/ ~pg.mixed
        <4> HIDE DEF pg, new
        <4> QED BY <2>4
      <3> HIDE DEF pg, new, mixed
      <3> QED BY <2>1, <2>4, <3>1 DEF PageOK, SeenOwn, TicketOwn
    <2> HIDE DEF new
    <2> QED
      BY <2>2, <2>3, <2>6, <2>7 DEF PageOK
  <1>5. TenancyTypeOK'
    <2>1. tab' \in [Tabs -> Pages]
      BY <1>1, <1>4, Zenon
    <2>2. Pages' = Pages
      BY <1>2 DEF Pages, vars
    <2>3. cookies' \in [Browsers -> users \cup {Nobody}]
      BY <1>1 DEF TInv, TenancyTypeOK
    <2> QED
      BY <1>2, <2>1, <2>2, <2>3 DEF TInv, TenancyTypeOK, vars, rows
  <1>6. AccountsTyped' /\ RowsOK'
    BY <1>2 DEF TInv, AccountsTyped, RowsOK, vars, rows
  <1>7. \A o \in Tabs : PageOK(tab[o], CookieOf(o))'
    BY <1>2, <1>4 DEF PageOK, OneHolder, SeenOwn, TicketOwn, rows
  <1> QED
    BY <1>5, <1>6, <1>7 DEF TInv

\* Logging out, which may take the cookie from all tabs.
LEMMA LogOutStep == ASSUME TInv, NEW t \in Tabs, LogOut(t) PROVE TInv'
  <1>1. /\ cookies' \in {cookies, [cookies EXCEPT ![BrowserOf[t]] = Nobody]}
        /\ tab' = [tab EXCEPT ![t] = Cleared(tab[t])]
        /\ UNCHANGED <<vars, rows>>
    BY DEF LogOut, Becomes
  <1>2. \A o \in Tabs : CookieOf(o)' \in {CookieOf(o), Nobody}
    BY <1>1, TabsAssumption DEF CookieOf, TInv, TenancyTypeOK
  <1>3. ASSUME NEW o \in Tabs PROVE tab'[o] \in Pages /\ PageOK(tab'[o], CookieOf(o)')
    <2>1. tab[o] \in Pages /\ PageOK(tab[o], CookieOf(o))
      BY DEF TInv, TenancyTypeOK
    <2>2. CASE o = t
      <3>1. tab'[o] = [Cleared(tab[o]) EXCEPT !.refreshing = tab[o].refreshing, !.asking = tab[o].asking]
        BY <1>1, <2>1, <2>2 DEF Cleared, Pages, TInv, TenancyTypeOK
      <3>2. tab[o].asking \in BOOLEAN /\ tab[o].refreshing \subseteq tab[o].refreshing
        BY <2>1 DEF Pages
      <3> QED
        <4> DEFINE d == CookieOf(o)'
                   new == [Cleared(tab[o]) EXCEPT !.refreshing = tab[o].refreshing, !.asking = tab[o].asking]
        <4>1. d \in {CookieOf(o), Nobody} /\ OneHolder(tab[o], CookieOf(o))
          BY <1>2, <2>1 DEF PageOK
        <4>2. new \in Pages /\ PageOK(new, d)
          <5> HIDE DEF d
          <5> QED BY <2>1, <3>2, <4>1, ClearedOK
        <4> QED
          BY <3>1, <4>2
    <2>3. CASE o # t
      <3>1. tab'[o] = tab[o]
        BY <1>1, <2>3 DEF TInv, TenancyTypeOK
      <3>2. OneHolder(tab[o], CookieOf(o)')
        BY <1>2, <2>1 DEF PageOK, OneHolder
      <3> QED
        BY <2>1, <3>1, <3>2 DEF PageOK
    <2> QED
      BY <2>2, <2>3
  <1>4. TenancyTypeOK'
    <2>1. DOMAIN tab' = Tabs /\ tab' = [o \in Tabs |-> tab'[o]]
      BY <1>1 DEF TInv, TenancyTypeOK
    <2>2. tab' \in [Tabs -> Pages]
      BY <1>3, <2>1, Zenon
    <2>3. Pages' = Pages
      BY <1>1 DEF Pages, vars
    <2>4. cookies' \in [Browsers -> users \cup {Nobody}]
      BY <1>1, TabsAssumption DEF TInv, TenancyTypeOK
    <2> QED
      BY <1>1, <2>2, <2>3, <2>4 DEF TInv, TenancyTypeOK, vars, rows
  <1>5. AccountsTyped' /\ RowsOK'
    BY <1>1 DEF TInv, AccountsTyped, RowsOK, vars, rows
  <1>6. \A o \in Tabs : PageOK(tab[o], CookieOf(o))'
    BY <1>1, <1>3 DEF PageOK, OneHolder, SeenOwn, TicketOwn, rows
  <1> QED
    BY <1>4, <1>5, <1>6 DEF TInv

-----------------------------------------------------------------------------
(* Requests of a page                                                      *)

\* The tenant under which a request is answered is a tenant.
LEMMA RequestTenant ==
  ASSUME TInv, NEW t \in Tabs, tab[t].access # Nobody PROVE tab[t].access \in users /\ TenantOf(t) \in Slugs
  BY DEF TInv, TenancyTypeOK, AccountsTyped, Pages, People, TenantOf

\* An answer made of rows of that tenant.
LEMMA AnswerOK ==
  ASSUME TInv, NEW t \in Tabs, tab[t].access # Nobody, NEW S, S \subseteq {TenantOf(t)}
  PROVE  LET new == [tab[t] EXCEPT !.seen = tab[t].seen \cup S] IN new \in Pages /\ PageOK(new, CookieOf(t))
  <1> DEFINE pg == tab[t]
             new == [pg EXCEPT !.seen = pg.seen \cup S]
  <1>1. pg \in Pages /\ PageOK(pg, CookieOf(t)) /\ S \subseteq Slugs
    BY RequestTenant DEF TInv, TenancyTypeOK
  <1>2. new \in Pages
    BY <1>1 DEF Pages
  <1>3. /\ new.mixed = pg.mixed /\ new.seen = pg.seen \cup S
        /\ new.ticket = pg.ticket /\ new.access = pg.access
        /\ Holds(new) = Holds(pg)
    BY <1>1 DEF Pages, Holds
  <1>4. S \subseteq {pg.access.tenant} /\ pg.access # Nobody
    BY DEF TenantOf
  <1>5. PageOK(new, CookieOf(t))
    <2> HIDE DEF new, pg
    <2> QED BY <1>1, <1>3, <1>4 DEF PageOK, OneHolder, SeenOwn, TicketOwn
  <1> QED
    BY <1>2, <1>5

LEMMA AnswerStep ==
  ASSUME TInv, NEW t \in Tabs, LoggedIn(t), NEW S, S \subseteq {TenantOf(t)}, Answered(t, S),
         UNCHANGED <<vars, cookies>>, RowsTyped', RowsOK', RowsGrow
  PROVE  TInv'
  <1> DEFINE new == [tab[t] EXCEPT !.seen = tab[t].seen \cup S]
  <1>1. new \in Pages /\ PageOK(new, CookieOf(t))
    BY AnswerOK DEF LoggedIn
  <1>2. Becomes(t, new)
    BY DEF Answered, Becomes
  <1> HIDE DEF new
  <1> QED
    BY <1>1, <1>2, PageStep

\* Requests that only read.
LEMMA ReadStep ==
  ASSUME TInv, NEW t \in Tabs, ReadAgents(t) \/ ReadRuns(t) PROVE TInv'
  <1>1. UNCHANGED <<vars, cookies, rows>> /\ LoggedIn(t)
    BY DEF ReadAgents, ReadRuns
  <1>2. PICK S : S \subseteq {TenantOf(t)} /\ Answered(t, S)
    BY DEF ReadAgents, ReadRuns, AgentFound, OwnRuns, RunFound
  <1>3. RowsTyped' /\ RowsOK' /\ RowsGrow
    BY <1>1 DEF TInv, TenancyTypeOK, RowsTyped, RowsOK, RowsGrow, rows
  <1> QED
    BY <1>1, <1>2, <1>3, AnswerStep

\* Tickets and streams.
LEMMA StreamStep ==
  ASSUME TInv, NEW t \in Tabs, OpenStream(t) \/ \E x \in Runs : GetTicket(t, x) PROVE TInv'
  <1> DEFINE pg == tab[t]
  <1>0. pg \in Pages /\ PageOK(pg, CookieOf(t))
    BY DEF TInv, TenancyTypeOK
  <1>1. ASSUME NEW x \in Runs, GetTicket(t, x) PROVE TInv'
    <2> DEFINE new == [pg EXCEPT !.ticket = x]
    <2>1. new \in Pages
      BY <1>0 DEF Pages
    <2>2. /\ new.mixed = pg.mixed /\ new.seen = pg.seen
          /\ new.ticket = x /\ new.access = pg.access
          /\ Holds(new) = Holds(pg)
      BY <1>0 DEF Pages, Holds
    <2>3. pg.access # Nobody /\ run[x] # NoRow /\ run[x].tenant = pg.access.tenant
      BY <1>1 DEF GetTicket, LoggedIn, RunFound, TenantOf
    <2>4. PageOK(new, CookieOf(t))
      <3> HIDE DEF new, pg
      <3> QED BY <1>0, <2>2, <2>3 DEF PageOK, OneHolder, SeenOwn, TicketOwn
    <2>5. Becomes(t, new) /\ UNCHANGED <<vars, cookies, rows>>
      BY <1>1 DEF GetTicket
    <2> HIDE DEF new
    <2> QED
      BY <2>1, <2>4, <2>5, QuietPage
  <1>2. CASE OpenStream(t)
    <2> DEFINE S == {run[x].tenant : x \in {pg.ticket} \ deleted}
               new == [pg EXCEPT !.seen = pg.seen \cup S, !.ticket = Nobody]
    <2>1. pg.ticket # Nobody /\ pg.ticket \in Runs /\ pg.access # Nobody
      BY <1>0, <1>2 DEF OpenStream, PageOK, SeenOwn, Pages
    <2>2. /\ pg.ticket \notin deleted => run[pg.ticket] \in RunRows
          /\ ~pg.mixed /\ pg.ticket \notin deleted => run[pg.ticket].tenant = pg.access.tenant
      BY <1>0, <2>1 DEF PageOK, TicketOwn, TInv, TenancyTypeOK
    <2>3. S \subseteq Slugs /\ (~pg.mixed => S \subseteq {pg.access.tenant})
      BY <2>2 DEF RunRows
    <2>4. new \in Pages
      <3> HIDE DEF S, pg
      <3> QED BY <1>0, <2>3 DEF Pages
    <2>5. /\ new.mixed = pg.mixed /\ new.seen = pg.seen \cup S
          /\ new.ticket = Nobody /\ new.access = pg.access
          /\ Holds(new) = Holds(pg)
      <3> HIDE DEF S, pg
      <3> QED BY <1>0 DEF Pages, Holds
    <2>6. PageOK(new, CookieOf(t))
      <3> HIDE DEF new, pg, S
      <3> QED BY <1>0, <2>1, <2>3, <2>5 DEF PageOK, OneHolder, SeenOwn, TicketOwn
    <2>7. Becomes(t, new) /\ UNCHANGED <<vars, cookies, rows>>
      BY <1>2 DEF OpenStream
    <2> HIDE DEF new
    <2> QED
      BY <2>4, <2>6, <2>7, QuietPage
  <1> QED
    BY <1>1, <1>2

\* Requests that write a row of their tenant.
LEMMA WriteStep ==
  ASSUME TInv, NEW t \in Tabs,
         \/ \E a \in Agents : CreateAgent(t, a) \/ \E x \in Runs : CreateRun(t, x, a)
         \/ \E x \in Runs : DeleteRun(t, x)
  PROVE  TInv'
  <1> USE DEF RowsTyped, RowsOK, RowsGrow
  <1>0. RowsTyped /\ RowsOK
    BY DEF TInv, TenancyTypeOK
  <1>1. ASSUME NEW a \in Agents, CreateAgent(t, a) PROVE TInv'
    <2>1. LoggedIn(t) /\ UNCHANGED <<vars, cookies, run, deleted>> /\ Answered(t, {TenantOf(t)})
      BY <1>1 DEF CreateAgent
    <2>2. TenantOf(t) \in Slugs
      BY <2>1, RequestTenant DEF LoggedIn
    <2>3. agent[a] = NoRow /\ agent' = [agent EXCEPT ![a] = TenantOf(t)]
      BY <1>1 DEF CreateAgent
    <2>4. \A x \in Runs : run[x] # NoRow => run[x].agent \in Agents /\ agent[run[x].agent] # NoRow
      BY <1>0, NoRowAssumption DEF RunRows
    <2>5. RowsTyped' /\ RowsOK' /\ RowsGrow
      BY <1>0, <2>1, <2>2, <2>3, <2>4
    <2> QED
      BY <2>1, <2>5, AnswerStep
  <1>2. ASSUME NEW a \in Agents, NEW x \in Runs, CreateRun(t, x, a) PROVE TInv'
    <2>1. LoggedIn(t) /\ UNCHANGED <<vars, cookies, agent, deleted>> /\ Answered(t, {TenantOf(t)})
      BY <1>2 DEF CreateRun
    <2>2. TenantOf(t) \in Slugs /\ agent[a] = TenantOf(t)
      BY <1>2, <2>1, RequestTenant DEF LoggedIn, CreateRun, AgentFound
    <2>3. x \notin deleted /\ run[x] = NoRow /\ run' = [run EXCEPT ![x] = NewRun(t, a)]
      BY <1>2 DEF CreateRun
    <2>4. NewRun(t, a) \in RunRows /\ NewRun(t, a).tenant = TenantOf(t) /\ NewRun(t, a).agent = a
      BY <2>2 DEF NewRun, RunRows
    <2>5. RowsTyped' /\ RowsOK' /\ RowsGrow
      BY <1>0, <2>1, <2>2, <2>3, <2>4
    <2> QED
      BY <2>1, <2>5, AnswerStep
  <1>3. ASSUME NEW x \in Runs, DeleteRun(t, x) PROVE TInv'
    <2>1. UNCHANGED <<vars, cookies, tab, agent>> /\ run' = [run EXCEPT ![x] = NoRow] /\ deleted' = deleted \cup {x}
      BY <1>3 DEF DeleteRun
    <2>2. RowsTyped' /\ RowsOK' /\ RowsGrow
      BY <1>0, <2>1, NoRowAssumption
    <2>3. tab[t] \in Pages /\ PageOK(tab[t], CookieOf(t)) /\ Becomes(t, tab[t])
      BY <2>1 DEF TInv, TenancyTypeOK, Becomes
    <2> QED
      BY <2>1, <2>2, <2>3, PageStep
  <1> QED
    BY <1>1, <1>2, <1>3

LEMMA NextTInv == TInv /\ [TenancyNext]_allVars => TInv'
  <1> SUFFICES ASSUME TInv, [TenancyNext]_allVars PROVE TInv'
    OBVIOUS
  <1>1. CASE UNCHANGED allVars
    BY <1>1
    DEF allVars, vars, rows, TInv, AccountsTyped, TenancyTypeOK, Pages, RowsOK,
        PageOK, OneHolder, SeenOwn, TicketOwn, CookieOf
  <1>2. CASE Next /\ UNCHANGED <<cookies, tab, rows>>
    <2>1. AccountsTyped' /\ users \subseteq users'
      BY <1>2, RegistrationStep DEF TInv
    <2>2. Pages \subseteq Pages'
      BY <2>1 DEF Pages
    <2>3. TenancyTypeOK'
      BY <1>2, <2>1, <2>2 DEF TInv, TenancyTypeOK, rows
    <2>4. RowsOK' /\ \A t \in Tabs : PageOK(tab[t], CookieOf(t))'
      BY <1>2 DEF TInv, RowsOK, PageOK, OneHolder, SeenOwn, TicketOwn, CookieOf, rows
    <2> QED
      BY <2>1, <2>3, <2>4 DEF TInv
  <1>3. ASSUME NEW t \in Tabs, Page(t) PROVE TInv'
    BY <1>3, EntryStep, RefreshStep, LogInStep, LogOutStep DEF Page
  <1>4. ASSUME NEW t \in Tabs, Request(t) PROVE TInv'
    BY <1>4, ReadStep, StreamStep, WriteStep DEF Request
  <1> QED
    BY <1>1, <1>2, <1>3, <1>4 DEF TenancyNext

\* A page in which nobody logged in over another's tokens shows rows of its user's tenant
\* only, over refreshes answered late and tabs that share a cookie (api.ts,
\* AuthContext.tsx), and runs and agents are of one tenant whatever token created them
\* (evaluation.py), for any number of people, browsers, tabs, agents and runs.
THEOREM TenantsStayApart == TenancySpec => []TenantsApart
  <1>1. TInv => TenantsApart
    <2> SUFFICES ASSUME TInv, NEW t \in Tabs, tab[t].user # Nobody, ~tab[t].mixed
                 PROVE  tab[t].seen \subseteq {tab[t].user.tenant}
      BY DEF TInv, RowsOK, TenantsApart
    <2>1. PageOK(tab[t], CookieOf(t))
      BY DEF TInv
    <2>2. tab[t].seen # {} => tab[t].access = tab[t].user
      BY <2>1 DEF PageOK, SeenOwn, OneHolder, Holds
    <2> QED
      BY <2>1, <2>2 DEF PageOK, SeenOwn
  <1> QED
    BY <1>1, InitTInv, NextTInv, PTL DEF TenancySpec
-----------------------------------------------------------------------------
(* Session                                                                 *)

SessionTyped ==
  /\ now \in Nat \ {0} /\ now =< MaxTime
  /\ expiry \in [RefreshTokens -> Nat] /\ blocklist \in [RefreshTokens -> Nat]
  /\ cookie \in RefreshTokens \cup {0}
  /\ revoked \subseteq RefreshTokens

\* A token expires a lifetime after its login; the cookie and revoked tokens were issued.
\* A login in the second of an earlier one issues the earlier one's token again.
Issued ==
  /\ \A t \in RefreshTokens : expiry[t] \in {0, t + RefreshLife}
  /\ cookie # 0 => expiry[cookie] # 0
  /\ \A t \in revoked : expiry[t] # 0

\* A token issued by now has expired when one that is issued now expires.
NoneOutlives == \A t \in RefreshTokens : expiry[t] <= now + RefreshLife

\* The entry of a revoked token does not go before the token.
EntryOutlives == \A t \in revoked : expiry[t] <= blocklist[t]

SInv == SessionTyped /\ Issued /\ NoneOutlives /\ EntryOutlives

LEMMA InitSInv == SessionInit => SInv
  BY LivesAssumption, BoundsAssumption
  DEF SessionInit, SInv, SessionTyped, Issued, NoneOutlives, EntryOutlives, RefreshTokens

LEMMA SStep == SInv /\ [SessionNext]_sessionVars => SInv'
  <1> SUFFICES ASSUME SInv, [SessionNext]_sessionVars PROVE SInv'
    OBVIOUS
  <1> USE LivesAssumption, BoundsAssumption DEF SInv, SessionTyped, Issued, NoneOutlives, EntryOutlives
  <1>1. CASE PageLogIn
    <2>1. now \in RefreshTokens /\ RefreshTokens \subseteq Nat
      BY DEF RefreshTokens
    <2>2. /\ expiry' = [expiry EXCEPT ![now] = now + RefreshLife] /\ cookie' = now
          /\ UNCHANGED <<now, blocklist, revoked>>
      BY <1>1 DEF PageLogIn
    <2> QED
      BY <2>1, <2>2
  <1>2. CASE PageLogOut
    <2>1. UNCHANGED <<now, expiry>> /\ cookie' \in {cookie, 0}
      BY <1>2 DEF PageLogOut
    <2>2. \/ UNCHANGED <<blocklist, revoked>>
          \/ /\ cookie # 0
             /\ blocklist' = [blocklist EXCEPT ![cookie] = now + RefreshLife]
             /\ revoked' \in {revoked, revoked \cup {cookie}}
      BY <1>2 DEF PageLogOut, BlockUntil
    <2> QED
      BY <2>1, <2>2
  <1>3. CASE Tick
    BY <1>3 DEF Tick, server
  <1>4. CASE UNCHANGED <<now, cookie, server>>
    BY <1>4 DEF server
  <1> QED
    BY <1>1, <1>2, <1>3, <1>4
    DEF SessionNext, sessionVars, Load, Send, Progress, Answer, RefreshDecodes, RefreshChecks, Repeat

\* "until it naturally expires" (logout): as long as a revoked token would be decoded,
\* its entry is on the blocklist.
THEOREM RevocationHolds == SessionSpec => []RevokedStaysBlocked
  <1>1. SInv => RevokedStaysBlocked
    BY DEF SInv, SessionTyped, EntryOutlives, RevokedStaysBlocked, Live, Blocked
  <1> QED
    BY InitSInv, SStep, <1>1, PTL DEF SessionSpec

===============================================================================
