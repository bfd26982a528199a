----------------------------- MODULE Registration -----------------------------
(***************************************************************************)
(* POST /auth/register (api/routes/auth.py): concurrent requests look for  *)
(* the email, search a free slug for the company, insert a tenant and then *)
(* its first user. Each is one READ COMMITTED transaction that get_db rolls*)
(* back on an exception (db/session.py); the constraints are those of      *)
(* db/models/user.py and tenant.py. The sign-up form is the client.        *)
(***************************************************************************)
EXTENDS Integers, FiniteSets, Sequences

CONSTANTS
    Requests,
    Emails, EmailOf,        \* the email of a request, in lower case
    Words, CompanyOf        \* the base slug of its company, which hyphens divide

\* "acme" is <<acme>>; "acme-1" is <<acme, 1>>, whether a company is called Acme 1 or
\* is the second one called Acme. A name without a letter or a digit gets a random word.
Slugs == Seq(Words \cup Nat)

ASSUME RequestsAssumption ==
    /\ IsFiniteSet(Requests)
    /\ EmailOf \in [Requests -> Emails]
    /\ CompanyOf \in [Requests -> Slugs]

VARIABLES
    pc,       \* where register of each request is
    counter,  \* the suffix of the slug it tries, 0 for none
    tenants,  \* committed slugs
    users     \* committed users: email, tenant and the request that made them

vars == <<pc, counter, tenants, users>>

Steps == {"form", "naming", "inserting", "hashing", "registered", "refused", "failed"}
Done == {"registered", "refused", "failed"}

Init ==
    /\ pc = [r \in Requests |-> "form"]
    /\ counter = [r \in Requests |-> 0]
    /\ tenants = {} /\ users = {}

Numbered(base, n) == IF n = 0 THEN base ELSE Append(base, n)

SlugSkips(r) == Numbered(CompanyOf[r], IF counter[r] = 0 THEN 0 ELSE counter[r] + 1)  \* mutant: counts before it names
Slug(r) == Numbered(CompanyOf[r], counter[r])
GoTo(r, step) == pc' = [pc EXCEPT ![r] = step]

CheckEmail(r) ==
    /\ pc[r] = "form"
    /\ GoTo(r, IF \E u \in users : u.email = EmailOf[r] THEN "refused" ELSE "naming")
    /\ UNCHANGED <<counter, tenants, users>>

\* One round of the loop over slugs: it sees committed tenants only.
TrySlug(r) ==
    /\ pc[r] = "naming"
    /\ IF Slug(r) \in tenants
       THEN counter' = [counter EXCEPT ![r] = @ + 1] /\ UNCHANGED pc
       ELSE GoTo(r, "inserting") /\ UNCHANGED counter
    /\ UNCHANGED <<tenants, users>>

\* Transactions whose uncommitted insert makes another one of the same slug wait.
SlugWaiters(r) ==  \* mutant: locked when it was found free
    {q \in Requests \ {r} : pc[q] \in {"inserting", "hashing"} /\ Slug(q) = Slug(r)}
SlugHolders(r) == {q \in Requests \ {r} : pc[q] = "hashing" /\ Slug(q) = Slug(r)}

\* flush sends the insert and commits nothing.
VisibleAfterCommit(r) == tenants \cup {Slug(r)}  \* mutant: commit for flush
VisibleAfterFlush(r) == tenants

\* A slug that was taken since is an IntegrityError.
InsertTenant(r) ==
    /\ pc[r] = "inserting" /\ SlugHolders(r) = {}
    /\ IF Slug(r) \in tenants
       THEN GoTo(r, "failed") /\ UNCHANGED tenants
       ELSE GoTo(r, "hashing") /\ tenants' = VisibleAfterFlush(r)
    /\ UNCHANGED <<counter, users>>

\* The email is unique within a tenant, and the tenant is new.
NewUser(r) == [email |-> EmailOf[r], tenant |-> Slug(r), by |-> r]

\* The password is hashed, the user inserted, and both rows are committed.
InsertUser(r) ==
    /\ pc[r] = "hashing"
    /\ GoTo(r, "registered")
    /\ tenants' = tenants \cup {Slug(r)}
    /\ users' = users \cup {NewUser(r)}
    /\ UNCHANGED counter

\* The database fails or the server dies.
Abort(r) ==
    /\ pc[r] \in {"form", "naming", "inserting", "hashing"}
    /\ GoTo(r, "failed")
    /\ UNCHANGED <<counter, tenants, users>>

Register(r) == CheckEmail(r) \/ TrySlug(r) \/ InsertTenant(r) \/ InsertUser(r)

Next == \E r \in Requests : Register(r) \/ Abort(r)

Spec == Init /\ [][Next]_vars
FairSpec == Spec /\ \A r \in Requests : WF_vars(Register(r))

-----------------------------------------------------------------------------
(* Properties                                                              *)

\* Every variable stays in its type.
TypeOK ==
    /\ pc \in [Requests -> Steps]
    /\ counter \in [Requests -> 0 .. Cardinality(Requests)]
    /\ tenants \subseteq Slugs
    /\ users \subseteq [email : Emails, tenant : tenants, by : Requests]

\* Whatever fails in between, no tenant is left without its user, and no two companies
\* share a tenant, although one's numbered slug may be the other's base slug.
TenantsHaveOneUser ==
    \A t \in tenants : Cardinality({u \in users : u.tenant = t}) = 1

\* The loop passes over no free slug: whoever registered has the first of its company's
\* slugs that is not another tenant's, and a request that failed or lost the race for a
\* slug uses up none. (Numbers of one company may have gaps: Acme 1 takes Acme's second.)
NoSlugSkipped ==
    \A u \in users : \A n \in 0 .. Cardinality(Requests) : u.tenant = Numbered(CompanyOf[u.by], n) =>
        \A m \in 0 .. n : Numbered(CompanyOf[u.by], m) \in tenants

\* Requests that wait for each other's slug all end.
RegistrationsEnd == \A r \in Requests : <>(pc[r] \in Done)

===============================================================================
