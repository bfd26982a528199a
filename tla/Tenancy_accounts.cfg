\* Three concurrent registrations, two for one company and one email; a browser that people
\* share, with a tab that is followed and one that serves to log in, an agent and a run.
SPECIFICATION TenancyFairSpec
CONSTANTS
    q1 = q1
    q2 = q2
    q3 = q3
    e1 = e1
    e2 = e2
    acme = acme
    t1 = t1
    t2 = t2
    b1 = b1
    Requests = {q1, q2, q3}
    Emails = {e1, e2}
    EmailOf <- EmailsOfThree
    Words = {acme}
    CompanyOf <- CompaniesOfThree
    PasswordOf <- PasswordsOfThree
    Browsers = {b1}
    Tabs = {t1, t2}
    BrowserOf <- OneBrowser
    Agents = {a1}
    Runs = {x1}
    Nobody = Nobody
    NoRow = NoRow
ACTION_CONSTRAINTS
    Followed
INVARIANTS
    TenantsHaveOneUser
    NoSlugSkipped
    TenantsApart
PROPERTIES
    RegistrationsEnd
\* The people may leave.
CHECK_DEADLOCK FALSE
