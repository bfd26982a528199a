------------------------------ MODULE MCTenancy ------------------------------
(* Small instances of Tenancy for TLC: three people, two of them with the     *)
(* same email, password and company, as after a form that was sent twice; the *)
(* company of the third is called what the second one's slug would be.        *)
EXTENDS Tenancy, TLC

CONSTANTS q1, q2, q3, e1, e2, acme, t1, t2, b1

EmailsOfThree == (q1 :> e1) @@ (q2 :> e1) @@ (q3 :> e2)
CompaniesOfThree == (q1 :> <<acme>>) @@ (q2 :> <<acme>>) @@ (q3 :> <<acme, 1>>)
PasswordsOfThree == (q1 :> 1) @@ (q2 :> 1) @@ (q3 :> 2)
OneBrowser == [t \in Tabs |-> b1]

\* The steps that TLC follows. Pages see of a registration only the user it ends with: they
\* move between registrations, and a registration whenever it can. The first tab is not
\* followed while it is mixed; the second serves to log in.
Followed ==
    /\ tab' # tab \/ rows' # rows => \A r \in Requests : pc[r] \in Done \cup {"form"}
    /\ tab[t1].mixed => tab'[t1] = tab[t1] \/ ~tab'[t1].mixed
    /\ tab'[t2] \in {[Blank EXCEPT !.form = u] : u \in users \cup {Nobody}}
===============================================================================
