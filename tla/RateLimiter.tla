------------------------------ MODULE RateLimiter ------------------------------
(***************************************************************************)
(* RateLimitMiddleware (core/rate_limit.py) for the requests of one client *)
(* in one tier, that is for one Redis key. A request counts itself with    *)
(* INCR, gives a new key its lifetime with EXPIRE, reads the lifetime with *)
(* TTL, and is rejected or handed to the application. The three calls are  *)
(* separate and other requests come in between. Any exception on the way,  *)
(* the application's own ones too, ends in the same except clause, which   *)
(* hands the request to the application.                                   *)
(***************************************************************************)
EXTENDS Integers, FiniteSets

CONSTANTS
    Requests,
    MaxRequests,   \* max_requests
    Window,        \* window_seconds, in clock ticks
    MaxFaults,     \* bound: Redis calls that fail
    MaxAppErrors   \* bound: requests whose handler raises

ASSUME RequestsAssumption == IsFiniteSet(Requests)
ASSUME LimitAssumption == MaxRequests \in Nat \ {0} /\ Window \in Nat \ {0}
ASSUME BoundsAssumption == MaxFaults \in Nat /\ MaxAppErrors \in Nat

VARIABLES
    pc,         \* where dispatch of each request is
    current,    \* what its INCR returned
    count,      \* the key's value, 0 if it does not exist
    ttl,        \* ticks until the key expires, 0 if none is set
    calls,      \* how often the request was handed to the application
    age,        \* history: ticks since each request was admitted, Window if it was not
                \* or if a window has passed since
    keyed,      \* history: the requests that INCR counted on the present key
    faults, appErrors

key == <<count, ttl, keyed>>
vars == <<pc, current, key, calls, age, faults, appErrors>>

Steps == {"arriving", "first", "counted", "app", "open", "answered", "rejected"}
Done == {"answered", "rejected"}

Init ==
    /\ pc = [r \in Requests |-> "arriving"]
    /\ current = [r \in Requests |-> 0] /\ calls = [r \in Requests |-> 0]
    /\ count = 0 /\ ttl = 0 /\ keyed = {}
    /\ age = [r \in Requests |-> Window]
    /\ faults = 0 /\ appErrors = 0

GoTo(r, step) == pc' = [pc EXCEPT ![r] = step]
Admit(r) == age' = [age EXCEPT ![r] = 0]

ExceedsLate(n) == n > MaxRequests + 1  \* mutant: one request too many
Exceeds(n) == n > MaxRequests

\* The except clause: the request is let through. Redis may have executed the command
\* whose answer was lost.
FailsOpen(r) ==
    /\ faults < MaxFaults /\ faults' = faults + 1
    /\ GoTo(r, "open")
    /\ IF pc[r] = "arriving" \/ Exceeds(current[r]) THEN Admit(r) ELSE UNCHANGED age

Incr(r) ==
    /\ pc[r] = "arriving"
    /\ \/ /\ count' = count + 1
          /\ current' = [current EXCEPT ![r] = count + 1]
          /\ GoTo(r, IF count = 0 THEN "first" ELSE "counted")
          /\ IF Exceeds(count + 1) THEN UNCHANGED age ELSE Admit(r)
          /\ keyed' = keyed \cup {r}
          /\ UNCHANGED faults
       \/ FailsOpen(r) /\ count' \in {count, count + 1} /\ UNCHANGED <<current, keyed>>
    /\ UNCHANGED <<ttl, calls, appErrors>>

ExpireNever(n) == 0  \* mutant: no lifetime
Lifetime(n) == IF n > 0 THEN Window ELSE 0

Expire(r) ==
    /\ pc[r] = "first"
    /\ \/ ttl' = Lifetime(count) /\ GoTo(r, "counted") /\ UNCHANGED <<age, faults>>
       \/ FailsOpen(r) /\ ttl' \in {ttl, Lifetime(count)}
    /\ UNCHANGED <<current, count, keyed, calls, appErrors>>

\* TTL, only reported to the client, and the decision.
Decide(r) ==
    /\ pc[r] = "counted"
    /\ \/ /\ GoTo(r, IF Exceeds(current[r]) THEN "rejected" ELSE "app")
          /\ UNCHANGED <<age, faults>>
       \/ FailsOpen(r)
    /\ UNCHANGED <<current, key, calls, appErrors>>

Called(r) == calls' = [calls EXCEPT ![r] = @ + 1]

NoReturn == "open"  \* mutant: the try block falls through to the second call
AfterAnswer == "answered"

\* call_next in the try block.
Application(r) ==
    /\ pc[r] = "app"
    /\ Called(r)
    /\ \/ GoTo(r, AfterAnswer) /\ UNCHANGED appErrors
       \/ appErrors < MaxAppErrors /\ appErrors' = appErrors + 1 /\ GoTo(r, "open")
    /\ UNCHANGED <<current, key, age, faults>>

\* call_next in the except clause: whatever it does is the answer.
ApplicationOpen(r) ==
    /\ pc[r] = "open"
    /\ Called(r)
    /\ GoTo(r, "answered")
    /\ UNCHANGED <<current, key, age, faults, appErrors>>

\* Requests admitted in the last Window ticks.
Recent == {r \in Requests : age[r] < Window}

Tick ==
    /\ ttl > 0 \/ Recent # {}
    /\ age' = [r \in Requests |-> IF r \in Recent THEN age[r] + 1 ELSE age[r]]
    /\ \/ ttl = 1 /\ count' = 0 /\ ttl' = 0 /\ keyed' = {}
       \/ ttl > 1 /\ ttl' = ttl - 1 /\ UNCHANGED <<count, keyed>>
       \/ ttl = 0 /\ UNCHANGED key
    /\ UNCHANGED <<pc, current, calls, faults, appErrors>>

Dispatch(r) == Incr(r) \/ Expire(r) \/ Decide(r) \/ Application(r) \/ ApplicationOpen(r)

Next == (\E r \in Requests : Dispatch(r)) \/ Tick

Spec == Init /\ [][Next]_vars

-----------------------------------------------------------------------------
(* Properties                                                              *)

\* Every variable stays in its type.
TypeOK ==
    /\ pc \in [Requests -> Steps]
    /\ current \in [Requests -> 0 .. Cardinality(Requests)] /\ calls \in [Requests -> 0 .. 2]
    /\ count \in 0 .. Cardinality(Requests) /\ ttl \in 0 .. Window
    /\ age \in [Requests -> 0 .. Window] /\ keyed \subseteq Requests
    /\ faults \in 0 .. MaxFaults /\ appErrors \in 0 .. MaxAppErrors

\* A burst over the end of a window admits fewer than twice the limit in the time of
\* one window, whatever the order of INCR and EXPIRE; a Redis error adds one request.
BurstBounded == Cardinality(Recent) < 2 * MaxRequests + faults

\* The application sees a request at most once, unless it raised the first time: the
\* errors of Redis come before it.
RepeatedOnlyAfterError == Cardinality({r \in Requests : calls[r] > 1}) <= appErrors

\* A client over its limit may come back: at any moment the key has a lifetime or a
\* request that will give it one, unless a call to Redis failed. INCR and EXPIRE are
\* not atomic, and the key may expire and be made again between any two calls. The API
\* process does not die here: dying between the two, it leaves the key without a lifetime
\* for good, as an EXPIRE that fails does (rate_limit.py:94-98).
KeyExpires == count > 0 /\ ttl = 0 => faults > 0 \/ \E r \in Requests : pc[r] = "first"

===============================================================================
