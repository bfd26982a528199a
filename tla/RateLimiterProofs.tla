-------------------------- MODULE RateLimiterProofs --------------------------
(***************************************************************************)
(* Proofs about RateLimiter, for any finite set of requests, any limit and *)
(* window and any number of Redis faults and raising handlers.             *)
(***************************************************************************)
EXTENDS RateLimiter, FiniteSetTheorems, TLAPS

-----------------------------------------------------------------------------
(* The key's lifetime                                                      *)

\* What the lifetime of the key depends on, with its type.
KeyInv ==
    /\ pc \in [Requests -> Steps]
    /\ count \in Nat /\ ttl \in Nat /\ faults \in Nat
    /\ KeyExpires

LEMMA InitKeyInv == Init => KeyInv
  BY DEF Init, KeyInv, KeyExpires, Steps

\* A request that moves on from any step but the one between INCR and EXPIRE leaves
\* the request that owes the key its lifetime where it is.
LEMMA OwingRequestStays ==
  ASSUME NEW r \in Requests, NEW step \in Steps, pc \in [Requests -> Steps],
         pc[r] # "first", GoTo(r, step)
  PROVE  /\ pc' \in [Requests -> Steps]
         /\ (\E q \in Requests : pc[q] = "first") => \E q \in Requests : pc'[q] = "first"
  BY DEF GoTo

LEMMA NextKeyInv == KeyInv /\ [Next]_vars => KeyInv'
  <1> SUFFICES ASSUME KeyInv, [Next]_vars PROVE KeyInv'
    OBVIOUS
  <1> USE DEF KeyInv, KeyExpires
  <1>1. CASE UNCHANGED vars
    BY <1>1 DEF vars, key
  <1>2. ASSUME NEW r \in Requests, Incr(r) PROVE KeyInv'
    <2>1. CASE FailsOpen(r)
      BY <1>2, <2>1 DEF Incr, FailsOpen, GoTo, Steps
    <2>2. CASE /\ count' = count + 1 /\ UNCHANGED faults
               /\ GoTo(r, IF count = 0 THEN "first" ELSE "counted")
      <3>1. pc[r] = "arriving" /\ ttl' = ttl
        BY <1>2 DEF Incr
      <3>2. CASE count = 0
        BY <2>2, <3>1, <3>2 DEF GoTo, Steps
      <3>3. CASE count # 0
        BY <2>2, <3>1, <3>3, OwingRequestStays DEF Steps
      <3> QED BY <3>2, <3>3
    <2> QED BY <1>2, <2>1, <2>2 DEF Incr
  <1>3. ASSUME NEW r \in Requests, Expire(r) PROVE KeyInv'
    BY <1>3, LimitAssumption DEF Expire, FailsOpen, GoTo, Lifetime, Steps
  <1>4. ASSUME NEW r \in Requests, Decide(r) PROVE KeyInv'
    <2>1. CASE FailsOpen(r)
      BY <1>4, <2>1 DEF Decide, FailsOpen, GoTo, Steps, key
    <2>2. CASE GoTo(r, IF Exceeds(current[r]) THEN "rejected" ELSE "app") /\ UNCHANGED faults
      BY <1>4, <2>2, OwingRequestStays DEF Decide, Steps, key
    <2> QED BY <1>4, <2>1, <2>2 DEF Decide
  <1>5. ASSUME NEW r \in Requests, Application(r) PROVE KeyInv'
    BY <1>5, OwingRequestStays DEF Application, AfterAnswer, Steps, key
  <1>6. ASSUME NEW r \in Requests, ApplicationOpen(r) PROVE KeyInv'
    BY <1>6, OwingRequestStays DEF ApplicationOpen, Steps, key
  <1>7. CASE Tick
    BY <1>7 DEF Tick, key
  <1> QED BY <1>1, <1>2, <1>3, <1>4, <1>5, <1>6, <1>7 DEF Next, Dispatch

\* However the INCR and EXPIRE calls of any number of requests interleave, a counting
\* key without a lifetime is about to get one, unless a call to Redis failed.
THEOREM ClientsComeBack == Spec => []KeyExpires
  <1>1. KeyInv => KeyExpires
    BY DEF KeyInv
  <1> QED BY <1>1, InitKeyInv, NextKeyInv, PTL DEF Spec

-----------------------------------------------------------------------------
(* Repeated requests                                                       *)

\* The requests handed over twice, and those about to be.
Repeats == {r \in Requests : calls[r] > 1 \/ (calls[r] = 1 /\ pc[r] = "open")}

\* A request that has not reached the application was never handed over, and one the
\* except clause will hand over was handed over at most once; each repetition, done
\* or due, is paid for by a handler that raised.
CallsInv ==
    /\ pc \in [Requests -> Steps] /\ calls \in [Requests -> Nat]
    /\ \A r \in Requests :
        /\ pc[r] \notin {"open", "answered"} => calls[r] = 0
        /\ pc[r] = "open" => calls[r] <= 1
    /\ appErrors \in Nat
    /\ Cardinality(Repeats) <= appErrors

LEMMA InitCallsInv == Init => CallsInv
  <1> SUFFICES ASSUME Init PROVE CallsInv
    OBVIOUS
  <1>1. Repeats = {}
    BY DEF Init, Repeats
  <1> QED BY <1>1, FS_EmptySet DEF Init, CallsInv, Steps

\* A step that neither calls the application nor leaves the states before it changes
\* no repetition.
LEMMA NoNewRepeat ==
  ASSUME CallsInv, NEW r \in Requests, NEW step \in Steps \ {"answered"},
         pc[r] \notin {"open", "answered"}, GoTo(r, step), UNCHANGED <<calls, appErrors>>
  PROVE  CallsInv'
  <1>1. Repeats' = Repeats
    BY DEF CallsInv, Repeats, GoTo
  <1> QED BY <1>1 DEF CallsInv, GoTo

LEMMA NextCallsInv == CallsInv /\ [Next]_vars => CallsInv'
  <1> SUFFICES ASSUME CallsInv, [Next]_vars PROVE CallsInv'
    OBVIOUS
  <1>1. CASE UNCHANGED vars
    BY <1>1 DEF vars, CallsInv, Repeats
  <1>2. ASSUME NEW r \in Requests, Incr(r) PROVE CallsInv'
    BY <1>2, NoNewRepeat DEF Incr, FailsOpen, Steps
  <1>3. ASSUME NEW r \in Requests, Expire(r) PROVE CallsInv'
    BY <1>3, NoNewRepeat DEF Expire, FailsOpen, Steps
  <1>4. ASSUME NEW r \in Requests, Decide(r) PROVE CallsInv'
    BY <1>4, NoNewRepeat DEF Decide, FailsOpen, Steps
  <1>5. ASSUME NEW r \in Requests, Application(r) PROVE CallsInv'
    <2>1. calls[r] = 0 /\ calls' = [calls EXCEPT ![r] = 1]
      <3>1. calls[r] = 0
        BY <1>5 DEF Application, CallsInv
      <3>2. calls' = [calls EXCEPT ![r] = calls[r] + 1]
        BY <1>5 DEF Application, Called
      <3> QED BY <3>1, <3>2
    <2>2. CASE GoTo(r, "answered") /\ UNCHANGED appErrors
      <3>1. Repeats' = Repeats
        BY <1>5, <2>1, <2>2 DEF Application, Repeats, GoTo, CallsInv
      <3> QED BY <2>1, <2>2, <3>1 DEF CallsInv, GoTo, Steps
    <2>3. CASE appErrors' = appErrors + 1 /\ GoTo(r, "open")
      <3>1. Repeats' = Repeats \cup {r}
        BY <1>5, <2>1, <2>3 DEF Application, Repeats, GoTo, CallsInv
      <3>2. IsFiniteSet(Repeats)
        BY RequestsAssumption, FS_Subset DEF Repeats
      <3>3. /\ Cardinality(Repeats) \in Nat /\ Cardinality(Repeats') \in Nat
            /\ Cardinality(Repeats') <= Cardinality(Repeats) + 1
        <4>1. /\ IsFiniteSet(Repeats \cup {r})
              /\ Cardinality(Repeats \cup {r}) =
                  IF r \in Repeats THEN Cardinality(Repeats) ELSE Cardinality(Repeats) + 1
          BY <3>2, FS_AddElement
        <4>2. Cardinality(Repeats) \in Nat
          BY <3>2, FS_CardinalityType
        <4> QED BY <3>1, <4>1, <4>2
      <3>4. Cardinality(Repeats') <= appErrors'
        BY <2>3, <3>3 DEF CallsInv
      <3>5. calls' \in [Requests -> Nat] /\ pc' \in [Requests -> Steps] /\ appErrors' \in Nat
        BY <2>1, <2>3 DEF CallsInv, GoTo, Steps
      <3>6. ASSUME NEW q \in Requests
            PROVE  /\ pc'[q] \notin {"open", "answered"} => calls'[q] = 0
                   /\ pc'[q] = "open" => calls'[q] <= 1
        BY <2>1, <2>3 DEF CallsInv, GoTo
      <3> QED BY <3>4, <3>5, <3>6 DEF CallsInv
    <2> QED BY <1>5, <2>2, <2>3 DEF Application, AfterAnswer
  <1>6. ASSUME NEW r \in Requests, ApplicationOpen(r) PROVE CallsInv'
    <2>1. Repeats' = Repeats
      BY <1>6 DEF ApplicationOpen, Called, Repeats, GoTo, CallsInv
    <2> QED BY <1>6, <2>1 DEF ApplicationOpen, Called, CallsInv, GoTo, Steps
  <1>7. CASE Tick
    BY <1>7 DEF Tick, CallsInv, Repeats
  <1> QED BY <1>1, <1>2, <1>3, <1>4, <1>5, <1>6, <1>7 DEF Next, Dispatch

\* The middleware hands a request to the application a second time only for a handler
\* that raised: the exceptions of its own Redis calls never repeat one.
THEOREM OneCallPerRequest == Spec => []RepeatedOnlyAfterError
  <1>1. CallsInv => RepeatedOnlyAfterError
    <2> SUFFICES ASSUME CallsInv PROVE RepeatedOnlyAfterError
      OBVIOUS
    <2> DEFINE Twice == {r \in Requests : calls[r] > 1}
    <2>1. IsFiniteSet(Repeats) /\ Twice \in SUBSET Repeats
      BY RequestsAssumption, FS_Subset DEF Repeats
    <2>2. /\ Cardinality(Twice) <= Cardinality(Repeats)
          /\ Cardinality(Twice) \in Nat /\ Cardinality(Repeats) \in Nat
      BY <2>1, FS_Subset, FS_CardinalityType
    <2> QED BY <2>2 DEF CallsInv, RepeatedOnlyAfterError
  <1> QED BY <1>1, InitCallsInv, NextCallsInv, PTL DEF Spec

-----------------------------------------------------------------------------
(* Bursts                                                                  *)

\* The places the limit grants on one key.
Places == 1 .. MaxRequests
OnKey == {r \in Recent : current[r] \in Places /\ r \in keyed}
OffKey == {r \in Recent : current[r] \in Places /\ r \notin keyed}
LetThrough == {r \in Recent : current[r] \notin Places}

BurstTyped ==
    /\ pc \in [Requests -> Steps] /\ current \in [Requests -> Nat]
    /\ count \in Nat /\ ttl \in 0 .. Window /\ faults \in Nat
    /\ age \in [Requests -> 0 .. Window] /\ keyed \subseteq Requests

\* INCR answers each request of a key with another number, and the first of them
\* is alone between INCR and EXPIRE.
Numbered ==
    /\ \A r \in keyed : current[r] \in 1 .. count
    /\ \A q, r \in keyed : current[q] = current[r] => q = r
    /\ ttl > 0 => count > 0
    /\ \A r \in Requests :
        /\ pc[r] = "arriving" => r \notin keyed /\ current[r] = 0 /\ age[r] = Window
        /\ pc[r] = "first" => r \in keyed /\ current[r] = 1 /\ ttl = 0

\* Since the EXPIRE of the key Window - ttl ticks have passed, and whoever was admitted
\* on an earlier key, or as the first on this one, was admitted before it.
Aged ==
    ttl > 0 => \A r \in Requests :
        current[r] \in Places /\ (r \in keyed => current[r] = 1) => age[r] >= Window - ttl

\* The last key leaves one place less than the limit, and each request that was let
\* through cost a fault.
BurstInv ==
    /\ BurstTyped /\ Numbered /\ Aged
    /\ Cardinality(OffKey) < MaxRequests
    /\ Cardinality(LetThrough) <= faults

LEMMA Sizes ==
  ASSUME NEW T, T \subseteq Requests, NEW S, S \subseteq T
  PROVE  /\ IsFiniteSet(S) /\ IsFiniteSet(T)
         /\ Cardinality(S) \in Nat /\ Cardinality(T) \in Nat /\ Cardinality(S) <= Cardinality(T)
  BY RequestsAssumption, FS_Subset, FS_CardinalityType

LEMMA OneMore ==
  ASSUME NEW S, S \subseteq Requests, NEW r \in Requests, NEW T, T \subseteq S \cup {r}
  PROVE  Cardinality(T) <= Cardinality(S) + 1
  <1>1. IsFiniteSet(S) /\ Cardinality(S) \in Nat
    BY Sizes
  <1>2. Cardinality(S \cup {r}) = IF r \in S THEN Cardinality(S) ELSE Cardinality(S) + 1
    BY <1>1, FS_AddElement
  <1>3. Cardinality(T) <= Cardinality(S \cup {r}) /\ Cardinality(T) \in Nat
    <2>1. S \cup {r} \subseteq Requests
      OBVIOUS
    <2> QED BY <2>1, Sizes
  <1> QED BY <1>1, <1>2, <1>3

LEMMA Apart ==
  ASSUME NEW S, NEW T, IsFiniteSet(S), IsFiniteSet(T), S \cap T = {}
  PROVE  /\ IsFiniteSet(S \cup T)
         /\ Cardinality(S \cup T) = Cardinality(S) + Cardinality(T)
  <1>1. Cardinality(S \cap T) = 0
    BY FS_EmptySet
  <1>2. Cardinality(S) \in Nat /\ Cardinality(T) \in Nat
    BY FS_CardinalityType
  <1>3. /\ IsFiniteSet(S \cup T)
        /\ Cardinality(S \cup T) = Cardinality(S) + Cardinality(T) - Cardinality(S \cap T)
    BY FS_Union
  <1> QED BY <1>1, <1>2, <1>3

\* Requests with different numbers out of an interval are no more than it has.
LEMMA Numbers ==
  ASSUME NEW S, NEW f, NEW first \in Nat, NEW last \in Nat, first <= last + 1,
         \A r \in S : f[r] \in first .. last,
         \A q, r \in S : f[q] = f[r] => q = r
  PROVE  Cardinality(S) <= last - first + 1
  <1> DEFINE g == [r \in S |-> f[r]]
  <1>1. g \in Injection(S, first .. last)
    BY DEF Injection, IsInjective
  <1>2. IsFiniteSet(first .. last) /\ Cardinality(first .. last) = last - first + 1
    BY FS_Interval
  <1> QED BY <1>1, <1>2, FS_Injection

LEMMA InitBurst == Init => BurstInv
  <1> SUFFICES ASSUME Init PROVE BurstInv
    OBVIOUS
  <1>1. OffKey = {} /\ LetThrough = {}
    BY LimitAssumption DEF Init, OffKey, LetThrough, Recent
  <1>2. Cardinality(OffKey) < MaxRequests /\ Cardinality(LetThrough) <= faults
    BY <1>1, FS_EmptySet, LimitAssumption DEF Init
  <1>3. BurstTyped /\ Numbered /\ Aged
    BY LimitAssumption DEF Init, BurstTyped, Numbered, Aged, Steps
  <1> QED BY <1>2, <1>3 DEF BurstInv

\* No request joins those of earlier keys, and one that is let through costs a fault.
LEMMA BurstCounts ==
  ASSUME BurstInv, BurstTyped', OffKey' \subseteq OffKey,
         \/ LetThrough' \subseteq LetThrough /\ faults' >= faults
         \/ \E r \in Requests : LetThrough' \subseteq LetThrough \cup {r} /\ faults' = faults + 1
  PROVE  Cardinality(OffKey') < MaxRequests /\ Cardinality(LetThrough') <= faults'
  <1>1. OffKey \subseteq Requests /\ LetThrough \subseteq Requests /\ LetThrough' \subseteq Requests
    BY DEF OffKey, LetThrough, Recent
  <1>2. Cardinality(OffKey') <= Cardinality(OffKey) /\ Cardinality(OffKey') \in Nat /\ Cardinality(OffKey) \in Nat
    BY <1>1, Sizes
  <1>3. /\ Cardinality(LetThrough) \in Nat /\ Cardinality(LetThrough') \in Nat
        /\ faults \in Nat /\ faults' \in Nat /\ Cardinality(LetThrough) <= faults
    BY <1>1, Sizes DEF BurstInv, BurstTyped
  <1>4. CASE LetThrough' \subseteq LetThrough /\ faults' >= faults
    <2>1. Cardinality(LetThrough') <= Cardinality(LetThrough)
      BY <1>1, <1>4, Sizes
    <2> QED BY <1>2, <1>3, <1>4, <2>1, LimitAssumption DEF BurstInv
  <1>5. ASSUME NEW r \in Requests, LetThrough' \subseteq LetThrough \cup {r}, faults' = faults + 1
        PROVE  Cardinality(OffKey') < MaxRequests /\ Cardinality(LetThrough') <= faults'
    <2>1. Cardinality(LetThrough') <= Cardinality(LetThrough) + 1
      BY <1>1, <1>5, OneMore
    <2> QED BY <1>2, <1>3, <1>5, <2>1, LimitAssumption DEF BurstInv
  <1> QED BY <1>4, <1>5

\* The except clause: what it does to everything but the key.
LEMMA LetThroughStep ==
  ASSUME BurstInv, NEW r \in Requests, FailsOpen(r), pc[r] \in {"arriving", "first", "counted"},
         UNCHANGED <<current, keyed>>, count' \in {count, count + 1},
         \/ ttl' = ttl
         \/ pc[r] = "first" /\ ttl' = Lifetime(count) /\ count' = count
  PROVE  BurstInv'
  <1> USE LimitAssumption DEF FailsOpen, GoTo, Exceeds, Admit, Steps, Lifetime, Places
  <1>1. BurstTyped'
    BY DEF BurstInv, BurstTyped
  <1>2. Numbered'
    BY DEF BurstInv, BurstTyped, Numbered
  <1>3. \A q \in Requests : current[q] \in Places => age'[q] = age[q] \/ (q = r /\ pc[r] = "arriving")
    BY DEF BurstInv, BurstTyped
  <1>4. \A q \in Requests : current[q] \in Places => age'[q] = age[q]
    BY <1>3 DEF BurstInv, Numbered
  <1>5. Aged'
    BY <1>1, <1>4 DEF BurstInv, BurstTyped, Aged
  <1>6. OffKey' \subseteq OffKey
    BY <1>4 DEF OffKey, Recent
  <1>7. LetThrough' \subseteq LetThrough \cup {r} /\ faults' = faults + 1
    BY DEF LetThrough, Recent, BurstInv, BurstTyped
  <1> QED BY <1>1, <1>2, <1>5, <1>6, <1>7, BurstCounts DEF BurstInv

LEMMA IncrStep == ASSUME BurstInv, NEW r \in Requests, Incr(r) PROVE BurstInv'
  <1>1. CASE FailsOpen(r)
    <2>1. pc[r] = "arriving" /\ UNCHANGED <<current, keyed, ttl>> /\ count' \in {count, count + 1}
      BY <1>1 DEF Incr, FailsOpen, BurstInv, BurstTyped
    <2> QED BY <1>1, <2>1, LetThroughStep
  <1>2. CASE ~ FailsOpen(r)
    <2>1. /\ pc[r] = "arriving" /\ count' = count + 1 /\ ttl' = ttl /\ faults' = faults
          /\ current' = [current EXCEPT ![r] = count + 1] /\ keyed' = keyed \cup {r}
          /\ pc' = [pc EXCEPT ![r] = IF count = 0 THEN "first" ELSE "counted"]
          /\ IF count + 1 > MaxRequests THEN age' = age ELSE age' = [age EXCEPT ![r] = 0]
      BY <1>2 DEF Incr, GoTo, Exceeds, Admit
    <2> USE LimitAssumption DEF Places
    <2>2. BurstTyped /\ Numbered /\ Aged /\ r \notin keyed /\ current[r] = 0 /\ age[r] = Window
      BY <2>1 DEF BurstInv, Numbered
    <2>3. BurstTyped'
      BY <2>1, <2>2 DEF BurstTyped, Steps
    <2>4. Numbered'
      <3>1. count = 0 => ttl = 0
        BY <2>2 DEF BurstTyped, Numbered
      <3>2. \A q \in keyed' : current'[q] \in 1 .. count'
        BY <2>1, <2>2 DEF BurstTyped, Numbered
      <3>3. \A q, p \in keyed' : current'[q] = current'[p] => q = p
        BY <2>1, <2>2 DEF BurstTyped, Numbered
      <3>4. ttl' > 0 => count' > 0
        BY <2>1, <2>2 DEF BurstTyped, Numbered
      <3>5. ASSUME NEW q \in Requests
            PROVE  /\ pc'[q] = "arriving" => q \notin keyed' /\ current'[q] = 0 /\ age'[q] = Window
                   /\ pc'[q] = "first" => q \in keyed' /\ current'[q] = 1 /\ ttl' = 0
        BY <2>1, <2>2, <3>1 DEF BurstTyped, Numbered
      <3> QED BY <3>2, <3>3, <3>4, <3>5 DEF Numbered
    <2>5. Aged'
      <3> SUFFICES ASSUME ttl' > 0, NEW q \in Requests, current'[q] \in Places, q \in keyed' => current'[q] = 1
                   PROVE  age'[q] >= Window - ttl'
        BY DEF Aged
      <3>1. q # r
        BY <2>1, <2>2 DEF BurstTyped, Numbered
      <3> QED BY <2>1, <2>2, <3>1 DEF BurstTyped, Aged
    <2>6. OffKey' \subseteq OffKey
      BY <2>1, <2>2 DEF OffKey, Recent, BurstTyped
    <2>7. LetThrough' \subseteq LetThrough
      BY <2>1, <2>2 DEF LetThrough, Recent, BurstTyped
    <2> QED BY <2>1, <2>2, <2>3, <2>4, <2>5, <2>6, <2>7, BurstCounts DEF BurstInv, BurstTyped
  <1> QED BY <1>1, <1>2

LEMMA ExpireStep == ASSUME BurstInv, NEW r \in Requests, Expire(r) PROVE BurstInv'
  <1>1. CASE FailsOpen(r)
    BY <1>1, LetThroughStep DEF Expire
  <1>2. CASE ~ FailsOpen(r)
    <2>1. /\ pc[r] = "first" /\ ttl' = Lifetime(count) /\ pc' = [pc EXCEPT ![r] = "counted"]
          /\ UNCHANGED <<age, faults, current, count, keyed>>
      BY <1>2 DEF Expire, GoTo
    <2> USE LimitAssumption DEF Places, Lifetime
    <2>2. BurstTyped /\ Numbered /\ Aged
      BY DEF BurstInv
    <2>3. BurstTyped'
      BY <2>1, <2>2 DEF BurstTyped, Steps
    <2>4. Numbered'
      BY <2>1, <2>2 DEF BurstTyped, Numbered
    <2>5. Aged'
      BY <2>1, <2>2 DEF BurstTyped, Aged
    <2>6. OffKey' \subseteq OffKey /\ LetThrough' \subseteq LetThrough
      BY <2>1 DEF OffKey, LetThrough, Recent
    <2> QED BY <2>1, <2>2, <2>3, <2>4, <2>5, <2>6, BurstCounts DEF BurstInv, BurstTyped
  <1> QED BY <1>1, <1>2

\* The decision and the calls of the application leave the key and the history alone.
LEMMA DecidedStep ==
  ASSUME BurstInv, NEW r \in Requests, NEW step \in Steps \ {"arriving", "first"}, GoTo(r, step),
         UNCHANGED <<current, key, age, faults>>
  PROVE  BurstInv'
  <1> USE DEF key, GoTo
  <1>1. BurstTyped' /\ Numbered' /\ Aged'
    BY DEF BurstInv, BurstTyped, Numbered, Aged
  <1>2. OffKey' \subseteq OffKey /\ LetThrough' \subseteq LetThrough
    BY DEF OffKey, LetThrough, Recent
  <1> QED BY <1>1, <1>2, BurstCounts DEF BurstInv, BurstTyped

\* When the key expires, those it admitted become those of the last key; its first
\* request was admitted a window ago.
LEMMA TickStep == ASSUME BurstInv, Tick PROVE BurstInv'
  <1> USE LimitAssumption DEF Places
  <1>1. BurstTyped /\ Numbered /\ Aged
    BY DEF BurstInv
  <1>2. /\ age' = [r \in Requests |-> IF age[r] < Window THEN age[r] + 1 ELSE age[r]]
        /\ UNCHANGED <<pc, current, faults>>
    BY DEF Tick, Recent
  <1>3. \/ ttl = 1 /\ count' = 0 /\ ttl' = 0 /\ keyed' = {}
        \/ ttl > 1 /\ ttl' = ttl - 1 /\ UNCHANGED <<count, keyed>>
        \/ ttl = 0 /\ UNCHANGED <<count, ttl, keyed>>
    BY DEF Tick, key
  <1>4. BurstTyped'
    BY <1>1, <1>2, <1>3 DEF BurstTyped
  <1>5. Numbered'
    BY <1>1, <1>2, <1>3 DEF BurstTyped, Numbered
  <1>6. Aged'
    BY <1>1, <1>2, <1>3 DEF BurstTyped, Aged
  <1>7. Recent' \subseteq Recent /\ LetThrough' \subseteq LetThrough
    BY <1>1, <1>2 DEF BurstTyped, LetThrough, Recent
  <1>8. CASE keyed' = keyed
    <2>1. OffKey' \subseteq OffKey
      BY <1>2, <1>7, <1>8 DEF OffKey
    <2> QED BY <1>1, <1>2, <1>4, <1>5, <1>6, <1>7, <2>1, BurstCounts DEF BurstInv, BurstTyped
  <1>9. CASE ttl = 1 /\ keyed' = {}
    <2>1. \A r \in OffKey' : r \in keyed /\ current[r] \in 2 .. MaxRequests
      BY <1>1, <1>2, <1>9 DEF BurstTyped, Aged, OffKey, Recent
    <2>2. Cardinality(OffKey') <= MaxRequests - 2 + 1
      <3>1. OffKey' \subseteq Requests
        BY DEF OffKey, Recent
      <3>2. \A q, r \in OffKey' : current[q] = current[r] => q = r
        BY <1>1, <2>1 DEF Numbered
      <3>3. \A r \in OffKey' : current[r] \in 2 .. MaxRequests
        BY <2>1
      <3>4. 2 \in Nat /\ MaxRequests \in Nat /\ 2 <= MaxRequests + 1
        OBVIOUS
      <3> HIDE LimitAssumption
      <3> QED BY <3>2, <3>3, <3>4, Numbers
    <2>3. Cardinality(OffKey') < MaxRequests
      <3>1. Cardinality(OffKey') \in Nat
        BY Sizes DEF OffKey, Recent
      <3> QED BY <2>2, <3>1
    <2>4. Cardinality(LetThrough') <= Cardinality(LetThrough) /\ Cardinality(LetThrough') \in Nat
           /\ Cardinality(LetThrough) \in Nat
      BY <1>7, Sizes DEF LetThrough, Recent
    <2>5. Cardinality(LetThrough') <= faults'
      BY <1>1, <1>2, <2>4 DEF BurstInv, BurstTyped
    <2> QED BY <1>4, <1>5, <1>6, <2>3, <2>5 DEF BurstInv
  <1> QED BY <1>3, <1>8, <1>9

LEMMA NextBurst == BurstInv /\ [Next]_vars => BurstInv'
  <1> SUFFICES ASSUME BurstInv, [Next]_vars PROVE BurstInv'
    OBVIOUS
  <1>1. ASSUME NEW r \in Requests, Decide(r) PROVE BurstInv'
    <2>1. CASE FailsOpen(r)
      BY <1>1, <2>1, LetThroughStep DEF Decide, key, BurstInv, BurstTyped
    <2>2. CASE ~ FailsOpen(r)
      BY <1>1, <2>2, DecidedStep DEF Decide, Steps
    <2> QED BY <2>1, <2>2
  <1>2. ASSUME NEW r \in Requests, Application(r) \/ ApplicationOpen(r) PROVE BurstInv'
    BY <1>2, DecidedStep DEF Application, ApplicationOpen, AfterAnswer, Steps
  <1>3. CASE UNCHANGED vars
    BY <1>3 DEF vars, key, BurstInv, BurstTyped, Numbered, Aged, OffKey, LetThrough, Recent
  <1> QED BY <1>1, <1>2, <1>3, IncrStep, ExpireStep, TickStep DEF Next, Dispatch

\* A client can spend its limit at the end of one window and again at the start of the
\* next, and no more: in the time of a window fewer than twice the limit are admitted,
\* besides one per call to Redis that raised, for any limit, window and interleaving.
THEOREM BurstsBounded == Spec => []BurstBounded
  <1>1. BurstInv => BurstBounded
    <2> SUFFICES ASSUME BurstInv PROVE BurstBounded
      OBVIOUS
    <2>1. OnKey \subseteq Requests /\ OffKey \subseteq Requests /\ LetThrough \subseteq Requests
      BY DEF OnKey, OffKey, LetThrough, Recent
    <2>2. /\ Cardinality(OnKey) \in Nat /\ Cardinality(OffKey) \in Nat /\ Cardinality(LetThrough) \in Nat
          /\ IsFiniteSet(OnKey) /\ IsFiniteSet(OffKey) /\ IsFiniteSet(LetThrough)
      BY <2>1, Sizes
    <2>3. Cardinality(OnKey) <= MaxRequests - 1 + 1
      <3>1. \A q, r \in OnKey : current[q] = current[r] => q = r
        BY DEF OnKey, BurstInv, Numbered
      <3>2. \A r \in OnKey : current[r] \in 1 .. MaxRequests
        BY DEF OnKey, Places
      <3> QED BY <2>1, <3>1, <3>2, Numbers, LimitAssumption
    <2>4. Cardinality(OnKey \cup OffKey) = Cardinality(OnKey) + Cardinality(OffKey)
      <3>1. OnKey \cap OffKey = {}
        BY DEF OnKey, OffKey
      <3> QED BY <2>2, <3>1, Apart
    <2>5. Cardinality((OnKey \cup OffKey) \cup LetThrough) = Cardinality(OnKey \cup OffKey) + Cardinality(LetThrough)
      <3>1. (OnKey \cup OffKey) \cap LetThrough = {} /\ IsFiniteSet(OnKey \cup OffKey)
        BY <2>1, <2>2, Sizes DEF OnKey, OffKey, LetThrough
      <3> QED BY <2>2, <3>1, Apart
    <2>6. Recent = (OnKey \cup OffKey) \cup LetThrough
      BY DEF Recent, OnKey, OffKey, LetThrough
    <2>7. Cardinality(Recent) = Cardinality(OnKey) + Cardinality(OffKey) + Cardinality(LetThrough)
      BY <2>4, <2>5, <2>6
    <2> QED BY <2>2, <2>3, <2>7, LimitAssumption DEF BurstInv, BurstTyped, BurstBounded
  <1> QED BY <1>1, InitBurst, NextBurst, PTL DEF Spec
===============================================================================
