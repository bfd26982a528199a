--------------------------- MODULE EventStreamProofs ---------------------------
(***************************************************************************)
(* The events of a run and one viewer, for any number of events, any bound *)
(* of the replay list and any number of dropped connections and faults:    *)
(* the list keeps the newest, the viewer misses what is excused and no     *)
(* more, and the stream implements StreamContract.                         *)
(***************************************************************************)
EXTENDS EventStream, FiniteSetTheorems, WellFoundedInduction, TLAPS

-----------------------------------------------------------------------------
(* Sequences                                                               *)

LEMMA SeqsAreNumbers == MaxSeq \in Nat \ {0} /\ \A n \in Seqs : n \in Nat /\ n > 0
  BY MaxNodesAssumption DEF Seqs, MaxSeq

LEMMA Elements ==
  ASSUME NEW s \in Seq(Seqs)
  PROVE  /\ Len(s) \in Nat /\ DOMAIN s = 1 .. Len(s)
         /\ \A k \in DOMAIN s : s[k] \in Seqs /\ s[k] \in Nat /\ s[k] > 0
  BY SeqsAreNumbers

LEMMA Appended ==
  ASSUME NEW S, NEW s \in Seq(S), NEW x \in S
  PROVE  /\ Append(s, x) \in Seq(S) /\ Len(Append(s, x)) = Len(s) + 1
         /\ \A k \in 1 .. Len(s) : Append(s, x)[k] = s[k]
         /\ Append(s, x)[Len(s) + 1] = x
         /\ ToSet(Append(s, x)) = ToSet(s) \cup {x}
  BY DEF ToSet

LEMMA AppendedInOrder ==
  ASSUME NEW s \in Seq(Seqs), NEW x \in Seqs, Increasing(s), \A k \in DOMAIN s : s[k] < x
  PROVE  Increasing(Append(s, x))
  BY Appended DEF Increasing

\* What LTRIM leaves is the end of the list.
LEMMA Trimmed ==
  ASSUME NEW s \in Seq(Seqs), s # <<>>, Increasing(s)
  PROVE  /\ Trim(s) \in Seq(Seqs) /\ Len(Trim(s)) <= BufferSize /\ Increasing(Trim(s))
         /\ ToSet(Trim(s)) \subseteq ToSet(s) /\ s[Len(s)] \in ToSet(Trim(s))
         /\ \A k \in ToSet(Trim(s)), n \in ToSet(s) : n > k => n \in ToSet(Trim(s))
  <1>1. Len(s) \in Nat \ {0}
    OBVIOUS
  <1>2. CASE Len(s) <= BufferSize
    <2>1. Trim(s) = s
      BY <1>1, <1>2, BufferSizeAssumption DEF Trim
    <2>2. Len(s) \in DOMAIN s
      BY <1>1
    <2> QED BY <1>2, <2>1, <2>2 DEF ToSet
  <1>3. CASE Len(s) > BufferSize
    <2> DEFINE d == Len(s) - BufferSize
               t == SubSeq(s, d + 1, Len(s))
    <2>1. t \in Seq(Seqs) /\ Len(t) = BufferSize /\ d \in Nat /\ \A k \in 1 .. BufferSize : t[k] = s[d + k]
      BY <1>1, <1>3, BufferSizeAssumption
    <2>2. Trim(s) = t
      BY <1>3 DEF Trim
    <2>0. d + BufferSize = Len(s) /\ d \in Nat /\ BufferSize \in Nat \ {0}
      BY <1>1, <1>3, BufferSizeAssumption
    <2> HIDE DEF t, d
    <2>3. Increasing(t)
      <3> SUFFICES ASSUME NEW i \in 1 .. BufferSize, NEW j \in 1 .. BufferSize, i < j PROVE t[i] < t[j]
        BY <2>1 DEF Increasing
      <3>1. d + i \in 1 .. Len(s) /\ d + j \in 1 .. Len(s) /\ d + i < d + j
        BY <2>0
      <3> QED BY <2>1, <3>1 DEF Increasing
    <2>4. ToSet(t) = {s[i] : i \in d + 1 .. Len(s)}
      <3>1. ASSUME NEW i \in d + 1 .. Len(s) PROVE s[i] \in ToSet(t)
        <4>1. i - d \in 1 .. BufferSize /\ d + (i - d) = i
          BY <2>0
        <4>2. t[i - d] = s[i] /\ i - d \in DOMAIN t
          BY <2>1, <4>1
        <4> QED BY <4>2 DEF ToSet
      <3>2. ASSUME NEW k \in 1 .. BufferSize PROVE t[k] \in {s[i] : i \in d + 1 .. Len(s)}
        <4>1. d + k \in d + 1 .. Len(s)
          BY <2>0
        <4> QED BY <2>1, <4>1
      <3>3. DOMAIN t = 1 .. BufferSize
        BY <2>1
      <3>4. ToSet(t) = {t[k] : k \in 1 .. BufferSize}
        BY <3>3 DEF ToSet
      <3> QED BY <3>1, <3>2, <3>4
    <2>5. ToSet(t) \subseteq ToSet(s) /\ s[Len(s)] \in ToSet(t)
      <3>1. ToSet(s) = {s[i] : i \in 1 .. Len(s)}
        BY DEF ToSet
      <3>2. d + 1 .. Len(s) \subseteq 1 .. Len(s) /\ Len(s) \in d + 1 .. Len(s)
        BY <2>0
      <3> QED BY <2>4, <3>1, <3>2
    <2>6. ASSUME NEW k \in ToSet(t), NEW n \in ToSet(s), n > k PROVE n \in ToSet(t)
      <3>1. PICK i \in d + 1 .. Len(s) : k = s[i]
        BY <2>4
      <3>2. PICK j \in 1 .. Len(s) : n = s[j]
        BY DEF ToSet
      <3>3. j >= i
        <4>1. i \in 1 .. Len(s) /\ s[i] \in Seqs /\ s[j] \in Seqs
          BY <2>0, <3>1, <3>2
        <4>2. ~ (j < i)
          BY <2>6, <3>1, <3>2, <4>1, SeqsAreNumbers DEF Increasing
        <4> QED BY <3>2, <4>1, <4>2
      <3>4. j \in d + 1 .. Len(s)
        BY <2>0, <3>1, <3>2, <3>3
      <3> QED BY <2>4, <3>2, <3>4
    <2> QED BY <2>1, <2>2, <2>3, <2>5, <2>6
  <1> QED BY <1>1, <1>2, <1>3, BufferSizeAssumption

\* Picking the positions after m is leaving out the first m.
LEMMA PickEnd ==
  ASSUME NEW s, NEW m \in Nat, NEW n \in Nat, m <= n
  PROVE  Pick(s, m + 1 .. n) = [k \in 1 .. n - m |-> s[m + k]]
  <1> DEFINE P == m + 1 .. n
  <1>1. Cardinality(P) = n - m
    <2>1. Cardinality(P) = IF m + 1 > n THEN 0 ELSE n - (m + 1) + 1
      BY FS_Interval
    <2> QED BY <2>1
  <1>2. ASSUME NEW k \in 1 .. n - m PROVE Nth(P, k) = m + k
    <2>1. ASSUME NEW i \in P PROVE Cardinality({j \in P : j <= i}) = i - m
      <3>1. {j \in P : j <= i} = m + 1 .. i
        OBVIOUS
      <3>2. Cardinality(m + 1 .. i) = IF m + 1 > i THEN 0 ELSE i - (m + 1) + 1
        BY FS_Interval
      <3>3. Cardinality(m + 1 .. i) = i - m
        BY <3>2
      <3> QED BY <3>1, <3>3
    <2>2. m + k \in P
      OBVIOUS
    <2>3. Cardinality({j \in P : j <= m + k}) = k
      BY <2>1, <2>2
    <2>4. \A i \in P : Cardinality({j \in P : j <= i}) = k => i = m + k
      BY <2>1
    <2> HIDE DEF P
    <2> QED BY <2>2, <2>3, <2>4 DEF Nth
  <1> HIDE DEF P
  <1>3. Pick(s, P) = [k \in 1 .. n - m |-> s[m + k]]
    BY <1>1, <1>2 DEF Pick
  <1> QED BY <1>3 DEF P

LEMMA Least ==
  ASSUME NEW S, S \subseteq Nat, S # {} PROVE \E x \in S : \A y \in S : x <= y
  <1>1. PICK x \in S : \A y \in S : ~ (<<y, x>> \in OpToRel(<, Nat))
    BY NatLessThanWellFounded, WFMin, Zenon
  <1>2. ASSUME NEW y \in S PROVE x <= y
    <2>1. x \in Nat /\ y \in Nat
      OBVIOUS
    <2>2. ~ (y < x)
      BY <1>1, <2>1 DEF OpToRel
    <2> QED BY <2>1, <2>2
  <1> QED BY <1>2

\* In a list in order, the events after lastSeq are its end.
LEMMA NewerIsEnd ==
  ASSUME buffer \in Seq(Seqs), Increasing(buffer), lastSeq \in Nat
  PROVE  \E m \in 0 .. Len(buffer) : Newer = m + 1 .. Len(buffer)
  <1>1. Newer \subseteq 1 .. Len(buffer) /\ Len(buffer) \in Nat
    BY DEF Newer
  <1>2. CASE Newer = {}
    BY <1>1, <1>2
  <1>3. CASE Newer # {}
    <2>1. PICK i \in Newer : \A j \in Newer : i <= j
      <3>1. Newer \subseteq Nat
        BY <1>1
      <3> HIDE DEF Newer
      <3> QED BY <1>3, <3>1, Least
    <2>2. i \in 1 .. Len(buffer) /\ buffer[i] > lastSeq
      BY <1>1 DEF Newer, Missed
    <2>3. ASSUME NEW j \in i .. Len(buffer) PROVE j \in Newer
      <3>1. j \in 1 .. Len(buffer) /\ buffer[i] \in Seqs /\ buffer[j] \in Seqs
        BY <1>1, <2>2
      <3>2. buffer[j] >= buffer[i]
        BY <2>2, <3>1, SeqsAreNumbers DEF Increasing
      <3> QED BY <2>2, <3>1, <3>2, SeqsAreNumbers DEF Newer, Missed
    <2>4. Newer = (i - 1) + 1 .. Len(buffer) /\ i - 1 \in 0 .. Len(buffer)
      <3>1. (i - 1) + 1 = i
        BY <2>2
      <3>2. Newer \subseteq i .. Len(buffer)
        BY <1>1, <2>1, <2>2
      <3>3. Newer = i .. Len(buffer)
        BY <2>3, <3>2
      <3> QED BY <1>1, <2>2, <3>1, <3>3
    <2> QED BY <2>4
  <1> QED BY <1>2, <1>3

\* The replay is what the list has after lastSeq, in order.
LEMMA Replayed ==
  ASSUME buffer \in Seq(Seqs), Increasing(buffer), lastSeq \in Nat
  PROVE  /\ Pick(buffer, Newer) \in Seq(Seqs) /\ Increasing(Pick(buffer, Newer))
         /\ ToSet(Pick(buffer, Newer)) = {n \in ToSet(buffer) : n > lastSeq}
  <1> DEFINE w == Pick(buffer, Newer)
  <1>1. PICK m \in 0 .. Len(buffer) : Newer = m + 1 .. Len(buffer)
    BY NewerIsEnd
  <1>2. w = [k \in 1 .. Len(buffer) - m |-> buffer[m + k]]
    BY <1>1, PickEnd
  <1> HIDE DEF w
  <1>3. w \in Seq(Seqs) /\ Len(w) = Len(buffer) - m /\ DOMAIN w = 1 .. Len(buffer) - m
    BY <1>2
  <1>4. Increasing(w)
    BY <1>2, <1>3 DEF Increasing
  <1>5. ToSet(w) = {buffer[i] : i \in m + 1 .. Len(buffer)}
    <2>1. ASSUME NEW i \in m + 1 .. Len(buffer) PROVE buffer[i] \in ToSet(w)
      <3>1. i - m \in 1 .. Len(buffer) - m /\ w[i - m] = buffer[i]
        BY <1>2
      <3> QED BY <1>3, <3>1 DEF ToSet
    <2>2. ASSUME NEW k \in DOMAIN w PROVE w[k] \in {buffer[i] : i \in m + 1 .. Len(buffer)}
      BY <1>2, <1>3
    <2> QED BY <2>1, <2>2 DEF ToSet
  <1>6. {buffer[i] : i \in Newer} = {n \in ToSet(buffer) : n > lastSeq}
    BY DEF Newer, Missed, ToSet
  <1> QED BY <1>1, <1>3, <1>4, <1>5, <1>6 DEF w

-----------------------------------------------------------------------------
(* The invariant                                                           *)

\* The replay list is bounded and in order, and what it does not hold is excused:
\* trimming drops the oldest entries and nothing else.
BufferKeepsNewest ==
    /\ Len(buffer) <= BufferSize
    /\ Increasing(buffer)
    /\ \A n \in 1 .. nextSeq - 1 : n \in ToSet(buffer) \cup excused \cup {toStore}
    /\ \A n \in Seqs, k \in ToSet(buffer) :
          said[n] # "unsent" /\ n > k /\ redisFaults = 0 => n \in ToSet(buffer) \cup {toStore}

\* Numbers are used in order; an event on its way to the list is the newest.
Sending ==
  /\ worker \in Working => nextSeq <= MaxSeq
  /\ nextSeq = 1 => worker \in Working
  /\ worker = "idle" => nextSeq = 1
  /\ toStore # 0 => toStore = nextSeq - 1 /\ said[toStore] # "unsent"
  /\ \A n \in Seqs : n >= nextSeq => said[n] = "unsent"
  /\ \A n \in Seqs : said[n] \in {"completed", "failed"} => worker \notin Working

\* The list holds events that were sent, older than the one on its way to it.
Buffered ==
  \A k \in DOMAIN buffer :
    /\ buffer[k] < nextSeq /\ said[buffer[k]] # "unsent"
    /\ toStore # 0 => buffer[k] < toStore

\* What is on the wire was sent, is in order and is new to the viewer.
Wired ==
  /\ Increasing(wire)
  /\ \A k \in DOMAIN wire : lastSeq < wire[k] /\ wire[k] < nextSeq /\ said[wire[k]] # "unsent"
  /\ lastSeq < nextSeq
  /\ lastSeq = (IF log = <<>> THEN 0 ELSE log[Len(log)])
  /\ wire # <<>> => conn \in {"replayed", "subscribed"}

\* A connection that was replayed to brings everything after what the viewer has, or
\* after the first event it will have, except for what is excused.
From == IF log # <<>> THEN lastSeq ELSE IF wire # <<>> THEN wire[1] ELSE nextSeq
Delivered ==
  conn \in {"replayed", "subscribed"} =>
    \A n \in Seqs : From < n /\ n < nextSeq => n \in ToSet(wire) \cup excused

EInv == TypeOK /\ Sending /\ Buffered /\ BufferKeepsNewest /\ Wired /\ Delivered /\ OnlyExcusedGaps

LEMMA InitEInv == Init => EInv
  <1> SUFFICES ASSUME Init PROVE EInv
    OBVIOUS
  <1>1. TypeOK
    BY SeqsAreNumbers, FaultsAssumption DEF Init, TypeOK, Active, Seqs, Working
  <1>2. Sending /\ Buffered /\ Wired /\ Delivered
    BY SeqsAreNumbers DEF Init, Sending, Buffered, Wired, Delivered, Increasing, Working
  <1>3. BufferKeepsNewest
    BY BufferSizeAssumption DEF Init, BufferKeepsNewest, Increasing, ToSet
  <1>4. OnlyExcusedGaps
    BY DEF Init, OnlyExcusedGaps, Gap
  <1> QED BY <1>1, <1>2, <1>3, <1>4 DEF EInv

\* Steps that leave the events and the list alone.
LEMMA EventsKept ==
  ASSUME EInv, UNCHANGED <<nextSeq, said, toStore, buffer>>,
         worker' \in Working <=> worker \in Working, worker' = "idle" => worker = "idle",
         excused \subseteq excused', redisFaults' \in {redisFaults, redisFaults + 1}
  PROVE  Sending' /\ Buffered' /\ BufferKeepsNewest'
  <1>1. Sending' /\ Buffered'
    BY DEF EInv, Sending, Buffered
  <1>2. redisFaults' = 0 => redisFaults = 0
    BY DEF EInv, TypeOK
  <1>3. BufferKeepsNewest'
    BY <1>2 DEF EInv, BufferKeepsNewest, Increasing
  <1> QED BY <1>1, <1>3

\* Steps that leave what the viewer has alone.
LEMMA GapsKept ==
  ASSUME EInv, UNCHANGED <<log, lastSeq>>, excused \subseteq excused' PROVE OnlyExcusedGaps'
  BY DEF EInv, OnlyExcusedGaps, Gap

\* Steps of the connection without a replay: what is on the wire stays or is lost.
LEMMA ConnStep ==
  ASSUME EInv, UNCHANGED <<nextSeq, said, toStore, buffer, log, lastSeq, excused>>, TypeOK',
         worker' \in Working <=> worker \in Working, worker' = "idle" => worker = "idle",
         redisFaults' \in {redisFaults, redisFaults + 1},
         \/ wire' = <<>> /\ conn' \notin {"replayed", "subscribed"}
         \/ UNCHANGED wire /\ conn \notin {"replayed", "subscribed"} /\ conn' \notin {"replayed", "subscribed"}
         \/ UNCHANGED wire /\ conn \in {"replayed", "subscribed"} /\ conn' \in {"replayed", "subscribed"}
  PROVE  EInv'
  <1>1. Sending' /\ Buffered' /\ BufferKeepsNewest' /\ OnlyExcusedGaps'
    BY EventsKept, GapsKept
  <1>2. Wired'
    BY DEF EInv, Wired, Increasing
  <1>3. Delivered'
    BY DEF EInv, Delivered, From
  <1> QED BY <1>1, <1>2, <1>3 DEF EInv

\* publish_evaluation_event, up to PUBLISH.
LEMMA EmitStep ==
  ASSUME EInv, NEW status \in {"running", "completed", "failed"}, Emit(status),
         nextSeq <= MaxSeq, worker \in Working, row' = row,
         worker' \in (Working \ {"idle"}) \cup Final \cup {"gone"},
         worker' \in Working => status = "running" /\ nextSeq < MaxSeq
  PROVE  EInv'
  <1>1. PICK published \in BOOLEAN, raised \in BOOLEAN :
          /\ published \/ raised
          /\ IF raised THEN RedisFault ELSE UNCHANGED redisFaults
          /\ said' = IF published THEN [said EXCEPT ![nextSeq] = status] ELSE said
          /\ toStore' = IF raised THEN 0 ELSE nextSeq
          /\ wire' = IF published /\ conn = "subscribed" THEN Append(wire, nextSeq) ELSE wire
          /\ excused' = IF raised \/ conn = "replayed" THEN excused \cup {nextSeq} ELSE excused
    BY DEF Emit
  <1>2. /\ toStore = 0 /\ nextSeq' = nextSeq + 1 /\ nextSeq \in Seqs /\ nextSeq \in Nat \ {0}
        /\ UNCHANGED <<buffer, conn, log, lastSeq, page, disconnects>>
    BY SeqsAreNumbers DEF Emit, EInv, TypeOK, Seqs
  <1>3. /\ said' \in [Seqs -> {"unsent", "running", "completed", "failed"}]
        /\ \A n \in Seqs : n # nextSeq => said'[n] = said[n]
        /\ said'[nextSeq] = IF published THEN status ELSE "unsent"
    BY <1>1, <1>2 DEF EInv, TypeOK, Sending
  <1>0. /\ \A k \in DOMAIN buffer : buffer[k] \in Seqs /\ buffer[k] \in Nat
        /\ \A k \in DOMAIN wire : wire[k] \in Seqs /\ wire[k] \in Nat
        /\ lastSeq \in Nat
    BY Elements, SeqsAreNumbers DEF EInv, TypeOK
  <1>4. wire' \in Seq(Seqs)
    BY <1>1, <1>2, Appended DEF EInv, TypeOK
  <1>5. TypeOK'
    <2>1. redisFaults' \in 0 .. MaxRedisFaults
      BY <1>1, FaultsAssumption DEF EInv, TypeOK, RedisFault
    <2>2. nextSeq' \in 1 .. MaxSeq + 1 /\ toStore' \in 0 .. MaxSeq /\ excused' \subseteq Seqs
      BY <1>1, <1>2, SeqsAreNumbers DEF EInv, TypeOK
    <2> QED BY <1>2, <1>3, <1>4, <2>1, <2>2 DEF EInv, TypeOK
  <1>6. Sending'
    BY <1>1, <1>2, <1>3, SeqsAreNumbers DEF EInv, Sending, Final
  <1>7. Buffered' /\ \A k \in DOMAIN buffer : buffer[k] # nextSeq
    <2>1. \A k \in DOMAIN buffer : buffer[k] < nextSeq /\ buffer[k] # nextSeq
      BY <1>0, <1>2 DEF EInv, Buffered
    <2>2. \A k \in DOMAIN buffer : buffer[k] < nextSeq' /\ said'[buffer[k]] # "unsent"
      BY <1>0, <1>2, <1>3, <2>1 DEF EInv, Buffered
    <2>3. toStore' # 0 => toStore' = nextSeq
      BY <1>1
    <2> QED BY <1>2, <2>1, <2>2, <2>3 DEF Buffered
  <1>8. BufferKeepsNewest'
    <2>1. \A n \in 1 .. nextSeq' - 1 : n \in ToSet(buffer) \cup excused' \cup {toStore'}
      BY <1>1, <1>2 DEF EInv, BufferKeepsNewest
    <2>2. ASSUME NEW n \in Seqs, NEW k \in ToSet(buffer), said'[n] # "unsent", n > k, redisFaults' = 0
          PROVE  n \in ToSet(buffer) \cup {toStore'}
      <3>1. redisFaults = 0 /\ ~ raised
        BY <1>1, <2>2 DEF EInv, TypeOK, RedisFault
      <3>2. n = nextSeq => toStore' = n
        BY <1>1, <3>1
      <3>3. n # nextSeq => n \in ToSet(buffer)
        BY <1>2, <1>3, <2>2, <3>1, SeqsAreNumbers DEF EInv, BufferKeepsNewest
      <3> QED BY <3>2, <3>3
    <2> QED BY <1>2, <2>1, <2>2 DEF EInv, BufferKeepsNewest, Increasing
  <1>9. CASE wire' = Append(wire, nextSeq) /\ conn = "subscribed" /\ published
    <2>1. Wired'
      <3>1. Increasing(wire')
        BY <1>2, <1>9, AppendedInOrder DEF EInv, TypeOK, Wired
      <3>2. \A k \in DOMAIN wire' : \/ k \in DOMAIN wire /\ wire'[k] = wire[k]
                                    \/ wire'[k] = nextSeq
        BY <1>2, <1>9, Appended DEF EInv, TypeOK
      <3>3. \A k \in DOMAIN wire' : lastSeq < wire'[k] /\ wire'[k] < nextSeq' /\ said'[wire'[k]] # "unsent"
        <4>1. lastSeq < nextSeq /\ nextSeq < nextSeq' /\ said'[nextSeq] # "unsent"
          BY <1>0, <1>2, <1>3, <1>9 DEF EInv, Wired
        <4>2. ASSUME NEW k \in DOMAIN wire
              PROVE  lastSeq < wire[k] /\ wire[k] < nextSeq' /\ said'[wire[k]] # "unsent"
          <5>1. lastSeq < wire[k] /\ wire[k] < nextSeq /\ said[wire[k]] # "unsent"
            BY DEF EInv, Wired
          <5> QED BY <1>0, <1>2, <1>3, <5>1
        <4> QED BY <3>2, <4>1, <4>2
      <3>4. lastSeq' < nextSeq'
        BY <1>2 DEF EInv, TypeOK, Wired
      <3> QED BY <1>2, <1>9, <3>1, <3>3, <3>4 DEF EInv, Wired, Increasing
    <2>2. Delivered'
      <3>1. ToSet(wire') = ToSet(wire) \cup {nextSeq}
        BY <1>2, <1>9, Appended DEF EInv, TypeOK
      <3>2. From' = From
        <4>1. wire # <<>> => wire'[1] = wire[1]
          BY <1>2, <1>9, Appended DEF EInv, TypeOK
        <4>2. wire = <<>> => wire'[1] = nextSeq
          BY <1>2, <1>9, Appended DEF EInv, TypeOK
        <4>3. wire' # <<>>
          BY <1>2, <1>9 DEF EInv, TypeOK
        <4> QED BY <1>2, <4>1, <4>2, <4>3 DEF From
      <3>3. excused \subseteq excused'
        BY <1>1
      <3> QED BY <1>2, <1>9, <3>1, <3>2, <3>3, SeqsAreNumbers DEF EInv, TypeOK, Delivered
    <2> QED BY <1>1, <1>2, <1>5, <1>6, <1>7, <1>8, <2>1, <2>2, GapsKept DEF EInv
  <1>10. CASE wire' = wire /\ (conn # "subscribed" \/ ~ published)
    <2>1. Wired'
      <3>1. ASSUME NEW k \in DOMAIN wire
            PROVE  lastSeq < wire[k] /\ wire[k] < nextSeq' /\ said'[wire[k]] # "unsent"
        <4>1. lastSeq < wire[k] /\ wire[k] < nextSeq /\ said[wire[k]] # "unsent"
          BY DEF EInv, Wired
        <4> QED BY <1>0, <1>2, <1>3, <4>1
      <3>2. lastSeq' < nextSeq'
        BY <1>0, <1>2 DEF EInv, Wired
      <3> QED BY <1>2, <1>10, <3>1, <3>2 DEF EInv, Wired, Increasing
    <2>2. Delivered'
      <3>1. conn \in {"replayed", "subscribed"} => nextSeq \in excused'
        BY <1>1, <1>10
      <3>2. wire = <<>> /\ log = <<>> => Delivered'
        BY <1>2, <1>10, SeqsAreNumbers DEF Delivered, From
      <3>3. ~ (wire = <<>> /\ log = <<>>) => From' = From
        BY <1>2, <1>10 DEF From
      <3> QED BY <1>1, <1>2, <1>10, <3>1, <3>2, <3>3, SeqsAreNumbers DEF EInv, TypeOK, Delivered
    <2> QED BY <1>1, <1>2, <1>5, <1>6, <1>7, <1>8, <2>1, <2>2, GapsKept DEF EInv
  <1> QED BY <1>1, <1>9, <1>10

LEMMA StoreStep == ASSUME EInv, Store PROVE EInv'
  <1>1. /\ toStore # 0 /\ toStore' = 0 /\ toStore \in Seqs /\ toStore = nextSeq - 1
        /\ UNCHANGED <<row, worker, nextSeq, said, conn, wire, log, lastSeq, page, disconnects>>
    BY SeqsAreNumbers DEF Store, viewerVars, EInv, TypeOK, Sending, Seqs
  <1>2. ASSUME excused \subseteq excused', excused' \subseteq Seqs PROVE Sending' /\ Wired' /\ Delivered' /\ OnlyExcusedGaps'
    <2>1. Sending' /\ Wired'
      BY <1>1 DEF EInv, Sending, Wired, Increasing
    <2>2. Delivered'
      BY <1>1, <1>2 DEF EInv, Delivered, From
    <2> QED BY <1>1, <1>2, <2>1, <2>2, GapsKept
  <1>3. CASE RedisFault /\ excused' = excused \cup {toStore} /\ buffer' = buffer
    <2>1. TypeOK' /\ redisFaults' # 0
      BY <1>1, <1>3, FaultsAssumption, SeqsAreNumbers DEF EInv, TypeOK, RedisFault
    <2>2. Buffered'
      BY <1>1, <1>3 DEF EInv, Buffered
    <2>3. BufferKeepsNewest'
      BY <1>1, <1>3, <2>1 DEF EInv, BufferKeepsNewest, Increasing
    <2>4. excused \subseteq excused' /\ excused' \subseteq Seqs
      BY <1>3, <2>1 DEF TypeOK
    <2> QED BY <1>2, <2>1, <2>2, <2>3, <2>4 DEF EInv
  <1>4. CASE /\ buffer' = Trim(Append(buffer, toStore)) /\ UNCHANGED redisFaults
             /\ excused' = excused \cup (ToSet(buffer) \ ToSet(buffer'))
    <2> DEFINE s == Append(buffer, toStore)
    <2>1. s \in Seq(Seqs) /\ Len(s) = Len(buffer) + 1 /\ s[Len(s)] = toStore /\ ToSet(s) = ToSet(buffer) \cup {toStore}
      BY <1>1, Appended DEF EInv, TypeOK
    <2>2. Increasing(s)
      BY <1>1, AppendedInOrder DEF EInv, TypeOK, Buffered, BufferKeepsNewest
    <2>3. s # <<>>
      BY <2>1 DEF EInv, TypeOK
    <2> HIDE DEF s
    <2>4. /\ buffer' \in Seq(Seqs) /\ Len(buffer') <= BufferSize /\ Increasing(buffer')
          /\ ToSet(buffer') \subseteq ToSet(buffer) \cup {toStore} /\ toStore \in ToSet(buffer')
          /\ \A k \in ToSet(buffer'), n \in ToSet(buffer) \cup {toStore} : n > k => n \in ToSet(buffer')
      <3>1. buffer' = Trim(s)
        BY <1>4 DEF s
      <3> QED BY <2>1, <2>2, <2>3, <3>1, Trimmed
    <2>5. ToSet(buffer) \subseteq Seqs
      BY DEF EInv, TypeOK, ToSet
    <2>6. TypeOK'
      <3>1. excused' \subseteq Seqs /\ toStore' \in 0 .. MaxSeq
        <4>1. excused \subseteq Seqs
          BY DEF EInv, TypeOK
        <4>2. 0 \in 0 .. MaxSeq
          BY SeqsAreNumbers
        <4> QED BY <1>1, <1>4, <2>5, <4>1, <4>2
      <3> QED BY <1>1, <1>4, <2>4, <3>1 DEF EInv, TypeOK
    <2>7. Buffered'
      <3>1. \A n \in ToSet(buffer) \cup {toStore} : n < nextSeq /\ said[n] # "unsent"
        BY <1>1, SeqsAreNumbers DEF EInv, TypeOK, Buffered, Sending, ToSet
      <3>2. \A k \in DOMAIN buffer' : buffer'[k] \in ToSet(buffer')
        BY DEF ToSet
      <3> QED BY <1>1, <2>4, <3>1, <3>2 DEF Buffered
    <2>8. BufferKeepsNewest'
      <3>1. \A n \in 1 .. nextSeq' - 1 : n \in ToSet(buffer') \cup excused' \cup {toStore'}
        BY <1>1, <1>4, <2>4 DEF EInv, BufferKeepsNewest
      <3>2. ASSUME NEW n \in Seqs, NEW k \in ToSet(buffer'), said[n] # "unsent", n > k, redisFaults = 0
            PROVE  n \in ToSet(buffer')
        <4>1. k \in ToSet(buffer) => n \in ToSet(buffer) \cup {toStore}
          BY <3>2 DEF EInv, BufferKeepsNewest
        <4>2. k # toStore
          <5>1. n < nextSeq
            BY <3>2, SeqsAreNumbers DEF EInv, TypeOK, Sending
          <5> QED BY <1>1, <3>2, <5>1, SeqsAreNumbers DEF EInv, TypeOK
        <4> QED BY <2>4, <3>2, <4>1, <4>2
      <3>3. /\ UNCHANGED <<said, redisFaults>>
            /\ Len(buffer') <= BufferSize /\ Increasing(buffer)'
        BY <1>1, <1>4, <2>4 DEF Increasing
      <3> QED BY <3>1, <3>2, <3>3 DEF BufferKeepsNewest
    <2> QED BY <1>2, <1>4, <2>5, <2>6, <2>7, <2>8 DEF EInv, TypeOK
  <1> QED BY <1>3, <1>4 DEF Store

LEMMA ExpireStep == ASSUME EInv, ReplayListExpires PROVE EInv'
  <1>1. /\ RedisFault /\ buffer' = <<>> /\ excused' = excused \cup ToSet(buffer)
        /\ UNCHANGED <<row, worker, nextSeq, said, toStore, conn, wire, log, lastSeq, page, disconnects>>
    BY DEF ReplayListExpires, viewerVars
  <1>2. ToSet(buffer) \subseteq Seqs /\ excused \subseteq Seqs /\ redisFaults' # 0
    BY <1>1 DEF EInv, TypeOK, ToSet, RedisFault
  <1>3. TypeOK'
    BY <1>1, <1>2, FaultsAssumption DEF EInv, TypeOK, RedisFault
  <1>4. Sending' /\ Wired'
    BY <1>1 DEF EInv, Sending, Wired, Increasing
  <1>5. Buffered' /\ ToSet(buffer') = {}
    BY <1>1 DEF Buffered, ToSet
  <1>6. Len(buffer') = 0 /\ Increasing(buffer)'
    BY <1>1 DEF Increasing
  <1>7. BufferKeepsNewest'
    BY <1>1, <1>2, <1>5, <1>6, BufferSizeAssumption DEF EInv, BufferKeepsNewest
  <1>8. Delivered'
    BY <1>1 DEF EInv, Delivered, From
  <1> QED BY <1>1, <1>3, <1>4, <1>5, <1>7, <1>8, GapsKept DEF EInv

\* What the viewer misses of a replay is on its way to the list.
LEMMA ReplayStep == ASSUME EInv, Replay PROVE EInv'
  <1>1. /\ conn = "connected" /\ conn' = "replayed"
        /\ UNCHANGED <<row, worker, nextSeq, said, toStore, buffer, log, lastSeq, page, disconnects>>
    BY DEF Replay, workerVars
  <1>2. /\ buffer \in Seq(Seqs) /\ Increasing(buffer) /\ lastSeq \in Nat /\ nextSeq \in Nat \ {0}
        /\ toStore \in 0 .. MaxSeq /\ excused \subseteq Seqs
    BY SeqsAreNumbers DEF EInv, TypeOK, BufferKeepsNewest
  <1>3. /\ wire' \in Seq(Seqs) /\ Increasing(wire')
        /\ ToSet(wire') \subseteq {n \in ToSet(buffer) : n > lastSeq}
    <2>1. CASE wire' = <<>>
      BY <2>1 DEF Increasing, ToSet
    <2>2. CASE wire' = Pick(buffer, Newer)
      BY <1>2, <2>2, Replayed
    <2> QED BY <2>1, <2>2 DEF Replay
  <1>4. excused \subseteq excused' /\ excused' \subseteq Seqs /\ redisFaults' \in {redisFaults, redisFaults + 1}
    <2>1. {toStore} \ {0} \subseteq Seqs
      BY <1>2 DEF Seqs
    <2> QED BY <1>2, <2>1 DEF Replay, RedisFault
  <1>5. TypeOK'
    BY <1>1, <1>3, <1>4, FaultsAssumption DEF EInv, TypeOK, Replay, RedisFault
  <1>6. Sending' /\ Buffered' /\ BufferKeepsNewest' /\ OnlyExcusedGaps'
    BY <1>1, <1>4, EventsKept, GapsKept
  <1>7. Wired'
    <2>1. \A n \in ToSet(buffer) : n < nextSeq /\ said[n] # "unsent"
      BY DEF EInv, Buffered, ToSet
    <2>2. \A k \in DOMAIN wire' : lastSeq < wire'[k] /\ wire'[k] < nextSeq /\ said[wire'[k]] # "unsent"
      BY <1>2, <1>3, <2>1 DEF ToSet
    <2>3. lastSeq < nextSeq /\ lastSeq = (IF log = <<>> THEN 0 ELSE log[Len(log)])
      BY DEF EInv, Wired
    <2> QED BY <1>1, <1>3, <2>2, <2>3 DEF Wired, Increasing
  <1>8. Delivered'
    <2>1. CASE RedisFault /\ excused' = excused \cup {n \in Seqs : n < nextSeq}
      BY <1>1, <2>1 DEF Delivered
    <2>2. CASE lastSeq = 0 /\ wire' = <<>>
      <3>1. log = <<>>
        BY <2>2, Elements DEF EInv, TypeOK, Wired
      <3> QED BY <1>1, <1>2, <2>2, <3>1, SeqsAreNumbers DEF Delivered, From
    <2>3. CASE lastSeq > 0 /\ wire' = Pick(buffer, Newer) /\ excused' = excused \cup ({toStore} \ {0})
      <3>1. ToSet(wire') = {n \in ToSet(buffer) : n > lastSeq}
        BY <1>2, <2>3, Replayed
      <3>2. log # <<>>
        BY <2>3 DEF EInv, Wired
      <3>3. From' = lastSeq
        BY <1>1, <3>2 DEF From
      <3>4. ASSUME NEW n \in Seqs, lastSeq < n, n < nextSeq PROVE n \in ToSet(wire') \cup excused'
        <4>1. n \in 1 .. nextSeq - 1 /\ n # 0
          BY <1>2, <3>4, SeqsAreNumbers
        <4>2. n \in ToSet(buffer) \cup excused \cup {toStore}
          BY <4>1 DEF EInv, BufferKeepsNewest
        <4> QED BY <2>3, <3>1, <3>4, <4>1, <4>2
      <3> QED BY <1>1, <3>3, <3>4 DEF Delivered
    <2> QED BY <1>2, <2>1, <2>2, <2>3 DEF Replay
  <1> QED BY <1>5, <1>6, <1>7, <1>8 DEF EInv

\* onmessage.
LEMMA ReceiveStep == ASSUME EInv, Receive PROVE EInv'
  <1> DEFINE n == wire[1]
  <1>1. /\ wire # <<>> /\ log' = Append(log, n) /\ lastSeq' = IF n > lastSeq THEN n ELSE lastSeq
        /\ \/ conn' = "ended" /\ wire' = <<>>
           \/ wire' = Tail(wire) /\ conn' = conn
        /\ UNCHANGED <<row, worker, nextSeq, said, toStore, buffer, page, excused, disconnects, redisFaults>>
    BY DEF Receive, workerVars, faultVars, EInv, TypeOK
  <1>2. /\ wire \in Seq(Seqs) /\ Len(wire) \in Nat \ {0} /\ 1 \in DOMAIN wire /\ n \in Seqs /\ n \in Nat
        /\ lastSeq \in Nat /\ nextSeq \in Nat
    BY <1>1, Elements, SeqsAreNumbers DEF EInv, TypeOK
  <1>3. lastSeq < n /\ n < nextSeq /\ conn \in {"replayed", "subscribed"} /\ lastSeq' = n
    BY <1>1, <1>2 DEF EInv, Wired
  <1>4. /\ log' \in Seq(Seqs) /\ log' # <<>> /\ log'[Len(log')] = n /\ ToSet(log') = ToSet(log) \cup {n}
        /\ log # <<>> => log'[1] = log[1]
        /\ log = <<>> => log'[1] = n
    <2>1. log \in Seq(Seqs)
      BY DEF EInv, TypeOK
    <2> HIDE DEF n
    <2> QED BY <1>1, <1>2, <2>1, Appended
  <1>5. \A k \in DOMAIN Tail(wire) : k + 1 \in DOMAIN wire /\ Tail(wire)[k] = wire[k + 1]
    BY <1>2
  <1>6. \A k \in DOMAIN wire : wire[k] \in Nat /\ (k # 1 => n < wire[k])
    BY <1>2, Elements DEF EInv, Wired, Increasing
  <1>7. TypeOK'
    <2>1. lastSeq' \in 0 .. MaxSeq
      BY <1>2, <1>3 DEF Seqs
    <2>2. wire' \in Seq(Seqs)
      <3>1. Tail(wire) \in Seq(Seqs) /\ <<>> \in Seq(Seqs)
        BY <1>1, <1>2
      <3> QED BY <1>1, <3>1
    <2>3. conn' \in {"waiting", "ticketed", "expired", "connected", "replayed", "subscribed", "ended", "closed"}
      BY <1>1, <1>3
    <2> QED BY <1>1, <1>4, <2>1, <2>2, <2>3 DEF EInv, TypeOK
  <1>8. Sending' /\ Buffered' /\ BufferKeepsNewest'
    BY <1>1, EventsKept
  <1>9. ASSUME conn' = "ended", wire' = <<>> PROVE Wired' /\ Delivered'
    <2>1. Wired'
      BY <1>1, <1>3, <1>4, <1>9 DEF Wired, Increasing
    <2>2. Delivered'
      BY <1>9 DEF Delivered
    <2> QED BY <2>1, <2>2
  <1>10. ASSUME wire' = Tail(wire), conn' = conn PROVE Wired' /\ Delivered'
    <2>1. Wired'
      <3>1. Increasing(wire')
        BY <1>2, <1>10 DEF EInv, Wired, Increasing
      <3>2. \A k \in DOMAIN wire' : n < wire'[k] /\ wire'[k] < nextSeq /\ said[wire'[k]] # "unsent"
        BY <1>2, <1>5, <1>6, <1>10 DEF EInv, Wired
      <3> QED BY <1>1, <1>3, <1>4, <1>10, <3>1, <3>2 DEF Wired, Increasing
    <2>2. Delivered'
      <3>1. ASSUME NEW m \in Seqs, n < m, m < nextSeq PROVE m \in ToSet(wire') \cup excused
        <4>1. From < m
          BY <1>1, <1>2, <1>3, <3>1, SeqsAreNumbers DEF From
        <4>2. m \in ToSet(wire) \cup excused
          BY <1>3, <3>1, <4>1 DEF EInv, Delivered
        <4>3. CASE m \in ToSet(wire)
          <5>1. PICK k \in DOMAIN wire : m = wire[k]
            BY <4>3 DEF ToSet
          <5>2. k # 1
            BY <1>2, <3>1, <5>1
          <5>3. k - 1 \in DOMAIN Tail(wire) /\ Tail(wire)[k - 1] = m
            BY <1>2, <5>1, <5>2
          <5> QED BY <1>10, <5>3 DEF ToSet
        <4> QED BY <4>2, <4>3
      <3>2. From' = n
        BY <1>3, <1>4 DEF From
      <3> QED BY <1>1, <3>1, <3>2 DEF Delivered
    <2> QED BY <2>1, <2>2
  <1>11. OnlyExcusedGaps'
    <2> SUFFICES ASSUME NEW m \in Seqs, log'[1] < m, m < n, m \notin ToSet(log') PROVE m \in excused
      BY <1>1, <1>3 DEF OnlyExcusedGaps, Gap
    <2>1. m \in Nat
      BY SeqsAreNumbers
    <2>2. log # <<>>
      BY <1>2, <1>4, <2>1
    <2>3. CASE m < lastSeq
      BY <1>4, <2>2, <2>3 DEF EInv, OnlyExcusedGaps, Gap
    <2>4. CASE m = lastSeq
      <3>1. lastSeq \in ToSet(log)
        BY <2>2 DEF EInv, TypeOK, Wired, ToSet
      <3> QED BY <1>4, <2>4, <3>1
    <2>5. CASE m > lastSeq
      <3>1. m \in ToSet(wire) \cup excused
        BY <1>2, <1>3, <2>1, <2>2, <2>5 DEF EInv, Delivered, From
      <3>2. m \notin ToSet(wire)
        BY <1>2, <1>6, <2>1 DEF ToSet
      <3> QED BY <3>1, <3>2
    <2> QED BY <1>2, <2>1, <2>3, <2>4, <2>5
  <1> QED BY <1>1, <1>7, <1>8, <1>9, <1>10, <1>11 DEF EInv

\* refetchInterval, and what the endpoints and the browser do to the connection.
LEMMA PollStep == ASSUME EInv, PollStatus PROVE EInv'
  <1>1. /\ UNCHANGED <<row, worker, nextSeq, said, toStore, buffer, log, lastSeq, excused, disconnects, redisFaults>>
        /\ wire' = <<>> /\ conn' \in {"waiting", "closed"} /\ page' = row
    BY DEF PollStatus, workerVars, faultVars
  <1>2. TypeOK'
    BY <1>1 DEF EInv, TypeOK
  <1> QED BY <1>1, <1>2, ConnStep

LEMMA ConnectionStep ==
  ASSUME EInv, GetTicket \/ TicketExpires \/ Connect \/ Subscribe \/ Disconnect PROVE EInv'
  <1>1. /\ UNCHANGED <<row, worker, nextSeq, said, toStore, buffer, log, lastSeq, page, excused>>
        /\ redisFaults' = redisFaults \/ RedisFault
        /\ disconnects' = disconnects \/ (disconnects < MaxDisconnects /\ disconnects' = disconnects + 1)
        /\ conn' \in {"waiting", "ticketed", "expired", "connected", "subscribed"}
        /\ \/ wire' = <<>> /\ conn' \notin {"replayed", "subscribed"}
           \/ UNCHANGED wire /\ conn \notin {"replayed", "subscribed"} /\ conn' \notin {"replayed", "subscribed"}
           \/ UNCHANGED wire /\ conn \in {"replayed", "subscribed"} /\ conn' \in {"replayed", "subscribed"}
    BY DEF GetTicket, TicketExpires, Connect, Subscribe, Disconnect, workerVars, faultVars
  <1>2. wire' \in Seq(Seqs)
    <2>1. wire' = <<>> \/ wire' = wire
      BY <1>1
    <2>2. <<>> \in Seq(Seqs)
      OBVIOUS
    <2> QED BY <2>1, <2>2 DEF EInv, TypeOK
  <1>3. disconnects' \in 0 .. MaxDisconnects /\ redisFaults' \in 0 .. MaxRedisFaults
    BY <1>1, FaultsAssumption DEF EInv, TypeOK, RedisFault
  <1>4. TypeOK'
    <2>1. conn' \in {"waiting", "ticketed", "expired", "connected", "replayed", "subscribed", "ended", "closed"}
      BY <1>1
    <2>2. UNCHANGED <<row, worker, nextSeq, said, toStore, buffer, log, lastSeq, page, excused>>
      BY <1>1
    <2> QED BY <1>2, <1>3, <2>1, <2>2 DEF EInv, TypeOK
  <1> QED BY <1>1, <1>4, ConnStep DEF RedisFault

\* The row's status says nothing of events, nor does what the worker reads of it.
LEMMA RowStep ==
  ASSUME EInv, ClaimRun \/ PollsCancellation \/ RowSettles \/ RowWritten PROVE EInv'
  <1>1. /\ UNCHANGED <<nextSeq, said, toStore, buffer, viewerVars, excused, faultVars>>
        /\ row' \in Active \cup Gone /\ worker' \in Working \cup Final \cup {"gone"}
        /\ worker' \in Working <=> worker \in Working
        /\ worker' = "idle" => worker = "idle"
    BY DEF ClaimRun, PollsCancellation, RowSettles, RowWritten, UserCancels, EnqueueFails, RowSwept, RowDeleted,
      EInv, TypeOK, Active, Gone, Final, Working
  <1>2. TypeOK'
    BY <1>1 DEF viewerVars, faultVars, EInv, TypeOK
  <1> QED BY <1>1, <1>2, ConnStep DEF viewerVars, faultVars

\* The steps of the worker that publish.
LEMMA PublishStep ==
  ASSUME EInv, StartRun \/ SetupFails \/ NodeEnds \/ RunEnds
  PROVE  \E status \in {"running", "completed", "failed"} :
            /\ Emit(status) /\ nextSeq <= MaxSeq /\ worker \in Working /\ row' = row
            /\ worker' \in (Working \ {"idle"}) \cup Final \cup {"gone"}
            /\ worker' \in Working => status = "running" /\ nextSeq < MaxSeq
  <1>1. CASE StartRun
    BY <1>1, MaxNodesAssumption DEF StartRun, MaxSeq, Working
  <1>2. CASE SetupFails
    BY <1>2, SeqsAreNumbers DEF SetupFails, Working
  <1>3. CASE NodeEnds
    BY <1>3, MaxNodesAssumption DEF NodeEnds, MaxSeq, Working
  <1>4. CASE RunEnds
    <2>1. PICK result \in Final :
            /\ worker = (IF result = "cancelled" THEN "stopping" ELSE "running")
            /\ worker' = result /\ Emit(LastEvent(result)) /\ row' = row
      BY <1>4 DEF RunEnds
    <2>2. worker \in Working /\ worker' \notin Working /\ LastEvent(result) \in {"running", "completed", "failed"}
      BY <2>1 DEF Working, Final, LastEvent
    <2>3. nextSeq <= MaxSeq
      BY <2>2 DEF EInv, Sending
    <2> QED BY <2>1, <2>2, <2>3
  <1> QED BY <1>1, <1>2, <1>3, <1>4

LEMMA NextEInv == EInv /\ [Next]_vars => EInv'
  <1> SUFFICES ASSUME EInv, [Next]_vars PROVE EInv'
    OBVIOUS
  <1>1. CASE StartRun \/ SetupFails \/ NodeEnds \/ RunEnds
    BY <1>1, PublishStep, EmitStep
  <1>4. CASE UNCHANGED vars
    <2>1. UNCHANGED <<row, worker, nextSeq, said, toStore, buffer, conn, wire, log, lastSeq, page, excused, disconnects, redisFaults>>
      BY <1>4 DEF vars, workerVars, viewerVars, faultVars
    <2>2. TypeOK'
      BY <2>1 DEF EInv, TypeOK
    <2> QED BY <2>1, <2>2, ConnStep
  <1> QED BY <1>1, <1>4, StoreStep, ExpireStep, ReplayStep, ReceiveStep, PollStep, ConnectionStep, RowStep DEF Next

LEMMA InvariantEInv == Spec => []EInv
  BY InitEInv, NextEInv, PTL DEF Spec

\* Trimming drops the oldest events of the list and nothing else, and what is not in
\* the list is accounted for, whatever its bound and whatever Redis loses.
THEOREM ReplayListKept == Spec => []BufferKeepsNewest
  <1>1. EInv => BufferKeepsNewest
    BY DEF EInv
  <1> QED BY <1>1, InvariantEInv, PTL

\* Over any number of reconnections the page misses only what Redis lost, what fell
\* off the list and what was published around a replay.
THEOREM GapsExcused == Spec => []OnlyExcusedGaps
  <1>1. EInv => OnlyExcusedGaps
    BY DEF EInv
  <1> QED BY <1>1, InvariantEInv, PTL

-----------------------------------------------------------------------------
(* Refinement of StreamContract                                            *)

Sent == [n \in 1 .. nextSeq - 1 |-> said[n]]

LEMMA InitStream == Init => Contract!Init
  <1> SUFFICES ASSUME Init PROVE Contract!Init
    OBVIOUS
  <1>1. Sent = <<>>
    BY DEF Init, Sent
  <1> QED BY <1>1 DEF Init, Sent, Contract!Init

\* Steps that neither publish nor show an event.
LEMMA Unheard ==
  ASSUME UNCHANGED <<nextSeq, said, log>> PROVE UNCHANGED Contract!streamVars
  BY DEF Contract!streamVars

LEMMA EmitSends ==
  ASSUME EInv, NEW status \in {"running", "completed", "failed"}, Emit(status),
         nextSeq <= MaxSeq, worker \in Working
  PROVE  Contract!Next
  <1>1. /\ nextSeq' = nextSeq + 1 /\ nextSeq \in Nat \ {0} /\ nextSeq \in Seqs /\ log' = log
        /\ \A n \in Seqs : n # nextSeq => said'[n] = said[n]
        /\ said'[nextSeq] \in {status, "unsent"}
    BY SeqsAreNumbers DEF Emit, EInv, TypeOK, Sending, Seqs
  <1>0. \A n \in 1 .. nextSeq - 1 : n \in Seqs /\ n # nextSeq
    BY <1>1, SeqsAreNumbers DEF Seqs
  <1>2. Sent \in Seq({"unsent", "running", "completed", "failed"}) /\ Len(Sent) = nextSeq - 1
    <2>1. \A n \in 1 .. nextSeq - 1 : said[n] \in {"unsent", "running", "completed", "failed"}
      BY <1>0 DEF EInv, TypeOK
    <2> QED BY <1>1, <2>1 DEF Sent
  <1>3. Sent' = Append(Sent, said'[nextSeq])
    <2>1. \A n \in 1 .. nextSeq - 1 : said'[n] = said[n]
      BY <1>0, <1>1
    <2> QED BY <1>1, <1>2, <2>1 DEF Sent
  <1>4. ~ Contract!Ended
    BY <1>1, SeqsAreNumbers DEF EInv, Sending, Contract!Ended, Seqs
  <1>5. said'[nextSeq] \in {"completed", "failed"} \cup {"running", "unsent"}
    BY <1>1
  <1>6. Contract!Send
    BY <1>1, <1>3, <1>4, <1>5 DEF Sent, Contract!Send
  <1> QED BY <1>6 DEF Contract!Next

LEMMA ReceiveShows == ASSUME EInv, Receive PROVE Contract!Next
  <1>1. /\ wire # <<>> /\ log' = Append(log, wire[1]) /\ UNCHANGED <<nextSeq, said>>
    BY DEF Receive, workerVars, EInv, TypeOK
  <1>2. /\ wire[1] \in Seqs /\ wire[1] \in Nat /\ wire[1] > 0 /\ 1 \in DOMAIN wire
        /\ nextSeq \in Nat /\ log \in Seq(Seqs)
    BY <1>1, Elements DEF EInv, TypeOK
  <1>3. lastSeq < wire[1] /\ wire[1] < nextSeq /\ said[wire[1]] # "unsent"
    BY <1>2 DEF EInv, Wired
  <1>4. log # <<>> => log[Len(log)] = lastSeq
    BY DEF EInv, Wired
  <1>5. wire[1] \in 1 .. nextSeq - 1
    BY <1>2, <1>3
  <1>6. Contract!Show
    BY <1>1, <1>3, <1>4, <1>5 DEF Contract!Show, Contract!Last
  <1> QED BY <1>6 DEF Contract!Next

LEMMA NextStream == EInv /\ [Next]_vars => [Contract!Next]_(Contract!streamVars)
  <1> SUFFICES ASSUME EInv, [Next]_vars PROVE Contract!Next \/ UNCHANGED Contract!streamVars
    OBVIOUS
  <1>1. CASE StartRun \/ SetupFails \/ NodeEnds \/ RunEnds
    BY <1>1, PublishStep, EmitSends
  <1>4. CASE Receive
    BY <1>4, ReceiveShows
  <1>5. ASSUME UNCHANGED <<nextSeq, said, log>> PROVE UNCHANGED Contract!streamVars
    BY <1>5, Unheard
  <1>6. CASE Store \/ ReplayListExpires \/ ClaimRun \/ PollsCancellation \/ RowSettles \/ RowWritten
    BY <1>5, <1>6 DEF Store, ReplayListExpires, ClaimRun, PollsCancellation, RowSettles, RowWritten, viewerVars
  <1>7. CASE GetTicket \/ TicketExpires \/ Connect \/ Replay \/ Subscribe \/ Disconnect \/ PollStatus
    BY <1>5, <1>7 DEF GetTicket, TicketExpires, Connect, Replay, Subscribe, Disconnect, PollStatus, workerVars
  <1>8. CASE UNCHANGED vars
    BY <1>5, <1>8 DEF vars, workerVars, viewerVars
  <1> QED BY <1>1, <1>4, <1>6, <1>7, <1>8 DEF Next

\* Over any number of connections the viewer of a run shows no event twice, none out
\* of order and none that was not sent, and no event follows the last.
THEOREM StreamImplementsContract == Spec => StreamKept
  BY InvariantEInv, InitStream, NextStream, PTL DEF Spec, StreamKept, Contract!Spec

=============================================================================
