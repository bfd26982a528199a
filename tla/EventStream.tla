----------------------------- MODULE EventStream -----------------------------
(***************************************************************************)
(* Progress events of one run on their way to one viewer.                  *)
(*                                                                         *)
(*  worker   publishes a numbered snapshot per graph node and a last event *)
(*           (worker/tasks.py), each published on Redis Pub/Sub first and  *)
(*           appended to a bounded replay list second (core/events.py);    *)
(*  server   the SSE endpoint: replay of what the viewer reports missing,  *)
(*           then subscription (api/routes/evaluation.py, stream);         *)
(*  viewer   LogViewer.tsx: EventSource, last sequence number, reconnects, *)
(*           and the page's poll of the run's status.                      *)
(*                                                                         *)
(* Pub/Sub delivers to whoever is subscribed at that moment and forgets.   *)
(***************************************************************************)
EXTENDS Integers, Sequences, SequencesExt, Subsequences

CONSTANTS
    MaxNodes,        \* graph nodes that end and publish a snapshot, at most
    BufferSize,      \* MAX_REPLAY_BUFFER_SIZE (200 in the code)
    MaxDisconnects,  \* bound: connections that drop
    MaxRedisFaults   \* bound: Redis calls that fail, and expiries of the list

ASSUME MaxNodesAssumption == MaxNodes \in Nat
ASSUME BufferSizeAssumption == BufferSize \in Nat \ {0}
ASSUME FaultsAssumption == MaxDisconnects \in Nat /\ MaxRedisFaults \in Nat

VARIABLES
    row,          \* status column of the run, "deleted" without a row
    worker,       \* what the worker does, or what it will write to the row
    nextSeq,      \* seq_num of the next event
    said,         \* said[n]: status of event n, "unsent" if no subscriber could have seen it
    toStore,      \* event published and not yet in the replay list, or 0
    buffer,       \* the replay list: sequence numbers, oldest first
    conn,         \* the viewer's connection
    wire,         \* events sent to the viewer and not yet received
    log,          \* events the viewer displays
    lastSeq,      \* lastSeqRef
    page,         \* the status the page last fetched
    excused,      \* history: events lost to Redis, to the list's bound, or to the
                  \* window between the replay and the subscription
    disconnects, redisFaults

workerVars == <<row, worker, nextSeq, said, toStore, buffer>>
viewerVars == <<conn, wire, log, lastSeq, page>>
faultVars == <<disconnects, redisFaults>>
vars == <<workerVars, viewerVars, excused, faultVars>>

MaxSeq == MaxNodes + 2
Seqs == 1 .. MaxSeq
Active == {"pending", "running"}
Final == {"completed", "failed", "cancelled"}
Gone == Final \cup {"deleted"}
Working == {"idle", "running", "stopping"}

Init ==
    /\ row = "pending" /\ page = "pending"
    /\ worker = "idle" /\ nextSeq = 1 /\ toStore = 0
    /\ said = [n \in Seqs |-> "unsent"]
    /\ buffer = <<>> /\ wire = <<>> /\ log = <<>>
    /\ conn = "waiting" /\ lastSeq = 0
    /\ excused = {}
    /\ disconnects = 0 /\ redisFaults = 0

-----------------------------------------------------------------------------
(* Worker and Redis                                                        *)

RedisFault == redisFaults < MaxRedisFaults /\ redisFaults' = redisFaults + 1

\* publish_evaluation_event up to PUBLISH. The number is used up even if the call
\* raises, an event whose PUBLISH raised is not stored, and Redis may have delivered
\* it all the same.
Emit(status) ==
    /\ toStore = 0
    /\ nextSeq' = nextSeq + 1
    /\ \E published, raised \in BOOLEAN :
          /\ published \/ raised
          /\ IF raised THEN RedisFault ELSE UNCHANGED redisFaults
          /\ said' = IF published THEN [said EXCEPT ![nextSeq] = status] ELSE said
          /\ toStore' = IF raised THEN 0 ELSE nextSeq
          /\ wire' = IF published /\ conn = "subscribed" THEN Append(wire, nextSeq) ELSE wire
          /\ excused' = IF raised \/ conn = "replayed" THEN excused \cup {nextSeq} ELSE excused
    /\ UNCHANGED <<buffer, conn, log, lastSeq, page, disconnects>>

\* LTRIM key -N -1 keeps the N newest.
KeepOldest(s) ==  \* mutant: LTRIM key 0 N-1
    IF Len(s) > BufferSize THEN SubSeq(s, 1, BufferSize) ELSE s
Trim(s) == IF Len(s) > BufferSize THEN SubSeq(s, Len(s) - BufferSize + 1, Len(s)) ELSE s

\* store_for_replay: RPUSH, LTRIM, EXPIRE in one pipeline; a failure is ignored.
Store ==
    /\ toStore # 0
    /\ toStore' = 0
    /\ \/ /\ buffer' = Trim(Append(buffer, toStore))
          /\ excused' = excused \cup (ToSet(buffer) \ ToSet(buffer'))
          /\ UNCHANGED redisFaults
       \/ /\ RedisFault
          /\ excused' = excused \cup {toStore}
          /\ UNCHANGED buffer
    /\ UNCHANGED <<row, worker, nextSeq, said, viewerVars, disconnects>>

\* No event for REPLAY_BUFFER_TTL_SECONDS.
ReplayListExpires ==
    /\ buffer # <<>>
    /\ RedisFault
    /\ buffer' = <<>>
    /\ excused' = excused \cup ToSet(buffer)
    /\ UNCHANGED <<row, worker, nextSeq, said, toStore, viewerVars, disconnects>>

\* The claim, and its commit. Nothing is published before the run is set up.
ClaimRun ==
    /\ worker = "idle" /\ row = "pending"
    /\ worker' = "running" /\ row' = "running"
    /\ UNCHANGED <<nextSeq, said, toStore, buffer, viewerVars, excused, faultVars>>

\* The first event, whatever the row has become since the claim.
StartRun ==
    /\ worker = "running" /\ nextSeq = 1
    /\ Emit("running")
    /\ UNCHANGED <<row, worker>>

\* The set-up raises: the except block publishes, and the finally block fails on a name
\* that is not bound yet. The row stays as it is.
SetupFails ==
    /\ worker = "running" /\ nextSeq = 1
    /\ Emit("failed")
    /\ worker' = "gone"
    /\ UNCHANGED row

\* A node ends and its snapshot is published.
NodeEnds ==
    /\ worker = "running" /\ nextSeq \in 2 .. MaxNodes + 1
    /\ Emit("running")
    /\ UNCHANGED <<row, worker>>

\* A node ends and the poll of the row finds it cancelled: its snapshot is dropped.
PollsCancellation ==
    /\ worker = "running" /\ nextSeq > 1 /\ toStore = 0
    /\ row = "cancelled"
    /\ worker' = "stopping"
    /\ UNCHANGED <<row, nextSeq, said, toStore, buffer, viewerVars, excused, faultVars>>

\* The last event. A run whose cancellation was polled ends in the except block,
\* because EvaluationEventV1 accepts no status "cancelled".
LastEvent(result) == IF result = "completed" THEN "completed" ELSE "failed"

RunEnds ==
    /\ nextSeq > 1
    /\ \E result \in Final :
          /\ worker = (IF result = "cancelled" THEN "stopping" ELSE "running")
          /\ worker' = result
          /\ Emit(LastEvent(result))
    /\ UNCHANGED row

\* The terminal update comes after the event; a settled or deleted row refuses it.
RowSettles ==
    /\ worker \in Final /\ toStore = 0
    /\ worker' = "gone"
    /\ row' = IF row \in {"running", "cancelled"} THEN worker ELSE row
    /\ UNCHANGED <<nextSeq, said, toStore, buffer, viewerVars, excused, faultVars>>

\* Writers of the row that are not the worker: the cancel endpoint and the handler of a
\* failed enqueue write over whatever the row has become since they read or inserted it;
\* sweep_zombie_runs gives up on a running row, whose worker may go on; the row is deleted.
UserCancels == row # "deleted" /\ row' = "cancelled"
EnqueueFails == row # "deleted" /\ row' = "failed"
RowSwept == row = "running" /\ row' = "failed"
RowDeleted == row # "deleted" /\ row' = "deleted"

RowWritten ==
    /\ UserCancels \/ EnqueueFails \/ RowSwept \/ RowDeleted
    /\ UNCHANGED <<worker, nextSeq, said, toStore, buffer, viewerVars, excused, faultVars>>

-----------------------------------------------------------------------------
(* Server                                                                  *)

\* POST stream-ticket, stored in Redis for 30 seconds. An attempt that fails leaves
\* the viewer waiting for its next one.
GetTicket ==
    /\ conn = "waiting" /\ row # "deleted"
    /\ conn' = "ticketed"
    /\ UNCHANGED <<workerVars, wire, log, lastSeq, page, excused, faultVars>>

TicketExpires ==
    /\ conn = "ticketed"
    /\ conn' = "expired"
    /\ UNCHANGED <<workerVars, wire, log, lastSeq, page, excused, faultVars>>

\* GET stream: the ticket is looked up and consumed. Without it the answer is 401,
\* which onerror treats like a dropped connection, and so is a Redis error.
Connect ==
    /\ conn \in {"ticketed", "expired"}
    /\ \/ conn = "ticketed" /\ conn' = "connected" /\ UNCHANGED redisFaults
       \/ conn = "expired" /\ conn' = "waiting" /\ UNCHANGED redisFaults
       \/ conn = "ticketed" /\ RedisFault /\ conn' = "waiting"
    /\ UNCHANGED <<workerVars, wire, log, lastSeq, page, excused, disconnects>>

\* get_replay_events: seq_num > last_seq; nothing at all when last_seq is 0.
NewerOrSame(n) == n >= lastSeq  \* mutant: >= for >
AfterNext(n) == n > lastSeq + 1  \* mutant: off by one
Missed(n) == n > lastSeq
Newer == {i \in DOMAIN buffer : Missed(buffer[i])}

Replay ==
    /\ conn = "connected"
    /\ conn' = "replayed"
    /\ \/ /\ wire' = IF lastSeq > 0 THEN Pick(buffer, Newer) ELSE <<>>
          /\ excused' = excused \cup ({toStore} \ {0})
          /\ UNCHANGED redisFaults
       \/ /\ RedisFault
          /\ wire' = <<>>
          /\ excused' = excused \cup {n \in Seqs : n < nextSeq}
    /\ UNCHANGED <<workerVars, log, lastSeq, page, disconnects>>

Subscribe ==
    /\ conn = "replayed"
    /\ conn' = "subscribed"
    /\ UNCHANGED <<workerVars, wire, log, lastSeq, page, excused, faultVars>>

\* What is on the wire is lost; onerror closes the source and sets a timer.
Disconnect ==
    /\ conn \in {"connected", "replayed", "subscribed"}
    /\ disconnects < MaxDisconnects
    /\ disconnects' = disconnects + 1
    /\ conn' = "waiting"
    /\ wire' = <<>>
    /\ UNCHANGED <<workerVars, log, lastSeq, page, excused, redisFaults>>

-----------------------------------------------------------------------------
(* Viewer                                                                  *)

\* onmessage; a terminal event closes the source.
Receive ==
    /\ wire # <<>>
    /\ LET n == Head(wire) IN
          /\ log' = Append(log, n)
          /\ lastSeq' = IF n > lastSeq THEN n ELSE lastSeq
          /\ IF said[n] \in {"completed", "failed"}
             THEN conn' = "ended" /\ wire' = <<>>
             ELSE wire' = Tail(wire) /\ UNCHANGED conn
    /\ UNCHANGED <<workerVars, page, excused, faultVars>>

\* refetchInterval, while the page shows an active run. Another active status
\* runs the effect again: a new connection; a final one closes the stream, and so does
\* the 404 of a deleted run, for which the page shows an error instead.
PollsNever == {}  \* mutant: no fallback to REST
PollsWhile == Active

PollStatus ==
    /\ page \in PollsWhile
    /\ page # row
    /\ page' = row
    /\ conn' = IF row \in Active THEN "waiting" ELSE "closed"
    /\ wire' = <<>>
    /\ UNCHANGED <<workerVars, log, lastSeq, excused, faultVars>>

-----------------------------------------------------------------------------

Next ==
    \/ ClaimRun \/ StartRun \/ SetupFails \/ NodeEnds \/ PollsCancellation \/ RunEnds \/ RowSettles
    \/ RowWritten
    \/ Store \/ ReplayListExpires
    \/ GetTicket \/ TicketExpires \/ Connect \/ Replay \/ Subscribe \/ Disconnect
    \/ Receive \/ PollStatus

Spec == Init /\ [][Next]_vars

\* The browser's timers fire.
FairSpec == Spec /\ WF_vars(PollStatus)

-----------------------------------------------------------------------------
(* Properties                                                              *)

\* Every variable stays in its type.
TypeOK ==
    /\ row \in Active \cup Gone /\ page \in Active \cup Gone
    /\ worker \in Working \cup Final \cup {"gone"}
    /\ nextSeq \in 1 .. MaxSeq + 1
    /\ said \in [Seqs -> {"unsent", "running", "completed", "failed"}]
    /\ toStore \in 0 .. MaxSeq
    /\ buffer \in Seq(Seqs) /\ wire \in Seq(Seqs) /\ log \in Seq(Seqs)
    /\ conn \in {"waiting", "ticketed", "expired", "connected", "replayed", "subscribed", "ended", "closed"}
    /\ lastSeq \in 0 .. MaxSeq
    /\ excused \subseteq Seqs
    /\ disconnects \in 0 .. MaxDisconnects
    /\ redisFaults \in 0 .. MaxRedisFaults

Increasing(s) == \A i, j \in 1 .. Len(s) : i < j => s[i] < s[j]

\* The stream implements StreamContract: over any number of reconnections with
\* replay the page shows no event twice, none out of order and none that was not
\* sent (LogViewer.tsx appends what it gets), and nothing follows the last event.
Contract == INSTANCE StreamContract WITH
    sent <- [n \in 1 .. nextSeq - 1 |-> said[n]], shown <- log,
    Announced <- {"completed", "failed"}, Lost <- "unsent"

StreamKept == Contract!Spec

\* Events the viewer should have between its first and its newest one.
Gap == {n \in Seqs : log # <<>> /\ log[1] < n /\ n < lastSeq /\ n \notin ToSet(log)}

\* Reconnecting fills every gap, except for events that Redis lost, that fell off
\* the bounded list, or that were published around the replay: none is lost by a
\* dropped connection alone. (A real run publishes about seven events, which a list of
\* 200 never drops; with a list of two the bound is met.)
OnlyExcusedGaps == Gap \subseteq excused

\* Once the run has ended or is deleted the page shows it, even if the last event never
\* arrived (LogViewer.tsx: "fallback to REST") or none was sent, and however often late
\* writers change the final status.
ViewerLearnsEnd == (row \in Gone) ~> (page \in Gone)

=============================================================================
