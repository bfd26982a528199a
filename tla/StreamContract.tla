--------------------------- MODULE StreamContract ---------------------------
(***************************************************************************)
(* What the viewer of a run may rely on, with nothing said of Redis, of    *)
(* tickets, of replay lists or of connections: the run's events are        *)
(* numbered in the order they are sent, the one that announces the end is  *)
(* the last, and the page shows events that were sent, each at most once   *)
(* and in their order. It may show none, and it may miss any.              *)
(***************************************************************************)
EXTENDS Naturals, Sequences, SequencesExt

CONSTANTS
    Announced,  \* statuses of events that announce the end
    Lost        \* status of an event that reached nobody

VARIABLES
    sent,   \* sent[n]: the status event n carries
    shown   \* numbers of the events on the page, in their order

streamVars == <<sent, shown>>

Ended == \E n \in DOMAIN sent : sent[n] \in Announced

Init == sent = <<>> /\ shown = <<>>

Send ==
    /\ ~ Ended
    /\ \E status \in Announced \cup {"running", Lost} : sent' = Append(sent, status)
    /\ UNCHANGED shown

Show ==
    /\ \E n \in DOMAIN sent :
          /\ sent[n] # Lost
          /\ shown # <<>> => Last(shown) < n
          /\ shown' = Append(shown, n)
    /\ UNCHANGED sent

Next == Send \/ Show

Spec == Init /\ [][Next]_streamVars

=============================================================================
