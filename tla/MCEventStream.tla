---------------------------- MODULE MCEventStream ----------------------------
(* Small instances of EventStream for TLC: the constants are numbers.       *)
EXTENDS EventStream

\* The comprehension by positions is the one by recursion.
ASSUME PickIsSelectSeq ==
    \A s \in SeqOf(0 .. 3, 5), kept \in SUBSET (0 .. 3) :
        Pick(s, {i \in DOMAIN s : s[i] \in kept}) = SelectSeq(s, LAMBDA x : x \in kept)
=============================================================================
