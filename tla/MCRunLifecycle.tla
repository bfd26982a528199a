--------------------------- MODULE MCRunLifecycle ---------------------------
(* Small instances of RunLifecycle for TLC.                                *)
EXTENDS RunLifecycle, TLC

CONSTANTS r1, r2, w1, w2, t1

OneTenant == [r \in Runs |-> t1]

\* Runs of one tenant are interchangeable, and so are workers.
RunWorkerSymmetry == Permutations(Runs) \cup Permutations(Workers)

=============================================================================
